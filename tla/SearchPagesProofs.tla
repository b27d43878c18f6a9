-------------------------- MODULE SearchPagesProofs --------------------------
(***************************************************************************)
(* The invariant of SearchPages and the safety properties that follow from *)
(* it, for any pages, texts and bounds.  On the page that switches there is at *)
(* most one request, and it is for the current query; on a page that       *)
(* restores, the timers left behind run out before its own, so that its    *)
(* own query is the last one stored.                                       *)
(***************************************************************************)
EXTENDS SearchPages, ListLemmas

\* What is on the screen is a query.
LEMMA QueryType ==
    ASSUME SearchTypeOK, NEW t \in Texts, NEW i \in 0 .. MaxIndex
    PROVE  [text |-> t, index |-> i] \in Query
BY DEF Query

LEMMA KeyOfPage == \A p \in Pages : KeyOf[p] \in Keys
BY DEF Keys

\* A request of a page keeps the types of what it writes.
LEMMA GetType ==
    ASSUME SearchTypeOK, NEW p \in Pages, NEW q \in Query, Get(p, q)
    PROVE  /\ flight' \in Seq(Query)
           /\ stored' \in [Keys -> Query \cup {None}]
<1>1. <<q>> \in Seq(Query) /\ Append(flight, q) \in Seq(Query)
  BY AppendProperties DEF SearchTypeOK
<1>2. flight' \in Seq(Query)
  BY <1>1 DEF Get, Sent
<1>3. stored' \in [Keys -> Query \cup {None}]
  BY KeyOfPage DEF Get, SearchTypeOK
<1> QED
  BY <1>2, <1>3

\* A request that is answered or fails is out of the flight, and the only one leaves none.
LEMMA RemovedType ==
    ASSUME SearchTypeOK, NEW i \in DOMAIN flight
    PROVE  /\ RemoveAt(flight, i) \in Seq(Query)
           /\ flight[i] \in Query
BY RemoveAtSeq, ElementOfSeq, LenProperties DEF SearchTypeOK

LEMMA OnlyRemoved ==
    ASSUME NEW q \in Query
    PROVE  \A i \in DOMAIN <<q>> : <<q>>[i] = q /\ RemoveAt(<<q>>, i) = <<>>
<1>1. Len(<<q>>) = 1 /\ DOMAIN <<q>> = {1} /\ <<q>>[1] = q
  OBVIOUS
<1>2. SubSeq(<<q>>, 1, 1 - 1) = <<>> /\ SubSeq(<<q>>, 1 + 1, 1) = <<>>
  BY SubSeqEmpty
<1>3. <<>> \o <<>> = <<>>
  BY EmptySeq, ConcatEmptySeq
<1>4. RemoveAt(<<q>>, 1) = <<>>
  BY <1>1, <1>2, <1>3 DEF RemoveAt
<1> QED
  BY <1>1, <1>4

LEMMA InitInv == Init => SearchInv
<1> SUFFICES ASSUME Init PROVE SearchInv
  OBVIOUS
<1>1. /\ flight \in Seq(Query)
      /\ late \in Seq([key : Keys, query : Query])
  BY EmptySeq DEF Init
<1>2. 0 \in 0 .. MaxIndex
  BY SearchAssumption
<1>3. SearchTypeOK
  BY <1>1, <1>2, SearchAssumption DEF Init, SearchTypeOK
<1>4. page \notin Pages
  BY SearchAssumption DEF Init
<1> QED
  BY <1>3, <1>4, SearchAssumption
     DEF Init, SearchInv, SettledShowsCurrent, StoredIsOnScreen, OneRequest, DeadIsQuiet, LeftBehind,
         FilterIsTyped, TimersOfPage

------------------------------------------------------------------------------
(* Requests and their answers *)

\* The data source of a plain page asks: the timers left behind have run out.
LEMMA AskInv == SearchInv /\ Ask => SearchInv'
<1> SUFFICES ASSUME SearchInv, Ask PROVE SearchInv'
  OBVIOUS
<1> DEFINE q == [text |-> filter, index |-> index]
<1>1. SearchTypeOK /\ q \in Query
  BY QueryType DEF SearchInv, SearchTypeOK
<1>2. page \in Pages \ Switching
  BY DEF Ask, SearchInv, TimersOfPage
<1>3. Get(page, q) /\ asking' = FALSE /\ late = <<>>
  BY DEF Ask
<1>4. UNCHANGED <<page, typed, index, filter, typing, shown, alive, late>>
  BY DEF Ask, box
<1>5. SearchTypeOK'
  <2>1. /\ flight' \in Seq(Query)
        /\ stored' \in [Keys -> Query \cup {None}]
    <3> HIDE DEF q
    <3> QED
      BY <1>1, <1>2, <1>3, GetType
  <2> QED
    BY <1>1, <1>3, <1>4, <2>1 DEF SearchTypeOK
<1>6. StoredIsOnScreen'
  <2>1. stored'[KeyOf[page]] = q
    BY <1>1, <1>2, <1>3, KeyOfPage DEF Get, SearchTypeOK
  <2> QED
    BY <2>1, <1>4 DEF SearchInv, FilterIsTyped, StoredIsOnScreen
<1> QED
  BY <1>2, <1>3, <1>4, <1>5, <1>6
     DEF SearchInv, SettledShowsCurrent, OneRequest, DeadIsQuiet, LeftBehind, FilterIsTyped, TimersOfPage

\* What a page that was left asks and stores is for a page that is not open, or is before
\* the first request of the one that is.
LEMMA LateAskInv == SearchInv /\ LateAsk => SearchInv'
<1> SUFFICES ASSUME SearchInv, LateAsk PROVE SearchInv'
  OBVIOUS
<1> DEFINE Late == [key : Keys, query : Query]
<1>1. UNCHANGED <<page, typed, index, filter, typing, asking, flight, shown, alive>>
  BY DEF LateAsk, box, table
<1>2. late \in Seq(Late) /\ late # <<>>
  BY DEF LateAsk, SearchInv, SearchTypeOK
<1>3. Head(late) \in Late /\ Tail(late) \in Seq(Late)
  <2> HIDE DEF Late
  <2> QED
    BY <1>2, HeadTailProperties
<1>4. Head(late).key \in Keys /\ Head(late).query \in Query
  BY <1>3
<1>5. SearchTypeOK'
  BY <1>1, <1>3, <1>4 DEF LateAsk, SearchInv, SearchTypeOK
<1>6. page \notin Restoring \/ asking
  BY <1>2, SearchAssumption DEF SearchInv, LeftBehind
<1> QED
  BY <1>1, <1>2, <1>5, <1>6
     DEF SearchInv, SettledShowsCurrent, StoredIsOnScreen, OneRequest, DeadIsQuiet, LeftBehind,
         FilterIsTyped, TimersOfPage, Current

LEMMA AnswerInv ==
    ASSUME SearchInv, NEW i \in DOMAIN flight, Answer(i)
    PROVE  SearchInv'
<1>1. UNCHANGED <<stored, page, typed, index, filter, typing, asking, alive, late>>
  BY DEF Answer, box
<1>2. SearchTypeOK'
  BY <1>1, RemovedType DEF Answer, SearchInv, SearchTypeOK
<1>3. page \in Switching /\ alive => flight' = <<>> /\ shown' = Current
  <2> SUFFICES ASSUME page \in Switching, alive PROVE flight' = <<>> /\ shown' = Current
    OBVIOUS
  <2>1. flight = <<Current>>
    BY DEF SearchInv, OneRequest
  <2>2. Current \in Query
    BY QueryType DEF Current, SearchInv, SearchTypeOK
  <2> QED
    BY <2>1, <2>2, OnlyRemoved DEF Answer
<1> QED
  BY <1>1, <1>2, <1>3
     DEF SearchInv, SettledShowsCurrent, StoredIsOnScreen, OneRequest, DeadIsQuiet, LeftBehind,
         FilterIsTyped, TimersOfPage, Current

LEMMA FailInv ==
    ASSUME SearchInv, NEW i \in DOMAIN flight, Fail(i)
    PROVE  SearchInv'
<1>1. UNCHANGED <<stored, page, typed, index, filter, typing, asking, late>>
  BY DEF Fail, box
<1>2. SearchTypeOK'
  BY <1>1, RemovedType DEF Fail, SearchInv, SearchTypeOK
<1>3. page \in Switching => alive' = FALSE /\ shown' = None /\ flight' = <<>>
  <2> SUFFICES ASSUME page \in Switching PROVE flight' = <<>>
    BY DEF Fail
  <2>1. alive
    BY DEF SearchInv, DeadIsQuiet
  <2>2. flight = <<Current>>
    BY <2>1 DEF SearchInv, OneRequest
  <2>3. Current \in Query
    BY QueryType DEF Current, SearchInv, SearchTypeOK
  <2> QED
    BY <2>2, <2>3, OnlyRemoved DEF Fail
<1> QED
  BY <1>1, <1>2, <1>3
     DEF SearchInv, SettledShowsCurrent, StoredIsOnScreen, OneRequest, DeadIsQuiet, LeftBehind,
         FilterIsTyped, TimersOfPage

------------------------------------------------------------------------------
(* The user *)

LEMMA OpenInv ==
    ASSUME SearchInv, NEW p \in Pages, Open(p)
    PROVE  SearchInv'
<1> DEFINE q == stored[KeyOf[p]]
           f == FilterOf(p, q)
           i == IF q = None THEN 0 ELSE q.index
<1>1. q \in Query \cup {None}
  BY KeyOfPage DEF SearchInv, SearchTypeOK
<1>2. f \in Texts /\ i \in 0 .. MaxIndex /\ (q # None => q.text \in Texts)
  BY <1>1, SearchAssumption DEF FilterOf, Query
<1>3. /\ page' = p
      /\ typed' = IF q = None THEN Empty ELSE q.text
      /\ index' = i
      /\ filter' = f
      /\ asking' = (p \notin Switching)
      /\ alive' = TRUE
      /\ UNCHANGED <<typing, shown, late>>
      /\ IF p \in Switching THEN Get(p, [text |-> f, index |-> i]) ELSE UNCHANGED <<flight, stored>>
  BY DEF Open
<1>4. [text |-> f, index |-> i] \in Query
  BY <1>2, QueryType DEF SearchInv
<1>5. flight' \in Seq(Query) /\ stored' \in [Keys -> Query \cup {None}]
  BY <1>3, <1>4, GetType DEF SearchInv, SearchTypeOK
<1>6. p \in Switching => flight' = <<Current'>>
  BY <1>3 DEF Get, Sent, Current
<1>7. p \in Restoring => filter' = typed'
  BY <1>3 DEF FilterOf
<1> HIDE DEF q, f, i
<1>8. SearchTypeOK'
  BY <1>2, <1>3, <1>5, SearchAssumption DEF SearchInv, SearchTypeOK
<1>9. <<Current'>> # <<>>
  OBVIOUS
<1> QED
  BY <1>3, <1>6, <1>7, <1>8, <1>9, SearchAssumption
     DEF SearchInv, SettledShowsCurrent, StoredIsOnScreen, OneRequest, DeadIsQuiet, LeftBehind,
         FilterIsTyped, TimersOfPage

LEMMA TypeInv ==
    ASSUME SearchInv, NEW t \in Texts, Type(t)
    PROVE  SearchInv'
<1>1. /\ page # None
      /\ typed' = t
      /\ typing' = "key"
      /\ UNCHANGED <<stored, page, index, filter, asking, flight, shown, alive, late>>
  BY DEF Type, table
<1> QED
  BY <1>1
     DEF SearchInv, SearchTypeOK, SettledShowsCurrent, StoredIsOnScreen, OneRequest, DeadIsQuiet,
         LeftBehind, FilterIsTyped, TimersOfPage, Current

\* A request of the switching page for what is now on the screen.
LEMMA SwitchInv ==
    ASSUME SearchInv, page \in Switching, UNCHANGED <<page, asking, shown, alive, late>>,
           NEW t \in Texts, NEW i \in 0 .. MaxIndex,
           filter' = t, index' = i, GetIfAlive(page, [text |-> t, index |-> i]),
           typed' \in Texts, typing' \in {"off", typing}
    PROVE  SearchInv'
<1>1. page \in Pages /\ page \notin Restoring
  BY SearchAssumption
<1>2. [text |-> t, index |-> i] \in Query
  BY QueryType DEF SearchInv
<1>3. flight' \in Seq(Query) /\ stored' \in [Keys -> Query \cup {None}]
  BY <1>1, <1>2, GetType DEF GetIfAlive, SearchInv, SearchTypeOK
<1>4. SearchTypeOK'
  BY <1>3 DEF SearchInv, SearchTypeOK
<1>5. alive => flight' = <<Current'>>
  BY DEF GetIfAlive, Get, Sent, Current
<1>6. <<Current'>> # <<>>
  OBVIOUS
<1>7. DeadIsQuiet'
  BY DEF GetIfAlive, SearchInv, DeadIsQuiet
<1> QED
  BY <1>1, <1>4, <1>5, <1>6, <1>7
     DEF SearchInv, SettledShowsCurrent, StoredIsOnScreen, OneRequest, LeftBehind,
         FilterIsTyped, TimersOfPage

LEMMA TurnInv ==
    ASSUME SearchInv, NEW i \in 0 .. MaxIndex, Turn(i)
    PROVE  SearchInv'
<1>1. /\ page # None
      /\ index' = i
      /\ UNCHANGED <<page, typed, filter, asking, shown, alive, late>>
  BY DEF Turn
<1>2. CASE page \in Switching
  <2>1. GetIfAlive(page, [text |-> filter, index |-> i]) /\ typing' = typing
    BY <1>2 DEF Turn
  <2> QED
    BY <1>1, <1>2, <2>1, SwitchInv DEF SearchInv, SearchTypeOK
<1>3. CASE page \notin Switching
  <2>1. typing' = "page" /\ UNCHANGED <<flight, stored>>
    BY <1>3 DEF Turn
  <2> QED
    BY <1>1, <1>3, <2>1
       DEF SearchInv, SearchTypeOK, SettledShowsCurrent, StoredIsOnScreen, OneRequest, DeadIsQuiet,
           LeftBehind, FilterIsTyped, TimersOfPage
<1> QED
  BY <1>2, <1>3

LEMMA TableEventInv == SearchInv /\ TableEvent => SearchInv'
<1> SUFFICES ASSUME SearchInv, TableEvent PROVE SearchInv'
  OBVIOUS
<1> DEFINE i == IF typing = "key" THEN 0 ELSE index
<1>1. i \in 0 .. MaxIndex
  BY SearchAssumption DEF SearchInv, SearchTypeOK
<1>2. /\ typing # "off"
      /\ typing' = "off"
      /\ filter' = typed
      /\ index' = i
      /\ UNCHANGED <<page, typed, shown, alive, late>>
  BY DEF TableEvent
<1>3. CASE page \in Switching
  <2>1. GetIfAlive(page, [text |-> typed, index |-> i]) /\ asking' = asking
    BY <1>2, <1>3 DEF TableEvent
  <2> HIDE DEF i
  <2> QED
    BY <1>1, <1>2, <1>3, <2>1, SwitchInv DEF SearchInv, SearchTypeOK
<1>4. CASE page \notin Switching
  <2>1. asking' = TRUE /\ UNCHANGED <<flight, stored>>
    BY <1>4 DEF TableEvent
  <2>2. page \in Pages
    BY <1>2 DEF SearchInv, TimersOfPage
  <2> HIDE DEF i
  <2> QED
    BY <1>1, <1>2, <1>4, <2>1, <2>2
       DEF SearchInv, SearchTypeOK, SettledShowsCurrent, StoredIsOnScreen, OneRequest, DeadIsQuiet,
           LeftBehind, FilterIsTyped, TimersOfPage
<1> QED
  BY <1>3, <1>4

LEMMA RefreshInv == SearchInv /\ Refresh => SearchInv'
<1> SUFFICES ASSUME SearchInv, Refresh PROVE SearchInv'
  OBVIOUS
<1> DEFINE q == [text |-> filter, index |-> index]
<1>1. SearchTypeOK /\ q \in Query
  BY QueryType DEF SearchInv, SearchTypeOK
<1>2. page \in Pages /\ page \notin Switching
  BY SearchAssumption DEF Refresh
<1>3. /\ Get(page, q)
      /\ UNCHANGED <<page, typed, index, filter, typing, asking, shown, alive, late>>
  BY DEF Refresh, box
<1>4. SearchTypeOK'
  BY <1>1, <1>2, <1>3, GetType DEF SearchTypeOK
<1>5. StoredIsOnScreen'
  <2>1. stored'[KeyOf[page]] = q
    BY <1>1, <1>2, <1>3, KeyOfPage DEF Get, SearchTypeOK
  <2> QED
    BY <2>1, <1>3 DEF SearchInv, FilterIsTyped, StoredIsOnScreen
<1> QED
  BY <1>2, <1>3, <1>4, <1>5
     DEF SearchInv, SettledShowsCurrent, OneRequest, DeadIsQuiet, LeftBehind, FilterIsTyped, TimersOfPage

\* Nothing is claimed of no page.
LEMMA CloseInv ==
    ASSUME SearchInv, Leave \/ Restart
    PROVE  SearchInv'
<1> DEFINE Late == [key : Keys, query : Query]
<1>1. /\ page' = None /\ page' \notin Pages
      /\ typing' = "off" /\ asking' = FALSE /\ flight' = <<>> /\ shown' = None
      /\ UNCHANGED <<stored, typed, index, filter, alive>>
  BY SearchAssumption DEF Leave, Restart
<1>2. late' \in Seq(Late)
  <2>1. CASE late' = <<>>
    BY <2>1, EmptySeq
  <2>2. CASE late' = late
    BY <2>2 DEF SearchInv, SearchTypeOK
  <2>3. CASE Leave /\ asking
    <3>1. [text |-> filter, index |-> index] \in Query
      BY QueryType DEF SearchInv, SearchTypeOK
    <3>2. KeyOf[page] \in Keys
      BY <2>3, KeyOfPage DEF SearchInv, TimersOfPage
    <3>3. late' = Append(late, [key |-> KeyOf[page], query |-> [text |-> filter, index |-> index]])
      BY <2>3 DEF Leave
    <3>4. [key |-> KeyOf[page], query |-> [text |-> filter, index |-> index]] \in Late
      BY <3>1, <3>2
    <3>5. late \in Seq(Late)
      BY DEF SearchInv, SearchTypeOK
    <3> HIDE DEF Late
    <3> QED
      BY <3>3, <3>4, <3>5, AppendProperties
  <2> QED
    BY <2>1, <2>2, <2>3 DEF Leave, Restart
<1>3. flight' \in Seq(Query)
  BY <1>1, EmptySeq
<1>4. SearchTypeOK'
  BY <1>1, <1>2, <1>3 DEF SearchInv, SearchTypeOK
<1> QED
  BY <1>1, <1>4, SearchAssumption
     DEF SearchInv, SettledShowsCurrent, StoredIsOnScreen, OneRequest, DeadIsQuiet, LeftBehind,
         FilterIsTyped, TimersOfPage

LEMMA StutterInv == SearchInv /\ UNCHANGED vars => SearchInv'
BY DEF vars, box, table, SearchInv, SearchTypeOK, SettledShowsCurrent, StoredIsOnScreen,
       OneRequest, DeadIsQuiet, LeftBehind, FilterIsTyped, TimersOfPage, Current

------------------------------------------------------------------------------

\* The inductive invariant of the search pages: one request at a time on the page that
\* switches, and timers of pages that were left run out before those of the open one.
THEOREM SearchInvariant == Spec => []SearchInv
<1>1. SearchInv /\ [Next]_vars => SearchInv'
  <2> SUFFICES ASSUME SearchInv, [Next]_vars PROVE SearchInv'
    OBVIOUS
  <2>1. CASE Answers
    BY <2>1, AnswerInv, FailInv DEF Answers
  <2>2. CASE Timers
    BY <2>2, AskInv, LateAskInv, TableEventInv DEF Timers
  <2>3. CASE User
    BY <2>3, OpenInv, TypeInv, TurnInv, RefreshInv, CloseInv DEF User
  <2>4. CASE UNCHANGED vars
    BY <2>4, StutterInv
  <2> QED
    BY <2>1, <2>2, <2>3, <2>4 DEF Next
<1> QED
  BY <1>1, InitInv, PTL DEF Spec

\* When no request of the media page is out, its table shows the answer to the query of
\* its filter and its paginator, unless an error has ended its stream.
THEOREM TableIsCurrent == Spec => []SettledShowsCurrent
<1>1. SearchInv => SettledShowsCurrent
  BY DEF SearchInv
<1> QED
  BY <1>1, SearchInvariant, PTL

\* A page that restores text and index finds, whenever its timers are at rest, in the
\* local storage what is on the screen.
THEOREM NextVisitRestoresIt == Spec => []StoredIsOnScreen
<1>1. SearchInv => StoredIsOnScreen
  BY DEF SearchInv
<1> QED
  BY <1>1, SearchInvariant, PTL

LEMMA ShowsStep ==
    ASSUME SearchInv, [Next]_vars, page \in Switching, shown' # shown
    PROVE  shown' \in {None, Current}
<1>1. ASSUME NEW i \in DOMAIN flight, Answer(i) PROVE shown' = Current
  <2>1. alive
    BY DEF SearchInv, DeadIsQuiet
  <2>2. flight = <<Current>>
    BY <2>1 DEF SearchInv, OneRequest
  <2>3. Current \in Query
    BY QueryType DEF Current, SearchInv, SearchTypeOK
  <2> QED
    BY <1>1, <2>2, <2>3, OnlyRemoved DEF Answer
<1>2. ASSUME NEW i \in DOMAIN flight, Fail(i) PROVE shown' = None
  BY <1>2 DEF Fail
<1>3. CASE Leave \/ Restart
  BY <1>3 DEF Leave, Restart
<1> QED
  BY <1>1, <1>2, <1>3
     DEF Next, Answers, Timers, User, Ask, LateAsk, TableEvent, Open, Type, Turn, Refresh,
         vars, table

\* While the media page is open, what comes into its table is the answer to the query
\* its filter and paginator show at that moment, or the empty list of an error.
THEOREM NoAnswerOvertakes == Spec => ShowsCurrentOnly
<1>1. SearchInv /\ [Next]_vars
        => [(page \in Switching /\ shown' # shown) => shown' \in {None, Current}]_vars
  BY ShowsStep
<1>2. Spec => [][(page \in Switching /\ shown' # shown) => shown' \in {None, Current}]_vars
  BY <1>1, SearchInvariant, PTL DEF Spec
<1> QED
  BY <1>2 DEF ShowsCurrentOnly

=============================================================================
