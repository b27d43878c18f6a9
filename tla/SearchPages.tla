----------------------------- MODULE SearchPages -----------------------------
(***************************************************************************)
(* The pages of the browser that search the server as the user types: the  *)
(* list of medias, the epg, the xmltv and the site packs.  What is typed   *)
(* or turned reaches the server through two timers, the debounce of the    *)
(* component and the one of its data source, and each request writes the   *)
(* query into the local storage, from which the next visit restores it.    *)
(*                                                                         *)
(* The media page has no second timer and asks through switchMap, which    *)
(* drops the answer of the request before.  The other three subscribe to   *)
(* each request on its own and show the answers as they come.  Leaving a   *)
(* page ends the subscription of the component, never the timer of the     *)
(* data source, which asks and stores for a page that is gone.             *)
(*                                                                         *)
(* A query is the text of the filter and the index of the page: the size   *)
(* of a page and the sort are left out, and so is the reload of the site   *)
(* packs, which builds a second data source beside the first.              *)
(***************************************************************************)
EXTENDS Naturals, Sequences, SequencesExt

CONSTANTS
    Pages,      \* the pages of the router
    KeyOf,      \* the key of the local storage each page uses
    Switching,  \* the page that asks through switchMap
    Restoring,  \* those that restore the text into the data source too
    Texts,      \* what the filter may hold
    Empty,      \* the empty text
    MaxIndex,   \* bound: the last page of a result
    MaxFlight,  \* bound: requests without an answer
    MaxLate,    \* bound: timers of pages that were left
    None        \* no page, no query

Query == [text : Texts, index : 0 .. MaxIndex]

Keys == {KeyOf[p] : p \in Pages}

ASSUME SearchAssumption ==
    /\ DOMAIN KeyOf = Pages
    /\ Switching \subseteq Pages
    /\ Restoring \subseteq Pages \ Switching
    /\ Empty \in Texts
    /\ MaxIndex \in Nat
    /\ MaxFlight \in Nat
    /\ MaxLate \in Nat
    /\ None \notin Pages \cup Query

VARIABLES
    stored,  \* the local storage
    page,    \* the page that is open
    typed,   \* the text in the box of the filter
    index,   \* paginator.pageIndex
    filter,  \* dataSource.filter
    typing,  \* what the debounce of the component holds: a key, a page event
    asking,  \* whether the debounce of the data source is running
    flight,  \* the queries that have no answer yet, oldest first
    shown,   \* the query whose answer is in the table
    alive,   \* whether the stream of the table has not ended
    late     \* what data sources of pages that were left will ask

box == <<typed, index, filter, typing>>
table == <<flight, shown, alive>>
vars == <<stored, page, box, asking, table, late>>

Init ==
    /\ stored = [k \in Keys |-> None]
    /\ page = None
    /\ typed = Empty
    /\ index = 0
    /\ filter = Empty
    /\ typing = "off"
    /\ asking = FALSE
    /\ flight = <<>>
    /\ shown = None
    /\ alive = TRUE
    /\ late = <<>>

------------------------------------------------------------------------------
(* Requests *)

\* Mutant of Sent: mergeMap for switchMap.
SentAll(p, q) == Append(flight, q)

\* The requests in flight after one more: switchMap unsubscribes from the last.
Sent(p, q) == IF p \in Switching THEN <<q>> ELSE Append(flight, q)

\* getData of the page: the query is stored as it is sent.
Get(p, q) ==
    /\ flight' = Sent(p, q)
    /\ stored' = [stored EXCEPT ![KeyOf[p]] = q]

\* What a stream that has ended does not do.
GetIfAlive(p, q) ==
    IF alive THEN Get(p, q) ELSE UNCHANGED <<flight, stored>>

\* The timers of data sources left behind were started before this page's.
Ask ==
    /\ asking
    /\ late = <<>>
    /\ Len(flight) < MaxFlight
    /\ Get(page, [text |-> filter, index |-> index])
    /\ asking' = FALSE
    /\ UNCHANGED <<page, box, shown, alive, late>>

LateAsk ==
    /\ late # <<>>
    /\ stored' = [stored EXCEPT ![Head(late).key] = Head(late).query]
    /\ late' = Tail(late)
    /\ UNCHANGED <<page, box, asking, table>>

Answer(i) ==
    /\ shown' = flight[i]
    /\ flight' = RemoveAt(flight, i)
    /\ UNCHANGED <<stored, page, box, asking, alive, late>>

\* catchError follows the switchMap of the table: the empty list is its last.
Fail(i) ==
    /\ flight' = RemoveAt(flight, i)
    /\ IF page \in Switching
       THEN /\ shown' = None
            /\ alive' = FALSE
       ELSE UNCHANGED <<shown, alive>>
    /\ UNCHANGED <<stored, page, box, asking, late>>

------------------------------------------------------------------------------
(* The user *)

\* Mutant of FilterOf: the text is restored into the box alone.
FilterNowhere(p, q) == Empty

\* What the filter of a new data source is: {} but where the text is restored.
FilterOf(p, q) == IF p \in Restoring /\ q # None THEN q.text ELSE Empty

\* ngOnInit and the first connection of the table.
Open(p) ==
    /\ page = None
    /\ page' = p
    /\ LET q == stored[KeyOf[p]]
       IN  /\ typed' = IF q = None THEN Empty ELSE q.text
           /\ index' = IF q = None THEN 0 ELSE q.index
           /\ filter' = FilterOf(p, q)
           /\ IF p \in Switching
              THEN Get(p, [text |-> FilterOf(p, q), index |-> IF q = None THEN 0 ELSE q.index])
              ELSE UNCHANGED <<flight, stored>>
    /\ asking' = (p \notin Switching)
    /\ alive' = TRUE
    /\ UNCHANGED <<typing, shown, late>>

\* A key in the box: the debounce forgets what it held.
Type(t) ==
    /\ page # None
    /\ typed' = t
    /\ typing' = "key"
    /\ UNCHANGED <<stored, page, index, filter, asking, table, late>>

\* The paginator has its new index at once; the switching page asks at once too.
Turn(i) ==
    /\ page # None
    /\ index' = i
    /\ IF page \in Switching
       THEN /\ GetIfAlive(page, [text |-> filter, index |-> i])
            /\ UNCHANGED typing
       ELSE /\ typing' = "page"
            /\ UNCHANGED <<flight, stored>>
    /\ UNCHANGED <<page, typed, filter, asking, shown, alive, late>>

\* Mutant of TableEvent: the data source is given the text and no new paginator.
TableEventUnasked ==
    /\ typing # "off"
    /\ typing' = "off"
    /\ filter' = typed
    /\ index' = IF typing = "key" THEN 0 ELSE index
    /\ IF page \in Switching
       THEN GetIfAlive(page, [text |-> typed, index |-> index'])
       ELSE UNCHANGED <<flight, stored>>
    /\ UNCHANGED <<page, typed, asking, shown, alive, late>>

\* The debounce of the component.
TableEvent ==
    /\ typing # "off"
    /\ typing' = "off"
    /\ filter' = typed
    /\ index' = IF typing = "key" THEN 0 ELSE index
    /\ IF page \in Switching
       THEN /\ GetIfAlive(page, [text |-> typed, index |-> index'])
            /\ UNCHANGED asking
       ELSE /\ asking' = TRUE
            /\ UNCHANGED <<flight, stored>>
    /\ UNCHANGED <<page, typed, shown, alive, late>>

\* The answer of a delete of a site pack asks without a timer.
Refresh ==
    /\ page \in Restoring
    /\ Len(flight) < MaxFlight
    /\ Get(page, [text |-> filter, index |-> index])
    /\ UNCHANGED <<page, box, asking, shown, alive, late>>

\* The router destroys the component and its table.
Leave ==
    /\ page # None
    /\ IF asking
       THEN /\ Len(late) < MaxLate
            /\ late' = Append(late, [key |-> KeyOf[page],
                                     query |-> [text |-> filter, index |-> index]])
       ELSE UNCHANGED late
    /\ page' = None
    /\ typing' = "off"
    /\ asking' = FALSE
    /\ flight' = <<>>
    /\ shown' = None
    /\ UNCHANGED <<stored, typed, index, filter, alive>>

\* The browser is closed or the application loaded again.
Restart ==
    /\ page' = None
    /\ typing' = "off"
    /\ asking' = FALSE
    /\ flight' = <<>>
    /\ shown' = None
    /\ late' = <<>>
    /\ UNCHANGED <<stored, typed, index, filter, alive>>

------------------------------------------------------------------------------

Answers == \E i \in DOMAIN flight : Answer(i) \/ Fail(i)

Timers == Ask \/ LateAsk \/ TableEvent

User ==
    \/ \E p \in Pages : Open(p)
    \/ \E t \in Texts : Type(t)
    \/ \E i \in 0 .. MaxIndex : Turn(i)
    \/ Refresh
    \/ Leave
    \/ Restart

Next == Answers \/ Timers \/ User

Spec == Init /\ [][Next]_vars

\* Timers expire, and a request has an answer or an error.
FairSpec ==
    /\ Spec
    /\ WF_vars(Ask)
    /\ WF_vars(LateAsk)
    /\ WF_vars(TableEvent)
    /\ WF_vars(Answers)

------------------------------------------------------------------------------

SearchTypeOK ==
    /\ stored \in [Keys -> Query \cup {None}]
    /\ page \in Pages \cup {None}
    /\ typed \in Texts
    /\ index \in 0 .. MaxIndex
    /\ filter \in Texts
    /\ typing \in {"off", "key", "page"}
    /\ asking \in BOOLEAN
    /\ flight \in Seq(Query)
    /\ shown \in Query \cup {None}
    /\ alive \in BOOLEAN
    /\ late \in Seq([key : Keys, query : Query])

Current == [text |-> filter, index |-> index]

\* The table of the media page never rests on the answer to an older query than the
\* one its filter and paginator show, however the answers were delayed: when no
\* request is out, what is in the table is the answer to the current query.
SettledShowsCurrent ==
    page \in Switching /\ alive /\ flight = <<>> => shown = Current

\* While the media page is open no answer overtakes another into its table: what is
\* put there is the answer to the query that its filter and paginator show at that
\* moment, or the empty list of an error, however long the answers were under way.
ShowsCurrentOnly ==
    [][(page \in Switching /\ shown' # shown) => shown' \in {None, Current}]_vars

\* What the next visit restores: once its timers have run out, the site pack page has
\* stored the text of its box and the index of its paginator, whatever a page that was
\* left before them has stored meanwhile.
StoredIsOnScreen ==
    page \in Restoring /\ typing = "off" /\ ~asking
        => stored[KeyOf[page]] = [text |-> typed, index |-> index]

OneRequest ==
    page \in Switching /\ alive => \/ flight = <<>>
                                   \/ flight = <<Current>>

\* A stream that an error has ended shows the empty list and waits for nothing.
DeadIsQuiet == page \in Switching /\ ~alive => flight = <<>> /\ shown = None

LeftBehind == page # None /\ page \notin Switching /\ late # <<>> => asking

FilterIsTyped == page \in Restoring /\ typing = "off" => filter = typed

TimersOfPage ==
    /\ asking => page \in Pages \ Switching
    /\ typing # "off" => page \in Pages

SearchInv ==
    /\ SearchTypeOK
    /\ SettledShowsCurrent
    /\ StoredIsOnScreen
    /\ OneRequest
    /\ DeadIsQuiet
    /\ LeftBehind
    /\ FilterIsTyped
    /\ TimersOfPage

\* When the user has come to rest on a page, no request stays out, no timer holds what
\* was typed back, and what is asked for is what the page shows it asks for: the text
\* of the box (but where a visit has restored the box alone), and on the media page
\* the table shows it, unless an error has ended its stream.
Settles ==
    <>[][~User]_vars =>
        <>[](page # None =>
              /\ typing = "off" /\ ~asking /\ flight = <<>>
              /\ page \in Restoring => stored[KeyOf[page]] = [text |-> typed, index |-> index]
              /\ page \in Switching /\ alive => shown = Current)

=============================================================================
