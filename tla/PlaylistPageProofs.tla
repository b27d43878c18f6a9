------------------------- MODULE PlaylistPageProofs --------------------------
(***************************************************************************)
(* What the playlist page keeps, for any medias, bounds and numbers of     *)
(* requests in flight: the counter of the selection is never too small,    *)
(* only a report parts the two arrays, and an answer replaces the medias   *)
(* it was sent for and no others.                                          *)
(*                                                                         *)
(* The counter is not a function of the rows: most steps change the rows   *)
(* and leave it.  What carries the proof is that every selected media is   *)
(* in the table (SelectionShown), so that its value bounds the size of the *)
(* selection and a step that only shrinks the selection cannot break it,   *)
(* whatever it does to the rows.                                           *)
(***************************************************************************)
EXTENDS PlaylistPage, ListLemmas

------------------------------------------------------------------------------
(* Operators *)

\* findIndex gives the index of a media with the id, or 0.
LEMMA FirstWithFinds ==
    ASSUME NEW array \in Seq(Media), NEW id
    PROVE  \/ FirstWith(array, id) = 0
           \/ /\ FirstWith(array, id) \in DOMAIN array
              /\ array[FirstWith(array, id)].id = id
<1> DEFINE I == {i \in 1 .. Len(array) : array[i].id = id}
<1>1. FirstWith(array, id) = IF I # {} THEN Min(I) ELSE 0
  BY DEF FirstWith, SelectInSeq
<1>2. DOMAIN array = 1 .. Len(array)
  BY LenProperties
<1>3. I # {} => Min(I) \in I
  <2> SUFFICES ASSUME I # {} PROVE Min(I) \in I
    OBVIOUS
  <2>1. I \subseteq Nat \ {0}
    OBVIOUS
  <2> HIDE DEF I
  <2>2. \E x \in I : \A y \in I : x <= y
    BY <2>1, LeastOf
  <2> QED
    BY <2>2 DEF Min
<1> QED
  BY <1>1, <1>2, <1>3

\* It finds one when there is one.
LEMMA FirstWithPresent ==
    ASSUME NEW array \in Seq(Media), NEW m \in Range(array)
    PROVE  FirstWith(array, m.id) \in DOMAIN array
<1> DEFINE I == {i \in 1 .. Len(array) : array[i].id = m.id}
<1>1. FirstWith(array, m.id) = IF I # {} THEN Min(I) ELSE 0
  BY DEF FirstWith, SelectInSeq
<1>2. DOMAIN array = 1 .. Len(array)
  BY LenProperties
<1>3. I # {}
  BY <1>2 DEF Range
<1>4. Min(I) \in I
  <2>1. I \subseteq Nat \ {0}
    OBVIOUS
  <2> HIDE DEF I
  <2>2. \E x \in I : \A y \in I : x <= y
    BY <2>1, <1>3, LeastOf
  <2> QED
    BY <2>2 DEF Min
<1> QED
  BY <1>1, <1>2, <1>3, <1>4

\* What an answer hits are medias with the ids it is for.
LEMMA HitsAreMedias ==
    ASSUME NEW array \in Seq(Media), NEW ids, NEW i \in Hits(ids, array)
    PROVE  i \in DOMAIN array /\ array[i].id \in ids
BY FirstWithFinds DEF Hits

\* The rows that are marked can be counted.
LEMMA CountIsNat ==
    ASSUME NEW array \in Seq(Media), NEW marked
    PROVE  CountIn(array, marked) \in Nat
BY RangeFinite, FS_Intersection, FS_CardinalityType DEF CountIn

\* A smaller selection has no more rows, in any array.
LEMMA CountShrinks ==
    ASSUME NEW array \in Seq(Media), NEW other \in Seq(Media),
           NEW marked \in SUBSET Range(array), NEW fewer \in SUBSET marked
    PROVE  CountIn(other, fewer) <= CountIn(array, marked)
<1>1. Range(array) \cap marked = marked
  OBVIOUS
<1>2. IsFiniteSet(marked)
  BY RangeFinite, FS_Subset
<1>3. Range(other) \cap fewer \in SUBSET marked
  OBVIOUS
<1> QED
  BY <1>1, <1>2, <1>3, FS_Subset DEF CountIn

\* A click changes the flag of medias of the table only.
LEMMA ToggledIsShown ==
    ASSUME NEW array, NEW m \in Range(array), NEW ctrl \in BOOLEAN,
           selected \subseteq Range(array)
    PROVE  Toggled(array, m, ctrl) \subseteq Range(array)
BY DEF Toggled

LEMMA RowsAreMedias ==
    ASSUME NEW array \in Seq(Media)
    PROVE  Range(array) \subseteq Media
BY RangeOfSeq

------------------------------------------------------------------------------
(* The invariant *)

LEMMA InitInv == Init => PageInv
<1> SUFFICES ASSUME Init PROVE PageInv
  OBVIOUS
<1>1. PageTypeOK
  BY PageAssumption DEF Init, PageTypeOK
<1>2. CountIn(data, {}) = 0
  BY FS_EmptySet DEF CountIn
<1>3. CounterCovers
  BY <1>2 DEF Init, CounterCovers
<1> QED
  BY <1>1, <1>3 DEF Init, PageInv, SelectionShown, SharedArray, LoopMovesRows

\* A gesture changes the selection and no array.
LEMMA SelectionInv ==
    ASSUME PageInv, loop = None, UNCHANGED <<arrays, loop, requests>>,
           selected' \subseteq Range(data), counter' \in Nat,
           drag' \in {"up", "selecting", "clearing"},
           CounterCovers'
    PROVE  PageInv'
<1>1. PageTypeOK'
  BY RowsAreMedias DEF PageInv, PageTypeOK, arrays
<1> QED
  BY <1>1 DEF PageInv, SelectionShown, SharedArray, LoopMovesRows, arrays

LEMMA GestureInv == PageInv /\ Gesture => PageInv'
<1> SUFFICES ASSUME PageInv, Gesture PROVE PageInv'
  OBVIOUS
<1>1. data \in Seq(Media) /\ selected \subseteq Range(data) /\ counter \in Nat
      /\ drag \in {"up", "selecting", "clearing"}
  BY DEF PageInv, PageTypeOK, SelectionShown
<1>2. \A s : CountIn(data, s) \in Nat
  BY <1>1, CountIsNat
<1>3. ASSUME NEW page \in SUBSET Range(data), KeyA(page) PROVE PageInv'
  <2>1. CounterCovers'
    BY <1>2, <1>3 DEF KeyA, CounterCovers, arrays
  <2> QED
    BY <1>1, <1>2, <1>3, <2>1, SelectionInv DEF KeyA
<1>4. ASSUME NEW page \in SUBSET Range(data), KeyI(page) PROVE PageInv'
  <2>1. CounterCovers'
    BY <1>2, <1>4 DEF KeyI, CounterCovers, arrays
  <2> QED
    BY <1>1, <1>2, <1>4, <2>1, SelectionInv DEF KeyI
<1>5. ASSUME OnSelectionEnd PROVE PageInv'
  <2>1. CounterCovers'
    BY <1>2, <1>5 DEF OnSelectionEnd, CounterCovers, arrays
  <2> QED
    BY <1>1, <1>2, <1>5, <2>1, SelectionInv DEF OnSelectionEnd
<1>6. ASSUME NEW m \in Range(data), OnSelectionStart(m) PROVE PageInv'
  <2>1. CounterCovers'
    BY <1>6 DEF OnSelectionStart, CounterCovers
  <2> QED
    BY <1>1, <1>6, <2>1, SelectionInv DEF OnSelectionStart
<1>7. ASSUME NEW m \in Range(data), OnSelection(m) PROVE PageInv'
  <2>1. CounterCovers'
    BY <1>7 DEF OnSelection, CounterCovers
  <2> QED
    BY <1>1, <1>7, <2>1, SelectionInv DEF OnSelection
<1>8. ASSUME NEW m \in Range(data), NEW ctrl \in BOOLEAN, ToggleSelected(m, ctrl)
      PROVE  PageInv'
  <2>1. CounterCovers'
    BY <1>2, <1>8 DEF ToggleSelected, CounterCovers, arrays
  <2>2. selected' \subseteq Range(data)
    BY <1>1, <1>8, ToggledIsShown DEF ToggleSelected
  <2> QED
    BY <1>1, <1>2, <1>8, <2>1, <2>2, SelectionInv DEF ToggleSelected
<1> QED
  BY <1>3, <1>4, <1>5, <1>6, <1>7, <1>8 DEF Gesture, SelectAll

\* A rebuild with the selection cut down to its rows, and the counter left.
LEMMA RebuildInv ==
    ASSUME PageInv, NEW saved \in Seq(Media), loop = None, loop' = None,
           Rebuild(saved), selected' \subseteq Range(saved) \cap selected,
           UNCHANGED <<counter, drag>>, requests' \in [Slots -> {None} \cup Request]
    PROVE  PageInv'
<1>1. PageTypeOK'
  BY DEF PageInv, PageTypeOK, Rebuild
<1>2. CounterCovers'
  <2>1. CountIn(data', selected') <= CountIn(data, selected)
    BY CountShrinks DEF PageInv, PageTypeOK, SelectionShown, Rebuild
  <2>2. /\ CountIn(data, selected) \in Nat
        /\ CountIn(data', selected') \in Nat
    BY CountIsNat DEF PageInv, PageTypeOK, Rebuild
  <2> QED
    BY <2>1, <2>2 DEF PageInv, PageTypeOK, CounterCovers
<1> QED
  BY <1>1, <1>2 DEF PageInv, SelectionShown, SharedArray, LoopMovesRows, Rebuild

LEMMA StartMoveInv == PageInv /\ StartMove => PageInv'
<1> SUFFICES ASSUME PageInv, StartMove PROVE PageInv'
  OBVIOUS
<1>1. loop' \in Loop
  BY CountIsNat DEF PageInv, PageTypeOK, StartMove, Loop
<1>2. loop'.order = data
  BY DEF StartMove
<1> QED
  BY <1>1, <1>2 DEF PageInv, PageTypeOK, CounterCovers, SelectionShown, SharedArray,
                    LoopMovesRows, StartMove, arrays, selection

\* The rows of an array are the same when two of its elements are exchanged.
LEMMA SwapKeepsRange ==
    ASSUME NEW S, NEW s \in Seq(S), NEW x \in DOMAIN s, NEW y \in DOMAIN s
    PROVE  /\ [s EXCEPT ![x] = s[y], ![y] = s[x]] \in Seq(S)
           /\ Range([s EXCEPT ![x] = s[y], ![y] = s[x]]) = Range(s)
<1> DEFINE r == [s EXCEPT ![x] = s[y], ![y] = s[x]]
<1>1. r \in Seq(S)
  BY ElementOfSeq, LenProperties, IsASeq
<1>2. DOMAIN r = DOMAIN s
  OBVIOUS
<1>3. r[y] = s[x] /\ (x # y => r[x] = s[y])
  OBVIOUS
<1>4. \A i \in DOMAIN s \ {x, y} : r[i] = s[i]
  OBVIOUS
<1> HIDE DEF r
<1>5. Range(r) \subseteq Range(s)
  BY <1>2, <1>3, <1>4 DEF Range
<1>6. Range(s) \subseteq Range(r)
  BY <1>2, <1>3, <1>4 DEF Range
<1> QED
  BY <1>1, <1>5, <1>6 DEF r

\* Only a media of the loop is moved, and the loop has medias of the table only.
LEMMA SwitchInv == PageInv /\ SwitchPosition => PageInv'
<1> SUFFICES ASSUME PageInv, SwitchPosition PROVE PageInv'
  OBVIOUS
<1> DEFINE m == loop.order[loop.next]
           x == CHOOSE i \in DOMAIN data : data[i] = m
           y == x + loop.by
           swapped == [data EXCEPT ![x] = data[y], ![y] = data[x]]
           onward == [loop EXCEPT !.next = @ + 1]
<1>1. loop \in Loop /\ m \in Range(loop.order) /\ UNCHANGED <<selected, counter, drag, requests>>
  BY DEF SwitchPosition, PageInv, PageTypeOK, Range, selection
<1>2. m \in Range(data)
  BY <1>1 DEF SwitchPosition, PageInv, LoopMovesRows
<1>3. x \in DOMAIN data /\ data[x] = m
  BY <1>2 DEF Range
<1>4. onward \in Loop /\ onward.order = loop.order
  BY <1>1 DEF Loop
<1>5. y \in DOMAIN data => /\ swapped \in Seq(Media)
                           /\ Range(swapped) = Range(data)
  <2> HIDE DEF x, y
  <2> QED
    BY <1>3, SwapKeepsRange DEF PageInv, PageTypeOK
<1>6. /\ data' \in Seq(Media) /\ list' \in Seq(Media) /\ shared' = shared
      /\ Range(data') = Range(data)
      /\ shared => data' = list'
      /\ \/ loop' = None
         \/ loop' = onward
  <2>1. \/ m \notin selected /\ loop' = onward /\ UNCHANGED arrays
        \/ /\ y \in DOMAIN data
           /\ data' = swapped
           /\ list' = IF shared THEN data' ELSE list
           /\ loop' = onward
           /\ shared' = shared
        \/ loop' = None /\ UNCHANGED arrays
    BY DEF SwitchPosition
  <2> HIDE DEF x, y, m, swapped, onward
  <2>2. CASE loop' = onward /\ UNCHANGED arrays
    BY <2>2 DEF PageInv, PageTypeOK, SharedArray, arrays
  <2>3. CASE loop' = None /\ UNCHANGED arrays
    BY <2>3 DEF PageInv, PageTypeOK, SharedArray, arrays
  <2>4. CASE /\ y \in DOMAIN data
             /\ data' = swapped
             /\ list' = IF shared THEN data' ELSE list
             /\ loop' = onward
             /\ shared' = shared
    BY <2>4, <1>5 DEF PageInv, PageTypeOK
  <2> QED
    BY <2>1, <2>2, <2>3, <2>4
<1> HIDE DEF onward, m, x, y, swapped
<1>7. PageTypeOK'
  BY <1>1, <1>4, <1>6 DEF PageInv, PageTypeOK
<1>8. CounterCovers'
  BY <1>1, <1>6 DEF PageInv, CounterCovers, CountIn
<1>9. LoopMovesRows'
  BY <1>4, <1>6, <1>1 DEF PageInv, LoopMovesRows, SwitchPosition
<1> QED
  BY <1>1, <1>6, <1>7, <1>8, <1>9 DEF PageInv, SelectionShown, SharedArray

LEMMA EndMoveInv == PageInv /\ EndMove => PageInv'
BY DEF EndMove, PageInv, PageTypeOK, CounterCovers, SelectionShown, SharedArray,
       LoopMovesRows, arrays, selection

LEMMA DeleteInv ==
    ASSUME PageInv, NEW m \in Range(data), NEW bubbles \in BOOLEAN, NEW ctrl \in BOOLEAN,
           Delete(m, bubbles, ctrl)
    PROVE  PageInv'
<1> DEFINE spliced == RemoveAt(data, FirstWith(data, m.id))
           saved == IF shared THEN spliced ELSE list
<1>1. data \in Seq(Media) /\ list \in Seq(Media)
  BY DEF PageInv, PageTypeOK
<1>2. spliced \in Seq(Media)
  BY <1>1, FirstWithPresent, RemoveAtSeq
<1>3. saved \in Seq(Media)
  BY <1>1, <1>2
<1>4. Rebuild(saved) /\ loop = None /\ UNCHANGED <<drag, loop, requests>>
  BY DEF Delete
<1> HIDE DEF saved
<1>5. CASE ~ bubbles
  <2>1. selected' = selected \cap Range(list') /\ counter' = counter
    BY <1>5 DEF Delete
  <2> QED
    BY <1>3, <1>4, <2>1, RebuildInv DEF Rebuild, PageInv, PageTypeOK
<1>6. CASE bubbles
  <2>1. selected' \subseteq Range(list') /\ counter' = CountIn(list', selected')
    BY <1>6 DEF Delete
  <2>2. list' = saved /\ data' = saved /\ shared' = TRUE
    BY <1>4 DEF Rebuild
  <2>3. counter' \in Nat
    BY <1>3, <2>1, <2>2, CountIsNat
  <2>4. selected' \subseteq Media
    BY <1>3, <2>1, <2>2, RowsAreMedias
  <2> QED
    BY <1>3, <1>4, <2>1, <2>2, <2>3, <2>4
       DEF PageInv, PageTypeOK, CounterCovers, SelectionShown, SharedArray, LoopMovesRows
<1> QED
  BY <1>5, <1>6

LEMMA RebuildsInv == PageInv /\ (DeleteSelected \/ Reload) => PageInv'
<1> SUFFICES ASSUME PageInv, DeleteSelected \/ Reload PROVE PageInv'
  OBVIOUS
<1>1. /\ Rebuild(list) /\ loop = None /\ selected' = selected \cap Range(list)
      /\ UNCHANGED <<counter, drag, loop, requests>>
  BY DEF DeleteSelected, Reload
<1> QED
  BY <1>1, RebuildInv DEF PageInv, PageTypeOK

\* A report changes the saved array, of which the selection knows nothing.
LEMMA AcceptMergeInv ==
    ASSUME PageInv, NEW i \in 0 .. Len(list), NEW ids \in Reported, NEW n \in 0 .. MaxCopy,
           AcceptMerge(i, ids, n)
    PROVE  PageInv'
<1> DEFINE kept == IF i = 0 THEN list ELSE RemoveAt(list, i)
           added == IF ids = {} THEN <<>>
                    ELSE <<[id |-> CHOOSE id \in ids : TRUE, copy |-> n]>>
<1>1. list \in Seq(Media) /\ DOMAIN list = 1 .. Len(list) /\ Len(list) \in Nat
  BY LenProperties DEF PageInv, PageTypeOK
<1>2. kept \in Seq(Media)
  BY <1>1, RemoveAtSeq
<1>3. added \in Seq(Media)
  <2>1. CASE ids = {}
    BY <2>1
  <2>2. CASE ids # {}
    <3>1. (CHOOSE id \in ids : TRUE) \in Ids
      BY <2>2, PageAssumption DEF Reported
    <3> DEFINE fresh == [id |-> CHOOSE id \in ids : TRUE, copy |-> n]
    <3>2. fresh \in Media
      BY <3>1 DEF Media
    <3> HIDE DEF fresh
    <3>3. <<fresh>> \in Seq(Media)
      BY <3>2
    <3> QED
      BY <2>2, <3>3 DEF fresh
  <2> QED
    BY <2>1, <2>2
<1>4. list' = kept \o added
  BY DEF AcceptMerge
<1> HIDE DEF kept, added
<1>5. list' \in Seq(Media)
  BY <1>2, <1>3, <1>4, ConcatProperties
<1>6. shared' = FALSE /\ UNCHANGED <<data, selected, counter, drag, loop, requests>>
  BY DEF AcceptMerge, selection
<1>7. PageTypeOK'
  BY <1>5, <1>6 DEF PageInv, PageTypeOK
<1> QED
  BY <1>6, <1>7 DEF PageInv, CounterCovers, SelectionShown, SharedArray, LoopMovesRows

LEMMA SendInv ==
    ASSUME PageInv, NEW s \in Slots, NEW kind \in Kinds, Send(s, kind)
    PROVE  PageInv'
<1>1. {m.id : m \in Range(data) \cap selected} \subseteq Ids
  BY RowsAreMedias DEF PageInv, PageTypeOK, Media
<1>2. [kind |-> kind, ids |-> {m.id : m \in Range(data) \cap selected}] \in Request
  BY <1>1 DEF Request
<1>3. requests' \in [Slots -> {None} \cup Request]
  BY <1>2 DEF Send, PageInv, PageTypeOK
<1> QED
  BY <1>3 DEF Send, PageInv, PageTypeOK, CounterCovers, SelectionShown, SharedArray,
              LoopMovesRows, arrays, selection

LEMMA AnswerInv ==
    ASSUME PageInv, NEW s \in Slots, NEW n \in 0 .. MaxCopy, Answer(s, n)
    PROVE  PageInv'
<1> DEFINE ids == requests[s].ids
           index == IF requests[s].kind = "data" THEN data ELSE list
           hits == Hits(ids, index)
           saved == Replaced(ids, index, n)
<1>1. index \in Seq(Media) /\ list \in Seq(Media)
  BY DEF PageInv, PageTypeOK
<1>2. DOMAIN saved = DOMAIN list
  BY DEF Replaced
<1>3. \A i \in DOMAIN list : /\ saved[i] \in Media
                             /\ i \notin hits => saved[i] = list[i]
  <2> SUFFICES ASSUME NEW i \in DOMAIN list
               PROVE  saved[i] \in Media /\ (i \notin hits => saved[i] = list[i])
    OBVIOUS
  <2>1. list[i] \in Media
    BY <1>1, ElementOfSeq, LenProperties
  <2>2. CASE i \in hits
    <3> HIDE DEF index, ids
    <3>1. index[i] \in Media
      BY <1>1, <2>2, HitsAreMedias, ElementOfSeq, LenProperties
    <3> QED
      BY <2>2, <3>1 DEF Replaced, Media
  <2>3. CASE i \notin hits
    BY <2>1, <2>3 DEF Replaced
  <2> QED
    BY <2>2, <2>3
<1>4. /\ Rebuild(saved) /\ loop = None /\ UNCHANGED <<counter, drag, loop>>
      /\ selected' = {list[i] : i \in DOMAIN list \ hits} \cap selected
      /\ requests' = [requests EXCEPT ![s] = None]
  BY DEF Answer
<1> HIDE DEF hits, saved
<1>5. saved \in Seq(Media)
  <2>1. DOMAIN saved = 1 .. Len(list) /\ Len(list) \in Nat
    BY <1>1, <1>2, LenProperties
  <2>2. saved = [i \in DOMAIN saved |-> saved[i]]
    BY DEF saved, Replaced
  <2>3. \A i \in DOMAIN saved : saved[i] \in Media
    BY <1>2, <1>3
  <2>4. saved \in [DOMAIN saved -> Media]
    BY <2>2, <2>3, Zenon
  <2> QED
    BY <2>1, <2>4, SeqDef
<1>6. selected' \subseteq Range(saved) \cap selected
  BY <1>2, <1>3, <1>4 DEF Range
<1>7. requests' \in [Slots -> {None} \cup Request]
  BY <1>4 DEF PageInv, PageTypeOK
<1> QED
  BY <1>4, <1>5, <1>6, <1>7, RebuildInv

LEMMA FailInv ==
    ASSUME PageInv, NEW s \in Slots, Fail(s)
    PROVE  PageInv'
<1>1. requests' \in [Slots -> {None} \cup Request]
  BY DEF Fail, PageInv, PageTypeOK
<1> QED
  BY <1>1 DEF Fail, PageInv, PageTypeOK, CounterCovers, SelectionShown, SharedArray,
              LoopMovesRows, arrays, selection

------------------------------------------------------------------------------
(* Theorems *)

\* PageInv: the types, that the counter covers the selection, that the selection is in
\* the table, that the array is one while it is shared, and that a loop of moveUp moves
\* rows of the table, in every state of playlist.component.ts.
THEOREM PageInvariant == Spec => []PageInv
<1>1. PageInv /\ [Next]_vars => PageInv'
  <2> SUFFICES ASSUME PageInv, [Next]_vars PROVE PageInv'
    OBVIOUS
  <2>1. CASE Gesture
    BY <2>1, GestureInv
  <2>2. CASE Change
    BY <2>2, StartMoveInv, SwitchInv, EndMoveInv, DeleteInv, RebuildsInv, AcceptMergeInv
       DEF Change
  <2>3. CASE Bulk
    BY <2>3, SendInv, AnswerInv, FailInv DEF Bulk
  <2>4. CASE UNCHANGED vars
    BY <2>4 DEF vars, arrays, selection, PageInv, PageTypeOK, CounterCovers, SelectionShown,
                SharedArray, LoopMovesRows
  <2> QED
    BY <2>1, <2>2, <2>3, <2>4 DEF Next
<1> QED
  BY <1>1, InitInv, PTL DEF Spec

\* The bar above the table never hides the bulk operations from a user with selected
\* rows: between drags atLeastOneSelected is at least their number.
THEOREM CounterIsEnough == Spec => []CounterCovers
<1>1. PageInv => CounterCovers
  BY DEF PageInv
<1> QED
  BY <1>1, PageInvariant, PTL

\* Every step but an accepted report of the diff dialog leaves the array of the table
\* the one that is saved.
THEOREM ReportsPartArrays == Spec => OnlyReportsPartArrays
<1> DEFINE Together == data = list /\ shared =>
                         \/ data' = list' /\ shared'
                         \/ \E i \in 0 .. Len(list), ids \in Reported, n \in 0 .. MaxCopy :
                               AcceptMerge(i, ids, n)
<1>1. [Next]_vars => [Together]_vars
  <2> SUFFICES ASSUME Next, data = list, shared PROVE Together
    OBVIOUS
  <2>1. CASE Gesture
    BY <2>1 DEF Gesture, KeyA, KeyI, SelectAll, OnSelectionStart, OnSelection,
                OnSelectionEnd, ToggleSelected, arrays
  <2>2. CASE Change
    <3>1. CASE StartMove \/ EndMove
      BY <3>1 DEF StartMove, EndMove, arrays
    <3>2. CASE SwitchPosition
      BY <3>2 DEF SwitchPosition, arrays
    <3>3. CASE DeleteSelected \/ Reload
      BY <3>3 DEF DeleteSelected, Reload, Rebuild
    <3>4. ASSUME NEW m \in Range(data), NEW bubbles \in BOOLEAN, NEW ctrl \in BOOLEAN,
                 Delete(m, bubbles, ctrl)
          PROVE  Together
      BY <3>4 DEF Delete, Rebuild
    <3> QED
      BY <2>2, <3>1, <3>2, <3>3, <3>4 DEF Change
  <2>3. CASE Bulk
    <3>1. ASSUME NEW s \in Slots, NEW kind \in Kinds, Send(s, kind) PROVE Together
      BY <3>1 DEF Send, arrays
    <3>2. ASSUME NEW s \in Slots, NEW n \in 0 .. MaxCopy, Answer(s, n) PROVE Together
      BY <3>2 DEF Answer, Rebuild
    <3>3. ASSUME NEW s \in Slots, Fail(s) PROVE Together
      BY <3>3 DEF Fail, arrays
    <3> QED
      BY <2>3, <3>1, <3>2, <3>3 DEF Bulk
  <2> QED
    BY <2>1, <2>2, <2>3 DEF Next
<1> QED
  BY <1>1, PTL DEF Spec, OnlyReportsPartArrays

\* An answer replaces the medias its request was sent for, each by one of the same id,
\* leaves the others where they are with their selection, and brings nothing back.
THEOREM AnswersReplaceTheirOwn == Spec => AnswersStayOnTarget
<1> DEFINE OnTarget(s) ==
        LET r == requests[s]
        IN  /\ r # None
            /\ requests'[s] = None
            /\ r.kind = "list" \/ shared
            => /\ Len(list') = Len(list)
               /\ \A i \in DOMAIN list :
                     /\ list'[i].id = list[i].id
                     /\ list[i].id \notin r.ids => list'[i] = list[i]
               /\ \A m \in Range(list) \cap selected : m \in selected' \/ m.id \in r.ids
<1>1. ASSUME PageInv, Next, NEW s \in Slots PROVE OnTarget(s)
  <2>1. CASE requests' = requests
    BY <2>1
  <2>2. CASE Gesture \/ Change
    BY <2>1, <2>2 DEF Gesture, KeyA, KeyI, SelectAll, OnSelectionStart, OnSelection,
       OnSelectionEnd, ToggleSelected, Change, StartMove, SwitchPosition, EndMove, Delete,
       DeleteSelected, Reload, AcceptMerge
  <2>3. ASSUME NEW t \in Slots, NEW kind \in Kinds, Send(t, kind) PROVE OnTarget(s)
    <3>1. requests'[s] = None => requests[s] = None
      <4>1. requests' \in [Slots -> {None} \cup Request]
        BY <2>3, <1>1, SendInv DEF PageInv, PageTypeOK
      <4> DEFINE sent == [kind |-> kind, ids |-> {m.id : m \in Range(data) \cap selected}]
      <4>2. requests' = [requests EXCEPT ![t] = sent] /\ requests[t] = None
        BY <2>3 DEF Send
      <4> QED
        BY <1>1, <4>2 DEF PageInv, PageTypeOK
    <3> QED
      BY <3>1
  <2>4. ASSUME NEW t \in Slots, Fail(t) PROVE OnTarget(s)
    <3>1. list' = list /\ selected' = selected
      BY <2>4 DEF Fail, arrays, selection
    <3> QED
      BY <3>1
  <2>5. ASSUME NEW t \in Slots, NEW n \in 0 .. MaxCopy, Answer(t, n) PROVE OnTarget(s)
    <3>1. CASE s # t
      <4>1. requests'[s] = requests[s]
        BY <2>5, <3>1, <1>1 DEF Answer, PageInv, PageTypeOK
      <4> QED
        BY <4>1
    <3>2. CASE s = t
      <4> SUFFICES ASSUME requests[s].kind = "list" \/ shared
                   PROVE  /\ Len(list') = Len(list)
                          /\ \A i \in DOMAIN list :
                                /\ list'[i].id = list[i].id
                                /\ list[i].id \notin requests[s].ids => list'[i] = list[i]
                          /\ \A m \in Range(list) \cap selected :
                                m \in selected' \/ m.id \in requests[s].ids
        OBVIOUS
      <4> DEFINE ids == requests[s].ids
                 hits == Hits(ids, list)
      <4>1. (IF requests[s].kind = "data" THEN data ELSE list) = list
        BY <1>1 DEF PageInv, SharedArray
      <4>2. /\ list' = Replaced(ids, list, n)
            /\ selected' = {list[i] : i \in DOMAIN list \ hits} \cap selected
        BY <2>5, <3>2, <4>1 DEF Answer, Rebuild
      <4>3. list \in Seq(Media) /\ list' \in Seq(Media)
        BY <1>1, <2>5, AnswerInv DEF PageInv, PageTypeOK
      <4>4. DOMAIN list' = DOMAIN list /\ Len(list') = Len(list)
        <5>1. DOMAIN list' = DOMAIN list
          BY <4>2 DEF Replaced
        <5> QED
          BY <5>1, <4>3, LenProperties
      <4>5. \A i \in hits : list[i].id \in ids
        BY <4>3, HitsAreMedias
      <4> HIDE DEF ids, hits
      <4>6. \A i \in DOMAIN list : list'[i] = IF i \in hits THEN [id |-> list[i].id, copy |-> n]
                                              ELSE list[i]
        BY <4>2 DEF Replaced, hits
      <4>7. \A i \in DOMAIN list : /\ list'[i].id = list[i].id
                                   /\ list[i].id \notin ids => list'[i] = list[i]
        <5> SUFFICES ASSUME NEW i \in DOMAIN list
                     PROVE  /\ list'[i].id = list[i].id
                            /\ list[i].id \notin ids => list'[i] = list[i]
          OBVIOUS
        <5>1. CASE i \in hits
          <6>1. list'[i] = [id |-> list[i].id, copy |-> n] /\ list[i].id \in ids
            BY <4>5, <4>6, <5>1
          <6> QED
            BY <6>1
        <5>2. CASE i \notin hits
          <6>1. list'[i] = list[i]
            BY <4>6, <5>2
          <6> QED
            BY <6>1
        <5> QED
          BY <5>1, <5>2
      <4>8. ASSUME NEW m \in Range(list) \cap selected PROVE m \in selected' \/ m.id \in ids
        <5>1. PICK i \in DOMAIN list : list[i] = m
          BY DEF Range
        <5>2. CASE i \in hits
          BY <5>1, <5>2, <4>5
        <5>3. CASE i \notin hits
          BY <5>1, <5>3, <4>2
        <5> QED
          BY <5>2, <5>3
      <4> QED
        <5> USE DEF ids
        <5>1. \A m \in Range(list) \cap selected : m \in selected' \/ m.id \in requests[s].ids
          BY <4>8
        <5>2. \A i \in DOMAIN list :
                  /\ list'[i].id = list[i].id
                  /\ list[i].id \notin requests[s].ids => list'[i] = list[i]
          BY <4>7
        <5> QED
          BY <4>4, <5>1, <5>2
    <3> QED
      BY <3>1, <3>2
  <2> QED
    BY <1>1, <2>2, <2>3, <2>4, <2>5 DEF Next, Bulk
<1>2. PageInv /\ [Next]_vars => [\A s \in Slots : OnTarget(s)]_vars
  BY <1>1
<1> QED
  BY <1>2, PageInvariant, PTL DEF Spec, AnswersStayOnTarget

------------------------------------------------------------------------------
(* No media is listed twice *)

\* An answer hits the first media with each of its ids.
LEMMA HitsAreFirst ==
    ASSUME NEW array \in Seq(Media), NEW ids, NEW i \in Hits(ids, array)
    PROVE  i = FirstWith(array, array[i].id)
BY FirstWithFinds DEF Hits

\* The list is distinct with the fresh copies of an answer.
LEMMA ReplacedDistinct ==
    ASSUME NEW index \in Seq(Media), NEW ids, NEW n,
           IsInjective(list),
           IsFresh(n, ids, {list[i] : i \in DOMAIN list \ Hits(ids, index)})
    PROVE  IsInjective(Replaced(ids, index, n))
<1> DEFINE hits == Hits(ids, index)
           saved == Replaced(ids, index, n)
<1>1. \A i \in hits : index[i].id \in ids /\ i = FirstWith(index, index[i].id)
  BY HitsAreMedias, HitsAreFirst
<1>2. DOMAIN saved = DOMAIN list
  BY DEF Replaced
<1>3. \A i \in DOMAIN list :
          saved[i] = IF i \in hits THEN [id |-> index[i].id, copy |-> n] ELSE list[i]
  BY DEF Replaced
<1>4. \A id \in ids : [id |-> id, copy |-> n] \notin {list[i] : i \in DOMAIN list \ hits}
  BY DEF IsFresh
<1> HIDE DEF hits, saved
<1>5. ASSUME NEW i \in DOMAIN list, NEW j \in DOMAIN list, i \in hits, j \in hits,
             saved[i] = saved[j]
      PROVE  i = j
  <2>1. [id |-> index[i].id, copy |-> n] = [id |-> index[j].id, copy |-> n]
    BY <1>3, <1>5
  <2>2. index[i].id = index[j].id
    BY <2>1
  <2> QED
    BY <1>1, <1>5, <2>2
<1>6. ASSUME NEW i \in DOMAIN list, NEW j \in DOMAIN list, i \in hits, j \notin hits
      PROVE  saved[i] # saved[j]
  BY <1>1, <1>3, <1>4, <1>6
<1>7. ASSUME NEW i \in DOMAIN list, NEW j \in DOMAIN list, i \notin hits, j \notin hits,
             saved[i] = saved[j]
      PROVE  i = j
  BY <1>3, <1>7 DEF IsInjective
<1>8. \A i, j \in DOMAIN list : saved[i] = saved[j] => i = j
  BY <1>5, <1>6, <1>7
<1> QED
  BY <1>2, <1>8 DEF IsInjective, saved

\* An exchange of two elements repeats none.
LEMMA SwapInjective ==
    ASSUME NEW s, IsInjective(s), NEW x \in DOMAIN s, NEW y \in DOMAIN s
    PROVE  IsInjective([s EXCEPT ![x] = s[y], ![y] = s[x]])
<1> DEFINE r == [s EXCEPT ![x] = s[y], ![y] = s[x]]
<1>1. DOMAIN r = DOMAIN s
  OBVIOUS
<1>2. r[y] = s[x] /\ (x # y => r[x] = s[y])
  OBVIOUS
<1>3. \A i \in DOMAIN s \ {x, y} : r[i] = s[i]
  OBVIOUS
<1> HIDE DEF r
<1>4. \A i, j \in DOMAIN s : r[i] = r[j] => i = j
  BY <1>2, <1>3 DEF IsInjective
<1> QED
  BY <1>1, <1>4 DEF IsInjective, r

\* What one iteration of moveUp does to the arrays: nothing, or an exchange.
LEMMA SwitchArrays ==
    ASSUME PageInv, SwitchPosition
    PROVE  \/ UNCHANGED <<data, list>>
           \/ \E x, y \in DOMAIN data :
                 /\ data' = [data EXCEPT ![x] = data[y], ![y] = data[x]]
                 /\ list' = IF shared THEN data' ELSE list
<1> DEFINE m == loop.order[loop.next]
           x == CHOOSE i \in DOMAIN data : data[i] = m
           y == x + loop.by
<1>1. m \in Range(data)
  BY DEF SwitchPosition, PageInv, PageTypeOK, LoopMovesRows, Range
<1>2. x \in DOMAIN data
  BY <1>1 DEF Range
<1>3. \/ UNCHANGED arrays
      \/ /\ y \in DOMAIN data
         /\ data' = [data EXCEPT ![x] = data[y], ![y] = data[x]]
         /\ list' = IF shared THEN data' ELSE list
  BY DEF SwitchPosition
<1> HIDE DEF x, y
<1> QED
  BY <1>2, <1>3 DEF arrays

\* What a report makes of the list: some medias of it, and at most one that is neither
\* in it nor in the table.
LEMMA AcceptedList ==
    ASSUME PageInv, NEW i \in 0 .. Len(list), NEW ids \in Reported, NEW n \in 0 .. MaxCopy,
           AcceptMerge(i, ids, n)
    PROVE  \E kept \in Seq(Media) :
              /\ kept = IF i = 0 THEN list ELSE RemoveAt(list, i)
              /\ \/ list' = kept
                 \/ \E m \in Media : list' = Append(kept, m) /\ m \notin Range(kept)
<1> DEFINE kept == IF i = 0 THEN list ELSE RemoveAt(list, i)
           m == [id |-> CHOOSE id \in ids : TRUE, copy |-> n]
<1>1. list \in Seq(Media) /\ DOMAIN list = 1 .. Len(list) /\ Len(list) \in Nat
  BY LenProperties DEF PageInv, PageTypeOK
<1>2. kept \in Seq(Media)
  BY <1>1, RemoveAtSeq
<1>3. CASE ids = {}
  <2>1. list' = kept \o <<>>
    BY <1>3 DEF AcceptMerge
  <2> HIDE DEF kept
  <2>2. list' = kept
    BY <1>2, <2>1, ConcatEmptySeq
  <2> QED
    BY <1>2, <2>2 DEF kept
<1>4. CASE ids # {}
  <2>1. (CHOOSE id \in ids : TRUE) \in ids /\ ids \subseteq Ids
    BY <1>4, PageAssumption DEF Reported
  <2>2. m \in Media
    BY <2>1 DEF Media
  <2>3. m \notin Range(kept)
    BY <2>1 DEF AcceptMerge, IsFresh
  <2>4. list' = kept \o <<m>>
    BY <1>4 DEF AcceptMerge
  <2> HIDE DEF kept, m
  <2>5. list' = Append(kept, m)
    BY <1>2, <2>2, <2>4, AppendIsConcat
  <2> QED
    BY <1>2, <2>2, <2>3, <2>5 DEF kept
<1> QED
  BY <1>3, <1>4

LEMMA DistinctStep == PageInv /\ RowsAreDistinct /\ [Next]_vars => RowsAreDistinct'
<1> SUFFICES ASSUME PageInv, RowsAreDistinct, [Next]_vars PROVE RowsAreDistinct'
  OBVIOUS
<1>1. IsInjective(data) /\ IsInjective(list) /\ data \in Seq(Media) /\ list \in Seq(Media)
  BY DEF RowsAreDistinct, PageInv, PageTypeOK
<1>2. CASE UNCHANGED <<data, list>>
  BY <1>1, <1>2 DEF RowsAreDistinct
<1>3. CASE SwitchPosition
  <2>1. ASSUME NEW x \in DOMAIN data, NEW y \in DOMAIN data,
               data' = [data EXCEPT ![x] = data[y], ![y] = data[x]],
               list' = IF shared THEN data' ELSE list
        PROVE  RowsAreDistinct'
    BY <1>1, <2>1, SwapInjective DEF RowsAreDistinct
  <2> QED
    BY <1>2, <1>3, <2>1, SwitchArrays
<1>4. ASSUME NEW m \in Range(data), NEW bubbles \in BOOLEAN, NEW ctrl \in BOOLEAN,
             Delete(m, bubbles, ctrl)
      PROVE  RowsAreDistinct'
  <2>1. IsInjective(RemoveAt(data, FirstWith(data, m.id)))
    BY <1>1, FirstWithPresent, RemoveAtInjective
  <2> QED
    BY <1>1, <1>4, <2>1 DEF Delete, Rebuild, RowsAreDistinct
<1>5. CASE DeleteSelected \/ Reload
  BY <1>1, <1>5 DEF DeleteSelected, Reload, Rebuild, RowsAreDistinct
<1>6. ASSUME NEW i \in 0 .. Len(list), NEW ids \in Reported, NEW n \in 0 .. MaxCopy,
             AcceptMerge(i, ids, n)
      PROVE  RowsAreDistinct'
  <2>1. PICK kept \in Seq(Media) :
          /\ kept = IF i = 0 THEN list ELSE RemoveAt(list, i)
          /\ \/ list' = kept
             \/ \E m \in Media : list' = Append(kept, m) /\ m \notin Range(kept)
    BY <1>6, AcceptedList
  <2>2. IsInjective(kept)
    BY <1>1, <2>1, LenProperties, RemoveAtInjective
  <2>3. ASSUME NEW m \in Media, m \notin Range(kept) PROVE IsInjective(Append(kept, m))
    BY <2>2, <2>3, AppendDistinct
  <2>4. IsInjective(list')
    BY <2>1, <2>2, <2>3
  <2> QED
    BY <1>1, <1>6, <2>4 DEF AcceptMerge, RowsAreDistinct
<1>7. ASSUME NEW s \in Slots, NEW n \in 0 .. MaxCopy, Answer(s, n) PROVE RowsAreDistinct'
  <2> DEFINE ids == requests[s].ids
             index == IF requests[s].kind = "data" THEN data ELSE list
  <2>1. /\ IsFresh(n, ids, {list[i] : i \in DOMAIN list \ Hits(ids, index)})
        /\ Rebuild(Replaced(ids, index, n))
        /\ index \in Seq(Media)
    BY <1>1, <1>7 DEF Answer
  <2> HIDE DEF ids, index
  <2> QED
    BY <1>1, <2>1, ReplacedDistinct DEF Rebuild, RowsAreDistinct
<1> QED
  BY <1>2, <1>3, <1>4, <1>5, <1>6, <1>7
     DEF Next, vars, arrays, Gesture, KeyA, KeyI, SelectAll, OnSelectionStart, OnSelection,
         OnSelectionEnd, ToggleSelected, Change, StartMove, EndMove, Bulk, Send, Fail

\* Neither array of the page ever lists a media object twice: a media is where the
\* table says, and a move or a deletion of it is of it alone.
THEOREM NoRowTwice == Spec => []RowsAreDistinct
<1>1. Init => RowsAreDistinct
  BY PageAssumption DEF Init, RowsAreDistinct
<1> QED
  BY <1>1, DistinctStep, PageInvariant, PTL DEF Spec

------------------------------------------------------------------------------
(* No channel is lost *)

\* The property OnlyDeletionsLoseChannels of one step, for one id.
LostOnlyByDeletion(id) ==
    \/ \E m \in Range(data), bubbles, ctrl \in BOOLEAN : m.id = id /\ Delete(m, bubbles, ctrl)
    \/ \E i \in DOMAIN list, ids \in Reported, n \in 0 .. MaxCopy :
          list[i].id = id /\ AcceptMerge(i, ids, n)
    \/ \E s \in Slots : /\ ~shared
                        /\ requests[s] # None
                        /\ requests[s].kind = "data"
                        /\ requests'[s] = None

LEMMA LossStep ==
    ASSUME PageInv, Next, NEW id \in IdsIn(list) \ IdsIn(list')
    PROVE  LostOnlyByDeletion(id)
<1>1. data \in Seq(Media) /\ list \in Seq(Media)
  BY DEF PageInv, PageTypeOK
<1>2. PICK k \in DOMAIN list : list[k].id = id
  BY DEF IdsIn, Range
<1>3. list[k] \in Range(list) /\ list[k] \notin Range(list')
  BY <1>2 DEF IdsIn, Range
<1>4. ASSUME SwitchPosition PROVE FALSE
  <2>1. ASSUME NEW x \in DOMAIN data, NEW y \in DOMAIN data,
               data' = [data EXCEPT ![x] = data[y], ![y] = data[x]],
               list' = IF shared THEN data' ELSE list
        PROVE  FALSE
    <3>1. Range([data EXCEPT ![x] = data[y], ![y] = data[x]]) = Range(data)
      BY <1>1, SwapKeepsRange
    <3>2. Range(data') = Range(data)
      BY <2>1, <3>1
    <3> QED
      BY <1>3, <2>1, <3>2 DEF PageInv, SharedArray
  <2> QED
    BY <1>3, <1>4, <2>1, SwitchArrays
<1>5. ASSUME NEW m \in Range(data), NEW bubbles \in BOOLEAN, NEW ctrl \in BOOLEAN,
             Delete(m, bubbles, ctrl)
      PROVE  m.id = id
  <2> DEFINE first == FirstWith(data, m.id)
  <2>1. list' = IF shared THEN RemoveAt(data, first) ELSE list
    BY <1>5 DEF Delete, Rebuild
  <2>2. shared /\ data = list
    BY <1>3, <2>1 DEF PageInv, SharedArray
  <2>3. first \in DOMAIN data /\ data[first].id = m.id
    <3>1. 0 \notin DOMAIN data
      BY <1>1, LenProperties
    <3> QED
      BY <1>1, <3>1, FirstWithPresent, FirstWithFinds
  <2>4. Range(data) \subseteq Range(list') \cup {data[first]}
    BY <1>1, <2>1, <2>2, <2>3, RemoveAtKeeps
  <2> QED
    BY <1>2, <1>3, <2>2, <2>3, <2>4
<1>6. ASSUME NEW i \in 0 .. Len(list), NEW ids \in Reported, NEW n \in 0 .. MaxCopy,
             AcceptMerge(i, ids, n)
      PROVE  i \in DOMAIN list /\ list[i].id = id
  <2>1. PICK kept \in Seq(Media) :
          /\ kept = IF i = 0 THEN list ELSE RemoveAt(list, i)
          /\ \/ list' = kept
             \/ \E m \in Media : list' = Append(kept, m) /\ m \notin Range(kept)
    BY <1>6, AcceptedList
  <2>2. Range(kept) \subseteq Range(list')
    <3>1. ASSUME NEW m \in Media PROVE Range(Append(kept, m)) = Range(kept) \cup {m}
      BY AppendRange
    <3> QED
      BY <2>1, <3>1
  <2>3. i # 0
    BY <1>3, <2>1, <2>2
  <2>4. i \in DOMAIN list
    BY <1>1, <2>3, LenProperties
  <2>5. Range(list) \subseteq Range(kept) \cup {list[i]}
    BY <1>1, <2>1, <2>3, <2>4, RemoveAtKeeps
  <2> QED
    BY <1>2, <1>3, <2>2, <2>4, <2>5
<1>7. ASSUME NEW s \in Slots, NEW n \in 0 .. MaxCopy, Answer(s, n)
      PROVE  /\ ~shared
             /\ requests[s] # None
             /\ requests[s].kind = "data"
             /\ requests'[s] = None
  <2>1. requests[s] # None /\ requests'[s] = None
    BY <1>7 DEF Answer, PageInv, PageTypeOK
  <2>2. ASSUME requests[s].kind # "data" \/ shared PROVE FALSE
    <3>1. (IF requests[s].kind = "data" THEN data ELSE list) = list
      BY <2>2 DEF PageInv, SharedArray
    <3>2. list' = Replaced(requests[s].ids, list, n)
      BY <1>7, <3>1 DEF Answer, Rebuild
    <3>3. list'[k] \in {list[k], [id |-> list[k].id, copy |-> n]} /\ k \in DOMAIN list'
      BY <1>2, <3>2 DEF Replaced
    <3>4. list'[k].id = id
      BY <1>2, <3>3
    <3> QED
      BY <3>3, <3>4 DEF IdsIn, Range
  <2> QED
    BY <2>1, <2>2
<1>8. ~UNCHANGED list
  BY <1>3
<1>9. \/ \E m \in Range(data), bubbles, ctrl \in BOOLEAN : Delete(m, bubbles, ctrl)
      \/ \E i \in 0 .. Len(list), ids \in Reported, n \in 0 .. MaxCopy : AcceptMerge(i, ids, n)
      \/ \E s \in Slots, n \in 0 .. MaxCopy : Answer(s, n)
  BY <1>4, <1>8
     DEF Next, arrays, Gesture, KeyA, KeyI, SelectAll, OnSelectionStart, OnSelection,
         OnSelectionEnd, ToggleSelected, Change, StartMove, EndMove, DeleteSelected, Reload,
         Rebuild, Bulk, Send, Fail
<1> QED
  BY <1>5, <1>6, <1>7, <1>9 DEF LostOnlyByDeletion

\* What Save posts loses no channel but by the deletion of a row of it, a report that
\* removes it, or an answer of matchPicons while the arrays have parted.
THEOREM ChannelsAreKept == Spec => OnlyDeletionsLoseChannels
<1>1. PageInv /\ [Next]_vars
        => [\A id \in IdsIn(list) \ IdsIn(list') : LostOnlyByDeletion(id)]_vars
  BY LossStep
<1>2. Spec => [][\A id \in IdsIn(list) \ IdsIn(list') : LostOnlyByDeletion(id)]_vars
  BY <1>1, PageInvariant, PTL DEF Spec
<1> QED
  BY <1>2 DEF OnlyDeletionsLoseChannels, LostOnlyByDeletion
=============================================================================
