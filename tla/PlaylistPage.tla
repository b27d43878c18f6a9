---------------------------- MODULE PlaylistPage -----------------------------
(***************************************************************************)
(* The playlist page of the browser (playlist.component.ts): the user      *)
(* selects rows by click, drag and keyboard, moves and deletes medias and  *)
(* accepts reports of the diff dialog, while the answers of bulk requests  *)
(* come back in any order and replace medias of the list.                  *)
(*                                                                         *)
(* The page holds two references to arrays of medias: dataSource.data is   *)
(* what the table shows, playlistBS.value.tvgMedias what Save posts.  They *)
(* are one array after every rebuild of the data source, and two between   *)
(* an accepted report and the next rebuild.  A media is an object of the   *)
(* heap: the server answers copies, which have the id of the original and  *)
(* are not selected.                                                       *)
(*                                                                         *)
(* A handler runs to completion, so it is one step, but for the loop of    *)
(* moveUp and moveDown, whose iterations are steps nothing comes between.  *)
(* Left out: the positions, names and guides of medias, which the dialogs  *)
(* and organizeMedias write in place, and the filter of the table, so that *)
(* the rows on the screen are any of those of the data source.             *)
(***************************************************************************)
EXTENDS Integers, Sequences, FiniteSets, SequencesExt

CONSTANTS
    Ids,         \* the ids of medias
    NewIds,      \* those a report of the diff dialog may add
    Start,       \* the list the page is opened with
    Slots,       \* bulk requests that may be in flight at a time
    MaxLength,   \* bound: reports do not make a list longer
    MaxCopy,     \* bound: objects of one id in the heap, less one
    None         \* no request, no loop

\* An object of the heap; copy tells the objects of one id apart.
Media == [id : Ids, copy : 0 .. MaxCopy]

\* The array in which a request looks up the medias answered: matchVideos and
\* executeHandlers in the list, matchPicons in the data source.
Kinds == {"list", "data"}

Request == [kind : Kinds, ids : SUBSET Ids]

\* A forEach over the medias of order that are selected, at index next.
Loop == [order : Seq(Media), next : Nat, by : Nat]

ASSUME PageAssumption ==
    /\ NewIds \subseteq Ids
    /\ Start \in Seq(Media)
    /\ IsInjective(Start)
    /\ MaxLength \in Nat
    /\ MaxCopy \in Nat
    /\ None \notin Request \cup Loop

VARIABLES
    data,      \* dataSource.data
    list,      \* playlistBS.value.tvgMedias
    shared,    \* whether both are the same array
    selected,  \* the medias whose flag selected is set
    counter,   \* atLeastOneSelected: shown, and hides the bulk operations at 0
    drag,      \* mouseDown and select
    loop,      \* the running loop of moveUp or moveDown
    requests   \* the bulk requests in flight

arrays == <<data, list, shared>>
selection == <<selected, counter, drag>>
vars == <<arrays, selection, loop, requests>>

Init ==
    /\ data = Start
    /\ list = Start
    /\ shared = TRUE
    /\ selected = {}
    /\ counter = 0
    /\ drag = "up"
    /\ loop = None
    /\ requests = [s \in Slots |-> None]

------------------------------------------------------------------------------
(* Selection *)

\* dataSource.data.filter(f => f.selected).length
CountIn(array, marked) == Cardinality(Range(array) \cap marked)

\* Ctrl+A and Ctrl+I act on the page of the table, selectAll on every row.
\* The table sorts, filters and pages the rows: a page is any set of them.
KeyA(page) ==
    /\ loop = None
    /\ selected' = selected \cup page
    /\ counter' = CountIn(data, selected')
    /\ UNCHANGED <<arrays, drag, loop, requests>>

KeyI(page) ==
    /\ loop = None
    /\ selected' = (selected \ page) \cup (page \ selected)
    /\ counter' = CountIn(data, selected')
    /\ UNCHANGED <<arrays, drag, loop, requests>>

SelectAll == KeyA(Range(data))

\* A drag names rows by their position, which two medias may have in common:
\* the media it finds is not always the one under the pointer.
OnSelectionStart(m) ==
    /\ loop = None
    /\ drag' = IF m \in selected THEN "clearing" ELSE "selecting"
    /\ UNCHANGED <<arrays, selected, counter, loop, requests>>

OnSelection(m) ==
    /\ loop = None
    /\ drag # "up"
    /\ selected' = IF drag = "selecting" THEN selected \cup {m} ELSE selected \ {m}
    /\ UNCHANGED <<arrays, counter, drag, loop, requests>>

\* Mutant of OnSelectionEnd: the counter is left to the next click.
OnSelectionEndUncounted ==
    /\ loop = None
    /\ drag' = "up"
    /\ UNCHANGED <<arrays, selected, counter, loop, requests>>

\* Only rows have a handler for the release of the button: a drag that ends
\* beside them goes on.
OnSelectionEnd ==
    /\ loop = None
    /\ drag' = "up"
    /\ counter' = CountIn(data, selected)
    /\ UNCHANGED <<arrays, selected, loop, requests>>

\* Without Ctrl a click clears every row with another id.
Toggled(array, m, ctrl) ==
    LET kept == IF ctrl THEN selected
                ELSE {r \in selected : r \notin Range(array) \/ r.id = m.id}
    IN  (kept \ {m}) \cup ({m} \ kept)

ToggleSelected(m, ctrl) ==
    /\ loop = None
    /\ drag = "up"
    /\ selected' = Toggled(data, m, ctrl)
    /\ counter' = CountIn(data, selected')
    /\ UNCHANGED <<arrays, drag, loop, requests>>

------------------------------------------------------------------------------
(* Changes of the list *)

\* findIndex, 0 where it finds none
FirstWith(array, id) == SelectInSeq(array, LAMBDA m : m.id = id)

\* playlistBS.next(playlistBS.value): a new data source on the saved array
Rebuild(saved) ==
    /\ list' = saved
    /\ data' = saved
    /\ shared' = TRUE

StartMove ==
    /\ loop = None
    /\ counter > 0
    /\ loop' = [order |-> data, next |-> 1, by |-> CountIn(data, selected)]
    /\ UNCHANGED <<arrays, selection, requests>>

\* Mutant of SwitchPosition: the media at the target is overwritten, not exchanged.
SwitchPositionHalf ==
    /\ loop # None
    /\ loop.next \in DOMAIN loop.order
    /\ LET m == loop.order[loop.next]
           x == CHOOSE i \in DOMAIN data : data[i] = m
           y == x + loop.by
       IN  IF m \in selected /\ y \in DOMAIN data
           THEN /\ data' = [data EXCEPT ![y] = data[x]]
                /\ list' = IF shared THEN data' ELSE list
           ELSE UNCHANGED <<data, list>>
    /\ loop' = [loop EXCEPT !.next = @ + 1]
    /\ UNCHANGED <<shared, selection, requests>>

\* One iteration of moveUp, and of moveDown, whose text is the same.  Past the
\* end of the array switchPosition throws, and the loop ends half-way.
SwitchPosition ==
    /\ loop # None
    /\ loop.next \in DOMAIN loop.order
    /\ LET m == loop.order[loop.next]
           x == CHOOSE i \in DOMAIN data : data[i] = m
           y == x + loop.by
       IN  \/ /\ m \notin selected
              /\ loop' = [loop EXCEPT !.next = @ + 1]
              /\ UNCHANGED arrays
           \/ /\ m \in selected
              /\ y \in DOMAIN data
              /\ data' = [data EXCEPT ![x] = data[y], ![y] = data[x]]
              /\ list' = IF shared THEN data' ELSE list
              /\ loop' = [loop EXCEPT !.next = @ + 1]
              /\ UNCHANGED shared
           \/ /\ m \in selected
              /\ y \notin DOMAIN data
              /\ loop' = None
              /\ UNCHANGED arrays
    /\ UNCHANGED <<selection, requests>>

EndMove ==
    /\ loop # None
    /\ loop.next \notin DOMAIN loop.order
    /\ loop' = None
    /\ UNCHANGED <<arrays, selection, requests>>

\* The button of a row: the array of the table loses the first media with the
\* id.  The click then reaches the row, unless the table has removed it.
Delete(m, bubbles, ctrl) ==
    /\ loop = None
    /\ drag = "up"
    /\ LET spliced == RemoveAt(data, FirstWith(data, m.id))
       IN  Rebuild(IF shared THEN spliced ELSE list)
    /\ IF bubbles
       THEN /\ selected' = Toggled(list', m, ctrl) \cap Range(list')
            /\ counter' = CountIn(list', selected')
       ELSE /\ selected' = selected \cap Range(list')
            /\ counter' = counter
    /\ UNCHANGED <<drag, loop, requests>>

\* Mutant of DeleteSelected: the data source keeps the filtered array.
DeleteSelectedInTable ==
    /\ loop = None
    /\ counter > 0
    /\ data' = SelectSeq(data, LAMBDA m : m \notin selected)
    /\ shared' = FALSE
    /\ UNCHANGED <<list, selected, counter, drag, loop, requests>>

\* The filtered array is given to the data source, which the rebuild replaces.
DeleteSelected ==
    /\ loop = None
    /\ counter > 0
    /\ Rebuild(list)
    /\ selected' = selected \cap Range(list)
    /\ UNCHANGED <<counter, drag, loop, requests>>

Reload ==
    /\ loop = None
    /\ Rebuild(list)
    /\ selected' = selected \cap Range(list)
    /\ UNCHANGED <<counter, drag, loop, requests>>

\* The number of new objects of ids besides those of used: the least free one.
IsFresh(n, ids, used) ==
    /\ \A id \in ids : [id |-> id, copy |-> n] \notin used
    /\ \A k \in 0 .. n - 1 : \E id \in ids : [id |-> id, copy |-> k] \in used

\* The ids of the medias one report adds
Reported == {{}} \cup {{id} : id \in NewIds}

\* Mutant of AcceptMerge: the media a report adds is taken over selected.
AcceptMergeSelected(i, ids, n) ==
    /\ loop = None
    /\ LET kept == IF i = 0 THEN list ELSE RemoveAt(list, i)
       IN  /\ IsFresh(n, ids, Range(data) \cup Range(kept))
           /\ list' = kept \o (IF ids = {} THEN <<>>
                               ELSE <<[id |-> CHOOSE id \in ids : TRUE, copy |-> n]>>)
    /\ Len(list') <= MaxLength
    /\ selected' = selected \cup {[id |-> id, copy |-> n] : id \in ids}
    /\ shared' = FALSE
    /\ UNCHANGED <<data, counter, drag, loop, requests>>

\* The diff dialog replaces the saved array and leaves the table's.  A report
\* with several medias is accepted as several with at most one removed media, at
\* index i unless 0, and at most one new one.
AcceptMerge(i, ids, n) ==
    /\ loop = None
    /\ LET kept == IF i = 0 THEN list ELSE RemoveAt(list, i)
       IN  /\ IsFresh(n, ids, Range(data) \cup Range(kept))
           /\ list' = kept \o (IF ids = {} THEN <<>>
                               ELSE <<[id |-> CHOOSE id \in ids : TRUE, copy |-> n]>>)
    /\ Len(list') <= MaxLength
    /\ shared' = FALSE
    /\ UNCHANGED <<data, selection, loop, requests>>

------------------------------------------------------------------------------
(* Bulk requests *)

\* The buttons but that of matchVideos are there when the counter is not 0.
Send(s, kind) ==
    /\ loop = None
    /\ requests[s] = None
    /\ counter > 0 \/ kind = "list"
    /\ requests' = [requests EXCEPT ![s] =
          [kind |-> kind, ids |-> {m.id : m \in Range(data) \cap selected}]]
    /\ UNCHANGED <<arrays, selection, loop>>

\* Where index finds the medias of an answer.
Hits(ids, index) == {FirstWith(index, id) : id \in ids} \ {0}

\* The list with the copies of an answer.
Replaced(ids, index, n) ==
    [i \in DOMAIN list |-> IF i \in Hits(ids, index)
                           THEN [id |-> index[i].id, copy |-> n] ELSE list[i]]

\* Mutant of Answer: every kind looks the medias up in the data source.
AnswerByRow(s, n) ==
    /\ loop = None
    /\ requests[s] # None
    /\ LET hits == Hits(requests[s].ids, data)
       IN  /\ hits \subseteq DOMAIN list
           /\ IsFresh(n, requests[s].ids, {list[i] : i \in DOMAIN list \ hits})
           /\ Rebuild(Replaced(requests[s].ids, data, n))
           /\ selected' = {list[i] : i \in DOMAIN list \ hits} \cap selected
    /\ requests' = [requests EXCEPT ![s] = None]
    /\ UNCHANGED <<counter, drag, loop>>

\* The index found in one array is used in the other: an index past the end of
\* the list, which would leave holes in it, is outside the model.
Answer(s, n) ==
    /\ loop = None
    /\ requests[s] # None
    /\ LET ids == requests[s].ids
           index == IF requests[s].kind = "data" THEN data ELSE list
           hits == Hits(ids, index)
       IN  /\ hits \subseteq DOMAIN list
           /\ IsFresh(n, ids, {list[i] : i \in DOMAIN list \ hits})
           /\ Rebuild(Replaced(ids, index, n))
           /\ selected' = {list[i] : i \in DOMAIN list \ hits} \cap selected
    /\ requests' = [requests EXCEPT ![s] = None]
    /\ UNCHANGED <<counter, drag, loop>>

Fail(s) ==
    /\ loop = None
    /\ requests[s] # None
    /\ requests' = [requests EXCEPT ![s] = None]
    /\ UNCHANGED <<arrays, selection, loop>>

------------------------------------------------------------------------------

Gesture ==
    \/ \E page \in SUBSET Range(data) : KeyA(page) \/ KeyI(page)
    \/ SelectAll
    \/ OnSelectionEnd
    \/ \E m \in Range(data) :
          \/ OnSelectionStart(m)
          \/ OnSelection(m)
          \/ \E ctrl \in BOOLEAN : ToggleSelected(m, ctrl)

Change ==
    \/ StartMove
    \/ SwitchPosition
    \/ EndMove
    \/ \E m \in Range(data), bubbles, ctrl \in BOOLEAN : Delete(m, bubbles, ctrl)
    \/ DeleteSelected
    \/ Reload
    \/ \E i \in 0 .. Len(list), ids \in Reported, n \in 0 .. MaxCopy :
          AcceptMerge(i, ids, n)

Bulk ==
    \E s \in Slots :
        \/ \E kind \in Kinds : Send(s, kind)
        \/ \E n \in 0 .. MaxCopy : Answer(s, n)
        \/ Fail(s)

Next == Gesture \/ Change \/ Bulk

Spec == Init /\ [][Next]_vars

------------------------------------------------------------------------------

PageTypeOK ==
    /\ data \in Seq(Media)
    /\ list \in Seq(Media)
    /\ shared \in BOOLEAN
    /\ selected \subseteq Media
    /\ counter \in Nat
    /\ drag \in {"up", "selecting", "clearing"}
    /\ loop \in {None} \cup Loop
    /\ requests \in [Slots -> {None} \cup Request]

\* The bar above the table never hides the bulk operations from a user with
\* selected rows: between drags the counter of atLeastOneSelected is at least the
\* number of rows selected.  Answers, deletions and reports change the rows
\* without counting again.
CounterCovers == drag = "up" => CountIn(data, selected) <= counter

\* What keeps it so: the arrays may have parted, but a media that is selected is
\* one the table shows, and only a media of the table is moved.
SelectionShown == selected \subseteq Range(data)

SharedArray == shared => data = list

LoopMovesRows == loop # None => Range(loop.order) \subseteq Range(data)

PageInv == PageTypeOK /\ CounterCovers /\ SelectionShown /\ SharedArray /\ LoopMovesRows

\* Save posts what the table shows: no operation makes the array of the table
\* another one than the saved one, except the acceptMerge of the diff dialog.
OnlyReportsPartArrays ==
    [][data = list /\ shared =>
          \/ data' = list' /\ shared'
          \/ \E i \in 0 .. Len(list), ids \in Reported, n \in 0 .. MaxCopy :
                AcceptMerge(i, ids, n)]_vars

\* The answer of a bulk request replaces medias it was sent for and no others,
\* each by a media of the same id, whatever the user has moved, deleted or merged
\* since it was sent, and brings nothing deleted back: findIndex is of the list at
\* the time of the answer.  For matchPicons, which looks in the other array, only
\* while the arrays are one.
AnswersStayOnTarget ==
    [][\A s \in Slots :
          LET r == requests[s]
          IN  /\ r # None
              /\ requests'[s] = None
              /\ r.kind = "list" \/ shared
              => /\ Len(list') = Len(list)
                 /\ \A i \in DOMAIN list :
                       /\ list'[i].id = list[i].id
                       /\ list[i].id \notin r.ids => list'[i] = list[i]
                 /\ \A m \in Range(list) \cap selected : m \in selected' \/ m.id \in r.ids
      ]_vars

\* Neither array lists a media object twice, whatever is moved, deleted, replaced by
\* an answer or added by a report: an answer looked up in one array is written at its
\* index of the other, and a report brings medias the table may show already.
RowsAreDistinct == IsInjective(data) /\ IsInjective(list)

IdsIn(array) == {m.id : m \in Range(array)}

\* What Save posts loses a channel only when the user deletes a row of it or accepts a
\* report that removes it: no move that stops half-way, no answer that comes after the
\* rows have moved and no rebuild takes one away.  The answer of matchPicons does,
\* which looks its medias up in the other array, where the arrays have parted.
OnlyDeletionsLoseChannels ==
    [][\A id \in IdsIn(list) \ IdsIn(list') :
          \/ \E m \in Range(data), bubbles, ctrl \in BOOLEAN :
                m.id = id /\ Delete(m, bubbles, ctrl)
          \/ \E i \in DOMAIN list, ids \in Reported, n \in 0 .. MaxCopy :
                list[i].id = id /\ AcceptMerge(i, ids, n)
          \/ \E s \in Slots : /\ ~shared
                              /\ requests[s] # None
                              /\ requests[s].kind = "data"
                              /\ requests'[s] = None
      ]_vars

=============================================================================
