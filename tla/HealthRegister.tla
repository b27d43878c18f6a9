--------------------------- MODULE HealthRegister ----------------------------
(***************************************************************************)
(* What the health board promises, whoever writes it: for each playlist a  *)
(* register, in which only reports of what its source did when it was      *)
(* asked are written, some never, some twice, and in any order.  It knows  *)
(* neither passes nor checks nor queues nor crashes.  HealthBoard          *)
(* implements it.                                                          *)
(***************************************************************************)
CONSTANTS
    Playlists,
    SourceStates,  \* what a source may do when it is asked
    Reports,       \* what it may do that is reported
    None           \* no report yet

VARIABLES
    source,        \* what the source of a playlist does
    inFlight,      \* the reports on their way to the board
    board          \* the registers

vars == <<source, inFlight, board>>

Init ==
    /\ source \in [Playlists -> SourceStates]
    /\ inFlight = {}
    /\ board = [p \in Playlists |-> None]

\* A source is asked and answers.
Measure(p) ==
    /\ source[p] \in Reports
    /\ inFlight' = inFlight \cup {[playlist |-> p, report |-> source[p]]}
    /\ UNCHANGED <<source, board>>

\* A report is written; the same may be under way once more.
Write(e) ==
    /\ board' = [board EXCEPT ![e.playlist] = e.report]
    /\ inFlight' \in {inFlight, inFlight \ {e}}
    /\ UNCHANGED source

\* Reports are lost.
Lose ==
    /\ inFlight' \in SUBSET inFlight
    /\ UNCHANGED <<source, board>>

Change(p) ==
    /\ \E s \in SourceStates : source' = [source EXCEPT ![p] = s]
    /\ UNCHANGED <<inFlight, board>>

Next ==
    \/ \E p \in Playlists : Measure(p) \/ Change(p)
    \/ \E e \in inFlight : Write(e)
    \/ Lose

Spec == Init /\ [][Next]_vars
=============================================================================
