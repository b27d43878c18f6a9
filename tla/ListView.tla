------------------------------- MODULE ListView --------------------------------
(***************************************************************************)
(* What a user may count on of the list of their playlists that the WebApi *)
(* keeps for them, whoever keeps it: it may be forgotten at any time, it   *)
(* is replaced by lists from after the last change that the user was told  *)
(* of only, and telling the user of a change forgets it.  It knows neither *)
(* keys nor an index nor requests.  PlaylistCache implements it.           *)
(***************************************************************************)
EXTENDS Naturals

CONSTANTS
    Users,
    None       \* no list is kept

VARIABLES
    version,   \* the state of each user's playlists
    told,      \* the last state that the user was told they made
    shown      \* the state that the list kept for the user is from

vars == <<version, told, shown>>

Init ==
    /\ version = [u \in Users |-> 0]
    /\ told = [u \in Users |-> 0]
    /\ shown = [u \in Users |-> None]

Change(u) ==
    /\ version' = [version EXCEPT ![u] = @ + 1]
    /\ UNCHANGED <<told, shown>>

Tell(u) ==
    /\ told' = [told EXCEPT ![u] = version[u]]
    /\ shown' = [shown EXCEPT ![u] = None]
    /\ UNCHANGED version

\* A list of any state since the last that the user was told of.
Show(u) ==
    /\ \E v \in told[u] .. version[u] : shown' = [shown EXCEPT ![u] = v]
    /\ UNCHANGED <<version, told>>

Forget ==
    /\ \E U \in SUBSET Users :
          shown' = [u \in Users |-> IF u \in U THEN None ELSE shown[u]]
    /\ UNCHANGED <<version, told>>

Next ==
    \/ \E u \in Users : Change(u) \/ Tell(u) \/ Show(u)
    \/ Forget

Spec == Init /\ [][Next]_vars
=============================================================================
