---------------------------- MODULE PlaylistStore ----------------------------
(***************************************************************************)
(* What the Playlist table promises, whoever writes it: an abstract        *)
(* specification that knows neither the batch nor the requests, only which *)
(* rows there are and which playlists users have open.  PlaylistSync       *)
(* implements it.                                                          *)
(***************************************************************************)
EXTENDS PlaylistMerge

CONSTANTS
    MaxId,    \* bound: playlists ever created have ids 1..MaxId
    Urls,     \* the addresses of sources
    None      \* no row

VARIABLES
    rows,     \* the table
    nextId,   \* the id the next playlist gets
    open      \* the playlists some user has open

Ids == 1 .. MaxId

Row == [url : Urls, auto : BOOLEAN, enabled : BOOLEAN, medias : MaybeLists]

vars == <<rows, nextId, open>>

Init ==
    /\ nextId \in 1 .. MaxId + 1
    /\ rows \in [Ids -> {None} \cup Row]
    /\ \A p \in Ids : /\ p >= nextId => rows[p] = None
                      /\ p < nextId => rows[p] # None
    /\ open = {}

\* A new playlist takes the next id, and is not left to the batch.
Create ==
    /\ nextId \in Ids
    /\ \E row \in Row : /\ row.auto
                        /\ rows' = [rows EXCEPT ![nextId] = row]
    /\ nextId' = nextId + 1
    /\ UNCHANGED open

\* A user who has the playlist open changes it, but not its auto flag.
Edit(p) ==
    /\ p \in open
    /\ rows[p] # None
    /\ \E row \in Row : /\ row.auto = rows[p].auto
                        /\ rows' = [rows EXCEPT ![p] = row]
    /\ UNCHANGED <<nextId, open>>

\* A synchronisation changes the medias, and nothing else, of a row whose
\* AutoSynchronize is not set.
Refresh(p) ==
    /\ rows[p] # None
    /\ ~rows[p].auto
    /\ \E list \in MaybeLists : rows' = [rows EXCEPT ![p].medias = list]
    /\ UNCHANGED <<nextId, open>>

Remove(p) ==
    /\ rows[p] # None
    /\ rows' = [rows EXCEPT ![p] = None]
    /\ UNCHANGED <<nextId, open>>

\* Users open and close playlists.
Browse ==
    /\ open' \in SUBSET Ids
    /\ UNCHANGED <<rows, nextId>>

Next ==
    \/ Create
    \/ \E p \in Ids : Edit(p) \/ Refresh(p) \/ Remove(p)
    \/ Browse

Spec == Init /\ [][Next]_vars
=============================================================================
