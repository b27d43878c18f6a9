--------------------------- MODULE MCPlaylistSync ----------------------------
(***************************************************************************)
(* Small instances of PlaylistSync.  There are two channels; a1 and a2 are *)
(* two versions of the first: a1 is what the source serves, a2 what it     *)
(* becomes when the user renames it.                                       *)
(***************************************************************************)
EXTENDS PlaylistSync

CONSTANTS a1, a2, b1

MCMedia == {a1, a2, b1}

MCUrlOf == [m \in MCMedia |-> IF m = b1 THEN "b" ELSE "a"]

\* Media.Id follows the url here.
MCIdOf == MCUrlOf

\* The two channels differ only in the scheme or the port of their urls.
OneId == [m \in MCMedia |-> "host/path"]

\* A source serves one channel, both, or an empty list.
MCOffers == {{a1}, {a1, b1}, {}}

\* The answer of a pull that throws: a set, which TLC can compare with lists,
\* but not one of medias.
Failure == {"exception"}

\* A source that never serves an empty list.
FullOffers == {{a1}, {a1, b1}}

\* One that lists the first channel twice, or the second alone.
DoublingOffers == {{a1, a2}, {b1}}
=============================================================================
