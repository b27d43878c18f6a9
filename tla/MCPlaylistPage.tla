--------------------------- MODULE MCPlaylistPage ----------------------------
EXTENDS PlaylistPage, TLC

CONSTANTS a, b, c, s1, s2

MCIds == {a, b, c}
MCStart == <<[id |-> a, copy |-> 0], [id |-> b, copy |-> 0]>>
MCSlots == {s1, s2}

\* The requests in flight may be exchanged.
MCSymmetry == Permutations(MCSlots)
=============================================================================
