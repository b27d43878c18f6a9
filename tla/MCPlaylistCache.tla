--------------------------- MODULE MCPlaylistCache ---------------------------
(***************************************************************************)
(* PlaylistCache for two users: one asks for the one list that the client  *)
(* of this repository asks for, in two tabs at a time, the other for two   *)
(* lists, one after the other.                                             *)
(***************************************************************************)
EXTENDS PlaylistCache, TLC

CONSTANTS alice, bob, k1, k2, a1, a2, b1

MCUsers == {alice, bob}
MCKeys == {k1, k2}
MCTabs == {a1, a2, b1}
MCUserOf == [t \in MCTabs |-> IF t = b1 THEN bob ELSE alice]
MCKeysOf == (alice :> {k1}) @@ (bob :> {k1, k2})
=============================================================================
