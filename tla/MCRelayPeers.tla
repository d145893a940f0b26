---------------------------- MODULE MCRelayPeers -----------------------------
(***************************************************************************)
(* Two peers, up to two channels, and a required, an optional and an       *)
(* overlong feature bit.                                                   *)
(***************************************************************************)
EXTENDS RelayPeers, TLC

MCFeatureBits == {38, 39, 65536}

Symmetry == Permutations(Peers)
=============================================================================
