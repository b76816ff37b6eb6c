---------------------------- MODULE MCVpnHelper ----------------------------
(* Small instances of VpnHelper for TLC. *)
EXTENDS VpnHelper, TLC

CONSTANTS s1, s2, s3, k1, k2

OneStart    == {s1}
ThreeStarts == {s1, s2, s3}
OneStop     == {k1}
TwoStops    == {k1, k2}

ProcessSymmetry == Permutations(Start) \cup Permutations(Stop)
=============================================================================
