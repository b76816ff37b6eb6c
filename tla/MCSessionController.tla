------------------------ MODULE MCSessionController ------------------------
(* Small instances of SessionController for TLC. *)
EXTENDS SessionController

CONSTANTS a1, a2, a3, d1

TwoAttempts   == {a1, a2}
ThreeAttempts == {a1, a2, a3}
OneDisconnect == {d1}
=============================================================================
