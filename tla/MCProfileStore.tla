--------------------------- MODULE MCProfileStore ---------------------------
(* A small instance of ProfileStore for TLC. *)
EXTENDS ProfileStore, TLC

CONSTANTS f1, t1, c1, a, b, unset

OneSave  == {f1}
OneTrust == {t1}
OneSet   == {c1}
Values   == {unset, a, b}
Fields   == {"host", "cert"}

\* What the user types is not compared with anything.
ValueSymmetry == Permutations({a, b})
=============================================================================
