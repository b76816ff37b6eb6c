--------------------------- MODULE MCAppLifecycle ---------------------------
(* A small instance of AppLifecycle for TLC. *)
EXTENDS AppLifecycle

CONSTANTS l1, l2, c1

TwoLaunches == {l1, l2}
OneCli      == {c1}

\* An app beside a `tofv connect', each with a session; and two launches, of which one
\* makes a session that the other one may adopt.
Pairs == {[run |-> {l1, c1}, connect |-> {l1, c1}],
          [run |-> {l1, l2}, connect |-> {l1}]}
=============================================================================
