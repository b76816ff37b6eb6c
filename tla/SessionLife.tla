---------------------------- MODULE SessionLife ----------------------------
(***************************************************************************)
(* What the controller promises of a session, whatever its threads do.     *)
(*                                                                         *)
(* A session is opened once, is the running one for at most one stretch,   *)
(* is closed once and stays closed.  Its password is served by a thread    *)
(* that starts while the session is being made and has ended when it is    *)
(* closed.  There is one running session; a new one may take its place.    *)
(***************************************************************************)
CONSTANT Session

VARIABLES
  life,         \* of each session: "none", "opening", "running", "closing", "closed"
  serving       \* the sessions whose password is served

vars == <<life, serving>>

Init ==
  /\ life = [s \in Session |-> "none"]
  /\ serving = {}

Moves(s, from, to) ==
  /\ life[s] = from
  /\ life' = [life EXCEPT ![s] = to]

Open(s) == Moves(s, "none", "opening") /\ UNCHANGED serving

Serve(s) ==
  /\ life[s] = "opening"
  /\ s \notin serving
  /\ serving' = serving \cup {s}
  /\ UNCHANGED life

StopServing(s) ==
  /\ serving' = serving \ {s}
  /\ UNCHANGED life

\* The session was made; the one that was running is closed.
Run(s) ==
  /\ life[s] = "opening"
  /\ life' = [t \in Session |-> IF t = s THEN "running"
                                ELSE IF life[t] = "running" THEN "closing"
                                ELSE life[t]]
  /\ UNCHANGED serving

Take(s) == Moves(s, "running", "closing") /\ UNCHANGED serving

\* It could not be made, or it was taken: either way nobody serves its password.
Close(s) ==
  /\ s \notin serving
  /\ \E from \in {"opening", "closing"} : Moves(s, from, "closed")
  /\ UNCHANGED serving

Next ==
  \E s \in Session :
    Open(s) \/ Serve(s) \/ StopServing(s) \/ Run(s) \/ Take(s) \/ Close(s)

Spec == Init /\ [][Next]_vars
=============================================================================
