----------------------------- MODULE LogParser -----------------------------
(***************************************************************************)
(* How tofv-core follows what openfortivpn prints (runner.rs, parse.rs).   *)
(*                                                                         *)
(* The child prints to two pipes.  Each has a reader thread that feeds     *)
(* every line to the shared ParseState and passes it on to the UI.  When   *)
(* the child has exited, try_wait joins both readers and classifies.  A    *)
(* line is only what parse.rs recognises in it.                            *)
(***************************************************************************)
EXTENDS Naturals, Sequences

CONSTANTS
  Window,       \* CERT_WINDOW
  PipeCap,      \* how many lines a pipe holds before the child blocks
  MaxLines      \* bound of the model: how many lines the child prints

ASSUME ParserAssumption ==
  /\ Window \in Nat \ {0}
  /\ PipeCap \in Nat \ {0}
  /\ MaxLines \in Nat

Stream == {"stdout", "stderr"}

\* "invalid": the validation of the gateway certificate failed.  "trusted": its
\* digest is in the white list.  "pin": a fingerprint.  "binary": not UTF-8.  A line that
\* would be several of these at once is left out.
Line == {"up", "auth", "invalid", "trusted", "pin", "other", "binary"}

VARIABLES
  child,        \* running, or how it exited: by itself or by a signal
  pipe,         \* printed and not yet read
  reader,       \* the reader threads
  window, needCert, up, authFailed, certFailed,    \* ParseState
  outcome,      \* what classify returned
  seen,         \* every line ingested, in that order
  printed,      \* how many lines the child printed
  firstFact     \* the first line printed that is not "other"

parse == <<window, needCert, up, authFailed, certFailed>>
vars  == <<child, pipe, reader, window, needCert, up, authFailed, certFailed, outcome,
           seen, printed, firstFact>>

TypeOK ==
  /\ child \in {"running", "exited", "interrupted"}
  /\ pipe \in [Stream -> Seq(Line)]
  /\ reader \in [Stream -> {"reading", "eof", "broken"}]
  /\ window \in Seq(Line) /\ Len(window) <= Window
  /\ needCert \in BOOLEAN /\ up \in BOOLEAN
  /\ authFailed \in BOOLEAN /\ certFailed \in BOOLEAN
  /\ outcome \in {"none", "NeedCert", "AuthFailed", "CertRejected", "ExitedAfterUp",
                  "Interrupted", "Failed"}
  /\ seen \in Seq(Line)
  /\ printed \in 0..MaxLines
  /\ firstFact \in Line

Init ==
  /\ child = "running"
  /\ pipe = [s \in Stream |-> <<>>]
  /\ reader = [s \in Stream |-> "reading"]
  /\ window = <<>> /\ needCert = FALSE /\ up = FALSE
  /\ authFailed = FALSE /\ certFailed = FALSE
  /\ outcome = "none"
  /\ seen = <<>> /\ printed = 0 /\ firstFact = "other"

Lines(h) == {h[i] : i \in DOMAIN h}

-----------------------------------------------------------------------------
(* The child *)

WriteLine(s, l) ==
  /\ child = "running"
  /\ printed < MaxLines
  /\ reader[s] = "reading" /\ Len(pipe[s]) < PipeCap
  /\ pipe' = [pipe EXCEPT ![s] = Append(@, l)]
  /\ printed' = printed + 1
  /\ firstFact' = IF firstFact = "other" THEN l ELSE firstFact
  /\ UNCHANGED <<child, reader, parse, outcome, seen>>

\* A write to a pipe nobody reads any more ends it.
BrokenPipe ==
  /\ child = "running"
  /\ \E s \in Stream : reader[s] = "broken"
  /\ child' = "exited"
  /\ UNCHANGED <<pipe, reader, parse, outcome, seen, printed, firstFact>>

Exit ==
  /\ child = "running"
  /\ child' \in {"exited", "interrupted"}
  /\ UNCHANGED <<pipe, reader, parse, outcome, seen, printed, firstFact>>

-----------------------------------------------------------------------------
(* The readers *)

\* parse_openfortivpn_output: a fingerprint, unless a line says that it is trusted
\* and none that the validation failed.
Unknown(w) ==
  /\ "pin" \in Lines(w)
  /\ "invalid" \in Lines(w) \/ "trusted" \notin Lines(w)

PushKeepsOld(w, l) ==      \* mutant: a full window takes no new line
  IF Len(w) = Window THEN w ELSE Append(w, l)

PushUnbounded(w, l) == Append(w, l)   \* mutant: the window grows with the log

Push(w, l) == Append(IF Len(w) = Window THEN Tail(w) ELSE w, l)

IngestAlways(l) ==         \* mutant: goes on looking for errors once up
  /\ up' = (up \/ l = "up")
  /\ authFailed' = (authFailed \/ l = "auth")
  /\ certFailed' = (certFailed \/ l = "invalid")
  /\ window' = Push(window, l)
  /\ needCert' = (needCert \/ Unknown(window'))

\* ParseState::ingest: after the tunnel came up a line changes nothing.
Ingest(l) ==
  \/ up /\ UNCHANGED parse
  \/ /\ ~up /\ l = "up"
     /\ up' = TRUE /\ window' = <<>>
     /\ UNCHANGED <<needCert, authFailed, certFailed>>
  \/ /\ ~up /\ l # "up"
     /\ authFailed' = (authFailed \/ l = "auth")
     /\ certFailed' = (certFailed \/ l = "invalid")
     /\ window' = Push(window, l)
     /\ needCert' = (needCert \/ Unknown(window'))
     /\ UNCHANGED up

ReadLineUntilUp(s) ==      \* mutant: the reader leaves when the tunnel is up
  /\ reader[s] = "reading" /\ pipe[s] # <<>> /\ ~up
  /\ LET l == Head(pipe[s]) IN
       /\ l # "binary" /\ Ingest(l) /\ seen' = Append(seen, l)
       /\ pipe' = [pipe EXCEPT ![s] = Tail(@)]
       /\ UNCHANGED reader
  /\ UNCHANGED <<child, outcome, printed, firstFact>>

\* A line that is not UTF-8 ends the thread, and closes the pipe.
ReadLine(s) ==
  /\ reader[s] = "reading"
  /\ pipe[s] # <<>>
  /\ LET l == Head(pipe[s]) IN
       \/ /\ l # "binary"
          /\ Ingest(l)
          /\ seen' = Append(seen, l)
          /\ pipe' = [pipe EXCEPT ![s] = Tail(@)]
          /\ UNCHANGED reader
       \/ /\ l = "binary"
          /\ reader' = [reader EXCEPT ![s] = "broken"]
          /\ pipe' = [pipe EXCEPT ![s] = <<>>]
          /\ UNCHANGED <<parse, seen>>
  /\ UNCHANGED <<child, outcome, printed, firstFact>>

ReadEof(s) ==
  /\ reader[s] = "reading"
  /\ child # "running"
  /\ pipe[s] = <<>>
  /\ reader' = [reader EXCEPT ![s] = "eof"]
  /\ UNCHANGED <<child, pipe, parse, outcome, seen, printed, firstFact>>

-----------------------------------------------------------------------------
(* try_wait *)

ClassifyAuthFirst ==       \* mutant: looks for a rejected code before a certificate
  IF authFailed THEN "AuthFailed"
  ELSE IF needCert THEN "NeedCert"
  ELSE IF certFailed THEN "CertRejected"
  ELSE IF up THEN "ExitedAfterUp"
  ELSE IF child = "interrupted" THEN "Interrupted" ELSE "Failed"

Classify ==
  CASE needCert                                        -> "NeedCert"
    [] ~needCert /\ authFailed                         -> "AuthFailed"
    [] ~needCert /\ ~authFailed /\ certFailed          -> "CertRejected"
    [] ~needCert /\ ~authFailed /\ ~certFailed /\ up   -> "ExitedAfterUp"
    [] OTHER -> IF child = "interrupted" THEN "Interrupted" ELSE "Failed"

TryWaitNoJoin ==           \* mutant: classifies without joining the readers
  /\ child # "running" /\ outcome = "none"
  /\ outcome' = Classify
  /\ UNCHANGED <<child, pipe, reader, parse, seen, printed, firstFact>>

TryWait ==
  /\ child # "running"
  /\ outcome = "none"
  /\ \A s \in Stream : reader[s] # "reading"
  /\ outcome' = Classify
  /\ UNCHANGED <<child, pipe, reader, parse, seen, printed, firstFact>>

-----------------------------------------------------------------------------
Reader(s) == ReadLine(s) \/ ReadEof(s)

Next ==
  \/ \E s \in Stream : Reader(s) \/ \E l \in Line : WriteLine(s, l)
  \/ BrokenPipe \/ Exit \/ TryWait

Spec == Init /\ [][Next]_vars

\* The threads are scheduled; the poller calls try_wait every 200 ms.
FairSpec ==
  Spec /\ WF_vars(TryWait) /\ \A s \in Stream : WF_vars(Reader(s))

-----------------------------------------------------------------------------
\* The lines that were read before the tunnel came up.
ConnectPhase ==
  {seen[i] : i \in {j \in DOMAIN seen : "up" \notin Lines(SubSeq(seen, 1, j))}}

\* The outcome is what the whole connect phase says, although ParseState remembers
\* Window lines only: a fingerprint is asked for exactly if one was printed (when no
\* line says that it is trusted), else a rejected code, else a rejected certificate
\* counts, and an error after the tunnel came up does not (runner.rs:60-98, 278-302).
OutcomeRight ==
  outcome # "none" =>
    /\ "trusted" \notin ConnectPhase =>
         (outcome = "NeedCert" <=> "pin" \in ConnectPhase)
    /\ outcome = "NeedCert" => "pin" \in ConnectPhase
    /\ outcome # "NeedCert" /\ "auth" \in ConnectPhase => outcome = "AuthFailed"
    /\ outcome = "AuthFailed" => "auth" \in ConnectPhase
    /\ outcome = "CertRejected" => {"auth", "invalid"} \cap ConnectPhase = {"invalid"}
    /\ outcome = "ExitedAfterUp" =>
         "up" \in Lines(seen) /\ {"auth", "invalid"} \cap ConnectPhase = {}
    /\ outcome \in {"Failed", "Interrupted"} =>
         {"up", "auth", "invalid"} \cap Lines(seen) = {}

\* A fingerprint that follows the validation error within the window is never missed,
\* also if the digest was said to be trusted before (runner.rs:46-48).
RotationFound ==
  outcome # "none" =>
    \A i, j \in DOMAIN seen :
      i < j /\ j - i < Window /\ seen[i] = "invalid" /\ seen[j] = "pin"
        /\ "up" \notin Lines(SubSeq(seen, 1, j)) => outcome = "NeedCert"

\* The outcome takes every line into account that was printed, unless a reader gave up
\* over one it could not decode (runner.rs:261-264).
NothingUnread ==
  outcome # "none" /\ (\A s \in Stream : reader[s] # "broken") => Len(seen) = printed

\* The child that exited is classified: no reader waits for ever, and none leaves a
\* pipe full (runner.rs:61-65, 199-214).
OutcomeComes == child # "running" ~> outcome # "none"

-----------------------------------------------------------------------------
(* Why it works *)

\* The flags say what the connect phase said.
FlagsKnow ==
  /\ up <=> "up" \in Lines(seen)
  /\ authFailed <=> "auth" \in ConnectPhase
  /\ certFailed <=> "invalid" \in ConnectPhase
  /\ needCert => "pin" \in ConnectPhase
  /\ "pin" \in ConnectPhase /\ "trusted" \notin ConnectPhase => needCert

\* Until the tunnel is up the window is the end of what was read.
WindowRemembers ==
  ~up =>
    /\ Len(window) = IF Len(seen) < Window THEN Len(seen) ELSE Window
    /\ \A k \in DOMAIN window : window[k] = seen[Len(seen) - Len(window) + k]

RotationKnown ==
  \A i, j \in DOMAIN seen :
    i < j /\ j - i < Window /\ seen[i] = "invalid" /\ seen[j] = "pin"
      /\ "up" \notin Lines(SubSeq(seen, 1, j)) => needCert

\* A line that was printed was read, or is in its pipe.
NothingLost ==
  /\ \A s \in Stream : reader[s] = "eof" => pipe[s] = <<>>
  /\ (\A s \in Stream : reader[s] # "broken") =>
       printed = Len(seen) + Len(pipe["stdout"]) + Len(pipe["stderr"])

\* Nothing is read after the outcome.
OutcomeStays ==
  outcome # "none" =>
    /\ outcome = Classify
    /\ child # "running" /\ \A s \in Stream : reader[s] # "reading"

\* The inductive invariant.
ParserInv ==
  TypeOK /\ FlagsKnow /\ WindowRemembers /\ RotationKnown /\ NothingLost /\ OutcomeStays

-----------------------------------------------------------------------------
(* What the sources say and the code does not keep *)

\* A session that came up and exited later is ExitedAfterUp (runner.rs:34: "Tunnel came
\* up; the process later exited").
UpThenExited ==
  outcome # "none" /\ firstFact = "up" => outcome = "ExitedAfterUp"

\* It takes two pipes: if all is printed to one of them, what is printed before the "up"
\* line is read before it.
OnlyPipe(s) == \A t \in Stream \ {s} : pipe[t] = <<>>

UpIsFirst(s) ==
  /\ firstFact = "other" => Lines(seen) \cup Lines(pipe[s]) \subseteq {"other"}
  /\ firstFact = "up" =>
       /\ ConnectPhase \subseteq {"other"}
       /\ \/ "up" \in Lines(seen)
          \/ /\ reader[s] # "broken"
             /\ \E i \in DOMAIN pipe[s] :
                  pipe[s][i] = "up" /\ \A j \in 1..(i - 1) : pipe[s][j] = "other"
=============================================================================
