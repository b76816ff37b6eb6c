------------------------- MODULE SessionController -------------------------
(***************************************************************************)
(* The connection controller of tofv-app (src-tauri/src/main.rs) together  *)
(* with the part of tofv-core it drives (runner.rs, pinentry_socket.rs).   *)
(*                                                                         *)
(* Four kinds of thread share AppState.  The main thread runs the Tauri    *)
(* commands one after the other.  Every accepted `connect', and every      *)
(* retry of a rejected certificate, starts a thread that runs              *)
(* start_session (an element of Attempt).  Every disconnect_cmd starts a   *)
(* thread that closes the session it took (an element of Disconnect).  One *)
(* poller looks at the session every 200 ms.  A handler is split into      *)
(* actions where it releases a lock or reads and later writes one, since   *)
(* the other threads run in between.                                       *)
(*                                                                         *)
(* What openfortivpn and pkexec do is not in the repository; it is         *)
(* modelled from what tofv-core and tofv-helper expect of them.            *)
(***************************************************************************)
EXTENDS Naturals, FiniteSets

CONSTANTS
  Attempt,        \* threads that run start_session, with the session they make
  Disconnect,     \* threads that disconnect_cmd starts
  Poller,         \* the poller thread
  NoOne,          \* None
  MaxConnects,    \* bound of the model: how many codes the user sends
  Pins,           \* bound of the model: has-a-pin values the user saves
  FallbackModal   \* TRUE: the code is asked by the panel's modal, not the window

ASSUME ThreadAssumption ==
  /\ IsFiniteSet(Attempt)
  /\ Attempt \cap Disconnect = {}
  /\ Poller \notin Attempt \cup Disconnect
  /\ NoOne \notin Attempt \cup Disconnect \cup {Poller}
  /\ MaxConnects \in Nat
  /\ Pins \subseteq BOOLEAN
  /\ FallbackModal \in BOOLEAN

VARIABLES
  status,         \* AppState.status
  prompt,         \* the form that asks for the code: hidden, open or busy
  lastError,      \* AppState.last_error, by origin
  needCert,       \* AppState.need_cert holds a fingerprint
  pendingOtp,     \* AppState.pending_otp holds a code
  certProbe,      \* AppState.cert_probe
  pinned,         \* the stored profile has a trusted_cert
  slot,           \* AppState.running
  lock,           \* the thread that keeps AppState.running locked across steps
  mainPc, startPc, discPc, pollPc,  \* where each thread is
  hold,           \* the RunningConnect a thread has taken and not yet dropped
  pollCur,        \* the status the poller read
  pollOut,        \* the outcome try_wait gave the poller
  skip,           \* start_session's skip_trusted_cert
  proc,           \* the elevated child of an attempt
  up,             \* ParseState.up
  server,         \* the pinentry server thread of an attempt
  sock,           \* whose socket is at pinentry.sock
  conf            \* whose config is at default.conf

ui      == <<status, prompt>>
notes   == <<lastError, needCert>>
retry   == <<pendingOtp, certProbe>>
running == <<slot, lock, hold>>
poll    == <<pollPc, pollCur, pollOut>>
child   == <<proc, up>>
paths   == <<sock, conf>>
memo    == <<notes, retry, pinned>>
world   == <<child, server, paths>>
vars    == <<status, prompt, lastError, needCert, pendingOtp, certProbe, pinned,
             slot, lock, mainPc, startPc, discPc, pollPc, hold, pollCur, pollOut,
             skip, proc, up, server, sock, conf>>

UiStatus == {"Idle", "Connecting", "Up", "Disconnecting", "NeedCert",
             "AuthFailed", "Error"}
Outcome  == {"NeedCert", "AuthFailed", "ExitedAfterUp", "CertRejected",
             "Failed", "Interrupted"}
Thread   == Attempt \cup Disconnect \cup {Poller}

Started  == {a \in Attempt : startPc[a] # "unused"}
Retries  == {a \in Started : skip[a]}
Connects == Started \ Retries
\* Children that probe_live_tunnel and find_session can see.
Live == {a \in Attempt : proc[a] \in {"vpn", "authed"}}

TypeOK ==
  /\ status \in UiStatus
  /\ prompt \in {"hidden", "open", "busy"}
  /\ lastError \in {"none", "start", "rejected", "exited"}
  /\ needCert \in BOOLEAN
  /\ pendingOtp \in BOOLEAN
  /\ certProbe \in BOOLEAN
  /\ pinned \in BOOLEAN
  /\ slot \in Attempt \cup {NoOne}
  /\ lock \in Attempt \cup {Poller, NoOne}
  /\ mainPc \in {"idle", "beginProbe", "connectProbe", "adopt", "accept", "reset",
                 "commit", "disconnect"}
  /\ startPc \in [Attempt -> {"unused", "keyring", "bind", "child", "unwind", "failed",
                              "store", "joinOld", "done"}]
  /\ discPc \in [Disconnect -> {"unused", "taken", "terminate", "drop", "join",
                                "kill", "emitIdle", "done"}]
  /\ pollPc \in {"sleep", "emitUp", "tryWait", "take", "join", "apply", "retry",
                 "retryNoCode",
                "emit", "setError", "status", "probe", "adopt", "gone"}
  /\ hold \in [Thread -> Attempt \cup {NoOne}]
  /\ pollCur \in UiStatus \cup {NoOne}
  /\ pollOut \in Outcome \cup {NoOne}
  /\ skip \in [Attempt -> BOOLEAN]
  /\ proc \in [Attempt -> {"none", "elevating", "starting", "vpn", "authed", "refused",
                        "exited"}]
  /\ up \in [Attempt -> BOOLEAN]
  /\ server \in [Attempt -> {"none", "serving", "gone"}]
  /\ sock \in Attempt \cup {NoOne}
  /\ conf \in Attempt \cup {NoOne}

Init ==
  /\ status = "Idle" /\ prompt = "hidden"
  /\ lastError = "none" /\ needCert = FALSE
  /\ pendingOtp = FALSE /\ certProbe = FALSE /\ pinned \in Pins
  /\ slot = NoOne /\ lock = NoOne
  /\ mainPc = "idle"
  /\ startPc = [a \in Attempt |-> "unused"]
  /\ discPc = [d \in Disconnect |-> "unused"]
  /\ pollPc = "sleep" /\ pollCur = NoOne /\ pollOut = NoOne
  /\ hold = [t \in Thread |-> NoOne]
  /\ skip = [a \in Attempt |-> FALSE]
  /\ proc = [a \in Attempt |-> "none"]
  /\ up = [a \in Attempt |-> FALSE]
  /\ server = [a \in Attempt |-> "none"]
  /\ sock = NoOne /\ conf = NoOne

-----------------------------------------------------------------------------
(* Shared steps *)

\* How the code form follows a `tofv://status' event (otp.ts, main.ts).
PromptAfter(s) ==
  IF FallbackModal
  THEN CASE s \in {"Up", "NeedCert"} -> "hidden"
         [] s = "AuthFailed"         -> "open"
         [] OTHER                    -> prompt
  ELSE CASE s = "AuthFailed"                    -> "open"
         [] s = "Connecting" /\ prompt = "open" -> "busy"
         [] s = "Error" /\ prompt = "busy"      -> "open"
         [] s \in {"Connecting", "Error"}       -> prompt
         [] OTHER                               -> "hidden"

EmitStatus(s) ==
  /\ status' = s
  /\ prompt' = PromptAfter(s)

\* RunningConnect::drop takes the socket path away and then waits for the
\* pinentry thread, which leaves when it finds the path gone; only then is the
\* config unlinked.  All sessions use the same paths.
DropBegin == sock' = NoOne

DropEndKeepsConfig(t) ==        \* mutant: the config stays on disk
  /\ server[hold[t]] = "gone"
  /\ hold' = [hold EXCEPT ![t] = NoOne]
  /\ UNCHANGED conf

DropEndNoJoin(t) ==             \* mutant: does not wait for the pinentry thread
  /\ hold' = [hold EXCEPT ![t] = NoOne]
  /\ conf' = NoOne

DropEnd(t) ==
  /\ server[hold[t]] = "gone"
  /\ hold' = [hold EXCEPT ![t] = NoOne]
  /\ conf' = NoOne

\* The helper's stop: it ends one of the tunnels it finds, or it finds none,
\* or polkit refuses.
Exits(a) ==
  /\ proc' = [proc EXCEPT ![a] = "exited"]
  /\ UNCHANGED up

HelperStop ==
  \/ \E a \in Live : Exits(a)
  \/ UNCHANGED child

\* The thread that is started next: one that was not yet, whichever it is.
IsNext(a) ==
  /\ startPc[a] = "unused"
  /\ a = CHOOSE b \in Attempt : startPc[b] = "unused"

-----------------------------------------------------------------------------
(* The main thread: Tauri commands and tray menu *)

BeginConnect ==
  /\ mainPc = "idle"
  /\ status \notin {"Up", "Connecting", "Disconnecting"}
  /\ mainPc' = "beginProbe"
  /\ UNCHANGED <<ui, memo, running, startPc, discPc, poll, skip, world>>

\* The prerequisites (doctor, profile, stored password) hold or they do not.
BeginProbe ==
  /\ mainPc = "beginProbe"
  /\ \/ /\ Live # {}
        /\ mainPc' = "adopt"
        /\ UNCHANGED prompt
     \/ /\ Live = {}
        /\ mainPc' = "idle"
        /\ prompt' \in {"open", prompt}
  /\ UNCHANGED <<status, memo, running, startPc, discPc, poll, skip, world>>

Connect ==
  /\ mainPc = "idle"
  /\ prompt = "open"
  /\ lock = NoOne
  /\ slot = NoOne
  /\ Cardinality(Connects) < MaxConnects
  /\ mainPc' = "connectProbe"
  /\ prompt' = IF FallbackModal THEN "open" ELSE "busy"
  /\ UNCHANGED <<status, memo, running, startPc, discPc, poll, skip, world>>

ConnectProbe ==
  /\ mainPc = "connectProbe"
  /\ mainPc' = IF Live = {} THEN "accept" ELSE "adopt"
  /\ UNCHANGED <<ui, memo, running, startPc, discPc, poll, skip, world>>

\* begin_connect and connect found a tunnel: they show it and return an error.
AdoptLive ==
  /\ mainPc = "adopt"
  /\ EmitStatus("Up")
  /\ mainPc' = "idle"
  /\ UNCHANGED <<memo, running, startPc, discPc, poll, skip, world>>

ConnectAccept ==
  /\ mainPc = "accept"
  /\ EmitStatus("Connecting")
  /\ mainPc' = "reset"
  /\ UNCHANGED <<memo, running, startPc, discPc, poll, skip, world>>

ConnectReset ==
  /\ mainPc = "reset"
  /\ lastError' = "none" /\ needCert' = FALSE
  /\ certProbe' = FALSE
  /\ mainPc' = "commit"
  /\ UNCHANGED <<ui, pendingOtp, pinned, running, startPc, discPc, poll, skip,
                 world>>

ConnectCommit(a) ==
  /\ mainPc = "commit"
  /\ IsNext(a)
  /\ pendingOtp' = TRUE
  /\ startPc' = [startPc EXCEPT ![a] = "keyring"]
  /\ mainPc' = "idle"
  /\ UNCHANGED <<ui, notes, certProbe, pinned, running, discPc, poll, skip, world>>

DisconnectTake(d) ==
  /\ mainPc = "idle"
  /\ lock = NoOne
  /\ discPc[d] = "unused"
  /\ hold' = [hold EXCEPT ![d] = slot]
  /\ slot' = NoOne
  /\ discPc' = [discPc EXCEPT ![d] = "taken"]
  /\ mainPc' = "disconnect"
  /\ UNCHANGED <<ui, memo, lock, startPc, poll, skip, world>>

DisconnectEmit(d) ==
  /\ mainPc = "disconnect"
  /\ discPc[d] = "taken"
  /\ EmitStatus("Disconnecting")
  /\ discPc' = [discPc EXCEPT ![d] = IF hold[d] = NoOne THEN "kill" ELSE "terminate"]
  /\ mainPc' = "idle"
  /\ UNCHANGED <<memo, running, startPc, poll, skip, world>>

TrustCert ==
  /\ mainPc = "idle"
  /\ needCert
  /\ pinned' = TRUE
  /\ needCert' = FALSE
  /\ UNCHANGED <<ui, lastError, retry, running, mainPc, startPc, discPc, poll,
                 skip, world>>

SaveProfile ==
  /\ mainPc = "idle"
  /\ pinned' \in Pins
  /\ UNCHANGED <<ui, notes, retry, running, mainPc, startPc, discPc, poll, skip,
                 world>>

-----------------------------------------------------------------------------
(* start_session and spawn_connect *)

\* No password in the keyring, unusable profile, no pkexec, no pinentry binary.
StartRefused(a) ==
  /\ startPc[a] = "keyring"
  /\ startPc' = [startPc EXCEPT ![a] = "failed"]
  /\ UNCHANGED <<ui, memo, running, mainPc, discPc, poll, skip, world>>

\* Writes the config and takes any earlier socket away.
CreateFiles(a) ==
  /\ startPc[a] = "keyring"
  /\ conf' = a
  /\ sock' = NoOne
  /\ startPc' = [startPc EXCEPT ![a] = "bind"]
  /\ UNCHANGED <<ui, memo, running, mainPc, discPc, poll, skip, child, server>>

BindSocket(a) ==
  /\ startPc[a] = "bind"
  /\ \/ /\ sock = NoOne
        /\ sock' = a
        /\ server' = [server EXCEPT ![a] = "serving"]
        /\ startPc' = [startPc EXCEPT ![a] = "child"]
        /\ UNCHANGED conf
     \/ /\ sock # NoOne
        /\ conf' = NoOne
        /\ startPc' = [startPc EXCEPT ![a] = "failed"]
        /\ UNCHANGED <<sock, server>>
  /\ UNCHANGED <<ui, memo, running, mainPc, discPc, poll, skip, child>>

SpawnChildLeaks(a) ==           \* mutant: a failed spawn forgets the bound socket
  /\ startPc[a] = "child"
  /\ \/ /\ proc' = [proc EXCEPT ![a] = "elevating"]
        /\ startPc' = [startPc EXCEPT ![a] = "store"]
     \/ /\ startPc' = [startPc EXCEPT ![a] = "failed"]
        /\ UNCHANGED proc
  /\ UNCHANGED <<ui, memo, running, mainPc, discPc, poll, skip, up, server,
                 paths>>

SpawnChild(a) ==
  /\ startPc[a] = "child"
  /\ \/ /\ proc' = [proc EXCEPT ![a] = "elevating"]
        /\ startPc' = [startPc EXCEPT ![a] = "store"]
        /\ UNCHANGED sock
     \/ /\ DropBegin
        /\ startPc' = [startPc EXCEPT ![a] = "unwind"]
        /\ UNCHANGED proc
  /\ UNCHANGED <<ui, memo, running, mainPc, discPc, poll, skip, up, server,
                 conf>>

SpawnUnwind(a) ==
  /\ startPc[a] = "unwind"
  /\ server[a] = "gone"
  /\ conf' = NoOne
  /\ startPc' = [startPc EXCEPT ![a] = "failed"]
  /\ UNCHANGED <<ui, memo, running, mainPc, discPc, poll, skip, child, server,
                 sock>>

StartFailedSilent(a) ==         \* mutant: the failure is not reported
  /\ startPc[a] = "failed"
  /\ startPc' = [startPc EXCEPT ![a] = "done"]
  /\ UNCHANGED <<ui, memo, running, mainPc, discPc, poll, skip, world>>

\* connect's thread keeps the reason, the retry thread of apply_outcome does not.
StartFailed(a) ==
  /\ startPc[a] = "failed"
  /\ lastError' = IF skip[a] THEN lastError ELSE "start"
  /\ EmitStatus("Error")
  /\ startPc' = [startPc EXCEPT ![a] = "done"]
  /\ UNCHANGED <<needCert, retry, pinned, running, mainPc, discPc, poll, skip,
                 world>>

\* `*slot = Some(running)' drops what the slot held while the lock is held.
StoreSession(a) ==
  /\ startPc[a] = "store"
  /\ lock = NoOne
  /\ slot' = a
  /\ \/ /\ slot = NoOne
        /\ startPc' = [startPc EXCEPT ![a] = "done"]
        /\ UNCHANGED <<lock, hold, sock>>
     \/ /\ slot # NoOne
        /\ lock' = a
        /\ hold' = [hold EXCEPT ![a] = slot]
        /\ DropBegin
        /\ startPc' = [startPc EXCEPT ![a] = "joinOld"]
  /\ UNCHANGED <<ui, memo, mainPc, discPc, poll, skip, child, server, conf>>

StoreJoinKeepsLock(a) ==        \* mutant: the lock is not given back after the drop
  /\ startPc[a] = "joinOld"
  /\ DropEnd(a)
  /\ startPc' = [startPc EXCEPT ![a] = "done"]
  /\ UNCHANGED <<ui, memo, slot, lock, mainPc, discPc, poll, skip, child, server,
                 sock>>

StoreJoin(a) ==
  /\ startPc[a] = "joinOld"
  /\ DropEnd(a)
  /\ lock' = NoOne
  /\ startPc' = [startPc EXCEPT ![a] = "done"]
  /\ UNCHANGED <<ui, memo, slot, mainPc, discPc, poll, skip, child, server, sock>>

-----------------------------------------------------------------------------
(* The thread disconnect_cmd starts *)

DiscTerminate(d) ==
  /\ discPc[d] = "terminate"
  /\ HelperStop
  /\ discPc' = [discPc EXCEPT ![d] = "drop"]
  /\ UNCHANGED <<ui, memo, running, mainPc, startPc, poll, skip, server, paths>>

DiscDrop(d) ==
  /\ discPc[d] = "drop"
  /\ DropBegin
  /\ discPc' = [discPc EXCEPT ![d] = "join"]
  /\ UNCHANGED <<ui, memo, running, mainPc, startPc, poll, skip, child, server,
                 conf>>

DiscJoin(d) ==
  /\ discPc[d] = "join"
  /\ DropEnd(d)
  /\ discPc' = [discPc EXCEPT ![d] = "kill"]
  /\ UNCHANGED <<ui, memo, slot, lock, mainPc, startPc, poll, skip, child, server,
                 sock>>

DiscKill(d) ==
  /\ discPc[d] = "kill"
  /\ HelperStop
  /\ discPc' = [discPc EXCEPT ![d] = "emitIdle"]
  /\ UNCHANGED <<ui, memo, running, mainPc, startPc, poll, skip, server, paths>>

DiscIdle(d) ==
  /\ discPc[d] = "emitIdle"
  /\ EmitStatus("Idle")
  /\ discPc' = [discPc EXCEPT ![d] = "done"]
  /\ UNCHANGED <<memo, running, mainPc, startPc, poll, skip, world>>

-----------------------------------------------------------------------------
(* poller and apply_outcome *)

PollLock ==
  /\ pollPc = "sleep"
  /\ lock = NoOne
  /\ \/ /\ slot # NoOne
        /\ lock' = Poller
        /\ pollPc' = IF up[slot] /\ status # "Up" THEN "emitUp" ELSE "tryWait"
     \/ /\ slot = NoOne
        /\ pollPc' = "status"
        /\ UNCHANGED lock
  /\ UNCHANGED <<ui, memo, slot, hold, mainPc, startPc, discPc, pollCur, pollOut,
                 skip, world>>

PollEmitUp ==
  /\ pollPc = "emitUp"
  /\ EmitStatus("Up")
  /\ pollPc' = "tryWait"
  /\ UNCHANGED <<memo, running, mainPc, startPc, discPc, pollCur, pollOut, skip,
                 world>>

ClassifyEarly(a) ==             \* mutant: reports an outcome before the child ended
  CASE proc[a] = "refused"           -> {"Failed", "AuthFailed"}
    [] proc[a] \in {"vpn", "exited"} -> Outcome
    [] OTHER                         -> {}

ClassifyMissesLoss(a) ==        \* mutant: the end of a tunnel that was up is no outcome
  CASE proc[a] = "refused"           -> {"Failed", "AuthFailed"}
    [] proc[a] = "exited" /\ ~up[a] -> Outcome \ {"ExitedAfterUp"}
    [] OTHER                         -> {}

\* What try_wait may report.  Of the lines ParseState looks for, a child that never
\* became openfortivpn can only print "permission denied".
Classify(a) ==
  CASE proc[a] = "refused"           -> {"Failed", "AuthFailed"}
    [] proc[a] = "exited" /\ up[a]  -> Outcome \ {"Failed", "Interrupted"}
    [] proc[a] = "exited" /\ ~up[a] -> Outcome \ {"ExitedAfterUp"}
    [] OTHER                         -> {}

PollTryWaitAlways ==            \* mutant: takes try_wait's None for an end
  /\ pollPc = "tryWait"
  /\ lock' = NoOne
  /\ pollOut' \in Classify(slot) \cup {"Interrupted"}
  /\ pollPc' = "take"
  /\ UNCHANGED <<ui, memo, slot, hold, mainPc, startPc, discPc, pollCur, skip,
                 world>>

PollTryWaitNoTake ==            \* mutant: retries a rejected pin with the slot not emptied
  /\ pollPc = "tryWait"
  /\ lock' = NoOne
  /\ \/ /\ pollOut' \in Classify(slot)
        /\ pollPc' = IF pollOut' = "CertRejected" THEN "apply" ELSE "take"
     \/ /\ Classify(slot) = {}
        /\ pollPc' = "sleep"
        /\ UNCHANGED pollOut
  /\ UNCHANGED <<ui, memo, slot, hold, mainPc, startPc, discPc, pollCur, skip,
                 world>>

PollTryWait ==
  /\ pollPc = "tryWait"
  /\ lock' = NoOne
  /\ \/ /\ pollOut' \in Classify(slot)
        /\ pollPc' = "take"
     \/ /\ Classify(slot) = {}
        /\ pollPc' = "sleep"
        /\ UNCHANGED pollOut
  /\ UNCHANGED <<ui, memo, slot, hold, mainPc, startPc, discPc, pollCur, skip,
                 world>>

\* The lock was given up in between: the slot may hold something else by now.
PollTake ==
  /\ pollPc = "take"
  /\ lock = NoOne
  /\ slot' = NoOne
  /\ \/ /\ slot = NoOne
        /\ pollPc' = "apply"
        /\ UNCHANGED <<lock, hold, sock>>
     \/ /\ slot # NoOne
        /\ lock' = Poller
        /\ hold' = [hold EXCEPT ![Poller] = slot]
        /\ DropBegin
        /\ pollPc' = "join"
  /\ UNCHANGED <<ui, memo, mainPc, startPc, discPc, pollCur, pollOut, skip, child,
                 server, conf>>

PollJoin ==
  /\ pollPc = "join"
  /\ DropEnd(Poller)
  /\ lock' = NoOne
  /\ pollPc' = "apply"
  /\ UNCHANGED <<ui, memo, slot, mainPc, startPc, discPc, pollCur, pollOut, skip,
                 child, server, sock>>

RetryWantedAgain == pollOut = "CertRejected" /\ pinned  \* mutant: forgets cert_probe

RetryWanted == pollOut = "CertRejected" /\ ~certProbe /\ pinned

ApplyOutcome ==
  /\ pollPc = "apply"
  /\ \/ /\ RetryWanted
        /\ \/ pendingOtp /\ pollPc' = "retry"
           \/ ~pendingOtp /\ pollPc' = "retryNoCode"
        /\ UNCHANGED <<pendingOtp, needCert, lastError>>
     \/ /\ ~RetryWanted
        /\ pollPc' = "emit"
        /\ pendingOtp' = FALSE
        /\ needCert' = (needCert \/ pollOut = "NeedCert")
        /\ lastError' = IF pollOut = "AuthFailed" THEN "rejected" ELSE lastError
  /\ UNCHANGED <<ui, certProbe, pinned, running, mainPc, startPc, discPc, pollCur,
                 pollOut, skip, world>>

\* One retry without the pin, with the code the last connect stored.
RetryUnpinned ==
  /\ pollPc = "retry"
  /\ certProbe' = TRUE
  /\ EmitStatus("Connecting")
  /\ \E a \in Attempt :
       /\ IsNext(a)
       /\ startPc' = [startPc EXCEPT ![a] = "keyring"]
       /\ skip' = [skip EXCEPT ![a] = TRUE]
  /\ pollPc' = "sleep" /\ pollOut' = NoOne
  /\ UNCHANGED <<notes, pendingOtp, pinned, running, mainPc, discPc, pollCur,
                 world>>

RetryWithoutCode ==
  /\ pollPc = "retryNoCode"
  /\ certProbe' = TRUE /\ pendingOtp' = FALSE
  /\ pollPc' = "emit"
  /\ UNCHANGED <<ui, notes, pinned, running, mainPc, startPc, discPc,
                 pollCur, pollOut, skip, world>>

StatusOfRaw(o) ==               \* mutant: an unmapped outcome reaches the UI
  CASE o \in {"NeedCert", "AuthFailed", "Failed"} -> o
    [] o \in {"ExitedAfterUp", "Interrupted"}     -> "Idle"
    [] OTHER                                      -> "Error"

StatusOf(o) ==
  CASE o = "NeedCert"                         -> "NeedCert"
    [] o = "AuthFailed"                       -> "AuthFailed"
    [] o \in {"ExitedAfterUp", "Interrupted"} -> "Idle"
    [] OTHER                                  -> "Error"

OutcomeEmit ==
  /\ pollPc = "emit"
  /\ EmitStatus(StatusOf(pollOut))
  /\ pollPc' = IF pollOut = "Failed" THEN "setError" ELSE "sleep"
  /\ pollOut' = NoOne
  /\ UNCHANGED <<memo, running, mainPc, startPc, discPc, pollCur, skip, world>>

OutcomeError ==
  /\ pollPc = "setError"
  /\ lastError' = "exited"
  /\ pollPc' = "sleep"
  /\ UNCHANGED <<ui, needCert, retry, pinned, running, mainPc, startPc, discPc,
                 pollCur, pollOut, skip, world>>

PollStatusAny ==                \* mutant: probes whatever the status is
  /\ pollPc = "status"
  /\ pollCur' = status
  /\ pollPc' = "probe"
  /\ UNCHANGED <<ui, memo, running, mainPc, startPc, discPc, pollOut, skip,
                 world>>

\* With no session in the slot the poller looks for a tunnel nobody owns.
PollStatus ==
  /\ pollPc = "status"
  /\ \/ /\ status \in {"Connecting", "Disconnecting", "NeedCert", "AuthFailed"}
        /\ pollPc' = "sleep"
        /\ UNCHANGED pollCur
     \/ /\ status \in {"Idle", "Up", "Error"}
        /\ pollCur' = status
        /\ pollPc' = "probe"
  /\ UNCHANGED <<ui, memo, running, mainPc, startPc, discPc, pollOut, skip,
                 world>>

PollProbe ==
  /\ pollPc = "probe"
  /\ pollPc' = IF Live # {} /\ pollCur # "Up" THEN "adopt"
               ELSE IF Live = {} /\ pollCur = "Up" THEN "gone"
               ELSE "sleep"
  /\ pollCur' = NoOne
  /\ UNCHANGED <<ui, memo, running, mainPc, startPc, discPc, pollOut, skip,
                 world>>

PollReport ==
  /\ \/ pollPc = "adopt" /\ EmitStatus("Up")
     \/ pollPc = "gone" /\ EmitStatus("Idle")
  /\ pollPc' = "sleep"
  /\ UNCHANGED <<memo, running, mainPc, startPc, discPc, pollCur, pollOut, skip,
                 world>>

-----------------------------------------------------------------------------
(* The pinentry threads, and the elevated child as the code sees it *)

ServerExit(a) ==
  /\ server[a] = "serving"
  /\ sock = NoOne
  /\ server' = [server EXCEPT ![a] = "gone"]
  /\ UNCHANGED <<ui, memo, running, mainPc, startPc, discPc, poll, skip, child,
                 paths>>

Advance(a, from, to) ==
  /\ proc[a] = from
  /\ proc' = [proc EXCEPT ![a] = to]
  /\ UNCHANGED up

\* tofv-helper start: reads whatever config is at the path, refuses a second tunnel.
HelperStart(a) == conf # NoOne /\ Live = {} /\ Advance(a, "elevating", "starting")
HelperRefuses(a) == \E p \in {"elevating", "starting"} : Advance(a, p, "refused")
HelperExec(a) == Advance(a, "starting", "vpn")

\* pinentry-tofv asks the socket; as root it cannot ask the keyring instead.
VpnAuth(a) == sock # NoOne /\ Advance(a, "vpn", "authed")

VpnUp(a) ==
  /\ proc[a] = "authed"
  /\ ~up[a]
  /\ up' = [up EXCEPT ![a] = TRUE]
  /\ UNCHANGED proc

VpnExit(a) == a \in Live /\ Exits(a)

ChildOnly == UNCHANGED <<ui, memo, running, mainPc, startPc, discPc, poll,
                         skip, server, paths>>

\* Polkit answers, and openfortivpn connects or gives up; once up it may stay up.
ChildConnects(a) ==
  /\ \/ HelperStart(a) \/ HelperRefuses(a) \/ HelperExec(a)
     \/ VpnAuth(a) \/ VpnUp(a) \/ (~up[a] /\ VpnExit(a))
  /\ ChildOnly

TunnelEnds(a) == up[a] /\ VpnExit(a) /\ ChildOnly

-----------------------------------------------------------------------------
MainStep ==
  \/ BeginProbe \/ ConnectProbe \/ AdoptLive \/ ConnectAccept \/ ConnectReset
  \/ \E a \in Attempt : ConnectCommit(a)
  \/ \E d \in Disconnect : DisconnectEmit(d)

User ==
  \/ BeginConnect \/ Connect \/ TrustCert \/ SaveProfile
  \/ \E d \in Disconnect : DisconnectTake(d)

StartStep(a) ==
  \/ StartRefused(a) \/ CreateFiles(a) \/ BindSocket(a) \/ SpawnChild(a)
  \/ SpawnUnwind(a) \/ StartFailed(a) \/ StoreJoin(a)

DiscStep(d) ==
  \/ DiscTerminate(d) \/ DiscDrop(d) \/ DiscJoin(d) \/ DiscKill(d) \/ DiscIdle(d)

PollStep ==
  \/ PollLock \/ PollEmitUp \/ PollTryWait \/ PollTake \/ PollJoin
  \/ ApplyOutcome \/ RetryUnpinned \/ RetryWithoutCode \/ OutcomeEmit \/ OutcomeError
  \/ PollStatus \/ PollProbe \/ PollReport

Next ==
  \/ User \/ MainStep \/ PollStep
  \/ \E a \in Attempt : \/ StartStep(a) \/ StoreSession(a) \/ ServerExit(a)
                        \/ ChildConnects(a) \/ TunnelEnds(a)
  \/ \E d \in Disconnect : DiscStep(d)

Spec == Init /\ [][Next]_vars

\* Every thread is scheduled; a thread that waits for the lock gets it, since the
\* poller leaves it free for 200 ms in every round; the elevated child answers.
Fairness ==
  /\ WF_vars(MainStep) /\ WF_vars(PollStep)
  /\ \A a \in Attempt : /\ WF_vars(StartStep(a)) /\ SF_vars(StoreSession(a))
                        /\ WF_vars(ServerExit(a)) /\ WF_vars(ChildConnects(a))
  /\ \A d \in Disconnect : WF_vars(DiscStep(d))

FairSpec == Spec /\ Fairness

-----------------------------------------------------------------------------
(* Safety *)

\* A pinentry thread that still serves the password belongs to a session somebody
\* is going to drop: no path through the handlers forgets one (runner.rs:305-317).
ServerHasOwner ==
  \A a \in Attempt :
    server[a] = "serving" => \/ startPc[a] \in {"child", "unwind", "store"}
                             \/ slot = a
                             \/ \E t \in Thread : hold[t] = a

\* However outcomes, connects and cancels interleave, the app never makes more
\* unpinned retries than it accepted codes: a rejected pin cannot make it
\* reconnect for ever (cert_probe, main.rs:473, 671-701).
Accepted == Cardinality(Connects) + IF mainPc = "commit" THEN 1 ELSE 0

RetriesBounded == Cardinality(Retries) <= Accepted

\* A request for the user, to trust a certificate or to type a new code, is never
\* overwritten by what the poller finds out about tunnels nobody owns: between
\* reading the status and reporting, no such request appears (main.rs:778-816).
RequestsStay ==
  pollPc \in {"probe", "adopt", "gone"} => status \notin {"NeedCert", "AuthFailed"}

ThreadHolds(a) == \E t \in Thread : hold[t] = a

\* Where a session is, for whoever only cares for that.
LifeOf(a) ==
  IF startPc[a] = "unused" THEN "none"
  ELSE IF startPc[a] \notin {"joinOld", "done"} THEN "opening"
  ELSE IF slot = a THEN "running"
  ELSE IF ThreadHolds(a) THEN "closing" ELSE "closed"

Serving == {a \in Attempt : server[a] = "serving"}

Life == INSTANCE SessionLife
          WITH Session <- Attempt, life <- [a \in Attempt |-> LifeOf(a)],
               serving <- Serving

\* The controller implements SessionLife: a session is closed once, never comes back,
\* and when it is closed its pinentry thread has ended (main.rs:540-544, 562-584,
\* 762-770; runner.rs:305-317).
SessionsFollowLife == Life!Spec

-----------------------------------------------------------------------------
(* What makes these inductive *)

\* A session is in one place: with the start that made it, in the slot, or with the
\* thread that took it out of the slot.
OneOwner ==
  \A a \in Attempt :
    /\ slot = a \/ ThreadHolds(a) => startPc[a] \in {"joinOld", "done"}
    /\ slot = a => ~ThreadHolds(a)
    /\ \A t, u \in Thread : hold[t] = a /\ hold[u] = a => t = u

\* The poller keeps the lock while it looks into the slot.
PollerHoldsSlot ==
  pollPc \in {"emitUp", "tryWait"} => lock = Poller /\ slot # NoOne

\* The lock is held across steps exactly while a drop waits under it or the poller
\* looks into the slot, and a thread holds a session exactly until it dropped it.
LocksAndHolds ==
  /\ lock = Poller <=> pollPc \in {"emitUp", "tryWait", "join"}
  /\ \A a \in Attempt : lock = a <=> startPc[a] = "joinOld"
  /\ hold[Poller] # NoOne <=> pollPc = "join"
  /\ \A a \in Attempt : hold[a] # NoOne <=> startPc[a] = "joinOld"
  /\ \A d \in Disconnect :
       /\ discPc[d] \in {"terminate", "drop", "join"} => hold[d] # NoOne
       /\ hold[d] # NoOne => discPc[d] \in {"taken", "terminate", "drop", "join"}

ServersStartBound ==
  \A a \in Attempt : startPc[a] \in {"unused", "keyring", "bind"} => server[a] = "none"

\* cert_probe is clear only if an accepted code still has its retry, and an outcome
\* is only at hand when a session was started.
RetryLeft ==
  /\ pollPc = "retry" \/ (~certProbe /\ Accepted # 0) => Cardinality(Retries) < Accepted
  /\ slot # NoOne \/ pollPc \in {"take", "join", "apply"} => Started # {}
  /\ \A a \in Attempt : skip[a] => startPc[a] # "unused"

\* So far the user sent at most one code.
OneCode ==
  /\ \A a, b \in Connects : a = b
  /\ mainPc = "commit" => Connects = {}

\* So far the user cancelled nothing.
NoCancel == \A d \in Disconnect : discPc[d] = "unused"

HasChild(a) == proc[a] \in {"elevating", "starting", "vpn", "authed"}

\* On its way to a child, or with a child that has not ended.
Busy(a) ==
  \/ startPc[a] \in {"keyring", "bind", "child", "unwind", "failed", "store"}
  \/ HasChild(a)

\* A child is there once its start has spawned it, and not before.
ChildAfterStart ==
  \A a \in Attempt :
    /\ startPc[a] \in {"unused", "keyring", "bind", "child", "unwind", "failed"}
         => proc[a] = "none"
    /\ startPc[a] = "store" \/ slot = a => proc[a] # "none"

\* With one code at most one attempt is busy, and the slot has no other; the retry is
\* not made while one is, or while the slot still has a session.
OneBusy ==
  OneCode =>
    /\ \A a, b \in Attempt : Busy(a) /\ Busy(b) => a = b
    /\ slot # NoOne => \A a \in Attempt : Busy(a) => a = slot
    /\ pollPc \in {"take", "join", "apply", "retry", "retryNoCode"}
         => Connects # {} /\ \A a \in Attempt : ~Busy(a)
    /\ pollPc \in {"join", "apply", "retry", "retryNoCode"} => slot = NoOne
    /\ Started # {} => Connects # {}

\* A session is made with its pinentry thread, so that whoever drops it has one to
\* wait for.
SessionsServed ==
  \A a \in Attempt :
    startPc[a] \in {"child", "unwind", "store"} \/ slot = a \/ ThreadHolds(a)
      => server[a] # "none"

\* The pinentry thread has ended, or is about to find its socket gone.
ServerLeaves(a) == server[a] = "gone" \/ (server[a] = "serving" /\ sock = NoOne)

\* With one code that nobody cancels no session is dropped by storing the next, and a
\* pinentry thread that the poller, under the lock, or a failed spawn waits for is one
\* that leaves.
WaitsEnd ==
  OneCode /\ NoCancel =>
    /\ pollPc = "join" => ServerLeaves(hold[Poller])
    /\ \A a \in Attempt : startPc[a] # "joinOld"
    /\ \A a \in Attempt : startPc[a] = "unwind" => ServerLeaves(a)

\* And a start and its child find at the common paths what they have put there.
FilesHeld ==
  OneCode /\ NoCancel =>
    \A a \in Attempt :
      /\ startPc[a] = "bind" => conf = a
      /\ startPc[a] \in {"child", "store"} \/ HasChild(a) => sock = a /\ conf = a

IInv ==
  /\ TypeOK /\ LocksAndHolds /\ PollerHoldsSlot /\ OneOwner /\ ServersStartBound
  /\ ServerHasOwner /\ RetryLeft /\ RetriesBounded /\ RequestsStay
  /\ ChildAfterStart /\ OneBusy /\ SessionsServed /\ WaitsEnd /\ FilesHeld

-----------------------------------------------------------------------------
(* One code, which is sent once more when the pin is rejected, and which may be
   cancelled at any time *)

\* No start is under way while a child of another one, or of its own, is.
OneSession ==
  \A a, b \in Attempt : ~(HasChild(a) /\ startPc[b] \in {"keyring", "bind", "child"})

\* The poller gives the lock up between try_wait and take.  Disconnect may empty the slot
\* in between, and the start of a retry may fill it: what the poller takes out is a
\* session whose child has ended all the same, since the retry is started only when the
\* slot was emptied (main.rs:562-565, 671-701, 763-768).
PollTakesEnded ==
  [][pollPc = "take" /\ slot # NoOne /\ slot' = NoOne
       => proc[slot] \in {"refused", "exited"}]_vars

\* Unless it was cancelled, a session has the socket and the config at the common paths
\* as long as its child lives: whatever was dropped before the retry, by the poller or
\* by a start that failed, was dropped completely (main.rs:671-701, 764-768;
\* runner.rs:137-152, 305-317).
FilesStay ==
  OneCode /\ NoCancel =>
    \A a \in Attempt : HasChild(a) => sock = a /\ conf = a

\* The app does not stay in Connecting or Disconnecting (main.rs:463-486, 566-588).
Settles == status \in {"Connecting", "Disconnecting"}
             ~> status \notin {"Connecting", "Disconnecting"}

\* A tunnel that went away is noticed (main.rs:758-770, 811-816).
LossNoticed == status = "Up" /\ Live = {} ~> status # "Up" \/ Live # {}

\* Once its child has ended, the config with the one-time code is unlinked
\* (session.rs:78-82).
CodeUnlinked ==
  \A a \in Attempt : conf = a /\ proc[a] \in {"refused", "exited"} ~> conf # a

-----------------------------------------------------------------------------
(* What the sources say and overlapping sessions break *)

\* The AppState.running lock is always given back (runner.rs:307: "a blocking wait
\* freezes the GUI").
LockGivenBack == lock # NoOne ~> lock = NoOne

\* A start that was under way when the user cancelled does not go on to spawn its
\* child after "tofv: session closed" and Idle were reported (main.rs:586-588).
ClosedStaysClosed ==
  \A d \in Disconnect, a \in Attempt :
    [](discPc[d] = "taken" /\ startPc[a] # "unused"
         => [](discPc[d] = "done" /\ proc[a] = "none" => [](proc[a] = "none")))
=============================================================================
