----------------------------- MODULE VpnHelper -----------------------------
(***************************************************************************)
(* The privileged helper (crates/tofv-helper/src/main.rs) and the search   *)
(* for a running tunnel it shares with the app (crates/tofv-scan).         *)
(*                                                                         *)
(* Every `tofv-helper start` is a process that turns into openfortivpn by  *)
(* exec, so an element of Start is both the invocation and the pid.  Every *)
(* `tofv-helper stop` is an element of Stop.  They run at the same time    *)
(* without any lock and meet in /proc and in two files of /run/tofv/<uid>: *)
(* vpn.pid and session.conf, the copy of the config with the code.         *)
(*                                                                         *)
(* The parent of a start is tofv-app, which reaps the process when it      *)
(* looks, unless it dropped the session first (runner.rs:305-312).         *)
(***************************************************************************)
EXTENDS FiniteSets, Naturals

CONSTANTS
  Start,        \* invocations of `tofv-helper start', and the pids they run under
  Stop,         \* invocations of `tofv-helper stop'
  NoPid         \* no process, no file

ASSUME HelperAssumption == NoPid \notin Start

VARIABLES
  startPc,      \* where each start is; "exec" once the program is openfortivpn
  proc,         \* what /proc says of a pid
  dropped,      \* the app dropped the session without reaping this child
  confOf,       \* whose session.conf the openfortivpn read
  stopPc,       \* where each stop is
  target,       \* the pid a stop found
  pidFile,      \* the pid in vpn.pid
  confFile,     \* who wrote session.conf
  checked       \* the tunnels that were running when a start looked for one

starting == <<startPc, checked>>
stopping == <<stopPc, target>>
files    == <<pidFile, confFile>>
vars     == <<startPc, proc, dropped, confOf, stopPc, target, pidFile, confFile, checked>>

\* "helper": still tofv-helper.  "vpn": our openfortivpn.  "closing": it got a
\* signal.  "failed" and "zombie": tofv-helper and openfortivpn exited, not reaped.
ProcState == {"none", "helper", "failed", "vpn", "closing", "zombie", "gone"}

TypeOK ==
  /\ startPc \in [Start -> {"check", "find", "rmConf", "mkConf", "rmPid", "mkPid",
                            "exec", "failed"}]
  /\ proc \in [Start -> ProcState]
  /\ dropped \in [Start -> BOOLEAN]
  /\ confOf \in [Start -> Start \cup {NoPid}]
  /\ stopPc \in [Stop -> {"find", "int", "wait", "kill", "wipe", "stopped",
                          "noSession"}]
  /\ target \in [Stop -> Start \cup {NoPid}]
  /\ pidFile \in Start \cup {NoPid}
  /\ confFile \in Start \cup {NoPid}
  /\ checked \in [Start -> SUBSET Start]

Init ==
  /\ startPc = [s \in Start |-> "check"]
  /\ proc = [s \in Start |-> "none"]
  /\ dropped = [s \in Start |-> FALSE]
  /\ confOf = [s \in Start |-> NoPid]
  /\ stopPc = [k \in Stop |-> "find"]
  /\ target = [k \in Stop |-> NoPid]
  /\ pidFile = NoPid /\ confFile = NoPid
  /\ checked = [s \in Start |-> {}]

-----------------------------------------------------------------------------
(* tofv-scan *)

Tunnel  == {s \in Start : proc[s] \in {"vpn", "closing"}}

\* The comm of a zombie is still there, its argv is not.
CommIsOpenfortivpn(p) == proc[p] \in {"vpn", "closing", "zombie"}
ScanProc == Tunnel

FindSessionByFile ==          \* mutant: trusts the pid file alone
  IF pidFile # NoPid /\ CommIsOpenfortivpn(pidFile) THEN {pidFile} ELSE {}

\* What find_session may return; none is the empty set.
FindSession ==
  IF pidFile # NoPid /\ CommIsOpenfortivpn(pidFile) THEN {pidFile} ELSE ScanProc

-----------------------------------------------------------------------------
(* start *)

Goto(s, pc) == startPc' = [startPc EXCEPT ![s] = pc]

\* A start that fails exits, and the app reaps it as it reaps openfortivpn.
Fail(s) ==
  /\ Goto(s, "failed")
  /\ proc' = [proc EXCEPT ![s] = "failed"]

\* The config is read and validated, or refused.
CheckConfig(s) ==
  /\ startPc[s] = "check"
  /\ proc[s] = "none"
  /\ \/ Goto(s, "find") /\ proc' = [proc EXCEPT ![s] = "helper"]
     \/ Fail(s)
  /\ UNCHANGED <<dropped, confOf, checked, stopping, files>>

LookForSessionGoesOn(s) ==    \* mutant: starts next to a tunnel it found
  /\ startPc[s] = "find"
  /\ checked' = [checked EXCEPT ![s] = Tunnel]
  /\ Goto(s, "rmConf")
  /\ UNCHANGED <<proc, dropped, confOf, stopping, files>>

LookForSession(s) ==
  /\ startPc[s] = "find"
  /\ checked' = [checked EXCEPT ![s] = Tunnel]
  /\ \/ FindSession = {} /\ Goto(s, "rmConf") /\ UNCHANGED proc
     \/ FindSession # {} /\ Fail(s)
  /\ UNCHANGED <<dropped, confOf, stopping, files>>

\* write_root_file removes the file and creates it anew; it fails when another
\* start has created it in between.  Before that, a program is missing or the
\* pinentry wrapper, written in the same way, fails.
RemoveConf(s) ==
  /\ startPc[s] = "rmConf"
  /\ \/ confFile' = NoPid /\ Goto(s, "mkConf") /\ UNCHANGED proc
     \/ Fail(s) /\ UNCHANGED confFile
  /\ UNCHANGED <<dropped, confOf, checked, stopping, pidFile>>

CreateConf(s) ==
  /\ startPc[s] = "mkConf"
  /\ \/ confFile = NoPid /\ confFile' = s /\ Goto(s, "rmPid") /\ UNCHANGED proc
     \/ confFile # NoPid /\ Fail(s) /\ UNCHANGED confFile
  /\ UNCHANGED <<dropped, confOf, checked, stopping, pidFile>>

RemovePid(s) ==
  /\ startPc[s] = "rmPid"
  /\ pidFile' = NoPid
  /\ Goto(s, "mkPid")
  /\ UNCHANGED <<proc, dropped, confOf, checked, stopping, confFile>>

CreatePid(s) ==
  /\ startPc[s] = "mkPid"
  /\ \/ pidFile = NoPid /\ pidFile' = s /\ Goto(s, "exec") /\ UNCHANGED proc
     \/ pidFile # NoPid /\ Fail(s) /\ UNCHANGED pidFile
  /\ UNCHANGED <<dropped, confOf, checked, stopping, confFile>>

Exec(s) ==
  /\ startPc[s] = "exec"
  /\ proc[s] = "helper"
  /\ \/ proc' = [proc EXCEPT ![s] = "vpn"] /\ UNCHANGED startPc
     \/ Fail(s)
  /\ UNCHANGED <<dropped, confOf, checked, stopping, files>>

-----------------------------------------------------------------------------
(* openfortivpn, and the app as its parent *)

\* Reads session.conf, which a stop may have wiped.
ReadConf(s) ==
  /\ proc[s] = "vpn"
  /\ confOf[s] = NoPid
  /\ \/ confFile # NoPid /\ confOf' = [confOf EXCEPT ![s] = confFile] /\ UNCHANGED proc
     \/ confFile = NoPid /\ proc' = [proc EXCEPT ![s] = "zombie"] /\ UNCHANGED confOf
  /\ UNCHANGED <<starting, dropped, stopping, files>>

\* It gives up, loses the tunnel, or obeys the signal it got.
VpnExits(s) ==
  /\ proc[s] \in {"vpn", "closing"}
  /\ proc' = [proc EXCEPT ![s] = "zombie"]
  /\ UNCHANGED <<starting, dropped, confOf, stopping, files>>

Reap(s) ==
  /\ proc[s] \in {"failed", "zombie"}
  /\ ~dropped[s]
  /\ proc' = [proc EXCEPT ![s] = "gone"]
  /\ UNCHANGED <<starting, dropped, confOf, stopping, files>>

\* RunningConnect::drop tries to reap once and never waits.
Drop(s) ==
  /\ proc[s] \in {"helper", "vpn", "closing"}
  /\ dropped' = [dropped EXCEPT ![s] = TRUE]
  /\ UNCHANGED <<starting, proc, confOf, stopping, files>>

-----------------------------------------------------------------------------
(* stop *)

Then(k, pc) == stopPc' = [stopPc EXCEPT ![k] = pc]

StopFind(k) ==
  /\ stopPc[k] = "find"
  /\ \/ /\ FindSession = {}
        /\ confFile' = NoPid
        /\ Then(k, "noSession")
        /\ UNCHANGED target
     \/ /\ \E p \in FindSession : target' = [target EXCEPT ![k] = p]
        /\ Then(k, "int")
        /\ UNCHANGED confFile
  /\ UNCHANGED <<starting, proc, dropped, confOf, pidFile>>

\* A signal reaches whatever runs under the pid; a zombie ignores it.
Interrupt(k) ==
  /\ stopPc[k] = "int"
  /\ proc' = IF proc[target[k]] = "vpn"
             THEN [proc EXCEPT ![target[k]] = "closing"] ELSE proc
  /\ Then(k, "wait")
  /\ UNCHANGED <<starting, dropped, confOf, target, files>>

StopWaitTimesOut(k) ==        \* mutant: reports a timeout instead of killing
  /\ stopPc[k] = "wait"
  /\ \/ proc[target[k]] = "gone" /\ Then(k, "wipe")
     \/ proc[target[k]] # "gone" /\ Then(k, "timedOut")
  /\ UNCHANGED <<starting, proc, dropped, confOf, target, files>>

\* Twenty looks at /proc/<pid>, 100 ms apart.
StopWait(k) ==
  /\ stopPc[k] = "wait"
  /\ \/ proc[target[k]] = "gone" /\ Then(k, "wipe")
     \/ proc[target[k]] # "gone" /\ Then(k, "kill")
  /\ UNCHANGED <<starting, proc, dropped, confOf, target, files>>

StopKillNever(k) ==           \* mutant: gives up after SIGINT
  /\ stopPc[k] = "kill"
  /\ Then(k, "wipe")
  /\ UNCHANGED <<starting, proc, dropped, confOf, target, files>>

\* SIGTERM, then SIGKILL 300 ms later.
StopKill(k) ==
  /\ stopPc[k] = "kill"
  /\ proc' = IF target[k] \in Tunnel
             THEN [proc EXCEPT ![target[k]] = "zombie"] ELSE proc
  /\ Then(k, "wipe")
  /\ UNCHANGED <<starting, dropped, confOf, target, files>>

WipeSessionFilesNotConf(k) == \* mutant: leaves the code on disk
  /\ stopPc[k] = "wipe"
  /\ pidFile' = NoPid
  /\ Then(k, "stopped")
  /\ UNCHANGED <<starting, proc, dropped, confOf, target, confFile>>

WipeSessionFiles(k) ==
  /\ stopPc[k] = "wipe"
  /\ pidFile' = NoPid /\ confFile' = NoPid
  /\ Then(k, "stopped")
  /\ UNCHANGED <<starting, proc, dropped, confOf, target>>

-----------------------------------------------------------------------------
StartStep(s) ==
  \/ CheckConfig(s) \/ LookForSession(s) \/ RemoveConf(s) \/ CreateConf(s)
  \/ RemovePid(s) \/ CreatePid(s) \/ Exec(s) \/ ReadConf(s)

StopStep(k) ==
  \/ StopFind(k) \/ Interrupt(k) \/ StopWait(k) \/ StopKill(k) \/ WipeSessionFiles(k)

Next ==
  \/ \E s \in Start : StartStep(s) \/ VpnExits(s) \/ Reap(s) \/ Drop(s)
  \/ \E k \in Stop : StopStep(k)

Spec == Init /\ [][Next]_vars

\* Every process is scheduled, and the app looks at its children again and again.
FairSpec ==
  /\ Spec
  /\ \A s \in Start : WF_vars(StartStep(s)) /\ WF_vars(Reap(s))
  /\ \A k \in Stop : WF_vars(StopStep(k))

-----------------------------------------------------------------------------
\* A start that finds a tunnel running is no threat to it: it does not become a
\* second tunnel, and neither the config that tunnel reads nor the pid file is its
\* own, whatever other starts and stops do to the files (main.rs:69-73, 83-90).
SeenTunnelIsSafe ==
  \A s, t \in Start :
    s # t /\ s \in checked[t] =>
      t \notin Tunnel /\ t \notin {confOf[s], confFile, pidFile}

\* A stop that reports success has ended the openfortivpn it found, also one that
\* ignores SIGINT (main.rs:113-131).
StoppedIsDown ==
  \A k \in Stop : stopPc[k] \in {"wipe", "stopped"} => target[k] \notin Tunnel

\* It has also taken away the copy of the code and the pid file of that session, and
\* no other start or stop puts them back (main.rs:118, 130, 134-137).
StopCleansUp ==
  \A k \in Stop : stopPc[k] = "stopped" => target[k] \notin {confFile, pidFile}

(* What makes these inductive *)

\* Where a start is tells what runs under its pid.
StagesAgree ==
  /\ \A s \in Start :
       /\ startPc[s] = "check" => proc[s] = "none"
       /\ startPc[s] \in {"find", "rmConf", "mkConf", "rmPid", "mkPid"} =>
            proc[s] = "helper"
       /\ proc[s] \in {"vpn", "closing", "zombie"} => startPc[s] = "exec"
  /\ \A k \in Stop :
       stopPc[k] \in {"int", "wait", "kill", "wipe", "stopped"} =>
         /\ target[k] \in Start
         /\ startPc[target[k]] = "exec"
         /\ proc[target[k]] \in {"vpn", "closing", "zombie", "gone"}

\* A start has written nothing before it comes to that, and nothing at all when it
\* saw a tunnel.
Unwritten ==
  \A t \in Start :
    /\ startPc[t] \in {"check", "find", "rmConf", "mkConf"} \/ checked[t] # {} =>
         confFile # t /\ \A s \in Start : confOf[s] # t
    /\ startPc[t] \in {"check", "find", "rmConf", "mkConf", "rmPid", "mkPid"}
         \/ checked[t] # {} => pidFile # t
    /\ checked[t] # {} => startPc[t] = "failed"

HelperInv == TypeOK /\ StagesAgree /\ Unwritten /\ StoppedIsDown /\ StopCleansUp

-----------------------------------------------------------------------------
(* What the sources say and the code does not keep *)

\* The helper refuses to start a second tunnel (tofv-scan lib.rs:3-4: "refusing to
\* start a second one").
OneTunnel == Cardinality(Tunnel) <= 1

\* What it takes for a second one: two starts that have both looked, and are not tunnels
\* yet.  One that looks alone is the only one to become a tunnel.
Looked(s) ==
  \/ startPc[s] \in {"rmConf", "mkConf", "rmPid", "mkPid"}
  \/ startPc[s] = "exec" /\ proc[s] = "helper"

OneLooks == \A s, t \in Start : Looked(s) /\ Looked(t) => s = t

TunnelAlone ==
  \A s, t \in Start :
    (Looked(s) \/ s \in Tunnel) /\ (Looked(t) \/ t \in Tunnel) => s = t

\* The file with the one-time code is unlinked after the attempt (README.md:72-73),
\* also the copy the helper makes.
RootCopyUnlinked ==
  \A s \in Start : confFile = s /\ proc[s] \in {"zombie", "gone"} ~> confFile # s
=============================================================================
