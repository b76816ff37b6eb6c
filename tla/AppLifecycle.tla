---------------------------- MODULE AppLifecycle ----------------------------
(***************************************************************************)
(* The programs of one user around one tunnel: launches of tofv-app, which *)
(* want to be one; `tofv connect' and `tofv disconnect', which nothing     *)
(* keeps from running beside the app; and the openfortivpn processes that  *)
(* outlive the program that started them.                                  *)
(*                                                                         *)
(* A step is what one program does before another one can come in between: *)
(* one look at a process or a file, or one change of it.  `tofv-helper     *)
(* stop' is one step, which polkit may refuse; its own steps are those of  *)
(* VpnHelper, and the locks within the app those of SessionController.     *)
(*                                                                         *)
(* A program starts one session here, so the session, its child process    *)
(* and the pid of that child have the program's name.                      *)
(***************************************************************************)
EXTENDS FiniteSets, Naturals

CONSTANTS
  Launch,       \* launches of tofv-app
  Cli,          \* runs of `tofv connect' or `tofv disconnect'
  Casts,        \* bound: which programs are run together, and which of them connect
  MaxStops,     \* bound: tear-downs under way at once
  NoOne         \* no such file, no program

Program == Launch \cup Cli

\* Who tears a session down: the thread of Disconnect, the main thread at Quit,
\* and a command line.
Disconnecting(l) == <<l, "disconnect">>
Quitting(l)      == <<l, "quit">>
Worker == (Launch \X {"disconnect", "quit"}) \cup Cli

ASSUME LifecycleAssumption ==
  /\ Launch \cap Cli = {}
  /\ NoOne \notin Program
  /\ Program \cap (Program \X {"disconnect", "quit"}) = {}
  /\ Casts \subseteq [run : SUBSET Program, connect : SUBSET Program]
  /\ MaxStops \in Nat

VARIABLES
  prog,         \* where each program is
  sock,         \* the launch whose listener is under app.sock
  overlapped,   \* launches that claimed the socket while another one did
  status,       \* the status each app shows
  reaped,       \* apps whose poller has reaped the child and not yet dropped it
  slot,         \* how far the session of each program is
  conf,         \* whose config is in default.conf
  pidFile,      \* whose child is named in session.pid
  vpn,          \* the child process of each session
  rootPid,      \* the one named in the helper's vpn.pid
  raced,        \* children that started while another one did, in the helper
  work,         \* what each worker does next
  target,       \* the pid that a worker has read from session.pid
  was,          \* the tunnels, of one start at a time, that ran when Quit was chosen
                \* and still run
  refused       \* launches that quit and left one of these when polkit last refused

app     == <<prog, sock, overlapped, status, reaped>>
session == <<slot, conf, pidFile>>
tunnel  == <<vpn, rootPid, raced>>
tearing == <<work, target, was, refused>>
vars    == <<app, session, tunnel, tearing>>

\* "config": default.conf is written; "named": session.pid too; "held": in the app's
\* slot, or in run_live; "taken": out of the slot, to be ended.
Stages == {"none", "starting", "config", "spawned", "named", "held", "taken", "dropped"}

\* "asking": pkexec waits for the user.  "looked": the helper has found no tunnel.
\* "failed" and "zombie": exited and not reaped, as pkexec or tofv-helper, or as
\* openfortivpn.  "gone": the pid is free.
Children == {"none", "asking", "looked", "up", "failed", "zombie", "gone"}

\* A tear-down: terminate (stop to wait), drop, then kill_session (find to unlink).
Works == {"no", "stop", "signal", "wait", "drop", "find", "read", "again", "kill",
          "unlink", "end"}

\* "idle": Idle or Error.  "waits": what the poller leaves alone, which is Connecting,
\* Disconnecting, and a certificate or a code that the user is asked for.
Statuses == {"idle", "up", "waits"}

TypeOK ==
  /\ prog \in [Program -> {"off", "claim", "bind", "run", "quit", "exit", "gone"}]
  /\ sock \in Launch \cup {NoOne}
  /\ overlapped \subseteq Launch
  /\ status \in [Launch -> Statuses]
  /\ reaped \subseteq Launch
  /\ slot \in [Program -> Stages]
  /\ \A c \in Cli : slot[c] \notin {"starting", "named", "taken"}
  /\ conf \in Program \cup {NoOne}
  /\ pidFile \in Program \cup {NoOne}
  /\ vpn \in [Program -> Children]
  /\ rootPid \in Program \cup {NoOne}
  /\ raced \subseteq Program
  /\ work \in [Worker -> Works]
  /\ target \in [Worker -> Program \cup {NoOne}]
  /\ was \in [Launch -> SUBSET Program]
  /\ refused \subseteq Launch

\* Whoever is not of the cast has been and gone.
Init ==
  /\ \E cast \in Casts :
       /\ prog = [o \in Program |-> IF o \in cast.run THEN "off" ELSE "gone"]
       /\ slot = [o \in Program |-> IF o \in cast.connect THEN "none" ELSE "dropped"]
  /\ sock = NoOne /\ overlapped = {}
  /\ status = [l \in Launch |-> "idle"]
  /\ reaped = {}
  /\ conf = NoOne /\ pidFile = NoOne
  /\ vpn = [o \in Program |-> "none"]
  /\ rootPid = NoOne /\ raced = {}
  /\ work = [x \in Worker |-> "no"]
  /\ target = [x \in Worker |-> NoOne]
  /\ was = [l \in Launch |-> {}]
  /\ refused = {}

Live(o)    == prog[o] \notin {"off", "gone"}
Running(l) == prog[l] \in {"run", "quit", "exit"}
Tunnel     == {o \in Program : vpn[o] = "up"}
Starting   == {o \in Program : vpn[o] = "looked"}

\* find_session: vpn.pid if an openfortivpn is there, reaped or not, else /proc.
FindSession ==
  IF rootPid # NoOne /\ vpn[rootPid] \in {"up", "zombie"} THEN {rootPid} ELSE Tunnel

Goto(o, to)  == prog' = [prog EXCEPT ![o] = to]
Show(l, new) == status' = [status EXCEPT ![l] = new]
Stage(o, to) == slot' = [slot EXCEPT ![o] = to]
Child(o, to) == vpn' = [vpn EXCEPT ![o] = to]
Do(x, what)  == work' = [work EXCEPT ![x] = what]

\* tear_down_vpn keeps the slot locked while it ends the session it took.
SlotFree(l) == work[Quitting(l)] \notin {"stop", "signal", "wait", "drop"}

-----------------------------------------------------------------------------
(* One app per user: singleton::claim, then setup *)

\* A listener answers, and shows its panel; or there is none, or a dead one.
Answers == \E m \in Launch : m = sock /\ Live(m)

Claiming == {m \in Launch : prog[m] \in {"claim", "bind"}}

Claim(l) ==
  /\ prog[l] = "off"
  /\ \/ Answers /\ Goto(l, "gone") /\ UNCHANGED overlapped
     \/ /\ ~Answers
        /\ Goto(l, "claim")
        /\ overlapped' = IF Claiming = {} THEN overlapped
                         ELSE overlapped \cup Claiming \cup {l}
  /\ UNCHANGED <<sock, status, reaped, session, tunnel, tearing>>

RemoveSocketNever(l) ==       \* mutant: leaves the socket of a dead app
  /\ prog[l] = "claim"
  /\ Goto(l, "bind")
  /\ UNCHANGED <<sock, overlapped, status, reaped, session, tunnel, tearing>>

RemoveSocket(l) ==
  /\ prog[l] = "claim"
  /\ Goto(l, "bind")
  /\ sock' = NoOne
  /\ UNCHANGED <<overlapped, status, reaped, session, tunnel, tearing>>

\* When the address is in use again, the app runs without a listener.  Then setup:
\* adopt_live_tunnel, and the poller starts.
Bind(l) ==
  /\ prog[l] = "bind"
  /\ Goto(l, "run")
  /\ sock' = IF sock = NoOne THEN l ELSE sock
  /\ Show(l, IF FindSession # {} THEN "up" ELSE "idle")
  /\ UNCHANGED <<overlapped, reaped, session, tunnel, tearing>>

-----------------------------------------------------------------------------
(* Making a session, in the app or in `tofv connect' *)

\* connect looks for a running tunnel before it starts one.
Connect(l) ==
  /\ prog[l] = "run"
  /\ slot[l] = "none"
  /\ \/ /\ FindSession # {}
        /\ Show(l, "up")
        /\ UNCHANGED slot
     \/ /\ FindSession = {}
        /\ Show(l, "waits")
        /\ Stage(l, "starting")
  /\ UNCHANGED <<prog, sock, overlapped, reaped, conf, pidFile, tunnel, tearing>>

\* spawn_connect: default.conf is written anew.  `tofv connect' starts here, and
\* looks for nothing before.
WriteConfig(o) ==
  /\ \/ o \in Launch /\ Running(o) /\ slot[o] = "starting" /\ UNCHANGED prog
     \/ o \in Cli /\ prog[o] = "off" /\ slot[o] = "none" /\ Goto(o, "run")
  /\ Stage(o, "config")
  /\ conf' = o
  /\ UNCHANGED <<sock, overlapped, status, reaped, pidFile, tunnel, tearing>>

SpawnChild(o) ==
  /\ Live(o)
  /\ slot[o] = "config"
  /\ Stage(o, "spawned")
  /\ Child(o, "asking")
  /\ UNCHANGED <<app, conf, pidFile, rootPid, raced, tearing>>

SpawnFailsKeepsConfig(o) ==   \* mutant: the config stays when there is no child
  /\ Live(o)
  /\ slot[o] \in {"starting", "config"}
  /\ Stage(o, "dropped")
  /\ IF o \in Cli THEN Goto(o, "gone") /\ UNCHANGED status ELSE Show(o, "idle") /\ UNCHANGED prog
  /\ UNCHANGED <<sock, overlapped, reaped, conf, pidFile, tunnel, tearing>>

\* No password, an incomplete profile, a program that is missing; the files made so
\* far are removed again.
SpawnFails(o) ==
  /\ Live(o)
  /\ slot[o] \in {"starting", "config"}
  /\ Stage(o, "dropped")
  /\ conf' = IF slot[o] = "config" THEN NoOne ELSE conf
  /\ IF o \in Cli THEN Goto(o, "gone") /\ UNCHANGED status ELSE Show(o, "idle") /\ UNCHANGED prog
  /\ UNCHANGED <<sock, overlapped, reaped, pidFile, tunnel, tearing>>

WritePidUnheld(o) ==          \* mutant: a command line waits for a slot
  /\ Live(o)
  /\ slot[o] = "spawned"
  /\ Stage(o, "named")
  /\ pidFile' = o
  /\ UNCHANGED <<app, conf, tunnel, tearing>>

WritePid(o) ==
  /\ Live(o)
  /\ slot[o] = "spawned"
  /\ Stage(o, IF o \in Cli THEN "held" ELSE "named")
  /\ pidFile' = o
  /\ UNCHANGED <<app, conf, tunnel, tearing>>

StoreSession(l) ==
  /\ Running(l)
  /\ SlotFree(l)
  /\ slot[l] = "named"
  /\ Stage(l, "held")
  /\ UNCHANGED <<app, conf, pidFile, tunnel, tearing>>

-----------------------------------------------------------------------------
(* The child: pkexec, then tofv-helper, then openfortivpn, under one pid *)

\* What is left of a child of p: its parent has to reap it, or init does.
Left(p, as) == IF Live(p) THEN as ELSE "gone"

\* Refused by polkit or by the helper; or the exec fails.
StartFails(o) ==
  /\ vpn[o] \in {"asking", "looked"}
  /\ Child(o, Left(o, "failed"))
  /\ UNCHANGED <<app, session, rootPid, raced, tearing>>

\* tofv-helper start: the config is read, and no tunnel found.
HelperLook(o) ==
  /\ vpn[o] = "asking"
  /\ conf # NoOne
  /\ FindSession = {}
  /\ Child(o, "looked")
  /\ raced' = IF Starting = {} THEN raced ELSE raced \cup Starting \cup {o}
  /\ UNCHANGED <<app, session, rootPid, tearing>>

\* It writes its pid to vpn.pid and becomes openfortivpn.
HelperExec(o) ==
  /\ vpn[o] = "looked"
  /\ Child(o, "up")
  /\ rootPid' = o
  /\ UNCHANGED <<app, session, raced, tearing>>

VpnEnds(o) ==
  /\ vpn[o] = "up"
  /\ Child(o, Left(o, "zombie"))
  /\ was' = [l \in Launch |-> was[l] \ {o}]
  /\ UNCHANGED <<app, session, rootPid, raced, work, target, refused>>

Ended(o) == vpn[o] \in {"failed", "zombie"}

\* try_wait
Reap(o) == vpn' = IF Ended(o) THEN [vpn EXCEPT ![o] = "gone"] ELSE vpn

-----------------------------------------------------------------------------
(* Waiting for the child: the poller, and the loop of run_live *)

DropKeepsPid(o) ==            \* mutant: session.pid outlives the session
  /\ Stage(o, "dropped")
  /\ conf' = NoOne
  /\ UNCHANGED pidFile

\* RunningConnect::drop removes the files, whoever's they are by now.
Drop(o) ==
  /\ Stage(o, "dropped")
  /\ conf' = NoOne
  /\ pidFile' = NoOne

\* The poller finds a session: the tunnel is up, or the child has ended.  Then it
\* gives the lock up.
PollTryWait(l) ==
  /\ Running(l) /\ SlotFree(l) /\ l \notin reaped
  /\ slot[l] = "held"
  /\ \/ vpn[l] = "up" /\ Show(l, "up") /\ UNCHANGED <<reaped, vpn>>
     \/ Ended(l) /\ Reap(l) /\ reaped' = reaped \cup {l} /\ UNCHANGED status
  /\ UNCHANGED <<prog, sock, overlapped, session, rootPid, raced, tearing>>

\* It takes the session out, unless Disconnect or Quit did, and applies the outcome.
PollTake(l) ==
  /\ Running(l) /\ SlotFree(l) /\ l \in reaped
  /\ reaped' = reaped \ {l}
  /\ IF slot[l] = "held" THEN Drop(l) ELSE UNCHANGED session
  /\ \E s \in {"idle", "waits"} : Show(l, s)
  /\ UNCHANGED <<prog, sock, overlapped, tunnel, tearing>>

PollNeverClears(l) ==         \* mutant: nothing says that an adopted tunnel is gone
  /\ Running(l) /\ SlotFree(l) /\ l \notin reaped
  /\ slot[l] # "held"
  /\ status[l] = "idle" /\ FindSession # {}
  /\ Show(l, "up")
  /\ UNCHANGED <<prog, sock, overlapped, reaped, session, tunnel, tearing>>

PollNeverAdopts(l) ==         \* mutant: only says that a tunnel is gone
  /\ Running(l) /\ SlotFree(l) /\ l \notin reaped
  /\ slot[l] # "held"
  /\ status[l] = "up" /\ FindSession = {}
  /\ Show(l, "idle")
  /\ UNCHANGED <<prog, sock, overlapped, reaped, session, tunnel, tearing>>

\* Without a session it looks for the tunnel of somebody else.
PollProbe(l) ==
  /\ Running(l) /\ SlotFree(l) /\ l \notin reaped
  /\ slot[l] # "held"
  /\ status[l] \in {"idle", "up"}
  /\ Show(l, IF FindSession # {} THEN "up" ELSE "idle")
  /\ UNCHANGED <<prog, sock, overlapped, reaped, session, tunnel, tearing>>

Poll(l) == PollTryWait(l) \/ PollTake(l) \/ PollProbe(l)

\* run_live: try_wait, and the end of the loop.
CliTryWait(c) ==
  /\ Live(c) /\ work[c] = "no"
  /\ slot[c] = "held"
  /\ Ended(c)
  /\ Reap(c)
  /\ UNCHANGED <<app, session, rootPid, raced, tearing>>

CliDrop(c) ==
  /\ Live(c) /\ work[c] = "no"
  /\ slot[c] = "held"
  /\ vpn[c] = "gone"
  /\ Drop(c)
  /\ Goto(c, "gone")
  /\ UNCHANGED <<sock, overlapped, status, reaped, tunnel, tearing>>

-----------------------------------------------------------------------------
(* Tearing a session down: terminate, drop and disconnect of runner.rs *)

\* The program whose session a worker ends.
Own(x) == CHOOSE o \in Program : x \in {o, Disconnecting(o), Quitting(o)}

MayStop == Cardinality({x \in Worker : work[x] # "no"}) < MaxStops

TakeOwnOnly(x, l) ==          \* mutant: Quit leaves a tunnel it adopted
  IF slot[l] = "held"
  THEN Stage(l, "taken") /\ Do(x, "stop")
  ELSE Do(x, IF x = Quitting(l) THEN "end" ELSE "find") /\ UNCHANGED slot

\* Takes the session out of the slot, if there is one.
Take(x, l) ==
  IF slot[l] = "held"
  THEN Stage(l, "taken") /\ Do(x, "stop")
  ELSE Do(x, "find") /\ UNCHANGED slot

Disconnect(l) ==
  /\ prog[l] = "run"
  /\ work[Disconnecting(l)] = "no"
  /\ MayStop
  /\ Take(Disconnecting(l), l)
  /\ Show(l, "waits")
  /\ UNCHANGED <<prog, sock, overlapped, reaped, conf, pidFile, tunnel, target, was, refused>>

\* The main thread tears down, at "quit" and again at ExitRequested.
Quit(l) ==
  /\ prog[l] = "run"
  /\ MayStop
  /\ Goto(l, "quit")
  /\ Take(Quitting(l), l)
  /\ was' = [was EXCEPT ![l] = Tunnel \ raced]
  /\ UNCHANGED <<sock, overlapped, status, reaped, conf, pidFile, tunnel, target, refused>>

ExitRequested(l) ==
  /\ prog[l] = "quit"
  /\ work[Quitting(l)] = "end"
  /\ Goto(l, "exit")
  /\ Take(Quitting(l), l)
  /\ UNCHANGED <<sock, overlapped, status, reaped, conf, pidFile, tunnel, target, was, refused>>

CtrlC(c) ==
  /\ Live(c) /\ work[c] = "no"
  /\ MayStop
  /\ slot[c] = "held"
  /\ vpn[c] # "gone"
  /\ Do(c, "stop")
  /\ UNCHANGED <<app, session, tunnel, target, was, refused>>

TofvDisconnect(c) ==
  /\ prog[c] = "off"
  /\ MayStop
  /\ Goto(c, "run")
  /\ Do(c, "find")
  /\ UNCHANGED <<sock, overlapped, status, reaped, session, tunnel, target, was, refused>>

Asker(x) == {l \in Launch : x = Quitting(l)}

\* pkexec tofv-helper stop: the tunnel it found is over, or it was a zombie.
HelperStops(x) ==
  /\ refused' = refused \ Asker(x)
  /\ \E p \in FindSession :
       vpn' = IF vpn[p] = "up" THEN [vpn EXCEPT ![p] = Left(p, "zombie")] ELSE vpn
  /\ rootPid' = NoOne

\* Refused, or no session was found.
HelperFails(x) ==
  /\ \/ refused' = refused \cup {l \in Asker(x) : was[l] # {}}
     \/ FindSession = {} /\ refused' = refused \ Asker(x)
  /\ UNCHANGED <<vpn, rootPid>>

\* helper_stop, which terminate calls once, and disconnect once or twice.
Granted == [stop |-> "wait", find |-> "unlink", again |-> "unlink"]
Denied  == [stop |-> "signal", find |-> "read", again |-> "kill"]

AskHelper(x) ==
  /\ work[x] \in {"stop", "find", "again"}
  /\ \/ HelperStops(x) /\ Do(x, Granted[work[x]])
     \/ HelperFails(x) /\ Do(x, Denied[work[x]])
  /\ was' = [l \in Launch |-> {p \in was[l] : vpn'[p] = "up"}]
  /\ UNCHANGED <<app, session, raced, target>>

\* The signal ends a pkexec that asks; a process of root's does not take it.
Signal(x) ==
  /\ work[x] \in {"signal", "kill"}
  /\ LET p == IF work[x] = "signal" THEN Own(x) ELSE target[x]
     IN  vpn' = IF vpn[p] = "asking" THEN [vpn EXCEPT ![p] = Left(p, "failed")] ELSE vpn
  /\ Do(x, IF work[x] = "signal" THEN "wait" ELSE "unlink")
  /\ UNCHANGED <<app, session, rootPid, raced, target, was, refused>>

\* terminate gives the child three seconds.  `tofv connect' asks to stop it again and
\* again; the app lets it go.
Wait(x) ==
  /\ work[x] = "wait"
  /\ Reap(Own(x))
  /\ Do(x, IF x \notin Cli THEN "drop" ELSE IF vpn'[x] = "gone" THEN "no" ELSE "stop")
  /\ UNCHANGED <<app, session, rootPid, raced, target, was, refused>>

DropTaken(x) ==
  /\ work[x] = "drop"
  /\ Reap(Own(x))
  /\ Drop(Own(x))
  /\ Do(x, "find")
  /\ UNCHANGED <<app, rootPid, raced, target, was, refused>>

\* disconnect: when the helper fails, the pid left in session.pid, of whoever's child.
ReadPid(x) ==
  /\ work[x] = "read"
  /\ target' = [target EXCEPT ![x] = pidFile]
  /\ Do(x, IF pidFile = NoOne THEN "unlink" ELSE "again")
  /\ UNCHANGED <<app, session, tunnel, was, refused>>

Unlink(x) ==
  /\ work[x] = "unlink"
  /\ pidFile' = NoOne
  /\ target' = [target EXCEPT ![x] = NoOne]
  /\ Do(x, IF Asker(x) # {} THEN "end" ELSE "no")
  /\ prog' = IF x \in Cli THEN [prog EXCEPT ![x] = "gone"] ELSE prog
  /\ status' = [l \in Launch |-> IF x = Disconnecting(l) THEN "idle" ELSE status[l]]
  /\ UNCHANGED <<sock, overlapped, reaped, slot, conf, tunnel, was, refused>>

-----------------------------------------------------------------------------
(* The end of a program: its threads stop, and what it holds is not dropped *)

ThreadsOf(o) == {o, Disconnecting(o), Quitting(o)} \cap Worker

Dies(o) ==
  /\ Goto(o, "gone")
  /\ Reap(o)                                                     \* by init
  /\ work' = [x \in Worker |-> IF x \in ThreadsOf(o) THEN "no" ELSE work[x]]
  /\ target' = [x \in Worker |-> IF x \in ThreadsOf(o) THEN NoOne ELSE target[x]]
  /\ status' = [l \in Launch |-> IF l = o THEN "idle" ELSE status[l]]
  /\ reaped' = reaped \ {o}
  /\ UNCHANGED <<sock, overlapped, session, rootPid, raced, refused>>

EndQuit(l) ==
  /\ prog[l] = "exit"
  /\ work[Quitting(l)] = "end"
  /\ Dies(l)
  /\ UNCHANGED was

Crash(o) ==
  /\ Live(o)
  /\ Dies(o)
  /\ was' = [l \in Launch |-> IF l = o THEN {} ELSE was[l]]

-----------------------------------------------------------------------------
LaunchSteps(l) ==
  \/ Claim(l) \/ RemoveSocket(l) \/ Bind(l) \/ Connect(l) \/ StoreSession(l)
  \/ Poll(l) \/ Disconnect(l) \/ Quit(l) \/ ExitRequested(l) \/ EndQuit(l)

ProgramSteps(o) == WriteConfig(o) \/ SpawnChild(o) \/ SpawnFails(o) \/ WritePid(o) \/ Crash(o)

ChildSteps(o) ==
  StartFails(o) \/ HelperLook(o) \/ HelperExec(o) \/ VpnEnds(o)

CliSteps(c) == CliTryWait(c) \/ CliDrop(c) \/ CtrlC(c) \/ TofvDisconnect(c)

WorkerSteps(x) ==
  AskHelper(x) \/ Signal(x) \/ Wait(x) \/ DropTaken(x) \/ ReadPid(x) \/ Unlink(x)

Next ==
  \/ \E l \in Launch : LaunchSteps(l)
  \/ \E o \in Program : ProgramSteps(o) \/ ChildSteps(o)
  \/ \E c \in Cli : CliSteps(c)
  \/ \E x \in Worker : WorkerSteps(x)

Spec == Init /\ [][Next]_vars

\* The main thread of a launch starts the app, the poller and the loop of run_live
\* never stop, and a start that has spawned its child gets to its end.  Nobody has to
\* answer polkit, and no session has to be started or ended.
FairSpec ==
  /\ Spec
  /\ \A l \in Launch : WF_vars(RemoveSocket(l) \/ Bind(l)) /\ WF_vars(Poll(l))
                        /\ WF_vars(StoreSession(l))
  /\ \A o \in Program : WF_vars(WritePid(o))
  /\ \A c \in Cli : WF_vars(CliTryWait(c) \/ CliDrop(c))

-----------------------------------------------------------------------------
(* Properties *)

\* A launch that claimed the socket while no other one did is the app that a later
\* launch reaches, also after a crash, which leaves a dead socket behind; whatever else
\* runs claimed it at the same time as another one (singleton.rs:1, 59-75).
OneReachableApp ==
  \A l \in Launch :
    Running(l) /\ l \notin overlapped =>
      sock = l /\ \A m \in Launch \ {l} : Running(m) => m \in overlapped

\* A tunnel that ran when Quit was chosen, adopted or not, does not outlive the app,
\* unless the last request to stop was refused, or the tunnel started while another
\* one did: then there may be two, and a stop ends one of them
\* (main.rs:226-234, 899-903, 950-955; tofv-helper main.rs:69-105).
QuitStops ==
  \A l \in Launch : prog[l] = "gone" /\ l \notin refused => was[l] = {}

Held(x) == work[x] \in {"stop", "signal", "wait", "drop"}

\* The session of p is between the reaping of its child and the end of its drop.
Ending(p) ==
  \/ p \in reaped
  \/ p \in Cli /\ slot[p] = "held"
  \/ \E x \in Worker : Held(x) /\ p = Own(x)

\* What `tofv disconnect', Disconnect and Quit read from session.pid is a pid that no
\* other process can have yet, but for two cases: the program that wrote it was killed,
\* or quit while a session was starting; or it has reaped the child and is about to
\* drop the session (runner.rs:257-263, 313, 345; main.rs:763-766).
PidFileTrue ==
  pidFile # NoOne =>
    /\ slot[pidFile] # "dropped"
    /\ vpn[pidFile] = "gone" => ~Live(pidFile) \/ Ending(pidFile)

\* The config with the one-time code does not outlive its session, whichever session's
\* end or failure removes it (README.md:72-73, session.rs:78, runner.rs:137-152).
CodeNotLeft == conf # NoOne => slot[conf] # "dropped"

\* A tunnel that outlived its program, or that `tofv connect' started, is shown by an
\* app that starts or is idle, unless the user or a session of its own keeps it busy
\* (main.rs:209-224, 796-810).
Busy(l) == status[l] = "waits" \/ slot[l] = "held"

Adopted ==
  \A l \in Launch :
    (\/ prog[l] \in {"claim", "bind"}
     \/ prog[l] = "run" /\ status[l] = "idle") /\ Tunnel # {}
      ~> status[l] = "up" \/ Busy(l) \/ prog[l] \notin {"claim", "bind", "run"} \/ Tunnel = {}

\* vpn.pid names an openfortivpn that has exited and that nobody has reaped: a session
\* that was let go after a refused request, or one that is being stopped.
ZombieNamed ==
  /\ rootPid # NoOne /\ vpn[rootPid] = "zombie"
  /\ slot[rootPid] = "dropped" \/ \E x \in Worker : Held(x) /\ rootPid = Own(x)

\* An app does not go on showing a tunnel that is over, but for two cases: a session of
\* its own is in the slot, whose child has not become a tunnel yet, which is where the
\* poller stops looking; and ZombieNamed (main.rs:780, 811-816, tofv-scan lib.rs:65).
LossNoticed ==
  \A l \in Launch :
    prog[l] = "run" /\ status[l] = "up" /\ Tunnel = {}
      ~> \/ status[l] # "up" \/ prog[l] # "run" \/ Tunnel # {}
         \/ slot[l] = "held" /\ vpn[l] \in {"asking", "looked"}
         \/ ZombieNamed

-----------------------------------------------------------------------------
(* What makes the invariants inductive *)

\* A launch that claimed the socket alone is alone between the claim and its listener,
\* and whatever else runs by then was not.
OneClaims ==
  \A l \in Launch \ overlapped :
    Live(l) =>
      /\ Claiming \subseteq {l}
      /\ \A m \in Launch \ {l} : Running(m) => m \in overlapped
      /\ prog[l] = "bind" => sock = NoOne
      /\ Running(l) => sock = l

\* A session and its child are made once, and a file names a session that still has it.
Made ==
  /\ \A o \in Program :
       /\ prog[o] = "off" => slot[o] \in {"none", "dropped"}
       /\ slot[o] \in {"none", "starting", "config"} => vpn[o] = "none"
  /\ pidFile # NoOne => slot[pidFile] \in {"named", "held", "taken"}
  /\ conf # NoOne => slot[conf] \in {"config", "spawned", "named", "held", "taken"}

\* Whoever ends a session is alone with it.
OneEnds ==
  /\ \A x \in Worker : Held(x) => slot[Own(x)] = IF x \in Cli THEN "held" ELSE "taken"
  /\ \A l \in Launch :
       /\ ~(Held(Disconnecting(l)) /\ Held(Quitting(l)))
       /\ Live(l) /\ slot[l] = "taken" => Held(Disconnecting(l)) \/ Held(Quitting(l))
       /\ Held(Quitting(l)) => prog[l] \in {"quit", "exit"}
       /\ l \in reaped => slot[l] \in {"held", "taken", "dropped"}

\* The pid of a child is free only when its session is ending or has ended.
GoneEnds ==
  \A o \in Program :
    Live(o) /\ vpn[o] = "gone" =>
      o \in reaped \/ slot[o] \in {"taken", "dropped"} \/ (o \in Cli /\ slot[o] = "held")

\* A tunnel that no other start raced is the only one, and the one a stop finds.
Alone ==
  \A p \in (Starting \cup Tunnel) \ raced :
    /\ Starting \cup Tunnel = {p}
    /\ rootPid # NoOne /\ vpn[rootPid] \in {"up", "zombie"} => rootPid = p

\* Before its first answer Quit may have tunnels to stop; afterwards, if polkit refused.
QuitKnows ==
  \A l \in Launch :
    /\ was[l] \subseteq Tunnel \ raced
    /\ was[l] # {} /\ l \notin refused =>
         prog[l] = "quit" /\ work[Quitting(l)] \in {"stop", "find"}

AppInv == TypeOK /\ OneClaims /\ Made /\ OneEnds /\ GoneEnds /\ Alone /\ QuitKnows
=============================================================================
