------------------------ MODULE AppLifecycle_proofs ------------------------
(* Proofs about AppLifecycle, for any number of launches and commands. *)
EXTENDS AppLifecycle, TLAPS

-----------------------------------------------------------------------------
(* Workers *)

LEMMA OwnIs ==
  /\ \A c \in Cli : Own(c) = c
  /\ \A l \in Launch : Own(Disconnecting(l)) = l /\ Own(Quitting(l)) = l
<1>1. \A o, p \in Program : o # <<p, "disconnect">> /\ o # <<p, "quit">>
  BY LifecycleAssumption
<1>2. ASSUME NEW c \in Cli
      PROVE  Own(c) = c
  BY <1>1 DEF Own, Program, Disconnecting, Quitting
<1>3. ASSUME NEW l \in Launch
      PROVE  Own(Disconnecting(l)) = l
  <2>1. l \in Program
    BY DEF Program
  <2>2. \A o \in Program : <<l, "disconnect">> \in {o, <<o, "disconnect">>, <<o, "quit">>} <=> o = l
    BY <1>1, <2>1
  <2> QED
    BY <2>1, <2>2 DEF Own, Disconnecting, Quitting
<1>4. ASSUME NEW l \in Launch
      PROVE  Own(Quitting(l)) = l
  <2>1. l \in Program
    BY DEF Program
  <2>2. \A o \in Program : <<l, "quit">> \in {o, <<o, "disconnect">>, <<o, "quit">>} <=> o = l
    BY <1>1, <2>1
  <2> QED
    BY <2>1, <2>2 DEF Own, Disconnecting, Quitting
<1> QED
  BY <1>2, <1>3, <1>4

LEMMA WorkerIs ==
  ASSUME NEW x \in Worker
  PROVE  x \in Cli \/ \E l \in Launch : x \in {Disconnecting(l), Quitting(l)}
<1>1. CASE x \in Launch \X {"disconnect", "quit"}
  <2> PICK l \in Launch, e \in {"disconnect", "quit"} : x = <<l, e>>
    BY <1>1
  <2> QED
    BY DEF Disconnecting, Quitting
<1> QED
  BY <1>1 DEF Worker

\* The workers of the launches are no commands, and all different.
LEMMA WorkersDiffer ==
  /\ \A l \in Launch : /\ Disconnecting(l) \in Worker \ Cli
                       /\ Quitting(l) \in Worker \ Cli
                       /\ Disconnecting(l) # Quitting(l)
  /\ \A l, m \in Launch : /\ Disconnecting(l) = Disconnecting(m) => l = m
                          /\ Quitting(l) = Quitting(m) => l = m
                          /\ Disconnecting(l) # Quitting(m)
<1>1. \A l \in Launch : Disconnecting(l) \in Worker /\ Quitting(l) \in Worker
  BY DEF Worker, Disconnecting, Quitting
<1>2. \A l \in Launch : Disconnecting(l) \notin Cli /\ Quitting(l) \notin Cli
  BY LifecycleAssumption DEF Program, Disconnecting, Quitting
<1>3. \A l, m \in Launch : /\ Disconnecting(l) = Disconnecting(m) => l = m
                           /\ Quitting(l) = Quitting(m) => l = m
                           /\ Disconnecting(l) # Quitting(m)
  BY DEF Disconnecting, Quitting
<1> QED
  BY <1>1, <1>2, <1>3

LEMMA OwnInProgram ==
  ASSUME NEW x \in Worker
  PROVE  Own(x) \in Program /\ (x \notin Cli => Own(x) \in Launch)
<1>1. CASE x \in Cli
  BY <1>1, OwnIs DEF Program
<1>2. CASE x \notin Cli
  <2> PICK l \in Launch : x \in {Disconnecting(l), Quitting(l)}
    BY <1>2, WorkerIs
  <2>1. Own(x) = l
    BY OwnIs
  <2> QED
    BY <2>1 DEF Program
<1> QED
  BY <1>1, <1>2

LEMMA Different == NoOne \notin Program /\ Launch \cap Cli = {}
BY LifecycleAssumption

-----------------------------------------------------------------------------
(* Types *)

LEMMA GrantedIs ==
  ASSUME NEW w \in {"stop", "find", "again"}
  PROVE  /\ Granted[w] = IF w = "stop" THEN "wait" ELSE "unlink"
         /\ Denied[w] = IF w = "stop" THEN "signal" ELSE IF w = "find" THEN "read" ELSE "kill"
BY DEF Granted, Denied

LEMMA ReapTypes ==
  ASSUME TypeOK, NEW o, Reap(o)
  PROVE  vpn' \in [Program -> Children]
BY DEF Reap, TypeOK, Children

LEMMA HelperTypes ==
  ASSUME TypeOK, NEW x, HelperStops(x) \/ HelperFails(x)
  PROVE  /\ vpn' \in [Program -> Children]
         /\ rootPid' \in Program \cup {NoOne}
         /\ refused' \subseteq Launch
<1>1. Asker(x) \subseteq Launch
  BY DEF Asker
<1>2. ASSUME HelperStops(x)
      PROVE  vpn' \in [Program -> Children] /\ rootPid' = NoOne /\ refused' \subseteq Launch
  BY <1>1, <1>2 DEF HelperStops, Left, TypeOK, Children
<1>3. ASSUME HelperFails(x)
      PROVE  UNCHANGED <<vpn, rootPid>> /\ refused' \subseteq Launch
  BY <1>1, <1>3 DEF HelperFails, TypeOK
<1> QED
  BY <1>2, <1>3 DEF TypeOK

LEMMA DropTypes ==
  ASSUME TypeOK, NEW o \in Program, Drop(o)
  PROVE  /\ slot' \in [Program -> Stages]
         /\ \A c \in Cli : slot'[c] \notin {"starting", "named", "taken"}
         /\ conf' = NoOne /\ pidFile' = NoOne
BY DEF Drop, Stage, TypeOK, Stages, Program

LEMMA TypeStep == TypeOK /\ [Next]_vars => TypeOK'
<1> SUFFICES ASSUME TypeOK, [Next]_vars
             PROVE  TypeOK'
  OBVIOUS
<1> USE Different DEF Program
<1>1. ASSUME NEW l \in Launch, Claim(l) \/ RemoveSocket(l) \/ Bind(l)
      PROVE  TypeOK'
  BY <1>1 DEF Claim, RemoveSocket, Bind, Claiming, Goto, Show, Statuses, TypeOK,
              session, tunnel, tearing
<1>2. ASSUME NEW l \in Launch, Connect(l) \/ StoreSession(l)
      PROVE  TypeOK'
  BY <1>2 DEF Connect, StoreSession, Show, Stage, Statuses, Stages, TypeOK, app, tunnel, tearing
<1>3. ASSUME NEW l \in Launch, PollTryWait(l)
      PROVE  TypeOK'
  BY <1>3, ReapTypes DEF PollTryWait, Show, Statuses, TypeOK, session, tearing
<1>4. ASSUME NEW l \in Launch, PollTake(l)
      PROVE  TypeOK'
  BY <1>4, DropTypes DEF PollTake, Show, Statuses, TypeOK, session, tunnel, tearing
<1>5. ASSUME NEW l \in Launch, PollProbe(l)
      PROVE  TypeOK'
  BY <1>5 DEF PollProbe, Show, Statuses, TypeOK, session, tunnel, tearing
<1>6. ASSUME NEW l \in Launch, NEW x \in Worker, Take(x, l)
      PROVE  /\ slot' \in [Program -> Stages]
             /\ \A c \in Cli : slot'[c] \notin {"starting", "named", "taken"}
             /\ work' \in [Worker -> Works]
  BY <1>6 DEF Take, Stage, Do, Stages, Works, TypeOK
<1>7. ASSUME NEW l \in Launch, Disconnect(l)
      PROVE  TypeOK'
  BY <1>6, <1>7, WorkersDiffer DEF Disconnect, Show, Statuses, TypeOK, tunnel
<1>8. ASSUME NEW l \in Launch, Quit(l) \/ ExitRequested(l)
      PROVE  TypeOK'
  BY <1>6, <1>8, WorkersDiffer DEF Quit, ExitRequested, Goto, Tunnel, TypeOK, tunnel
<1>9. ASSUME NEW o \in Program, Dies(o), was' \in [Launch -> SUBSET Program]
      PROVE  TypeOK'
  BY <1>9, ReapTypes DEF Dies, Goto, Statuses, Works, TypeOK, session
<1>10. ASSUME NEW l \in Launch, EndQuit(l)
       PROVE  TypeOK'
  BY <1>9, <1>10 DEF EndQuit, TypeOK
<1>11. ASSUME NEW o \in Program, Crash(o)
       PROVE  TypeOK'
  BY <1>9, <1>11 DEF Crash, TypeOK
<1>12. ASSUME NEW o \in Program, WriteConfig(o)
       PROVE  TypeOK'
  BY <1>12 DEF WriteConfig, Running, Goto, Stage, Stages, TypeOK, tunnel, tearing
<1>13. ASSUME NEW o \in Program, SpawnChild(o) \/ WritePid(o)
       PROVE  TypeOK'
  BY <1>13 DEF SpawnChild, WritePid, Child, Stage, Stages, Children, TypeOK, app, tunnel, tearing
<1>14. ASSUME NEW o \in Program, SpawnFails(o)
       PROVE  TypeOK'
  BY <1>14 DEF SpawnFails, Goto, Show, Stage, Stages, Statuses, TypeOK, tunnel, tearing
<1>15. ASSUME NEW o \in Program, StartFails(o) \/ HelperLook(o) \/ HelperExec(o) \/ VpnEnds(o)
       PROVE  TypeOK'
  BY <1>15 DEF StartFails, HelperLook, HelperExec, VpnEnds, Starting, Left, Child, Children,
               TypeOK, app, session, tearing
<1>16. ASSUME NEW c \in Cli, CliTryWait(c)
       PROVE  TypeOK'
  BY <1>16, ReapTypes DEF CliTryWait, TypeOK, app, session, tearing
<1>17. ASSUME NEW c \in Cli, CliDrop(c)
       PROVE  TypeOK'
  BY <1>17, DropTypes DEF CliDrop, Goto, TypeOK, tunnel, tearing
<1>18. ASSUME NEW c \in Cli, CtrlC(c) \/ TofvDisconnect(c)
       PROVE  TypeOK'
  BY <1>18 DEF CtrlC, TofvDisconnect, Do, Goto, Worker, Works, TypeOK, app, session, tunnel
<1>19. ASSUME NEW x \in Worker, AskHelper(x)
       PROVE  TypeOK'
  BY <1>19, HelperTypes, GrantedIs DEF AskHelper, Do, Works, TypeOK, app, session
<1>20. ASSUME NEW x \in Worker, Signal(x)
       PROVE  TypeOK'
  BY <1>20 DEF Signal, Left, Do, Children, Works, TypeOK, app, session
<1>21. ASSUME NEW x \in Worker, Wait(x)
       PROVE  TypeOK'
  BY <1>21, ReapTypes DEF Wait, Do, Works, TypeOK, app, session
<1>22. ASSUME NEW x \in Worker, DropTaken(x)
       PROVE  TypeOK'
  BY <1>22, ReapTypes, DropTypes, OwnInProgram DEF DropTaken, Do, Works, TypeOK, app
<1>23. ASSUME NEW x \in Worker, ReadPid(x) \/ Unlink(x)
       PROVE  TypeOK'
  BY <1>23 DEF ReadPid, Unlink, Do, Works, Statuses, TypeOK, app, session, tunnel
<1>24. CASE UNCHANGED vars
  BY <1>24 DEF TypeOK, vars, app, session, tunnel, tearing
<1> QED
  BY <1>1, <1>2, <1>3, <1>4, <1>5, <1>7, <1>8, <1>10, <1>11, <1>12, <1>13, <1>14, <1>15,
     <1>16, <1>17, <1>18, <1>19, <1>20, <1>21, <1>22, <1>23, <1>24
  DEF Next, LaunchSteps, ProgramSteps, ChildSteps, CliSteps, WorkerSteps, Poll

\* Every variable keeps its type.
THEOREM TypesCorrect == Spec => []TypeOK
<1>1. Init => TypeOK
  <2>1. ASSUME Init
        PROVE  TypeOK
    BY <2>1 DEF Init, TypeOK, Program, Worker, Stages, Children, Works, Statuses
  <2> QED
    BY <2>1
<1> QED
  BY <1>1, TypeStep, PTL DEF Spec

-----------------------------------------------------------------------------
(* One app *)

\* What the steps after Bind do to the launches and their socket.
Onward ==
  /\ UNCHANGED <<sock, overlapped>>
  /\ \A l \in Launch : prog'[l] \in {prog[l], "gone"} \/ (Running(l) /\ Running(l)')

LEMMA MostStepsGoOnward ==
  ASSUME TypeOK, [Next]_vars,
         \A l \in Launch : ~Claim(l) /\ ~RemoveSocket(l) /\ ~Bind(l)
  PROVE  Onward
<1> USE Different DEF Onward, Running, Program
<1>1. ASSUME NEW l \in Launch, Connect(l) \/ StoreSession(l) \/ Poll(l) \/ Disconnect(l)
      PROVE  Onward
  BY <1>1 DEF Connect, StoreSession, Poll, PollTryWait, PollTake, PollProbe, Disconnect, app
<1>2. ASSUME NEW l \in Launch, Quit(l) \/ ExitRequested(l)
      PROVE  Onward
  BY <1>2 DEF Quit, ExitRequested, Goto, TypeOK
<1>3. ASSUME NEW o \in Program, Dies(o)
      PROVE  Onward
  BY <1>3 DEF Dies, Goto, TypeOK
<1>4. ASSUME NEW o \in Program, WriteConfig(o) \/ SpawnFails(o)
      PROVE  Onward
  BY <1>4 DEF WriteConfig, SpawnFails, Goto, TypeOK
<1>5. ASSUME NEW o \in Program, SpawnChild(o) \/ WritePid(o) \/ ChildSteps(o)
      PROVE  Onward
  BY <1>5
  DEF SpawnChild, WritePid, ChildSteps, StartFails, HelperLook, HelperExec, VpnEnds, app
<1>6. ASSUME NEW c \in Cli, CliSteps(c)
      PROVE  Onward
  BY <1>6 DEF CliSteps, CliTryWait, CliDrop, CtrlC, TofvDisconnect, Goto, TypeOK, app
<1>7. ASSUME NEW x \in Worker, WorkerSteps(x)
      PROVE  Onward
  BY <1>7
  DEF WorkerSteps, AskHelper, Signal, Wait, DropTaken, ReadPid, Unlink, TypeOK, app
<1>8. CASE UNCHANGED vars
  BY <1>8 DEF vars, app
<1> QED
  BY <1>1, <1>2, <1>3, <1>4, <1>5, <1>6, <1>7, <1>8
  DEF Next, LaunchSteps, ProgramSteps, EndQuit, Crash

LEMMA ClaimsStep ==
  ASSUME TypeOK, OneClaims, [Next]_vars
  PROVE  OneClaims'
<1> USE Different DEF Claiming, Live, Running, Program
<1>1. ASSUME NEW l \in Launch, Claim(l)
      PROVE  OneClaims'
  <2>1. CASE prog' = [prog EXCEPT ![l] = "gone"] /\ UNCHANGED <<sock, overlapped>>
    BY <2>1 DEF OneClaims, TypeOK
  <2>2. CASE /\ ~Answers
             /\ prog' = [prog EXCEPT ![l] = "claim"] /\ sock' = sock
             /\ overlapped' = IF Claiming = {} THEN overlapped
                              ELSE overlapped \cup Claiming \cup {l}
    <3>1. \A m \in Launch : Running(m) => m \in overlapped
      BY <2>2 DEF Answers, OneClaims
    <3>2. CASE Claiming = {}
      BY <2>2, <3>1, <3>2 DEF OneClaims, TypeOK
    <3>3. CASE Claiming # {}
      BY <2>2, <3>1, <3>3 DEF OneClaims, TypeOK
    <3> QED
      BY <3>2, <3>3
  <2> QED
    BY <1>1, <2>1, <2>2 DEF Claim, Goto
<1>2. ASSUME NEW l \in Launch, RemoveSocket(l)
      PROVE  OneClaims'
  BY <1>2 DEF RemoveSocket, Goto, OneClaims, TypeOK
<1>3. ASSUME NEW l \in Launch, Bind(l)
      PROVE  OneClaims'
  BY <1>3 DEF Bind, Goto, OneClaims, TypeOK
<1>4. ASSUME Onward
      PROVE  OneClaims'
  BY <1>4 DEF Onward, OneClaims, TypeOK
<1> QED
  BY <1>1, <1>2, <1>3, <1>4, MostStepsGoOnward

-----------------------------------------------------------------------------
(* Sessions, their children and their files *)

LEMMA MadeStep ==
  ASSUME TypeOK, Made, [Next]_vars
  PROVE  Made'
<1> USE Different DEF Program, Goto
<1>1. ASSUME NEW l \in Launch, Claim(l) \/ RemoveSocket(l) \/ Bind(l) \/ PollProbe(l)
      PROVE  Made'
  BY <1>1 DEF Claim, RemoveSocket, Bind, PollProbe, Made, TypeOK, session, tunnel
<1>2. ASSUME NEW l \in Launch, Connect(l)
      PROVE  Made'
  BY <1>2 DEF Connect, Stage, Made, TypeOK, tunnel
<1>3. ASSUME NEW o \in Program, WriteConfig(o)
      PROVE  Made'
  BY <1>3 DEF WriteConfig, Running, Stage, Made, TypeOK, tunnel
<1>4. ASSUME NEW o \in Program, SpawnChild(o)
      PROVE  Made'
  BY <1>4 DEF SpawnChild, Live, Stage, Child, Made, TypeOK, app
<1>5. ASSUME NEW o \in Program, SpawnFails(o)
      PROVE  Made'
  BY <1>5 DEF SpawnFails, Live, Stage, Made, TypeOK, tunnel
<1>6. ASSUME NEW o \in Program, WritePid(o)
      PROVE  Made'
  BY <1>6 DEF WritePid, Live, Stage, Made, TypeOK, app, tunnel
<1>7. ASSUME NEW l \in Launch, StoreSession(l)
      PROVE  Made'
  BY <1>7 DEF StoreSession, Running, Stage, Made, TypeOK, app, tunnel
<1>8. ASSUME NEW o \in Program, ChildSteps(o)
      PROVE  Made'
  BY <1>8 DEF ChildSteps, StartFails, HelperLook, HelperExec, VpnEnds, Child, Made, TypeOK, app,
              session
<1>9. ASSUME NEW l \in Launch, PollTryWait(l)
      PROVE  Made'
  BY <1>9 DEF PollTryWait, Reap, Ended, Made, TypeOK, session
<1>10. ASSUME NEW l \in Launch, PollTake(l)
       PROVE  Made'
  BY <1>10 DEF PollTake, Running, Drop, Stage, Made, TypeOK, session, tunnel
<1>11. ASSUME NEW c \in Cli, CliTryWait(c)
       PROVE  Made'
  BY <1>11 DEF CliTryWait, Reap, Ended, Made, TypeOK, app, session
<1>12. ASSUME NEW c \in Cli, CliDrop(c)
       PROVE  Made'
  BY <1>12 DEF CliDrop, Drop, Stage, Made, TypeOK, tunnel
<1>13. ASSUME NEW l \in Launch, Disconnect(l) \/ Quit(l) \/ ExitRequested(l)
       PROVE  Made'
  BY <1>13 DEF Disconnect, Quit, ExitRequested, Take, Stage, Made, TypeOK, tunnel
<1>14. ASSUME NEW c \in Cli, CtrlC(c) \/ TofvDisconnect(c)
       PROVE  Made'
  BY <1>14 DEF CtrlC, TofvDisconnect, Made, TypeOK, app, session, tunnel
<1>15. ASSUME NEW x \in Worker, AskHelper(x)
       PROVE  Made'
  <2>1. UNCHANGED <<prog, session>> /\ (HelperStops(x) \/ UNCHANGED vpn)
    BY <1>15 DEF AskHelper, HelperFails, app
  <2> QED
    BY <2>1 DEF HelperStops, Left, Made, TypeOK, session
<1>16. ASSUME NEW x \in Worker, Signal(x)
       PROVE  Made'
  BY <1>16 DEF Signal, Left, Made, TypeOK, app, session
<1>17. ASSUME NEW x \in Worker, Wait(x)
       PROVE  Made'
  BY <1>17 DEF Wait, Reap, Ended, Made, TypeOK, app, session
<1>18. ASSUME NEW x \in Worker, DropTaken(x)
       PROVE  Made'
  BY <1>18, OwnInProgram DEF DropTaken, Reap, Ended, Drop, Stage, Made, TypeOK, app
<1>19. ASSUME NEW x \in Worker, ReadPid(x) \/ Unlink(x)
       PROVE  Made'
  BY <1>19 DEF ReadPid, Unlink, Made, TypeOK, app, session, tunnel
<1>20. ASSUME NEW o \in Program, Dies(o)
       PROVE  Made'
  BY <1>20 DEF Dies, Reap, Ended, Made, TypeOK, session
<1>21. CASE UNCHANGED vars
  BY <1>21 DEF Made, vars, app, session, tunnel
<1> QED
  BY <1>1, <1>2, <1>3, <1>4, <1>5, <1>6, <1>7, <1>8, <1>9, <1>10, <1>11, <1>12, <1>13, <1>14,
     <1>15, <1>16, <1>17, <1>18, <1>19, <1>20, <1>21
  DEF Next, LaunchSteps, ProgramSteps, CliSteps, WorkerSteps, Poll, EndQuit, Crash

-----------------------------------------------------------------------------
(* Who ends a session *)

LEMMA OwnsDiffer ==
  ASSUME NEW x \in Worker, NEW y \in Worker, Own(x) = Own(y), x # y
  PROVE  \E l \in Launch : {x, y} = {Disconnecting(l), Quitting(l)} /\ Own(x) = l
<1>1. CASE x \in Cli /\ y \in Cli
  BY <1>1, OwnIs
<1>2. CASE x \in Cli /\ y \notin Cli
  BY <1>2, OwnIs, OwnInProgram, Different
<1>3. CASE x \notin Cli /\ y \in Cli
  BY <1>3, OwnIs, OwnInProgram, Different
<1>4. CASE x \notin Cli /\ y \notin Cli
  BY <1>4, OwnIs, WorkerIs
<1> QED
  BY <1>1, <1>2, <1>3, <1>4

\* The steps that hand no session to a worker and take none away from one.
Keeps ==
  /\ \A x \in Worker : /\ Held(x)' => Held(x)
                       /\ Held(x) /\ x \notin Cli => Held(x)'
  /\ \A o \in Program : slot'[o] = "taken" <=> slot[o] = "taken"
  /\ \A c \in Cli : slot[c] = "held" => slot'[c] = "held" \/ ~Held(c)'
  /\ \A l \in Launch : /\ Live(l)' => Live(l) \/ slot[l] # "taken"
                       /\ Held(Quitting(l)) => prog'[l] \in {"quit", "exit"}
                       /\ l \in reaped' => slot'[l] \in {"held", "taken", "dropped"}

LEMMA KeepsKeepsEnds ==
  ASSUME TypeOK, OneEnds, Keeps
  PROVE  OneEnds'
BY OwnIs, WorkersDiffer, OwnInProgram DEF Keeps, OneEnds, Program

\* The steps of the programs and of their children, in which no worker does anything.
LEMMA IdleKeeps ==
  ASSUME TypeOK, Made, OneEnds, NEW o \in Program,
         \/ o \in Launch /\ (\/ Claim(o) \/ RemoveSocket(o) \/ Bind(o) \/ Connect(o)
                             \/ StoreSession(o) \/ Poll(o))
         \/ WriteConfig(o) \/ SpawnChild(o) \/ SpawnFails(o) \/ WritePid(o) \/ ChildSteps(o)
         \/ o \in Cli /\ (CliTryWait(o) \/ CliDrop(o))
  PROVE  Keeps
<1> USE Different DEF Held, Live, Running, Goto, Stage, Program
<1>0. UNCHANGED work /\ \A l \in Launch : Quitting(l) \in Worker /\ Disconnecting(l) \in Worker
  BY WorkersDiffer
  DEF Claim, RemoveSocket, Bind, Connect, StoreSession, Poll, PollTryWait, PollTake, PollProbe,
      WriteConfig, SpawnChild, SpawnFails, WritePid, ChildSteps, StartFails, HelperLook,
      HelperExec, VpnEnds, CliTryWait, CliDrop, tearing
<1>1. CASE o \in Launch /\ (Claim(o) \/ RemoveSocket(o) \/ Bind(o))
  BY <1>0, <1>1 DEF Claim, RemoveSocket, Bind, Keeps, Made, OneEnds, TypeOK, session
<1>2. CASE o \in Launch /\ (Connect(o) \/ StoreSession(o))
  BY <1>0, <1>2 DEF Connect, StoreSession, Keeps, OneEnds, TypeOK, app
<1>3. CASE o \in Launch /\ Poll(o)
  BY <1>0, <1>3 DEF Poll, PollTryWait, PollTake, PollProbe, Drop, Keeps, OneEnds, TypeOK, session
<1>4. CASE WriteConfig(o) \/ SpawnChild(o) \/ SpawnFails(o) \/ WritePid(o)
  BY <1>0, <1>4 DEF WriteConfig, SpawnChild, SpawnFails, WritePid, Keeps, OneEnds, TypeOK, app
<1>5. CASE ChildSteps(o)
  BY <1>0, <1>5
  DEF ChildSteps, StartFails, HelperLook, HelperExec, VpnEnds, Keeps, OneEnds, TypeOK, app, session
<1>6. CASE o \in Cli /\ (CliTryWait(o) \/ CliDrop(o))
  BY <1>0, <1>6 DEF CliTryWait, CliDrop, Drop, Keeps, OneEnds, TypeOK, app, session
<1> QED
  BY <1>1, <1>2, <1>3, <1>4, <1>5, <1>6

LEMMA EndsStep ==
  ASSUME TypeOK, Made, OneEnds, [Next]_vars
  PROVE  OneEnds'
<1> USE Different
<1>1. ASSUME NEW o \in Program,
             \/ o \in Launch /\ (\/ Claim(o) \/ RemoveSocket(o) \/ Bind(o) \/ Connect(o)
                                 \/ StoreSession(o) \/ Poll(o))
             \/ WriteConfig(o) \/ SpawnChild(o) \/ SpawnFails(o) \/ WritePid(o) \/ ChildSteps(o)
             \/ o \in Cli /\ (CliTryWait(o) \/ CliDrop(o))
      PROVE  OneEnds'
  BY <1>1, IdleKeeps, KeepsKeepsEnds
<1>2. ASSUME NEW x \in Worker, AskHelper(x) \/ Signal(x) \/ Wait(x) \/ ReadPid(x) \/ Unlink(x)
      PROVE  OneEnds'
  <2>1. /\ UNCHANGED <<slot, reaped>>
        /\ \A l \in Launch : prog'[l] = prog[l]
    BY <1>2 DEF AskHelper, Signal, Wait, ReadPid, Unlink, TypeOK, Program, app, session
  <2>2. \A y \in Worker : /\ Held(y)' => Held(y)
                          /\ Held(y) /\ y \notin Cli => Held(y)'
    BY <1>2, GrantedIs DEF AskHelper, Signal, Wait, ReadPid, Unlink, Held, Do, TypeOK
  <2> QED
    BY <2>1, <2>2, KeepsKeepsEnds, WorkersDiffer DEF Keeps, OneEnds, Live, Program
<1>3. ASSUME NEW c \in Cli, TofvDisconnect(c)
      PROVE  OneEnds'
  <2>1. \A y \in Worker : Held(y)' => Held(y)
    BY <1>3 DEF TofvDisconnect, Held, Do, TypeOK
  <2>2. \A y \in Worker : Held(y) /\ y \notin Cli => Held(y)'
    BY <1>3 DEF TofvDisconnect, Held, Do, TypeOK
  <2> QED
    BY <1>3, <2>1, <2>2, KeepsKeepsEnds, WorkersDiffer
    DEF TofvDisconnect, Goto, Keeps, OneEnds, Live, Program, TypeOK, session
<1>4. ASSUME NEW l \in Launch, Disconnect(l) \/ Quit(l) \/ ExitRequested(l)
      PROVE  OneEnds'
  <2> PICK x \in {Disconnecting(l), Quitting(l)} :
        /\ Take(x, l) /\ ~Held(x)
        /\ x = Disconnecting(l) => prog' = prog
        /\ x = Quitting(l) => prog' \in {[prog EXCEPT ![l] = "quit"], [prog EXCEPT ![l] = "exit"]}
    <3>1. Disconnecting(l) # Quitting(l)
      BY WorkersDiffer
    <3>2. CASE Disconnect(l)
      <4>1. ~Held(Disconnecting(l)) /\ Take(Disconnecting(l), l) /\ prog' = prog
        BY <3>2 DEF Disconnect, Held
      <4> QED
        BY <3>1, <4>1
    <3>3. CASE Quit(l)
      <4>1. ~Held(Quitting(l)) /\ Take(Quitting(l), l) /\ prog' = [prog EXCEPT ![l] = "quit"]
        BY <3>3 DEF Quit, Goto, OneEnds
      <4> QED
        BY <3>1, <4>1
    <3>4. CASE ExitRequested(l)
      <4>1. ~Held(Quitting(l)) /\ Take(Quitting(l), l) /\ prog' = [prog EXCEPT ![l] = "exit"]
        BY <3>4 DEF ExitRequested, Goto, Held
      <4> QED
        BY <3>1, <4>1
    <3> QED
      BY <1>4, <3>2, <3>3, <3>4
  <2>1. /\ reaped' = reaped /\ Live(l)
        /\ \A m \in Launch : /\ Live(m)' => Live(m)
                             /\ m # l => prog'[m] = prog[m]
        /\ Held(Quitting(l)) \/ x = Quitting(l) => prog'[l] \in {"quit", "exit"}
    BY <1>4 DEF Disconnect, Quit, ExitRequested, Goto, Live, OneEnds, TypeOK, Program
  <2>2. x \in Worker \ Cli /\ Own(x) = l
    BY OwnIs, WorkersDiffer
  <2>3. CASE slot[l] = "held"
    <3>1. /\ slot' = [slot EXCEPT ![l] = "taken"]
          /\ Held(x)'
          /\ \A y \in Worker : y # x => Held(y)' = Held(y)
      BY <2>2, <2>3 DEF Take, Stage, Do, Held, TypeOK
    <3>2. \A y \in Worker : Held(y) => Own(y) # l
      BY <2>3, OwnIs, Different DEF OneEnds
    <3>3. ~Held(Disconnecting(l)) /\ ~Held(Quitting(l))
      BY <3>2, OwnIs, WorkersDiffer
    <3> QED
      BY <2>1, <2>2, <2>3, <3>1, <3>2, <3>3, OwnIs, WorkersDiffer, OwnInProgram
      DEF OneEnds, TypeOK, Program
  <2>4. CASE slot[l] # "held"
    <3>1. slot' = slot /\ \A y \in Worker : Held(y)' = Held(y)
      BY <2>2, <2>4 DEF Take, Do, Held, TypeOK
    <3> QED
      BY <2>1, <3>1, WorkersDiffer DEF OneEnds
  <2> QED
    BY <2>3, <2>4
<1>5. ASSUME NEW c \in Cli, CtrlC(c)
      PROVE  OneEnds'
  <2>1. /\ UNCHANGED <<prog, slot, reaped>> /\ slot[c] = "held"
        /\ \A y \in Worker : y # c => Held(y)' = Held(y)
    BY <1>5 DEF CtrlC, Held, Do, TypeOK, app, session
  <2> QED
    BY <2>1, OwnIs, WorkersDiffer DEF OneEnds, Live
<1>6. ASSUME NEW x \in Worker, DropTaken(x)
      PROVE  OneEnds'
  <2>1. /\ UNCHANGED <<prog, reaped>>
        /\ slot' = [slot EXCEPT ![Own(x)] = "dropped"]
        /\ Held(x) /\ ~Held(x)'
        /\ \A y \in Worker : y # x => Held(y)' = Held(y)
    BY <1>6 DEF DropTaken, Drop, Stage, Do, Held, TypeOK, app
  <2>2. \A y \in Worker : Held(y) /\ y # x => Own(y) # Own(x)
    BY <2>1, OwnsDiffer DEF OneEnds
  <2>3. \A y \in Worker : Held(y)' => slot'[Own(y)] = IF y \in Cli THEN "held" ELSE "taken"
    BY <2>1, <2>2, OwnInProgram DEF OneEnds, TypeOK
  <2>4. ASSUME NEW l \in Launch
        PROVE  /\ ~(Held(Disconnecting(l)) /\ Held(Quitting(l)))'
               /\ (Live(l) /\ slot[l] = "taken" => Held(Disconnecting(l)) \/ Held(Quitting(l)))'
               /\ (Held(Quitting(l)) => prog[l] \in {"quit", "exit"})'
               /\ (l \in reaped => slot[l] \in {"held", "taken", "dropped"})'
    BY <2>1, OwnIs, WorkersDiffer, OwnInProgram DEF OneEnds, Live, TypeOK, Program
  <2> QED
    BY <2>3, <2>4 DEF OneEnds
<1>7. ASSUME NEW o \in Program, Dies(o)
      PROVE  OneEnds'
  <2>1. /\ slot' = slot /\ reaped' \subseteq reaped
        /\ prog' = [prog EXCEPT ![o] = "gone"]
        /\ \A y \in Worker : Held(y)' => Held(y)
    BY <1>7 DEF Dies, Goto, Held, TypeOK, session
  <2>2. ASSUME NEW l \in Launch, l # o
        PROVE  /\ Held(Disconnecting(l))' = Held(Disconnecting(l))
               /\ Held(Quitting(l))' = Held(Quitting(l))
    <3>1. Disconnecting(l) \notin ThreadsOf(o) /\ Quitting(l) \notin ThreadsOf(o)
      BY <2>2, LifecycleAssumption DEF ThreadsOf, Disconnecting, Quitting, Program
    <3> QED
      BY <1>7, <3>1, WorkersDiffer DEF Dies, Held, TypeOK
  <2>3. o \in Launch => ~Held(Quitting(o))'
    BY <1>7, WorkersDiffer DEF Dies, Held, ThreadsOf
  <2> QED
    BY <2>1, <2>2, <2>3, WorkersDiffer DEF OneEnds, Live, TypeOK, Program
<1>8. CASE UNCHANGED vars
  BY <1>8 DEF OneEnds, Held, Live, vars, app, session, tearing
<1> QED
  BY <1>1, <1>2, <1>3, <1>4, <1>5, <1>6, <1>7, <1>8
  DEF Next, LaunchSteps, ProgramSteps, CliSteps, WorkerSteps, EndQuit, Crash, Program

-----------------------------------------------------------------------------
(* The pid of a child *)

LEMMA GoneStep ==
  ASSUME TypeOK, Made, OneEnds, GoneEnds, [Next]_vars
  PROVE  GoneEnds'
<1> USE Different DEF Program, Live, Goto, GoneEnds
<1>1. ASSUME NEW l \in Launch, Claim(l) \/ RemoveSocket(l) \/ Bind(l) \/ PollProbe(l)
      PROVE  GoneEnds'
  BY <1>1 DEF Claim, RemoveSocket, Bind, PollProbe, Made, TypeOK, session, tunnel
<1>2. ASSUME NEW l \in Launch, Connect(l) \/ StoreSession(l)
      PROVE  GoneEnds'
  BY <1>2 DEF Connect, StoreSession, Stage, TypeOK, app, tunnel
<1>3. ASSUME NEW o \in Program, WriteConfig(o) \/ SpawnFails(o)
      PROVE  GoneEnds'
  BY <1>3 DEF WriteConfig, SpawnFails, Stage, Made, TypeOK, tunnel
<1>4. ASSUME NEW o \in Program, SpawnChild(o) \/ WritePid(o)
      PROVE  GoneEnds'
  BY <1>4 DEF SpawnChild, WritePid, Stage, Child, TypeOK, app, tunnel
<1>5. ASSUME NEW o \in Program, ChildSteps(o)
      PROVE  GoneEnds'
  BY <1>5
  DEF ChildSteps, StartFails, HelperLook, HelperExec, VpnEnds, Child, Left, TypeOK, app, session
<1>6. ASSUME NEW l \in Launch, PollTryWait(l)
      PROVE  GoneEnds'
  BY <1>6 DEF PollTryWait, Reap, Ended, TypeOK, session
<1>7. ASSUME NEW l \in Launch, PollTake(l)
      PROVE  GoneEnds'
  BY <1>7 DEF PollTake, Drop, Stage, OneEnds, TypeOK, session, tunnel
<1>8. ASSUME NEW c \in Cli, CliTryWait(c)
      PROVE  GoneEnds'
  BY <1>8 DEF CliTryWait, Reap, Ended, TypeOK, app, session
<1>9. ASSUME NEW c \in Cli, CliDrop(c)
      PROVE  GoneEnds'
  BY <1>9 DEF CliDrop, Drop, Stage, TypeOK, tunnel
<1>10. ASSUME NEW l \in Launch, Disconnect(l) \/ Quit(l) \/ ExitRequested(l)
       PROVE  GoneEnds'
  BY <1>10 DEF Disconnect, Quit, ExitRequested, Take, Stage, TypeOK, tunnel
<1>11. ASSUME NEW c \in Cli, CtrlC(c) \/ TofvDisconnect(c)
       PROVE  GoneEnds'
  BY <1>11 DEF CtrlC, TofvDisconnect, Made, TypeOK, app, session, tunnel
<1>12. ASSUME NEW x \in Worker, AskHelper(x)
       PROVE  GoneEnds'
  <2>1. UNCHANGED <<prog, reaped, slot>> /\ (HelperStops(x) \/ UNCHANGED vpn)
    BY <1>12 DEF AskHelper, HelperFails, app, session
  <2> QED
    BY <2>1 DEF HelperStops, Left, TypeOK
<1>13. ASSUME NEW x \in Worker, Signal(x)
       PROVE  GoneEnds'
  BY <1>13 DEF Signal, Left, TypeOK, app, session
<1>14. ASSUME NEW x \in Worker, Wait(x)
       PROVE  GoneEnds'
  <2>1. Held(x)
    BY <1>14 DEF Wait, Held
  <2>2. IF x \in Cli THEN slot[Own(x)] = "held" /\ Own(x) \in Cli ELSE slot[Own(x)] = "taken"
    BY <2>1, OwnIs DEF OneEnds
  <2> QED
    BY <1>14, <2>2 DEF Wait, Reap, TypeOK, app, session
<1>15. ASSUME NEW x \in Worker, DropTaken(x)
       PROVE  GoneEnds'
  BY <1>15, OwnInProgram DEF DropTaken, Drop, Stage, Reap, TypeOK, app
<1>16. ASSUME NEW x \in Worker, ReadPid(x) \/ Unlink(x)
       PROVE  GoneEnds'
  BY <1>16 DEF ReadPid, Unlink, TypeOK, app, session, tunnel
<1>17. ASSUME NEW o \in Program, Dies(o)
       PROVE  GoneEnds'
  BY <1>17 DEF Dies, Reap, TypeOK, session
<1>18. CASE UNCHANGED vars
  BY <1>18 DEF vars, app, session, tunnel
<1> QED
  BY <1>1, <1>2, <1>3, <1>4, <1>5, <1>6, <1>7, <1>8, <1>9, <1>10, <1>11, <1>12, <1>13,
     <1>14, <1>15, <1>16, <1>17, <1>18
  DEF Next, LaunchSteps, ProgramSteps, CliSteps, WorkerSteps, Poll, EndQuit, Crash

-----------------------------------------------------------------------------
(* One tunnel *)

\* The steps that let no tunnel start.
Wanes ==
  /\ raced' = raced /\ rootPid' \in {rootPid, NoOne}
  /\ \A o \in Program : /\ vpn'[o] \in {"looked", "up"} => vpn'[o] = vpn[o]
                        /\ vpn'[o] = "zombie" => vpn[o] \in {"up", "zombie"}

LEMMA MostStepsWane ==
  ASSUME TypeOK, [Next]_vars, \A o \in Program : ~HelperLook(o) /\ ~HelperExec(o)
  PROVE  Wanes
<1> USE DEF Program, Wanes
<1>1. ASSUME NEW o, Reap(o), UNCHANGED <<rootPid, raced>>
      PROVE  Wanes
  BY <1>1 DEF Reap, TypeOK
<1>2. ASSUME UNCHANGED tunnel
      PROVE  Wanes
  BY <1>2 DEF tunnel
<1>3. ASSUME NEW l \in Launch, LaunchSteps(l)
      PROVE  Wanes
  <2>1. CASE PollTryWait(l)
    BY <1>1, <2>1 DEF PollTryWait
  <2>2. CASE EndQuit(l)
    BY <1>1, <2>2 DEF EndQuit, Dies
  <2>3. CASE ~PollTryWait(l) /\ ~EndQuit(l)
    BY <1>2, <1>3, <2>3
    DEF LaunchSteps, Claim, RemoveSocket, Bind, Connect, StoreSession, Poll, PollTake, PollProbe,
        Disconnect, Quit, ExitRequested
  <2> QED
    BY <2>1, <2>2, <2>3
<1>4. ASSUME NEW o \in Program, ProgramSteps(o)
      PROVE  Wanes
  <2>1. CASE SpawnChild(o)
    BY <2>1 DEF SpawnChild, Child, TypeOK
  <2>2. CASE Crash(o)
    BY <1>1, <2>2 DEF Crash, Dies
  <2>3. CASE ~SpawnChild(o) /\ ~Crash(o)
    BY <1>2, <1>4, <2>3 DEF ProgramSteps, WriteConfig, SpawnFails, WritePid
  <2> QED
    BY <2>1, <2>2, <2>3
<1>5. ASSUME NEW o \in Program, StartFails(o) \/ VpnEnds(o)
      PROVE  Wanes
  BY <1>5 DEF StartFails, VpnEnds, Child, Left, TypeOK
<1>6. ASSUME NEW c \in Cli, CliSteps(c)
      PROVE  Wanes
  BY <1>1, <1>2, <1>6 DEF CliSteps, CliTryWait, CliDrop, CtrlC, TofvDisconnect
<1>7. ASSUME NEW x \in Worker, AskHelper(x)
      PROVE  Wanes
  <2>1. raced' = raced /\ (HelperStops(x) \/ UNCHANGED <<vpn, rootPid>>)
    BY <1>7 DEF AskHelper, HelperFails
  <2> QED
    BY <2>1 DEF HelperStops, Left, TypeOK
<1>8. ASSUME NEW x \in Worker, Signal(x)
      PROVE  Wanes
  BY <1>8 DEF Signal, Left, TypeOK
<1>9. ASSUME NEW x \in Worker, Wait(x) \/ DropTaken(x) \/ ReadPid(x) \/ Unlink(x)
      PROVE  Wanes
  BY <1>1, <1>2, <1>9 DEF Wait, DropTaken, ReadPid, Unlink
<1>10. CASE UNCHANGED vars
  BY <1>2, <1>10 DEF vars
<1> QED
  BY <1>3, <1>4, <1>5, <1>6, <1>7, <1>8, <1>9, <1>10 DEF Next, ChildSteps, WorkerSteps

LEMMA AloneStep ==
  ASSUME TypeOK, Alone, [Next]_vars
  PROVE  Alone'
<1> USE Different DEF Starting, Tunnel
<1>1. ASSUME NEW o \in Program, HelperLook(o)
      PROVE  Alone'
  <2>1. /\ vpn[o] = "asking" /\ vpn' = [vpn EXCEPT ![o] = "looked"] /\ rootPid' = rootPid
        /\ FindSession = {}
        /\ raced' = IF Starting = {} THEN raced ELSE raced \cup Starting \cup {o}
    BY <1>1 DEF HelperLook, Child
  <2>2. /\ Tunnel = {}
        /\ ~(rootPid # NoOne /\ vpn[rootPid] \in {"up", "zombie"})
    BY <2>1 DEF FindSession
  <2> QED
    BY <2>1, <2>2 DEF Alone, TypeOK
<1>2. ASSUME NEW o \in Program, HelperExec(o)
      PROVE  Alone'
  BY <1>2 DEF HelperExec, Child, Alone, TypeOK
<1>3. ASSUME Wanes
      PROVE  Alone'
  BY <1>3 DEF Wanes, Alone, TypeOK
<1> QED
  BY <1>1, <1>2, <1>3, MostStepsWane

-----------------------------------------------------------------------------
(* Quit *)

\* The steps that end no tunnel, and in which Quit neither begins nor ends nor asks.
Bystands ==
  /\ was' = was /\ refused' = refused
  /\ \A o \in Program : vpn[o] = "up" => vpn'[o] = "up"
  /\ \A o \in Program : vpn[o] = "up" /\ o \in raced' => o \in raced
  /\ \A l \in Launch : prog[l] = "quit" /\ work[Quitting(l)] \in {"stop", "find"} =>
                         prog'[l] = "quit" /\ work'[Quitting(l)] = work[Quitting(l)]

LEMMA BystandsKeeps ==
  ASSUME TypeOK, QuitKnows, Bystands
  PROVE  QuitKnows'
BY DEF Bystands, QuitKnows, Tunnel, TypeOK

LEMMA MostStepsBystand ==
  ASSUME TypeOK, Made, [Next]_vars,
         \A l \in Launch : ~Quit(l),
         \A o \in Program : ~VpnEnds(o) /\ ~Crash(o),
         \A x \in Worker : ~AskHelper(x)
  PROVE  Bystands
<1> USE Different DEF Bystands, Program
<1>0. \A l \in Launch : Quitting(l) \in Worker \ Cli
  BY WorkersDiffer
<1>1. ASSUME NEW l \in Launch,
             Claim(l) \/ RemoveSocket(l) \/ Bind(l) \/ Connect(l) \/ StoreSession(l)
      PROVE  Bystands
  BY <1>1 DEF Claim, RemoveSocket, Bind, Connect, StoreSession, Goto, TypeOK, app, tunnel, tearing
<1>2. ASSUME NEW l \in Launch, Poll(l)
      PROVE  Bystands
  BY <1>2 DEF Poll, PollTryWait, PollTake, PollProbe, Reap, Ended, TypeOK, tunnel, tearing
<1>3. ASSUME NEW l \in Launch, Disconnect(l)
      PROVE  Bystands
  <2>1. \A m \in Launch : Quitting(m) # Disconnecting(l)
    BY WorkersDiffer
  <2>2. \A m \in Launch : work'[Quitting(m)] = work[Quitting(m)]
    BY <1>0, <1>3, <2>1 DEF Disconnect, Take, Do, TypeOK
  <2> QED
    BY <1>3, <2>2 DEF Disconnect, tunnel
<1>4. ASSUME NEW l \in Launch, ExitRequested(l)
      PROVE  Bystands
  <2>1. \A m \in Launch : m # l => Quitting(m) # Quitting(l)
    BY WorkersDiffer
  <2>2. \A m \in Launch : m # l => work'[Quitting(m)] = work[Quitting(m)] /\ prog'[m] = prog[m]
    BY <1>0, <1>4, <2>1 DEF ExitRequested, Take, Do, Goto, TypeOK
  <2> QED
    BY <1>4, <2>2 DEF ExitRequested, tunnel
<1>5. ASSUME NEW l \in Launch, EndQuit(l)
      PROVE  Bystands
  <2>1. \A m \in Launch : m # l => Quitting(m) \notin ThreadsOf(l)
    BY LifecycleAssumption DEF ThreadsOf, Disconnecting, Quitting
  <2>2. \A m \in Launch : m # l => work'[Quitting(m)] = work[Quitting(m)] /\ prog'[m] = prog[m]
    BY <1>0, <1>5, <2>1 DEF EndQuit, Dies, Goto, TypeOK
  <2> QED
    BY <1>5, <2>2 DEF EndQuit, Dies, Reap, Ended, TypeOK
<1>6. ASSUME NEW o \in Program, WriteConfig(o) \/ SpawnChild(o) \/ SpawnFails(o) \/ WritePid(o)
      PROVE  Bystands
  BY <1>6
  DEF WriteConfig, SpawnChild, SpawnFails, WritePid, Child, Goto, Made, TypeOK, app, tunnel,
      tearing
<1>7. ASSUME NEW o \in Program, StartFails(o) \/ HelperLook(o) \/ HelperExec(o)
      PROVE  Bystands
  BY <1>7 DEF StartFails, HelperLook, HelperExec, Starting, Child, TypeOK, app, tearing
<1>8. ASSUME NEW c \in Cli, CliSteps(c)
      PROVE  Bystands
  BY <1>0, <1>8
  DEF CliSteps, CliTryWait, CliDrop, CtrlC, TofvDisconnect, Reap, Ended, Do, Goto, TypeOK,
      app, tunnel, tearing
<1>9. ASSUME NEW x \in Worker, Signal(x) \/ Wait(x) \/ DropTaken(x) \/ ReadPid(x) \/ Unlink(x)
      PROVE  Bystands
  <2>1. \A y \in Worker : work[y] \in {"stop", "find"} => work'[y] = work[y]
    BY <1>9 DEF Signal, Wait, DropTaken, ReadPid, Unlink, Do, TypeOK
  <2>2. /\ UNCHANGED <<was, refused, raced>>
        /\ \A l \in Launch : prog'[l] = prog[l]
    BY <1>9 DEF Signal, Wait, DropTaken, ReadPid, Unlink, TypeOK, app, tunnel
  <2>3. \A o \in Program : vpn[o] = "up" => vpn'[o] = "up"
    BY <1>9 DEF Signal, Wait, DropTaken, ReadPid, Unlink, Reap, Ended, TypeOK, tunnel
  <2> QED
    BY <1>0, <2>1, <2>2, <2>3
<1>10. CASE UNCHANGED vars
  BY <1>10 DEF vars, app, tunnel, tearing
<1> QED
  BY <1>1, <1>2, <1>3, <1>4, <1>5, <1>6, <1>7, <1>8, <1>9, <1>10
  DEF Next, LaunchSteps, ProgramSteps, ChildSteps, WorkerSteps

\* After its request to stop, Quit has no tunnel left, or polkit refused.
LEMMA QuitIsAnswered ==
  ASSUME TypeOK, Alone, QuitKnows, NEW l \in Launch, AskHelper(Quitting(l))
  PROVE  was'[l] = {} \/ l \in refused'
<1>1. /\ was' = [m \in Launch |-> {p \in was[m] : vpn'[p] = "up"}]
      /\ l \in Asker(Quitting(l))
      /\ was[l] \subseteq Tunnel \ raced
  BY DEF AskHelper, Asker, QuitKnows
<1>2. CASE HelperStops(Quitting(l))
  <2> SUFFICES ASSUME NEW p \in was'[l]
               PROVE  FALSE
    OBVIOUS
  <2>1. p \in Tunnel \ raced /\ vpn'[p] = "up"
    BY <1>1
  <2>2. FindSession = {p}
    BY <2>1 DEF Alone, FindSession, Tunnel
  <2> QED
    BY <1>2, <2>1, <2>2 DEF HelperStops, Left, Tunnel, TypeOK
<1>3. CASE HelperFails(Quitting(l))
  <2>1. FindSession = {} => was[l] = {}
    BY <1>1 DEF FindSession
  <2> QED
    BY <1>1, <1>3, <2>1 DEF HelperFails
<1> QED
  BY <1>2, <1>3 DEF AskHelper

LEMMA QuitKnowsStep ==
  ASSUME TypeOK, Made, Alone, QuitKnows, [Next]_vars
  PROVE  QuitKnows'
<1> USE Different DEF Program
<1>1. ASSUME NEW l \in Launch, Quit(l)
      PROVE  QuitKnows'
  <2>1. /\ was' = [was EXCEPT ![l] = Tunnel \ raced]
        /\ UNCHANGED <<vpn, raced, refused>>
        /\ prog' = [prog EXCEPT ![l] = "quit"]
        /\ work' = [work EXCEPT ![Quitting(l)] = "stop"] \/ work' = [work EXCEPT ![Quitting(l)] = "find"]
    BY <1>1 DEF Quit, Take, Do, Goto, tunnel
  <2>2. \A m \in Launch : Quitting(m) \in Worker /\ (m # l => Quitting(m) # Quitting(l))
    BY WorkersDiffer
  <2> QED
    BY <2>1, <2>2 DEF QuitKnows, Tunnel, TypeOK
<1>2. ASSUME NEW o \in Program, VpnEnds(o)
      PROVE  QuitKnows'
  BY <1>2 DEF VpnEnds, Child, Left, QuitKnows, Tunnel, TypeOK, app
<1>3. ASSUME NEW o \in Program, Crash(o)
      PROVE  QuitKnows'
  <2>1. \A m \in Launch : m # o => Quitting(m) \notin ThreadsOf(o)
    BY LifecycleAssumption DEF ThreadsOf, Disconnecting, Quitting
  <2>2. \A m \in Launch : m # o => work'[Quitting(m)] = work[Quitting(m)] /\ prog'[m] = prog[m]
    BY <1>3, <2>1, WorkersDiffer DEF Crash, Dies, Goto, TypeOK
  <2>3. /\ was' = [l \in Launch |-> IF l = o THEN {} ELSE was[l]]
        /\ UNCHANGED <<raced, refused>>
        /\ \A p \in Program : vpn[p] = "up" => vpn'[p] = "up"
    BY <1>3 DEF Crash, Dies, Reap, Ended, TypeOK
  <2> QED
    BY <2>2, <2>3 DEF QuitKnows, Tunnel
<1>4. ASSUME NEW x \in Worker, AskHelper(x)
      PROVE  QuitKnows'
  <2>1. /\ was' = [l \in Launch |-> {p \in was[l] : vpn'[p] = "up"}]
        /\ UNCHANGED <<prog, raced>>
    BY <1>4 DEF AskHelper, app
  <2>2. ASSUME NEW l \in Launch, x # Quitting(l)
        PROVE  /\ work'[Quitting(l)] = work[Quitting(l)]
               /\ l \in refused => l \in refused'
    <3>1. l \notin Asker(x)
      BY <2>2 DEF Asker
    <3> QED
      BY <1>4, <2>2, <3>1, WorkersDiffer DEF AskHelper, HelperStops, HelperFails, Do, TypeOK
  <2>3. ASSUME NEW l \in Launch
        PROVE  was'[l] # {} /\ l \notin refused' =>
                 prog'[l] = "quit" /\ work'[Quitting(l)] \in {"stop", "find"}
    <3>1. CASE x = Quitting(l)
      BY <1>4, <3>1, QuitIsAnswered
    <3>2. CASE x # Quitting(l)
      BY <2>1, <2>2, <3>2 DEF QuitKnows
    <3> QED
      BY <3>1, <3>2
  <2>4. \A l \in Launch : was'[l] \subseteq Tunnel' \ raced'
    BY <2>1 DEF QuitKnows, Tunnel
  <2> QED
    BY <2>3, <2>4 DEF QuitKnows
<1>5. ASSUME Bystands
      PROVE  QuitKnows'
  BY <1>5, BystandsKeeps
<1> QED
  BY <1>1, <1>2, <1>3, <1>4, <1>5, MostStepsBystand

-----------------------------------------------------------------------------
(* The invariant, and what follows from it *)

\* One launch is the app, sessions and files agree, one worker ends a session, a pid is
\* freed only then, a start that nobody raced makes the only tunnel, and Quit knows which
\* tunnels it has to stop.
THEOREM AppInvariant == Spec => []AppInv
<1>1. Init => AppInv
  <2> SUFFICES ASSUME Init
               PROVE  AppInv
    OBVIOUS
  <2>1. TypeOK
    BY DEF Init, TypeOK, Program, Worker, Stages, Children, Works, Statuses
  <2>2. PICK cast \in Casts :
          /\ prog = [o \in Program |-> IF o \in cast.run THEN "off" ELSE "gone"]
          /\ slot = [o \in Program |-> IF o \in cast.connect THEN "none" ELSE "dropped"]
    BY DEF Init
  <2>3. OneClaims /\ Made /\ GoneEnds
    BY <2>2 DEF Init, OneClaims, Made, GoneEnds, Live, Running, Claiming, Program
  <2>4. OneEnds
    BY <2>2, WorkersDiffer DEF Init, OneEnds, Held, Program
  <2>5. Alone /\ QuitKnows
    BY DEF Init, Alone, QuitKnows, Starting, Tunnel
  <2> QED
    BY <2>1, <2>3, <2>4, <2>5 DEF AppInv
<1>2. AppInv /\ [Next]_vars => AppInv'
  BY TypeStep, ClaimsStep, MadeStep, EndsStep, GoneStep, AloneStep, QuitKnowsStep DEF AppInv
<1> QED
  BY <1>1, <1>2, PTL DEF Spec

\* A launch that claimed the socket while no other one did is the one that answers on it
\* as long as it runs, after crashes too; what else runs raced for the claim.
THEOREM OneAppReachable == Spec => []OneReachableApp
<1>1. AppInv => OneReachableApp
  BY DEF AppInv, OneClaims, OneReachableApp, Live, Running
<1> QED
  BY <1>1, AppInvariant, PTL

\* No tunnel that ran alone when Quit was chosen outlives the app, whether its own or
\* adopted, and whatever crashed before, unless the user refused.
THEOREM QuitStopsTunnels == Spec => []QuitStops
<1>1. AppInv => QuitStops
  BY DEF AppInv, QuitKnows, QuitStops
<1> QED
  BY <1>1, AppInvariant, PTL

\* The pid in session.pid cannot be another process's, but in the two windows that the
\* property names.
THEOREM PidFileIsTrue == Spec => []PidFileTrue
<1>1. AppInv => PidFileTrue
  <2> SUFFICES ASSUME AppInv, pidFile # NoOne
               PROVE  /\ slot[pidFile] # "dropped"
                      /\ vpn[pidFile] = "gone" /\ Live(pidFile) => Ending(pidFile)
    BY DEF PidFileTrue
  <2>1. pidFile \in Program /\ slot[pidFile] \in {"named", "held", "taken"}
    BY DEF AppInv, TypeOK, Made
  <2>2. ASSUME vpn[pidFile] = "gone", Live(pidFile), slot[pidFile] = "taken"
        PROVE  \E x \in Worker : Held(x) /\ pidFile = Own(x)
    <3>1. pidFile \in Launch
      BY <2>1, <2>2 DEF AppInv, TypeOK, Program
    <3> QED
      BY <2>2, <3>1, OwnIs, WorkersDiffer DEF AppInv, OneEnds
  <2>3. vpn[pidFile] = "gone" /\ Live(pidFile) => Ending(pidFile)
    BY <2>1, <2>2 DEF AppInv, GoneEnds, Ending
  <2> QED
    BY <2>1, <2>3
<1> QED
  BY <1>1, AppInvariant, PTL

\* default.conf never holds the code of a session that has ended, however many programs
\* write and remove it.
THEOREM CodeIsNotLeft == Spec => []CodeNotLeft
<1>1. AppInv => CodeNotLeft
  BY DEF AppInv, Made, CodeNotLeft
<1> QED
  BY <1>1, AppInvariant, PTL
=============================================================================
