-------------------------- MODULE VpnHelper_proofs --------------------------
(* Invariance proofs for VpnHelper, for any number of starts and stops. *)
EXTENDS VpnHelper, FiniteSetTheorems, TLAPS

\* The search returns pids under which an openfortivpn runs or is not reaped yet, and
\* it comes back empty only if no tunnel runs (tofv-scan lib.rs:65-74).
LEMMA SearchFinds ==
  ASSUME TypeOK
  PROVE  /\ FindSession \subseteq {s \in Start : proc[s] \in {"vpn", "closing", "zombie"}}
         /\ Tunnel # {} => FindSession # {}
BY HelperAssumption DEF TypeOK, FindSession, ScanProc, CommIsOpenfortivpn, Tunnel

\* Every variable keeps its type in every step of start and stop.
LEMMA TypeStep == TypeOK /\ [Next]_vars => TypeOK'
<1> SUFFICES ASSUME TypeOK, [Next]_vars PROVE TypeOK'
  OBVIOUS
<1> USE HelperAssumption DEF TypeOK, ProcState, starting, stopping, files
<1>1. ASSUME NEW s \in Start, CheckConfig(s) PROVE TypeOK'
  BY <1>1 DEF CheckConfig, Goto, Fail
<1>2. ASSUME NEW s \in Start, LookForSession(s) PROVE TypeOK'
  BY <1>2 DEF LookForSession, Goto, Fail, Tunnel
<1>3. ASSUME NEW s \in Start, RemoveConf(s) PROVE TypeOK'
  BY <1>3 DEF RemoveConf, Goto, Fail
<1>4. ASSUME NEW s \in Start, CreateConf(s) PROVE TypeOK'
  BY <1>4 DEF CreateConf, Goto, Fail
<1>5. ASSUME NEW s \in Start, RemovePid(s) PROVE TypeOK'
  BY <1>5 DEF RemovePid, Goto
<1>6. ASSUME NEW s \in Start, CreatePid(s) PROVE TypeOK'
  BY <1>6 DEF CreatePid, Goto, Fail
<1>7. ASSUME NEW s \in Start, Exec(s) PROVE TypeOK'
  BY <1>7 DEF Exec, Goto, Fail
<1>8. ASSUME NEW s \in Start, ReadConf(s) PROVE TypeOK'
  BY <1>8 DEF ReadConf
<1>9. ASSUME NEW s \in Start, VpnExits(s) PROVE TypeOK'
  BY <1>9 DEF VpnExits
<1>10. ASSUME NEW s \in Start, Reap(s) PROVE TypeOK'
  BY <1>10 DEF Reap
<1>11. ASSUME NEW s \in Start, Drop(s) PROVE TypeOK'
  BY <1>11 DEF Drop
<1>12. ASSUME NEW k \in Stop, StopFind(k) PROVE TypeOK'
  BY <1>12, SearchFinds DEF StopFind, Then
<1>13. ASSUME NEW k \in Stop, Interrupt(k) PROVE TypeOK'
  BY <1>13 DEF Interrupt, Then
<1>14. ASSUME NEW k \in Stop, StopWait(k) PROVE TypeOK'
  BY <1>14 DEF StopWait, Then
<1>15. ASSUME NEW k \in Stop, StopKill(k) PROVE TypeOK'
  BY <1>15 DEF StopKill, Then
<1>16. ASSUME NEW k \in Stop, WipeSessionFiles(k) PROVE TypeOK'
  BY <1>16 DEF WipeSessionFiles, Then
<1>17. CASE UNCHANGED vars
  BY <1>17 DEF vars
<1>18. QED
  BY <1>1, <1>2, <1>3, <1>4, <1>5, <1>6, <1>7, <1>8, <1>9, <1>10, <1>11, <1>12,
     <1>13, <1>14, <1>15, <1>16, <1>17 DEF Next, StartStep, StopStep

\* Every step keeps what is known about the stages, the files and the stopped sessions.
LEMMA HelperStep == HelperInv /\ [Next]_vars => HelperInv'
<1> SUFFICES ASSUME HelperInv, [Next]_vars PROVE HelperInv'
  OBVIOUS
<1>0. TypeOK /\ TypeOK'
  BY TypeStep DEF HelperInv
<1> USE HelperAssumption, <1>0 DEF TypeOK, starting, stopping, files
<1>1. ASSUME NEW s \in Start, CheckConfig(s) PROVE HelperInv'
  <2>1. StagesAgree'
    BY <1>1 DEF CheckConfig, Goto, Fail, HelperInv, StagesAgree
  <2>2. Unwritten'
    BY <1>1 DEF CheckConfig, Goto, Fail, HelperInv, Unwritten, StagesAgree
  <2>3. StoppedIsDown'
    BY <1>1 DEF CheckConfig, Goto, Fail, HelperInv, StoppedIsDown, StagesAgree, Tunnel
  <2>4. StopCleansUp'
    BY <1>1 DEF CheckConfig, Goto, Fail, HelperInv, StopCleansUp, StagesAgree
  <2>5. QED
    BY <2>1, <2>2, <2>3, <2>4 DEF HelperInv
<1>2. ASSUME NEW s \in Start, LookForSession(s) PROVE HelperInv'
  <2>1. StagesAgree'
    BY <1>2, SearchFinds DEF LookForSession, Goto, Fail, HelperInv, StagesAgree
  <2>2. Unwritten'
    BY <1>2, SearchFinds
       DEF LookForSession, Goto, Fail, HelperInv, Unwritten, StagesAgree, Tunnel
  <2>3. StoppedIsDown'
    BY <1>2, SearchFinds
       DEF LookForSession, Goto, Fail, HelperInv, StoppedIsDown, StagesAgree, Tunnel
  <2>4. StopCleansUp'
    BY <1>2 DEF LookForSession, Goto, Fail, HelperInv, StopCleansUp, StagesAgree
  <2>5. QED
    BY <2>1, <2>2, <2>3, <2>4 DEF HelperInv
<1>3. ASSUME NEW s \in Start, RemoveConf(s) PROVE HelperInv'
  <2>1. StagesAgree'
    BY <1>3 DEF RemoveConf, Goto, Fail, HelperInv, StagesAgree
  <2>2. Unwritten'
    BY <1>3 DEF RemoveConf, Goto, Fail, HelperInv, Unwritten, StagesAgree
  <2>3. StoppedIsDown'
    BY <1>3 DEF RemoveConf, Goto, Fail, HelperInv, StoppedIsDown, StagesAgree, Tunnel
  <2>4. StopCleansUp'
    BY <1>3 DEF RemoveConf, Goto, Fail, HelperInv, StopCleansUp, StagesAgree
  <2>5. QED
    BY <2>1, <2>2, <2>3, <2>4 DEF HelperInv
<1>4. ASSUME NEW s \in Start, CreateConf(s) PROVE HelperInv'
  <2>1. StagesAgree'
    BY <1>4 DEF CreateConf, Goto, Fail, HelperInv, StagesAgree
  <2>2. Unwritten'
    BY <1>4 DEF CreateConf, Goto, Fail, HelperInv, Unwritten, StagesAgree
  <2>3. StoppedIsDown'
    BY <1>4 DEF CreateConf, Goto, Fail, HelperInv, StoppedIsDown, StagesAgree, Tunnel
  <2>4. StopCleansUp'
    BY <1>4 DEF CreateConf, Goto, Fail, HelperInv, StopCleansUp, StagesAgree
  <2>5. QED
    BY <2>1, <2>2, <2>3, <2>4 DEF HelperInv
<1>5. ASSUME NEW s \in Start, RemovePid(s) PROVE HelperInv'
  <2>1. StagesAgree'
    BY <1>5 DEF RemovePid, Goto, HelperInv, StagesAgree
  <2>2. Unwritten'
    BY <1>5 DEF RemovePid, Goto, HelperInv, Unwritten, StagesAgree
  <2>3. StoppedIsDown'
    BY <1>5 DEF RemovePid, Goto, HelperInv, StoppedIsDown, StagesAgree, Tunnel
  <2>4. StopCleansUp'
    BY <1>5 DEF RemovePid, Goto, HelperInv, StopCleansUp, StagesAgree
  <2>5. QED
    BY <2>1, <2>2, <2>3, <2>4 DEF HelperInv
<1>6. ASSUME NEW s \in Start, CreatePid(s) PROVE HelperInv'
  <2>1. StagesAgree'
    BY <1>6 DEF CreatePid, Goto, Fail, HelperInv, StagesAgree
  <2>2. Unwritten'
    BY <1>6 DEF CreatePid, Goto, Fail, HelperInv, Unwritten, StagesAgree
  <2>3. StoppedIsDown'
    BY <1>6 DEF CreatePid, Goto, Fail, HelperInv, StoppedIsDown, StagesAgree, Tunnel
  <2>4. StopCleansUp'
    BY <1>6 DEF CreatePid, Goto, Fail, HelperInv, StopCleansUp, StagesAgree
  <2>5. QED
    BY <2>1, <2>2, <2>3, <2>4 DEF HelperInv
<1>7. ASSUME NEW s \in Start, Exec(s) PROVE HelperInv'
  <2>1. StagesAgree'
    BY <1>7 DEF Exec, Goto, Fail, HelperInv, StagesAgree
  <2>2. Unwritten'
    BY <1>7 DEF Exec, Goto, Fail, HelperInv, Unwritten, StagesAgree
  <2>3. StoppedIsDown'
    BY <1>7 DEF Exec, Goto, Fail, HelperInv, StoppedIsDown, StagesAgree, Tunnel
  <2>4. StopCleansUp'
    BY <1>7 DEF Exec, Goto, Fail, HelperInv, StopCleansUp, StagesAgree
  <2>5. QED
    BY <2>1, <2>2, <2>3, <2>4 DEF HelperInv
<1>8. ASSUME NEW s \in Start, ReadConf(s) PROVE HelperInv'
  <2>1. StagesAgree'
    BY <1>8 DEF ReadConf, HelperInv, StagesAgree
  <2>2. Unwritten'
    BY <1>8 DEF ReadConf, HelperInv, Unwritten, StagesAgree
  <2>3. StoppedIsDown'
    BY <1>8 DEF ReadConf, HelperInv, StoppedIsDown, StagesAgree, Tunnel
  <2>4. StopCleansUp'
    BY <1>8 DEF ReadConf, HelperInv, StopCleansUp, StagesAgree
  <2>5. QED
    BY <2>1, <2>2, <2>3, <2>4 DEF HelperInv
<1>9. ASSUME NEW s \in Start, VpnExits(s) PROVE HelperInv'
  <2>1. StagesAgree'
    BY <1>9 DEF VpnExits, HelperInv, StagesAgree
  <2>2. Unwritten'
    BY <1>9 DEF VpnExits, HelperInv, Unwritten, StagesAgree
  <2>3. StoppedIsDown'
    BY <1>9 DEF VpnExits, HelperInv, StoppedIsDown, StagesAgree, Tunnel
  <2>4. StopCleansUp'
    BY <1>9 DEF VpnExits, HelperInv, StopCleansUp, StagesAgree
  <2>5. QED
    BY <2>1, <2>2, <2>3, <2>4 DEF HelperInv
<1>10. ASSUME NEW s \in Start, Reap(s) PROVE HelperInv'
  <2>1. StagesAgree'
    BY <1>10 DEF Reap, HelperInv, StagesAgree
  <2>2. Unwritten'
    BY <1>10 DEF Reap, HelperInv, Unwritten, StagesAgree
  <2>3. StoppedIsDown'
    BY <1>10 DEF Reap, HelperInv, StoppedIsDown, StagesAgree, Tunnel
  <2>4. StopCleansUp'
    BY <1>10 DEF Reap, HelperInv, StopCleansUp, StagesAgree
  <2>5. QED
    BY <2>1, <2>2, <2>3, <2>4 DEF HelperInv
<1>11. ASSUME NEW s \in Start, Drop(s) PROVE HelperInv'
  <2>1. StagesAgree'
    BY <1>11 DEF Drop, HelperInv, StagesAgree
  <2>2. Unwritten'
    BY <1>11 DEF Drop, HelperInv, Unwritten, StagesAgree
  <2>3. StoppedIsDown'
    BY <1>11 DEF Drop, HelperInv, StoppedIsDown, StagesAgree, Tunnel
  <2>4. StopCleansUp'
    BY <1>11 DEF Drop, HelperInv, StopCleansUp, StagesAgree
  <2>5. QED
    BY <2>1, <2>2, <2>3, <2>4 DEF HelperInv
<1>12. ASSUME NEW k \in Stop, StopFind(k) PROVE HelperInv'
  <2>1. StagesAgree'
    BY <1>12, SearchFinds DEF StopFind, Then, HelperInv, StagesAgree
  <2>2. Unwritten'
    BY <1>12, SearchFinds DEF StopFind, Then, HelperInv, Unwritten, StagesAgree
  <2>3. StoppedIsDown'
    BY <1>12, SearchFinds DEF StopFind, Then, HelperInv, StoppedIsDown, StagesAgree, Tunnel
  <2>4. StopCleansUp'
    BY <1>12 DEF StopFind, Then, HelperInv, StopCleansUp, StagesAgree
  <2>5. QED
    BY <2>1, <2>2, <2>3, <2>4 DEF HelperInv
<1>13. ASSUME NEW k \in Stop, Interrupt(k) PROVE HelperInv'
  <2>1. StagesAgree'
    BY <1>13 DEF Interrupt, Then, HelperInv, StagesAgree
  <2>2. Unwritten'
    BY <1>13 DEF Interrupt, Then, HelperInv, Unwritten, StagesAgree
  <2>3. StoppedIsDown'
    BY <1>13 DEF Interrupt, Then, HelperInv, StoppedIsDown, StagesAgree, Tunnel
  <2>4. StopCleansUp'
    BY <1>13 DEF Interrupt, Then, HelperInv, StopCleansUp, StagesAgree
  <2>5. QED
    BY <2>1, <2>2, <2>3, <2>4 DEF HelperInv
<1>14. ASSUME NEW k \in Stop, StopWait(k) PROVE HelperInv'
  <2>1. StagesAgree'
    BY <1>14 DEF StopWait, Then, HelperInv, StagesAgree
  <2>2. Unwritten'
    BY <1>14 DEF StopWait, Then, HelperInv, Unwritten, StagesAgree
  <2>3. StoppedIsDown'
    BY <1>14 DEF StopWait, Then, HelperInv, StoppedIsDown, StagesAgree, Tunnel
  <2>4. StopCleansUp'
    BY <1>14 DEF StopWait, Then, HelperInv, StopCleansUp, StagesAgree
  <2>5. QED
    BY <2>1, <2>2, <2>3, <2>4 DEF HelperInv
<1>15. ASSUME NEW k \in Stop, StopKill(k) PROVE HelperInv'
  <2>1. StagesAgree'
    BY <1>15 DEF StopKill, Then, HelperInv, StagesAgree, Tunnel
  <2>2. Unwritten'
    BY <1>15 DEF StopKill, Then, HelperInv, Unwritten, StagesAgree
  <2>3. StoppedIsDown'
    BY <1>15 DEF StopKill, Then, HelperInv, StoppedIsDown, StagesAgree, Tunnel
  <2>4. StopCleansUp'
    BY <1>15 DEF StopKill, Then, HelperInv, StopCleansUp, StagesAgree
  <2>5. QED
    BY <2>1, <2>2, <2>3, <2>4 DEF HelperInv
<1>16. ASSUME NEW k \in Stop, WipeSessionFiles(k) PROVE HelperInv'
  <2>1. StagesAgree'
    BY <1>16 DEF WipeSessionFiles, Then, HelperInv, StagesAgree
  <2>2. Unwritten'
    BY <1>16 DEF WipeSessionFiles, Then, HelperInv, Unwritten, StagesAgree
  <2>3. StoppedIsDown'
    BY <1>16 DEF WipeSessionFiles, Then, HelperInv, StoppedIsDown, StagesAgree, Tunnel
  <2>4. StopCleansUp'
    BY <1>16 DEF WipeSessionFiles, Then, HelperInv, StopCleansUp, StagesAgree
  <2>5. QED
    BY <2>1, <2>2, <2>3, <2>4 DEF HelperInv
<1>17. CASE UNCHANGED vars
  BY <1>17 DEF vars, HelperInv, StagesAgree, Unwritten, StoppedIsDown, StopCleansUp,
     Tunnel
<1>18. QED
  BY <1>1, <1>2, <1>3, <1>4, <1>5, <1>6, <1>7, <1>8, <1>9, <1>10,
     <1>11, <1>12, <1>13, <1>14, <1>15, <1>16, <1>17 DEF Next, StartStep, StopStep

\* The inductive invariant of the helper.
THEOREM HelperInvariant == Spec => []HelperInv
<1>1. Init => HelperInv
  BY HelperAssumption DEF Init, HelperInv, TypeOK, ProcState, StagesAgree, Unwritten,
     StoppedIsDown, StopCleansUp, Tunnel
<1>2. QED
  BY <1>1, HelperStep, PTL DEF Spec

\* Every variable keeps its type.
THEOREM TypesCorrect == Spec => []TypeOK
<1>1. HelperInv => TypeOK
  BY DEF HelperInv
<1>2. QED
  BY <1>1, HelperInvariant, PTL

\* A start that saw a tunnel neither joins it nor touches its files (main.rs:69-90).
THEOREM SeenTunnelUntouched == Spec => []SeenTunnelIsSafe
<1>1. HelperInv => SeenTunnelIsSafe
  BY DEF HelperInv, TypeOK, StagesAgree, Unwritten, SeenTunnelIsSafe, Tunnel
<1>2. QED
  BY <1>1, HelperInvariant, PTL

\* A stop that reports success has ended its tunnel (main.rs:113-131).
THEOREM StopIsEffective == Spec => []StoppedIsDown
<1>1. HelperInv => StoppedIsDown
  BY DEF HelperInv
<1>2. QED
  BY <1>1, HelperInvariant, PTL

\* ... and has removed its files for good (main.rs:134-137).
THEOREM StopLeavesNoFiles == Spec => []StopCleansUp
<1>1. HelperInv => StopCleansUp
  BY DEF HelperInv
<1>2. QED
  BY <1>1, HelperInvariant, PTL

-----------------------------------------------------------------------------
(* When a second tunnel is refused *)

\* Only a start that has just looked joins those that are, or may become, a tunnel.
LEMMA AloneFrame ==
  ASSUME TunnelAlone, \A s \in Start : Looked(s)' \/ s \in Tunnel' => Looked(s) \/ s \in Tunnel
  PROVE  TunnelAlone'
BY DEF TunnelAlone

LEMMA AloneStep ==
  ASSUME HelperInv, TunnelAlone, OneLooks', [Next]_vars
  PROVE  TunnelAlone'
<1>1. TypeOK /\ StagesAgree
  BY DEF HelperInv
<1>2. ASSUME NEW s \in Start, LookForSession(s) PROVE TunnelAlone'
  <2>1. CASE FindSession = {}
    <3>1. Tunnel = {} /\ Tunnel' = {}
      BY <1>1, <1>2, <2>1, SearchFinds DEF LookForSession, Tunnel, StagesAgree
    <3>2. QED
      BY <3>1 DEF OneLooks, TunnelAlone
  <2>2. CASE FindSession # {}
    <3>1. \A t \in Start : Looked(t)' \/ t \in Tunnel' => Looked(t) \/ t \in Tunnel
      BY <1>1, <1>2, <2>2 DEF LookForSession, Fail, Goto, Looked, Tunnel, TypeOK
    <3>2. QED
      BY <3>1, AloneFrame
  <2>3. QED
    BY <2>1, <2>2
<1>3. ASSUME NEW s \in Start,
             CheckConfig(s) \/ RemoveConf(s) \/ CreateConf(s) \/ RemovePid(s) \/ CreatePid(s)
               \/ Exec(s)
      PROVE  TunnelAlone'
  <2>1. \A t \in Start : Looked(t)' \/ t \in Tunnel' => Looked(t) \/ t \in Tunnel
    BY <1>1, <1>3 DEF CheckConfig, RemoveConf, CreateConf, RemovePid, CreatePid, Exec, Fail,
                      Goto, Looked, Tunnel, TypeOK, StagesAgree
  <2>2. QED
    BY <2>1, AloneFrame
<1>4. ASSUME NEW s \in Start, ReadConf(s) \/ VpnExits(s) \/ Reap(s) \/ Drop(s)
      PROVE  TunnelAlone'
  <2>1. \A t \in Start : Looked(t)' \/ t \in Tunnel' => Looked(t) \/ t \in Tunnel
    BY <1>1, <1>4 DEF ReadConf, VpnExits, Reap, Drop, starting, Looked, Tunnel, TypeOK
  <2>2. QED
    BY <2>1, AloneFrame
<1>5. ASSUME NEW k \in Stop, StopStep(k) PROVE TunnelAlone'
  <2>1. \A t \in Start : Looked(t)' \/ t \in Tunnel' => Looked(t) \/ t \in Tunnel
    BY <1>1, <1>5 DEF StopStep, StopFind, Interrupt, StopWait, StopKill, WipeSessionFiles,
                      starting, Looked, Tunnel, TypeOK
  <2>2. QED
    BY <2>1, AloneFrame
<1>6. CASE UNCHANGED vars
  BY <1>6, AloneFrame DEF vars, Looked, Tunnel
<1>7. QED
  BY <1>2, <1>3, <1>4, <1>5, <1>6 DEF Next, StartStep

\* The search and the refusal keep a second tunnel away as long as no two starts are
\* between their look and their openfortivpn at once: that race is the only way to two,
\* whatever is stopped meanwhile and whatever vpn.pid says (main.rs:69-103, tofv-scan lib.rs:65).
THEOREM OneTunnelUnlessRace == Spec /\ []OneLooks => []OneTunnel
<1>1. Init => TunnelAlone
  BY DEF Init, TunnelAlone, Looked, Tunnel
<1>2. TunnelAlone => OneTunnel
  <2> SUFFICES ASSUME TunnelAlone PROVE Cardinality(Tunnel) <= 1
    BY DEF OneTunnel
  <2>1. CASE Tunnel = {}
    BY <2>1, FS_EmptySet
  <2>2. CASE Tunnel # {}
    <3>1. PICK s \in Start : s \in Tunnel
      BY <2>2 DEF Tunnel
    <3>2. Tunnel = {s}
      BY <3>1 DEF TunnelAlone, Tunnel
    <3>3. Cardinality({s}) = 1
      BY FS_Singleton
    <3>4. QED
      BY <3>2, <3>3
  <2>3. QED
    BY <2>1, <2>2
<1>3. HelperInv /\ TunnelAlone /\ OneLooks' /\ [Next]_vars => TunnelAlone'
  BY AloneStep
<1>4. QED
  BY <1>1, <1>2, <1>3, HelperInvariant, PTL DEF Spec
=============================================================================
