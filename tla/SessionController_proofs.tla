---------------------- MODULE SessionController_proofs ----------------------
(* Invariance proofs for SessionController, for any number of threads. *)
EXTENDS SessionController, FiniteSetTheorems, TLAPS

\* The program starts with every variable in its type (main.rs:61-78).
LEMMA InitTypeOK == Init => TypeOK
<1> SUFFICES ASSUME Init PROVE TypeOK
  OBVIOUS
<1>1. needCert \in BOOLEAN /\ certProbe \in BOOLEAN /\ pinned \in BOOLEAN
  BY ThreadAssumption, Zenon DEF Init
<1>2. QED
  BY <1>1, ThreadAssumption DEF Init, TypeOK, UiStatus, Thread

\* No command, thread or child takes a variable out of its type.
LEMMA TypeStep == TypeOK /\ [Next]_vars => TypeOK'
<1> SUFFICES ASSUME TypeOK, [Next]_vars PROVE TypeOK'
  OBVIOUS
<1> USE ThreadAssumption DEF TypeOK, UiStatus, Outcome, Thread,
           ui, notes, retry, running, poll, child, paths, memo, world
<1>1. CASE BeginConnect
  BY <1>1 DEF BeginConnect
<1>2. CASE BeginProbe
  BY <1>2 DEF BeginProbe
<1>3. CASE Connect
  BY <1>3 DEF Connect
<1>4. CASE ConnectProbe
  BY <1>4 DEF ConnectProbe
<1>5. CASE AdoptLive
  BY <1>5 DEF AdoptLive, EmitStatus, PromptAfter
<1>6. CASE ConnectAccept
  BY <1>6 DEF ConnectAccept, EmitStatus, PromptAfter
<1>7. CASE ConnectReset
  <2>1. needCert' \in BOOLEAN /\ certProbe' \in BOOLEAN
    BY <1>7, Zenon DEF ConnectReset
  <2>2. QED
    BY <1>7, <2>1 DEF ConnectReset
<1>8. CASE TrustCert
  <2>1. needCert' \in BOOLEAN /\ pinned' \in BOOLEAN
    BY <1>8, Zenon DEF TrustCert
  <2>2. QED
    BY <1>8, <2>1 DEF TrustCert
<1>9. CASE SaveProfile
  BY <1>9 DEF SaveProfile
<1>10. ASSUME NEW a \in Attempt, ConnectCommit(a) PROVE TypeOK'
  BY <1>10 DEF ConnectCommit, IsNext
<1>11. ASSUME NEW d \in Disconnect, DisconnectTake(d) PROVE TypeOK'
  BY <1>11 DEF DisconnectTake
<1>12. ASSUME NEW d \in Disconnect, DisconnectEmit(d) PROVE TypeOK'
  BY <1>12 DEF DisconnectEmit, EmitStatus, PromptAfter
<1>13. ASSUME NEW a \in Attempt, StartRefused(a) PROVE TypeOK'
  BY <1>13 DEF StartRefused
<1>14. ASSUME NEW a \in Attempt, CreateFiles(a) PROVE TypeOK'
  BY <1>14 DEF CreateFiles
<1>15. ASSUME NEW a \in Attempt, BindSocket(a) PROVE TypeOK'
  BY <1>15 DEF BindSocket
<1>16. ASSUME NEW a \in Attempt, SpawnChild(a) PROVE TypeOK'
  BY <1>16 DEF SpawnChild, DropBegin
<1>17. ASSUME NEW a \in Attempt, SpawnUnwind(a) PROVE TypeOK'
  BY <1>17 DEF SpawnUnwind
<1>18. ASSUME NEW a \in Attempt, StartFailed(a) PROVE TypeOK'
  BY <1>18 DEF StartFailed, EmitStatus, PromptAfter
<1>19. ASSUME NEW a \in Attempt, StoreSession(a) PROVE TypeOK'
  BY <1>19 DEF StoreSession, DropBegin
<1>20. ASSUME NEW a \in Attempt, StoreJoin(a) PROVE TypeOK'
  BY <1>20 DEF StoreJoin, DropEnd
<1>21. ASSUME NEW d \in Disconnect, DiscTerminate(d) PROVE TypeOK'
  BY <1>21 DEF DiscTerminate, HelperStop, Exits, Live
<1>22. ASSUME NEW d \in Disconnect, DiscDrop(d) PROVE TypeOK'
  BY <1>22 DEF DiscDrop, DropBegin
<1>23. ASSUME NEW d \in Disconnect, DiscJoin(d) PROVE TypeOK'
  BY <1>23 DEF DiscJoin, DropEnd
<1>24. ASSUME NEW d \in Disconnect, DiscKill(d) PROVE TypeOK'
  BY <1>24 DEF DiscKill, HelperStop, Exits, Live
<1>25. ASSUME NEW d \in Disconnect, DiscIdle(d) PROVE TypeOK'
  BY <1>25 DEF DiscIdle, EmitStatus, PromptAfter
<1>26. CASE PollLock
  BY <1>26 DEF PollLock
<1>27. CASE PollEmitUp
  BY <1>27 DEF PollEmitUp, EmitStatus, PromptAfter
<1>28. CASE PollTryWait
  BY <1>28 DEF PollTryWait, Classify
<1>29. CASE PollTake
  BY <1>29 DEF PollTake, DropBegin
<1>30. CASE PollJoin
  BY <1>30 DEF PollJoin, DropEnd
<1>31. CASE ApplyOutcome
  <2>1. needCert' \in BOOLEAN /\ pendingOtp' \in BOOLEAN
    BY <1>31, Zenon DEF ApplyOutcome
  <2>2. pollPc' \in {"retry", "retryNoCode", "emit"}
    BY <1>31, Zenon DEF ApplyOutcome
  <2>3. lastError' \in {"none", "start", "rejected", "exited"}
    BY <1>31, Zenon DEF ApplyOutcome
  <2>4. UNCHANGED <<ui, certProbe, pinned, running, mainPc, startPc, discPc, pollCur,
                    pollOut, skip, world>>
    BY <1>31 DEF ApplyOutcome
  <2>5. QED
    BY <2>1, <2>2, <2>3, <2>4
<1>32. CASE RetryUnpinned
  BY <1>32 DEF RetryUnpinned, IsNext, EmitStatus, PromptAfter
<1>33. CASE RetryWithoutCode
  <2>1. certProbe' \in BOOLEAN /\ pendingOtp' \in BOOLEAN
    BY <1>33, Zenon DEF RetryWithoutCode
  <2>2. pollPc' = "emit"
    BY <1>33 DEF RetryWithoutCode
  <2>3. UNCHANGED <<ui, notes, pinned, running, mainPc, startPc, discPc, pollCur,
                    pollOut, skip, world>>
    BY <1>33 DEF RetryWithoutCode
  <2>4. QED
    BY <2>1, <2>2, <2>3
<1>34. CASE OutcomeEmit
  BY <1>34 DEF OutcomeEmit, EmitStatus, PromptAfter, StatusOf
<1>35. CASE OutcomeError
  BY <1>35 DEF OutcomeError
<1>36. CASE PollStatus
  BY <1>36 DEF PollStatus
<1>37. CASE PollProbe
  BY <1>37 DEF PollProbe
<1>38. CASE PollReport
  BY <1>38 DEF PollReport, EmitStatus, PromptAfter
<1>39. ASSUME NEW a \in Attempt, ServerExit(a) PROVE TypeOK'
  BY <1>39 DEF ServerExit
<1>40. ASSUME NEW a \in Attempt, ChildConnects(a) PROVE TypeOK'
  <2>1. /\ proc' \in [Attempt -> {"none", "elevating", "starting", "vpn", "authed",
                                  "refused", "exited"}]
        /\ up' \in [Attempt -> BOOLEAN]
    BY <1>40 DEF ChildConnects, HelperStart, HelperRefuses, HelperExec, VpnAuth,
                 VpnUp, VpnExit, Exits, Advance
  <2>2. QED
    BY <1>40, <2>1 DEF ChildConnects, ChildOnly
<1>41. ASSUME NEW a \in Attempt, TunnelEnds(a) PROVE TypeOK'
  BY <1>41 DEF TunnelEnds, VpnExit, Exits, ChildOnly, Live
<1>42. CASE UNCHANGED vars
  BY <1>42 DEF vars
<1>43. QED
  BY <1>1, <1>2, <1>3, <1>4, <1>5, <1>6, <1>7, <1>8, <1>9, <1>10, <1>11, <1>12,
     <1>13, <1>14, <1>15, <1>16, <1>17, <1>18, <1>19, <1>20, <1>21, <1>22, <1>23,
     <1>24, <1>25, <1>26, <1>27, <1>28, <1>29, <1>30, <1>31, <1>32, <1>33, <1>34,
     <1>35, <1>36, <1>37, <1>38, <1>39, <1>40, <1>41, <1>42
  DEF Next, User, MainStep, StartStep, DiscStep, PollStep

-----------------------------------------------------------------------------
(* Who owns which session *)

\* The part of the invariant that is about locks and sessions.
Ownership == LocksAndHolds /\ PollerHoldsSlot /\ OneOwner /\ ServersStartBound
               /\ ServerHasOwner

ownerVars == <<slot, lock, hold, startPc, discPc, pollPc, server>>

\* It depends on these seven variables only, so that a step that leaves them alone
\* keeps it.
LEMMA OwnershipFrame ==
  ASSUME Ownership, UNCHANGED ownerVars
  PROVE  Ownership'
BY DEF Ownership, ownerVars, LocksAndHolds, PollerHoldsSlot, OneOwner, ThreadHolds,
       ServersStartBound, ServerHasOwner

\* No step gives a session a second owner or forgets a serving pinentry thread: one
\* case for every action that touches ownerVars (main.rs:540-544, 560-588, 746-770).
LEMMA OwnershipStep == TypeOK /\ Ownership /\ [Next]_vars => Ownership'
<1> SUFFICES ASSUME TypeOK, Ownership, [Next]_vars PROVE Ownership'
  OBVIOUS
<1> USE DEF ThreadHolds, ui, notes, retry, running, poll, child, paths, memo, world
<1>1. CASE BeginConnect
  BY <1>1, OwnershipFrame DEF BeginConnect, ownerVars
<1>2. CASE BeginProbe
  BY <1>2, OwnershipFrame DEF BeginProbe, ownerVars
<1>3. CASE Connect
  BY <1>3, OwnershipFrame DEF Connect, ownerVars
<1>4. CASE ConnectProbe
  BY <1>4, OwnershipFrame DEF ConnectProbe, ownerVars
<1>5. CASE AdoptLive
  BY <1>5, OwnershipFrame DEF AdoptLive, ownerVars
<1>6. CASE ConnectAccept
  BY <1>6, OwnershipFrame DEF ConnectAccept, ownerVars
<1>7. CASE ConnectReset
  BY <1>7, OwnershipFrame DEF ConnectReset, ownerVars
<1>8. CASE TrustCert
  BY <1>8, OwnershipFrame DEF TrustCert, ownerVars
<1>9. CASE SaveProfile
  BY <1>9, OwnershipFrame DEF SaveProfile, ownerVars
<1>10. ASSUME NEW a \in Attempt, ConnectCommit(a) PROVE Ownership'
  <2> USE <1>10, ThreadAssumption DEF ConnectCommit, IsNext, TypeOK, Thread, Ownership
  <2>1. LocksAndHolds'
    BY DEF LocksAndHolds
  <2>2. PollerHoldsSlot'
    BY DEF PollerHoldsSlot, LocksAndHolds
  <2>3. OneOwner'
    BY DEF OneOwner, LocksAndHolds
  <2>4. ServersStartBound'
    BY DEF ServersStartBound, LocksAndHolds
  <2>5. ServerHasOwner'
    BY SMTT(20) DEF ServerHasOwner, LocksAndHolds, OneOwner
  <2>6. QED
    BY ONLY <2>1, <2>2, <2>3, <2>4, <2>5 DEF Ownership
<1>11. ASSUME NEW d \in Disconnect, DisconnectTake(d) PROVE Ownership'
  <2> USE <1>11, ThreadAssumption DEF DisconnectTake, TypeOK, Thread, Ownership
  <2>1. LocksAndHolds'
    BY DEF LocksAndHolds
  <2>2. PollerHoldsSlot'
    BY DEF PollerHoldsSlot, LocksAndHolds
  <2>3. OneOwner'
    BY DEF OneOwner, LocksAndHolds
  <2>4. ServersStartBound'
    BY DEF ServersStartBound, LocksAndHolds
  <2>5. ServerHasOwner'
    BY DEF ServerHasOwner, LocksAndHolds, OneOwner
  <2>6. QED
    BY ONLY <2>1, <2>2, <2>3, <2>4, <2>5 DEF Ownership
<1>12. ASSUME NEW d \in Disconnect, DisconnectEmit(d) PROVE Ownership'
  <2> USE <1>12, ThreadAssumption DEF DisconnectEmit, TypeOK, Thread, Ownership
  <2>1. LocksAndHolds'
    BY DEF LocksAndHolds
  <2>2. PollerHoldsSlot'
    BY DEF PollerHoldsSlot, LocksAndHolds
  <2>3. OneOwner'
    BY DEF OneOwner, LocksAndHolds
  <2>4. ServersStartBound'
    BY DEF ServersStartBound, LocksAndHolds
  <2>5. ServerHasOwner'
    BY DEF ServerHasOwner, LocksAndHolds, OneOwner
  <2>6. QED
    BY ONLY <2>1, <2>2, <2>3, <2>4, <2>5 DEF Ownership
<1>13. ASSUME NEW a \in Attempt, StartRefused(a) PROVE Ownership'
  <2> USE <1>13, ThreadAssumption DEF StartRefused, TypeOK, Thread, Ownership
  <2>1. LocksAndHolds'
    BY DEF LocksAndHolds
  <2>2. PollerHoldsSlot'
    BY DEF PollerHoldsSlot, LocksAndHolds
  <2>3. OneOwner'
    BY DEF OneOwner, LocksAndHolds
  <2>4. ServersStartBound'
    BY DEF ServersStartBound, LocksAndHolds
  <2>5. ServerHasOwner'
    BY DEF ServerHasOwner, LocksAndHolds, OneOwner
  <2>6. QED
    BY ONLY <2>1, <2>2, <2>3, <2>4, <2>5 DEF Ownership
<1>14. ASSUME NEW a \in Attempt, CreateFiles(a) PROVE Ownership'
  <2> USE <1>14, ThreadAssumption DEF CreateFiles, TypeOK, Thread, Ownership
  <2>1. LocksAndHolds'
    BY DEF LocksAndHolds
  <2>2. PollerHoldsSlot'
    BY DEF PollerHoldsSlot, LocksAndHolds
  <2>3. OneOwner'
    BY DEF OneOwner, LocksAndHolds
  <2>4. ServersStartBound'
    BY DEF ServersStartBound, LocksAndHolds
  <2>5. ServerHasOwner'
    BY SMTT(20) DEF ServerHasOwner, LocksAndHolds, OneOwner
  <2>6. QED
    BY ONLY <2>1, <2>2, <2>3, <2>4, <2>5 DEF Ownership
<1>15. ASSUME NEW a \in Attempt, BindSocket(a) PROVE Ownership'
  <2> USE <1>15, ThreadAssumption DEF BindSocket, TypeOK, Thread, Ownership
  <2>1. LocksAndHolds'
    BY DEF LocksAndHolds
  <2>2. PollerHoldsSlot'
    BY DEF PollerHoldsSlot, LocksAndHolds
  <2>3. OneOwner'
    BY DEF OneOwner, LocksAndHolds
  <2>4. ServersStartBound'
    BY DEF ServersStartBound, LocksAndHolds
  <2>5. ServerHasOwner'
    BY DEF ServerHasOwner, LocksAndHolds, OneOwner
  <2>6. QED
    BY ONLY <2>1, <2>2, <2>3, <2>4, <2>5 DEF Ownership
<1>16. ASSUME NEW a \in Attempt, SpawnChild(a) PROVE Ownership'
  <2> USE <1>16, ThreadAssumption DEF SpawnChild, DropBegin, TypeOK, Thread, Ownership
  <2>1. LocksAndHolds'
    BY DEF LocksAndHolds
  <2>2. PollerHoldsSlot'
    BY DEF PollerHoldsSlot, LocksAndHolds
  <2>3. OneOwner'
    BY DEF OneOwner, LocksAndHolds
  <2>4. ServersStartBound'
    BY DEF ServersStartBound, LocksAndHolds
  <2>5. ServerHasOwner'
    BY DEF ServerHasOwner, LocksAndHolds, OneOwner
  <2>6. QED
    BY ONLY <2>1, <2>2, <2>3, <2>4, <2>5 DEF Ownership
<1>17. ASSUME NEW a \in Attempt, SpawnUnwind(a) PROVE Ownership'
  <2> USE <1>17, ThreadAssumption DEF SpawnUnwind, TypeOK, Thread, Ownership
  <2>1. LocksAndHolds'
    BY DEF LocksAndHolds
  <2>2. PollerHoldsSlot'
    BY DEF PollerHoldsSlot, LocksAndHolds
  <2>3. OneOwner'
    BY DEF OneOwner, LocksAndHolds
  <2>4. ServersStartBound'
    BY DEF ServersStartBound, LocksAndHolds
  <2>5. ServerHasOwner'
    BY SMTT(20) DEF ServerHasOwner, LocksAndHolds, OneOwner
  <2>6. QED
    BY ONLY <2>1, <2>2, <2>3, <2>4, <2>5 DEF Ownership
<1>18. ASSUME NEW a \in Attempt, StartFailed(a) PROVE Ownership'
  <2> USE <1>18, ThreadAssumption DEF StartFailed, TypeOK, Thread, Ownership
  <2>1. LocksAndHolds'
    BY DEF LocksAndHolds
  <2>2. PollerHoldsSlot'
    BY DEF PollerHoldsSlot, LocksAndHolds
  <2>3. OneOwner'
    BY DEF OneOwner, LocksAndHolds
  <2>4. ServersStartBound'
    BY DEF ServersStartBound
  <2>5. ServerHasOwner'
    BY DEF ServerHasOwner, OneOwner, LocksAndHolds
  <2>6. QED
    BY ONLY <2>1, <2>2, <2>3, <2>4, <2>5 DEF Ownership
<1>19. ASSUME NEW a \in Attempt, StoreSession(a) PROVE Ownership'
  <2> USE <1>19, ThreadAssumption DEF StoreSession, DropBegin, TypeOK, Thread,
       Ownership
  <2>1. LocksAndHolds'
    BY DEF LocksAndHolds
  <2>2. PollerHoldsSlot'
    BY DEF PollerHoldsSlot, LocksAndHolds
  <2>3. OneOwner'
    BY DEF OneOwner, LocksAndHolds
  <2>4. ServersStartBound'
    BY DEF ServersStartBound, LocksAndHolds
  <2>5. ServerHasOwner'
    BY DEF ServerHasOwner, LocksAndHolds, OneOwner
  <2>6. QED
    BY ONLY <2>1, <2>2, <2>3, <2>4, <2>5 DEF Ownership
<1>20. ASSUME NEW a \in Attempt, StoreJoin(a) PROVE Ownership'
  <2> USE <1>20, ThreadAssumption DEF StoreJoin, DropEnd, TypeOK, Thread, Ownership
  <2>1. LocksAndHolds'
    BY DEF LocksAndHolds
  <2>2. PollerHoldsSlot'
    BY DEF PollerHoldsSlot, LocksAndHolds
  <2>3. OneOwner'
    BY DEF OneOwner, LocksAndHolds
  <2>4. ServersStartBound'
    BY DEF ServersStartBound, LocksAndHolds
  <2>5. ServerHasOwner'
    BY DEF ServerHasOwner, LocksAndHolds, OneOwner
  <2>6. QED
    BY ONLY <2>1, <2>2, <2>3, <2>4, <2>5 DEF Ownership
<1>21. ASSUME NEW d \in Disconnect, DiscTerminate(d) PROVE Ownership'
  <2> USE <1>21, ThreadAssumption DEF DiscTerminate, TypeOK, Thread, Ownership
  <2>1. LocksAndHolds'
    BY DEF LocksAndHolds
  <2>2. PollerHoldsSlot'
    BY DEF PollerHoldsSlot, LocksAndHolds
  <2>3. OneOwner'
    BY DEF OneOwner, LocksAndHolds
  <2>4. ServersStartBound'
    BY DEF ServersStartBound, LocksAndHolds
  <2>5. ServerHasOwner'
    BY DEF ServerHasOwner, LocksAndHolds, OneOwner
  <2>6. QED
    BY ONLY <2>1, <2>2, <2>3, <2>4, <2>5 DEF Ownership
<1>22. ASSUME NEW d \in Disconnect, DiscDrop(d) PROVE Ownership'
  <2> USE <1>22, ThreadAssumption DEF DiscDrop, DropBegin, TypeOK, Thread, Ownership
  <2>1. LocksAndHolds'
    BY DEF LocksAndHolds
  <2>2. PollerHoldsSlot'
    BY DEF PollerHoldsSlot, LocksAndHolds
  <2>3. OneOwner'
    BY DEF OneOwner, LocksAndHolds
  <2>4. ServersStartBound'
    BY DEF ServersStartBound, LocksAndHolds
  <2>5. ServerHasOwner'
    BY DEF ServerHasOwner, LocksAndHolds, OneOwner
  <2>6. QED
    BY ONLY <2>1, <2>2, <2>3, <2>4, <2>5 DEF Ownership
<1>23. ASSUME NEW d \in Disconnect, DiscJoin(d) PROVE Ownership'
  <2> USE <1>23, ThreadAssumption DEF DiscJoin, DropEnd, TypeOK, Thread, Ownership
  <2>1. LocksAndHolds'
    BY DEF LocksAndHolds
  <2>2. PollerHoldsSlot'
    BY DEF PollerHoldsSlot, LocksAndHolds
  <2>3. OneOwner'
    BY DEF OneOwner, LocksAndHolds
  <2>4. ServersStartBound'
    BY DEF ServersStartBound, LocksAndHolds
  <2>5. ServerHasOwner'
    BY DEF ServerHasOwner, LocksAndHolds, OneOwner
  <2>6. QED
    BY ONLY <2>1, <2>2, <2>3, <2>4, <2>5 DEF Ownership
<1>24. ASSUME NEW d \in Disconnect, DiscKill(d) PROVE Ownership'
  <2> USE <1>24, ThreadAssumption DEF DiscKill, TypeOK, Thread, Ownership
  <2>1. LocksAndHolds'
    BY DEF LocksAndHolds
  <2>2. PollerHoldsSlot'
    BY DEF PollerHoldsSlot, LocksAndHolds
  <2>3. OneOwner'
    BY DEF OneOwner, LocksAndHolds
  <2>4. ServersStartBound'
    BY DEF ServersStartBound, LocksAndHolds
  <2>5. ServerHasOwner'
    BY DEF ServerHasOwner, LocksAndHolds, OneOwner
  <2>6. QED
    BY ONLY <2>1, <2>2, <2>3, <2>4, <2>5 DEF Ownership
<1>25. ASSUME NEW d \in Disconnect, DiscIdle(d) PROVE Ownership'
  <2> USE <1>25, ThreadAssumption DEF DiscIdle, TypeOK, Thread, Ownership
  <2>1. LocksAndHolds'
    BY DEF LocksAndHolds
  <2>2. PollerHoldsSlot'
    BY DEF PollerHoldsSlot, LocksAndHolds
  <2>3. OneOwner'
    BY DEF OneOwner, LocksAndHolds
  <2>4. ServersStartBound'
    BY DEF ServersStartBound, LocksAndHolds
  <2>5. ServerHasOwner'
    BY DEF ServerHasOwner, LocksAndHolds, OneOwner
  <2>6. QED
    BY ONLY <2>1, <2>2, <2>3, <2>4, <2>5 DEF Ownership
<1>26. CASE PollLock
  BY <1>26, ThreadAssumption DEF PollLock, TypeOK, Thread, Ownership, LocksAndHolds,
     PollerHoldsSlot, OneOwner, ServersStartBound, ServerHasOwner
<1>27. CASE PollEmitUp
  BY <1>27, ThreadAssumption DEF PollEmitUp, TypeOK, Thread, Ownership, LocksAndHolds,
     PollerHoldsSlot, OneOwner, ServersStartBound, ServerHasOwner
<1>28. CASE PollTryWait
  BY <1>28, ThreadAssumption DEF PollTryWait, TypeOK, Thread, Ownership,
     LocksAndHolds,
     PollerHoldsSlot, OneOwner, ServersStartBound, ServerHasOwner
<1>29. CASE PollTake
  BY <1>29, ThreadAssumption DEF PollTake, DropBegin, TypeOK, Thread, Ownership,
     LocksAndHolds,
     PollerHoldsSlot, OneOwner, ServersStartBound, ServerHasOwner
<1>30. CASE PollJoin
  BY <1>30, ThreadAssumption DEF PollJoin, DropEnd, TypeOK, Thread, Ownership,
     LocksAndHolds,
     PollerHoldsSlot, OneOwner, ServersStartBound, ServerHasOwner
<1>31. CASE ApplyOutcome
  <2> USE <1>31, ThreadAssumption DEF ApplyOutcome, TypeOK, Thread, Ownership
  <2>1. LocksAndHolds'
    BY DEF LocksAndHolds
  <2>2. PollerHoldsSlot'
    BY DEF PollerHoldsSlot, LocksAndHolds
  <2>3. OneOwner'
    BY DEF OneOwner, LocksAndHolds
  <2>4. ServersStartBound'
    BY DEF ServersStartBound
  <2>5. ServerHasOwner'
    BY DEF ServerHasOwner, OneOwner, LocksAndHolds
  <2>6. QED
    BY ONLY <2>1, <2>2, <2>3, <2>4, <2>5 DEF Ownership
<1>32. CASE RetryUnpinned
  <2> USE <1>32, ThreadAssumption DEF RetryUnpinned, IsNext, TypeOK, Thread, Ownership
  <2>1. LocksAndHolds'
    BY DEF LocksAndHolds
  <2>2. PollerHoldsSlot'
    BY DEF PollerHoldsSlot, LocksAndHolds
  <2>3. OneOwner'
    BY DEF OneOwner, LocksAndHolds
  <2>4. ServersStartBound'
    BY DEF ServersStartBound
  <2>5. ServerHasOwner'
    BY SMTT(20) DEF ServerHasOwner, OneOwner, LocksAndHolds
  <2>6. QED
    BY ONLY <2>1, <2>2, <2>3, <2>4, <2>5 DEF Ownership
<1>33. CASE RetryWithoutCode
  BY <1>33, ThreadAssumption DEF RetryWithoutCode, TypeOK, Thread, Ownership,
     LocksAndHolds,
     PollerHoldsSlot, OneOwner, ServersStartBound, ServerHasOwner
<1>34. CASE OutcomeEmit
  BY <1>34, ThreadAssumption DEF OutcomeEmit, TypeOK, Thread, Ownership,
     LocksAndHolds,
     PollerHoldsSlot, OneOwner, ServersStartBound, ServerHasOwner
<1>35. CASE OutcomeError
  BY <1>35, ThreadAssumption DEF OutcomeError, TypeOK, Thread, Ownership,
     LocksAndHolds,
     PollerHoldsSlot, OneOwner, ServersStartBound, ServerHasOwner
<1>36. CASE PollStatus
  BY <1>36, ThreadAssumption DEF PollStatus, TypeOK, Thread, Ownership, LocksAndHolds,
     PollerHoldsSlot, OneOwner, ServersStartBound, ServerHasOwner
<1>37. CASE PollProbe
  BY <1>37, ThreadAssumption DEF PollProbe, TypeOK, Thread, Ownership, LocksAndHolds,
     PollerHoldsSlot, OneOwner, ServersStartBound, ServerHasOwner
<1>38. CASE PollReport
  BY <1>38, ThreadAssumption DEF PollReport, TypeOK, Thread, Ownership, LocksAndHolds,
     PollerHoldsSlot, OneOwner, ServersStartBound, ServerHasOwner
<1>39. ASSUME NEW a \in Attempt, ServerExit(a) PROVE Ownership'
  <2> USE <1>39, ThreadAssumption DEF ServerExit, TypeOK, Thread, Ownership
  <2>1. LocksAndHolds'
    BY DEF LocksAndHolds
  <2>2. PollerHoldsSlot'
    BY DEF PollerHoldsSlot, LocksAndHolds
  <2>3. OneOwner'
    BY DEF OneOwner, LocksAndHolds
  <2>4. ServersStartBound'
    BY DEF ServersStartBound, LocksAndHolds
  <2>5. ServerHasOwner'
    BY DEF ServerHasOwner, LocksAndHolds, OneOwner
  <2>6. QED
    BY ONLY <2>1, <2>2, <2>3, <2>4, <2>5 DEF Ownership
<1>40. ASSUME NEW a \in Attempt, ChildConnects(a) PROVE Ownership'
  BY <1>40, OwnershipFrame DEF ChildConnects, ChildOnly, ownerVars
<1>41. ASSUME NEW a \in Attempt, TunnelEnds(a) PROVE Ownership'
  BY <1>41, OwnershipFrame DEF TunnelEnds, ChildOnly, ownerVars
<1>42. CASE UNCHANGED vars
  BY <1>42, OwnershipFrame DEF vars, ownerVars
<1>43. QED
  BY <1>1, <1>2, <1>3, <1>4, <1>5, <1>6, <1>7, <1>8, <1>9, <1>10, <1>11, <1>12,
     <1>13, <1>14, <1>15, <1>16, <1>17, <1>18, <1>19, <1>20, <1>21, <1>22, <1>23,
     <1>24, <1>25, <1>26, <1>27, <1>28, <1>29, <1>30, <1>31, <1>32, <1>33, <1>34,
     <1>35, <1>36, <1>37, <1>38, <1>39, <1>40, <1>41, <1>42
  DEF Next, User, MainStep, StartStep, DiscStep, PollStep

-----------------------------------------------------------------------------
(* Retries are bounded by accepted codes *)

RetryInv == RetryLeft /\ RetriesBounded

\* Attempts are finitely many, so that accepted codes and retries can be counted.
LEMMA CountsAreNatural ==
  ASSUME TypeOK
  PROVE  /\ IsFiniteSet(Connects) /\ Cardinality(Connects) \in Nat
         /\ IsFiniteSet(Retries) /\ Cardinality(Retries) \in Nat
         /\ Accepted \in Nat
<1>1. Connects \subseteq Attempt /\ Retries \subseteq Attempt
  BY DEF Connects, Retries, Started
<1>2. IsFiniteSet(Connects) /\ IsFiniteSet(Retries)
  BY <1>1, FS_Subset, ThreadAssumption
<1>3. Cardinality(Connects) \in Nat /\ Cardinality(Retries) \in Nat
  BY <1>2, FS_CardinalityType
<1>4. QED
  BY <1>2, <1>3 DEF Accepted

\* A step that starts no session, accepts no code, spends no retry and takes up no
\* outcome keeps the count right.
LEMMA RetryFrame ==
  ASSUME RetryInv, Started' = Started, skip' = skip, certProbe' = certProbe,
         mainPc' = "commit" <=> mainPc = "commit",
         slot' # NoOne => Started # {},
         pollPc' \in {"take", "join", "apply"} => Started # {},
         pollPc' = "retry" => pollPc = "retry",
         \A a \in Attempt : startPc[a] # "unused" => startPc'[a] # "unused"
  PROVE  RetryInv'
<1>1. Retries' = Retries /\ Connects' = Connects
  BY DEF Retries, Connects
<1>2. Accepted' = Accepted
  BY <1>1 DEF Accepted
<1>3. QED
  BY <1>1, <1>2 DEF RetryInv, RetryLeft, RetriesBounded

\* A retry spends the one that its code had left (cert_probe, main.rs:677-705).
LEMMA RetryStep == TypeOK /\ Ownership /\ RetryInv /\ [Next]_vars => RetryInv'
<1> SUFFICES ASSUME TypeOK, Ownership, RetryInv, [Next]_vars PROVE RetryInv'
  OBVIOUS
<1> USE DEF ui, notes, retry, running, poll, child, paths, memo, world
<1>1. CASE BeginConnect
  BY <1>1, RetryFrame DEF BeginConnect, RetryInv, RetryLeft, Started
<1>2. CASE BeginProbe
  BY <1>2, RetryFrame DEF BeginProbe, RetryInv, RetryLeft, Started
<1>3. CASE Connect
  BY <1>3, RetryFrame DEF Connect, RetryInv, RetryLeft, Started
<1>4. CASE ConnectProbe
  BY <1>4, RetryFrame DEF ConnectProbe, RetryInv, RetryLeft, Started
<1>5. CASE AdoptLive
  BY <1>5, RetryFrame DEF AdoptLive, RetryInv, RetryLeft, Started
<1>6. CASE ConnectAccept
  BY <1>6, RetryFrame DEF ConnectAccept, RetryInv, RetryLeft, Started
<1>7. CASE ConnectReset
  <2>1. Connects' = Connects /\ Retries' = Retries
    BY <1>7 DEF ConnectReset, Connects, Retries, Started
  <2>2. Accepted' = Cardinality(Connects) + 1 /\ Accepted = Cardinality(Connects)
    BY <1>7, <2>1, CountsAreNatural DEF ConnectReset, Accepted
  <2>3. Cardinality(Retries) < Accepted'
    BY <2>2, CountsAreNatural DEF RetryInv, RetriesBounded
  <2>4. UNCHANGED <<slot, pollPc, startPc, skip, Started>>
    BY <1>7 DEF ConnectReset, poll, running, Started
  <2>5. QED
    BY <2>1, <2>2, <2>3, <2>4, CountsAreNatural DEF RetryInv, RetryLeft,
       RetriesBounded
<1>8. CASE TrustCert
  BY <1>8, RetryFrame DEF TrustCert, RetryInv, RetryLeft, Started
<1>9. CASE SaveProfile
  BY <1>9, RetryFrame DEF SaveProfile, RetryInv, RetryLeft, Started
<1>10. ASSUME NEW a \in Attempt, ConnectCommit(a) PROVE RetryInv'
  <2>1. a \notin Connects /\ Retries' = Retries /\ Connects' = Connects \cup {a}
    BY <1>10 DEF ConnectCommit, IsNext, Connects, Retries, Started, TypeOK, RetryInv,
       RetryLeft
  <2>2. Cardinality(Connects') = Cardinality(Connects) + 1
    BY <2>1, FS_AddElement, CountsAreNatural
  <2>3. Accepted' = Accepted
    BY <1>10, <2>2, CountsAreNatural DEF ConnectCommit, IsNext, Accepted
  <2>4. Started' # {}
    BY <1>10 DEF ConnectCommit, IsNext, Started, TypeOK
  <2>5. QED
    BY <1>10, <2>1, <2>3, <2>4
    DEF ConnectCommit, IsNext, RetryInv, RetryLeft, RetriesBounded, TypeOK, poll
<1>11. ASSUME NEW d \in Disconnect, DisconnectTake(d) PROVE RetryInv'
  BY <1>11, RetryFrame DEF DisconnectTake, RetryInv, RetryLeft, Started
<1>12. ASSUME NEW d \in Disconnect, DisconnectEmit(d) PROVE RetryInv'
  BY <1>12, RetryFrame DEF DisconnectEmit, RetryInv, RetryLeft, Started
<1>13. ASSUME NEW a \in Attempt, StartRefused(a) PROVE RetryInv'
  BY <1>13, RetryFrame DEF StartRefused, RetryInv, RetryLeft, TypeOK, Started
<1>14. ASSUME NEW a \in Attempt, CreateFiles(a) PROVE RetryInv'
  BY <1>14, RetryFrame DEF CreateFiles, RetryInv, RetryLeft, TypeOK, Started
<1>15. ASSUME NEW a \in Attempt, BindSocket(a) PROVE RetryInv'
  BY <1>15, RetryFrame DEF BindSocket, RetryInv, RetryLeft, TypeOK, Started
<1>16. ASSUME NEW a \in Attempt, SpawnChild(a) PROVE RetryInv'
  BY <1>16, RetryFrame DEF SpawnChild, RetryInv, RetryLeft, TypeOK, Started
<1>17. ASSUME NEW a \in Attempt, SpawnUnwind(a) PROVE RetryInv'
  BY <1>17, RetryFrame DEF SpawnUnwind, RetryInv, RetryLeft, TypeOK, Started
<1>18. ASSUME NEW a \in Attempt, StartFailed(a) PROVE RetryInv'
  BY <1>18, RetryFrame DEF StartFailed, RetryInv, RetryLeft, TypeOK, Started
<1>19. ASSUME NEW a \in Attempt, StoreSession(a) PROVE RetryInv'
  BY <1>19, RetryFrame DEF StoreSession, RetryInv, RetryLeft, TypeOK, Started
<1>20. ASSUME NEW a \in Attempt, StoreJoin(a) PROVE RetryInv'
  BY <1>20, RetryFrame DEF StoreJoin, RetryInv, RetryLeft, TypeOK, Started
<1>21. ASSUME NEW d \in Disconnect, DiscTerminate(d) PROVE RetryInv'
  BY <1>21, RetryFrame DEF DiscTerminate, RetryInv, RetryLeft, Started
<1>22. ASSUME NEW d \in Disconnect, DiscDrop(d) PROVE RetryInv'
  BY <1>22, RetryFrame DEF DiscDrop, RetryInv, RetryLeft, Started
<1>23. ASSUME NEW d \in Disconnect, DiscJoin(d) PROVE RetryInv'
  BY <1>23, RetryFrame DEF DiscJoin, RetryInv, RetryLeft, Started
<1>24. ASSUME NEW d \in Disconnect, DiscKill(d) PROVE RetryInv'
  BY <1>24, RetryFrame DEF DiscKill, RetryInv, RetryLeft, Started
<1>25. ASSUME NEW d \in Disconnect, DiscIdle(d) PROVE RetryInv'
  BY <1>25, RetryFrame DEF DiscIdle, RetryInv, RetryLeft, Started
<1>26. CASE PollLock
  BY <1>26, RetryFrame DEF PollLock, RetryInv, RetryLeft, Started
<1>27. CASE PollEmitUp
  BY <1>27, RetryFrame DEF PollEmitUp, RetryInv, RetryLeft, Started
<1>28. CASE PollTryWait
  BY <1>28, RetryFrame DEF PollTryWait, RetryInv, RetryLeft, Started, Ownership,
     PollerHoldsSlot
<1>29. CASE PollTake
  BY <1>29, RetryFrame DEF PollTake, RetryInv, RetryLeft, Started
<1>30. CASE PollJoin
  BY <1>30, RetryFrame DEF PollJoin, RetryInv, RetryLeft, Started
<1>31. CASE ApplyOutcome
  <2>1. Connects' = Connects /\ Retries' = Retries /\ Started' = Started
    BY <1>31 DEF ApplyOutcome, Connects, Retries, Started
  <2>2. Accepted' = Accepted
    BY <1>31, <2>1 DEF ApplyOutcome, Accepted
  <2>3. ASSUME Accepted = 0 PROVE FALSE
    <3>1. Cardinality(Retries) = 0 /\ Cardinality(Connects) = 0
      BY <2>3, CountsAreNatural DEF RetryInv, RetriesBounded, Accepted
    <3>2. Retries = {} /\ Connects = {}
      BY <3>1, CountsAreNatural, FS_EmptySet
    <3>3. Started = {}
      BY <3>2 DEF Connects
    <3>4. QED
      BY <1>31, <3>3 DEF ApplyOutcome, RetryInv, RetryLeft
  <2>4. ASSUME pollPc' = "retry" PROVE Cardinality(Retries) < Accepted
    BY <1>31, <2>3, <2>4 DEF ApplyOutcome, RetryWanted, RetryInv, RetryLeft
  <2>5. /\ pollPc' \in {"retry", "retryNoCode", "emit"}
        /\ UNCHANGED <<certProbe, slot, skip, startPc>>
    BY <1>31 DEF ApplyOutcome, running
  <2>6. QED
    BY <2>1, <2>2, <2>4, <2>5 DEF RetryInv, RetryLeft, RetriesBounded
<1>32. CASE RetryUnpinned
  <2>1. PICK a \in Attempt : /\ startPc[a] = "unused"
                           /\ startPc' = [startPc EXCEPT ![a] = "keyring"]
                           /\ skip' = [skip EXCEPT ![a] = TRUE]
    BY <1>32 DEF RetryUnpinned, IsNext
  <2>2. a \notin Retries /\ Connects' = Connects /\ Retries' = Retries \cup {a}
    BY <2>1 DEF Connects, Retries, Started, TypeOK, RetryInv, RetryLeft
  <2>3. Cardinality(Retries') = Cardinality(Retries) + 1
    BY <2>2, FS_AddElement, CountsAreNatural
  <2>4. Accepted' = Accepted
    BY <1>32, <2>2 DEF RetryUnpinned, IsNext, Accepted
  <2>5. Cardinality(Retries) < Accepted
    BY <1>32 DEF RetryUnpinned, IsNext, RetryInv, RetryLeft
  <2>6. Started' # {}
    BY <2>1 DEF Started, TypeOK
  <2>7. pollPc' = "sleep" /\ certProbe'
    BY <1>32 DEF RetryUnpinned, IsNext
  <2>8. RetriesBounded'
    BY <2>3, <2>4, <2>5, CountsAreNatural DEF RetriesBounded
  <2>9. \A b \in Attempt : skip'[b] => startPc'[b] # "unused"
    BY <2>1 DEF TypeOK, RetryInv, RetryLeft
  <2>10. QED
    BY <2>6, <2>7, <2>8, <2>9 DEF RetryInv, RetryLeft
<1>33. CASE RetryWithoutCode
  <2>1. Connects' = Connects /\ Retries' = Retries /\ Started' = Started
    BY <1>33 DEF RetryWithoutCode, Connects, Retries, Started
  <2>2. Accepted' = Accepted
    BY <1>33, <2>1 DEF RetryWithoutCode, Accepted
  <2>3. certProbe' /\ pollPc' = "emit"
    BY <1>33 DEF RetryWithoutCode
  <2>4. QED
    BY <1>33, <2>1, <2>2, <2>3
    DEF RetryWithoutCode, RetryInv, RetryLeft, RetriesBounded, running
<1>34. CASE OutcomeEmit
  BY <1>34, RetryFrame DEF OutcomeEmit, RetryInv, RetryLeft, Started
<1>35. CASE OutcomeError
  BY <1>35, RetryFrame DEF OutcomeError, RetryInv, RetryLeft, Started
<1>36. CASE PollStatus
  BY <1>36, RetryFrame DEF PollStatus, RetryInv, RetryLeft, Started
<1>37. CASE PollProbe
  BY <1>37, RetryFrame DEF PollProbe, RetryInv, RetryLeft, Started
<1>38. CASE PollReport
  BY <1>38, RetryFrame DEF PollReport, RetryInv, RetryLeft, Started
<1>39. ASSUME NEW a \in Attempt, ServerExit(a) PROVE RetryInv'
  BY <1>39, RetryFrame DEF ServerExit, RetryInv, RetryLeft, Started
<1>40. ASSUME NEW a \in Attempt, ChildConnects(a) PROVE RetryInv'
  BY <1>40, RetryFrame DEF ChildConnects, ChildOnly, RetryInv, RetryLeft, Started
<1>41. ASSUME NEW a \in Attempt, TunnelEnds(a) PROVE RetryInv'
  BY <1>41, RetryFrame DEF TunnelEnds, ChildOnly, RetryInv, RetryLeft, Started
<1>42. CASE UNCHANGED vars
  BY <1>42, RetryFrame DEF vars, Started, RetryInv, RetryLeft
<1>43. QED
  BY <1>1, <1>2, <1>3, <1>4, <1>5, <1>6, <1>7, <1>8, <1>9, <1>10, <1>11, <1>12,
     <1>13, <1>14, <1>15, <1>16, <1>17, <1>18, <1>19, <1>20, <1>21, <1>22, <1>23,
     <1>24, <1>25, <1>26, <1>27, <1>28, <1>29, <1>30, <1>31, <1>32, <1>33, <1>34,
     <1>35, <1>36, <1>37, <1>38, <1>39, <1>40, <1>41, <1>42
  DEF Next, User, MainStep, StartStep, DiscStep, PollStep

-----------------------------------------------------------------------------
(* What the poller reports *)

\* Requests to the user appear on the poller's own thread only (main.rs:648-726).
LEMMA RequestsStep == TypeOK /\ RequestsStay /\ [Next]_vars => RequestsStay'
<1> SUFFICES ASSUME TypeOK, RequestsStay, [Next]_vars PROVE RequestsStay'
  OBVIOUS
<1> USE DEF RequestsStay, ui, notes, retry, running, poll, child, paths,
     memo, world
<1>1. CASE BeginConnect
  BY <1>1 DEF BeginConnect
<1>2. CASE BeginProbe
  BY <1>2 DEF BeginProbe
<1>3. CASE Connect
  BY <1>3 DEF Connect
<1>4. CASE ConnectProbe
  BY <1>4 DEF ConnectProbe
<1>5. CASE AdoptLive
  BY <1>5 DEF AdoptLive, EmitStatus
<1>6. CASE ConnectAccept
  BY <1>6 DEF ConnectAccept, EmitStatus
<1>7. CASE ConnectReset
  BY <1>7 DEF ConnectReset
<1>8. CASE TrustCert
  BY <1>8 DEF TrustCert
<1>9. CASE SaveProfile
  BY <1>9 DEF SaveProfile
<1>10. ASSUME NEW a \in Attempt, ConnectCommit(a) PROVE RequestsStay'
  BY <1>10 DEF ConnectCommit, IsNext
<1>11. ASSUME NEW d \in Disconnect, DisconnectTake(d) PROVE RequestsStay'
  BY <1>11 DEF DisconnectTake
<1>12. ASSUME NEW d \in Disconnect, DisconnectEmit(d) PROVE RequestsStay'
  BY <1>12 DEF DisconnectEmit, EmitStatus
<1>13. ASSUME NEW a \in Attempt, StartRefused(a) PROVE RequestsStay'
  BY <1>13 DEF StartRefused
<1>14. ASSUME NEW a \in Attempt, CreateFiles(a) PROVE RequestsStay'
  BY <1>14 DEF CreateFiles
<1>15. ASSUME NEW a \in Attempt, BindSocket(a) PROVE RequestsStay'
  BY <1>15 DEF BindSocket
<1>16. ASSUME NEW a \in Attempt, SpawnChild(a) PROVE RequestsStay'
  BY <1>16 DEF SpawnChild
<1>17. ASSUME NEW a \in Attempt, SpawnUnwind(a) PROVE RequestsStay'
  BY <1>17 DEF SpawnUnwind
<1>18. ASSUME NEW a \in Attempt, StartFailed(a) PROVE RequestsStay'
  BY <1>18 DEF StartFailed, EmitStatus
<1>19. ASSUME NEW a \in Attempt, StoreSession(a) PROVE RequestsStay'
  BY <1>19 DEF StoreSession
<1>20. ASSUME NEW a \in Attempt, StoreJoin(a) PROVE RequestsStay'
  BY <1>20 DEF StoreJoin
<1>21. ASSUME NEW d \in Disconnect, DiscTerminate(d) PROVE RequestsStay'
  BY <1>21 DEF DiscTerminate
<1>22. ASSUME NEW d \in Disconnect, DiscDrop(d) PROVE RequestsStay'
  BY <1>22 DEF DiscDrop
<1>23. ASSUME NEW d \in Disconnect, DiscJoin(d) PROVE RequestsStay'
  BY <1>23 DEF DiscJoin
<1>24. ASSUME NEW d \in Disconnect, DiscKill(d) PROVE RequestsStay'
  BY <1>24 DEF DiscKill
<1>25. ASSUME NEW d \in Disconnect, DiscIdle(d) PROVE RequestsStay'
  BY <1>25 DEF DiscIdle, EmitStatus
<1>26. CASE PollLock
  BY <1>26 DEF PollLock
<1>27. CASE PollEmitUp
  BY <1>27 DEF PollEmitUp, EmitStatus
<1>28. CASE PollTryWait
  BY <1>28 DEF PollTryWait
<1>29. CASE PollTake
  BY <1>29 DEF PollTake
<1>30. CASE PollJoin
  BY <1>30 DEF PollJoin
<1>31. CASE ApplyOutcome
  BY <1>31 DEF ApplyOutcome
<1>32. CASE RetryUnpinned
  BY <1>32 DEF RetryUnpinned, IsNext, EmitStatus
<1>33. CASE RetryWithoutCode
  BY <1>33 DEF RetryWithoutCode
<1>34. CASE OutcomeEmit
  BY <1>34 DEF OutcomeEmit, EmitStatus
<1>35. CASE OutcomeError
  BY <1>35 DEF OutcomeError
<1>36. CASE PollStatus
  BY <1>36 DEF PollStatus
<1>37. CASE PollProbe
  BY <1>37 DEF PollProbe
<1>38. CASE PollReport
  BY <1>38 DEF PollReport, EmitStatus
<1>39. ASSUME NEW a \in Attempt, ServerExit(a) PROVE RequestsStay'
  BY <1>39 DEF ServerExit
<1>40. ASSUME NEW a \in Attempt, ChildConnects(a) PROVE RequestsStay'
  BY <1>40 DEF ChildConnects, ChildOnly
<1>41. ASSUME NEW a \in Attempt, TunnelEnds(a) PROVE RequestsStay'
  BY <1>41 DEF TunnelEnds, ChildOnly
<1>42. CASE UNCHANGED vars
  BY <1>42 DEF vars
<1>43. QED
  BY <1>1, <1>2, <1>3, <1>4, <1>5, <1>6, <1>7, <1>8, <1>9, <1>10, <1>11, <1>12,
     <1>13, <1>14, <1>15, <1>16, <1>17, <1>18, <1>19, <1>20, <1>21, <1>22, <1>23,
     <1>24, <1>25, <1>26, <1>27, <1>28, <1>29, <1>30, <1>31, <1>32, <1>33, <1>34,
     <1>35, <1>36, <1>37, <1>38, <1>39, <1>40, <1>41, <1>42
  DEF Next, User, MainStep, StartStep, DiscStep, PollStep

-----------------------------------------------------------------------------
(* One code *)

\* A child is spawned by the step that leaves "child", and no start goes back.
LEMMA ChildStep == TypeOK /\ LocksAndHolds /\ ChildAfterStart /\ [Next]_vars
                     => ChildAfterStart'
<1> SUFFICES ASSUME TypeOK, LocksAndHolds, ChildAfterStart, [Next]_vars
             PROVE  ChildAfterStart'
  OBVIOUS
<1> USE ThreadAssumption
    DEF ui, notes, retry, running, poll, child, paths, memo, world, TypeOK
<1>1. CASE BeginConnect
  BY <1>1 DEF BeginConnect, ChildAfterStart
<1>2. CASE BeginProbe
  BY <1>2 DEF BeginProbe, ChildAfterStart
<1>3. CASE Connect
  BY <1>3 DEF Connect, ChildAfterStart
<1>4. CASE ConnectProbe
  BY <1>4 DEF ConnectProbe, ChildAfterStart
<1>5. CASE AdoptLive
  BY <1>5 DEF AdoptLive, EmitStatus, ChildAfterStart
<1>6. CASE ConnectAccept
  BY <1>6 DEF ConnectAccept, EmitStatus, ChildAfterStart
<1>7. CASE ConnectReset
  BY <1>7 DEF ConnectReset, ChildAfterStart
<1>8. CASE TrustCert
  BY <1>8 DEF TrustCert, ChildAfterStart
<1>9. CASE SaveProfile
  BY <1>9 DEF SaveProfile, ChildAfterStart
<1>10. ASSUME NEW a \in Attempt, ConnectCommit(a) PROVE ChildAfterStart'
  BY <1>10 DEF ConnectCommit, IsNext, ChildAfterStart
<1>11. ASSUME NEW d \in Disconnect, DisconnectTake(d) PROVE ChildAfterStart'
  BY <1>11 DEF DisconnectTake, ChildAfterStart
<1>12. ASSUME NEW d \in Disconnect, DisconnectEmit(d) PROVE ChildAfterStart'
  BY <1>12 DEF DisconnectEmit, EmitStatus, ChildAfterStart
<1>13. ASSUME NEW a \in Attempt, StartRefused(a) PROVE ChildAfterStart'
  BY <1>13 DEF StartRefused, ChildAfterStart
<1>14. ASSUME NEW a \in Attempt, CreateFiles(a) PROVE ChildAfterStart'
  BY <1>14 DEF CreateFiles, ChildAfterStart
<1>15. ASSUME NEW a \in Attempt, BindSocket(a) PROVE ChildAfterStart'
  BY <1>15 DEF BindSocket, ChildAfterStart
<1>16. ASSUME NEW a \in Attempt, SpawnChild(a) PROVE ChildAfterStart'
  BY <1>16 DEF SpawnChild, ChildAfterStart
<1>17. ASSUME NEW a \in Attempt, SpawnUnwind(a) PROVE ChildAfterStart'
  BY <1>17 DEF SpawnUnwind, ChildAfterStart
<1>18. ASSUME NEW a \in Attempt, StartFailed(a) PROVE ChildAfterStart'
  BY <1>18 DEF StartFailed, ChildAfterStart
<1>19. ASSUME NEW a \in Attempt, StoreSession(a) PROVE ChildAfterStart'
  BY <1>19 DEF StoreSession, ChildAfterStart
<1>20. ASSUME NEW a \in Attempt, StoreJoin(a) PROVE ChildAfterStart'
  BY <1>20 DEF StoreJoin, DropEnd, ChildAfterStart
<1>21. ASSUME NEW d \in Disconnect, DiscTerminate(d) PROVE ChildAfterStart'
  BY <1>21 DEF DiscTerminate, HelperStop, Exits, Live, ChildAfterStart
<1>22. ASSUME NEW d \in Disconnect, DiscDrop(d) PROVE ChildAfterStart'
  BY <1>22 DEF DiscDrop, ChildAfterStart
<1>23. ASSUME NEW d \in Disconnect, DiscJoin(d) PROVE ChildAfterStart'
  BY <1>23 DEF DiscJoin, DropEnd, ChildAfterStart
<1>24. ASSUME NEW d \in Disconnect, DiscKill(d) PROVE ChildAfterStart'
  BY <1>24 DEF DiscKill, HelperStop, Exits, Live, ChildAfterStart
<1>25. ASSUME NEW d \in Disconnect, DiscIdle(d) PROVE ChildAfterStart'
  BY <1>25 DEF DiscIdle, ChildAfterStart
<1>26. CASE PollLock
  BY <1>26 DEF PollLock, ChildAfterStart
<1>27. CASE PollEmitUp
  BY <1>27 DEF PollEmitUp, ChildAfterStart
<1>28. CASE PollTryWait
  BY <1>28 DEF PollTryWait, ChildAfterStart
<1>29. CASE PollTake
  BY <1>29 DEF PollTake, ChildAfterStart
<1>30. CASE PollJoin
  BY <1>30 DEF PollJoin, DropEnd, ChildAfterStart
<1>31. CASE ApplyOutcome
  BY <1>31 DEF ApplyOutcome, ChildAfterStart
<1>32. CASE RetryUnpinned
  BY <1>32 DEF RetryUnpinned, IsNext, ChildAfterStart
<1>33. CASE RetryWithoutCode
  BY <1>33 DEF RetryWithoutCode, ChildAfterStart
<1>34. CASE OutcomeEmit
  BY <1>34 DEF OutcomeEmit, ChildAfterStart
<1>35. CASE OutcomeError
  BY <1>35 DEF OutcomeError, ChildAfterStart
<1>36. CASE PollStatus
  BY <1>36 DEF PollStatus, ChildAfterStart
<1>37. CASE PollProbe
  BY <1>37 DEF PollProbe, ChildAfterStart
<1>38. CASE PollReport
  BY <1>38 DEF PollReport, ChildAfterStart
<1>39. ASSUME NEW a \in Attempt, ServerExit(a) PROVE ChildAfterStart'
  BY <1>39 DEF ServerExit, ChildAfterStart
<1>40. ASSUME NEW a \in Attempt, ChildConnects(a) PROVE ChildAfterStart'
  BY <1>40 DEF ChildConnects, HelperStart, HelperRefuses, HelperExec, VpnAuth,
     VpnUp, VpnExit, Exits, Advance, ChildOnly, Live, ChildAfterStart
<1>41. ASSUME NEW a \in Attempt, TunnelEnds(a) PROVE ChildAfterStart'
  BY <1>41 DEF TunnelEnds, VpnExit, Exits, ChildOnly, Live, ChildAfterStart
<1>42. CASE UNCHANGED vars
  BY <1>42 DEF vars, ChildAfterStart
<1>43. QED
  BY <1>1, <1>2, <1>3, <1>4, <1>5, <1>6, <1>7, <1>8, <1>9, <1>10, <1>11, <1>12,
     <1>13, <1>14, <1>15, <1>16, <1>17, <1>18, <1>19, <1>20, <1>21, <1>22, <1>23,
     <1>24, <1>25, <1>26, <1>27, <1>28, <1>29, <1>30, <1>31, <1>32, <1>33, <1>34,
     <1>35, <1>36, <1>37, <1>38, <1>39, <1>40, <1>41, <1>42 DEF Next, User,
     MainStep, StartStep, DiscStep, PollStep

\* A step keeps OneBusy if it starts nothing, makes nobody busy and neither puts a
\* session into the slot nor sees the end of one.
LEMMA BusyFrame ==
  ASSUME OneBusy, Connects' = Connects, Started' = Started,
         mainPc = "commit" => mainPc' = "commit",
         slot' # NoOne => slot' = slot, \A a \in Attempt : Busy(a)' => Busy(a),
         LET take == {"take", "join", "apply", "retry", "retryNoCode"} IN
           /\ pollPc' \in take => pollPc \in take
           /\ pollPc' \in take \ {"take"} => pollPc # "take" \/ slot' = NoOne
  PROVE  OneBusy'
<1> SUFFICES ASSUME OneCode' PROVE OneBusy'
  BY DEF OneBusy
<1>1. OneCode
  BY DEF OneCode
<1>2. QED
  BY <1>1 DEF OneBusy

\* With one code, cancelled or not, at most one attempt is busy (main.rs:463-486,
\* 540-565, 671-701, 762-770).
LEMMA BusyStep ==
  TypeOK /\ LocksAndHolds /\ PollerHoldsSlot /\ OneOwner /\ RetryLeft /\ ChildAfterStart
    /\ OneBusy /\ [Next]_vars => OneBusy'
<1> SUFFICES ASSUME TypeOK, LocksAndHolds, PollerHoldsSlot, OneOwner, RetryLeft,
                    ChildAfterStart, OneBusy, [Next]_vars
             PROVE  OneBusy'
  OBVIOUS
<1> USE DEF ui, notes, retry, running, poll, child, paths, memo, world, TypeOK,
           HasChild
<1>1. CASE BeginConnect
  BY <1>1, BusyFrame DEF BeginConnect, Connects, Retries, Started, Busy
<1>2. CASE BeginProbe
  BY <1>2, BusyFrame DEF BeginProbe, Connects, Retries, Started, Busy
<1>3. CASE Connect
  BY <1>3, BusyFrame DEF Connect, Connects, Retries, Started, Busy
<1>4. CASE ConnectProbe
  BY <1>4, BusyFrame DEF ConnectProbe, Connects, Retries, Started, Busy
<1>5. CASE AdoptLive
  BY <1>5, BusyFrame DEF AdoptLive, EmitStatus, Connects, Retries, Started, Busy
<1>6. CASE ConnectAccept
  BY <1>6, BusyFrame DEF ConnectAccept, EmitStatus, Connects, Retries, Started, Busy
<1>7. CASE ConnectReset
  BY <1>7, BusyFrame DEF ConnectReset, Connects, Retries, Started, Busy
<1>8. CASE TrustCert
  BY <1>8, BusyFrame DEF TrustCert, Connects, Retries, Started, Busy
<1>9. CASE SaveProfile
  BY <1>9, BusyFrame DEF SaveProfile, Connects, Retries, Started, Busy
<1>10. ASSUME NEW a \in Attempt, ConnectCommit(a) PROVE OneBusy'
  <2>1. /\ mainPc = "commit" /\ startPc[a] = "unused" /\ ~skip[a]
        /\ startPc' = [startPc EXCEPT ![a] = "keyring"]
        /\ UNCHANGED <<slot, discPc, pollPc, skip, proc>>
    BY <1>10 DEF ConnectCommit, IsNext, RetryLeft
  <2>2. SUFFICES ASSUME OneCode' PROVE OneBusy'
    BY DEF OneBusy
  <2>3. a \in Connects' /\ Connects \subseteq Connects' /\ a \notin Connects
    BY <2>1 DEF Connects, Retries, Started
  <2>4. Connects = {}
    BY <2>2, <2>3 DEF OneCode
  <2>5. OneCode
    BY <2>1, <2>2, <2>4 DEF OneCode
  <2>6. Started = {} /\ slot = NoOne
    BY <2>4, <2>5 DEF OneBusy, OneOwner, ThreadHolds, Started
  <2>7. \A b \in Attempt : startPc[b] = "unused" /\ proc[b] = "none"
    BY <2>6 DEF Started, ChildAfterStart
  <2>8. \A b \in Attempt : Busy(b)' => b = a
    BY <2>1, <2>7 DEF Busy
  <2>9. pollPc' \notin {"take", "join", "apply", "retry", "retryNoCode"}
    BY <2>1, <2>4, <2>5 DEF OneBusy
  <2>10. QED
    BY <2>1, <2>3, <2>6, <2>8, <2>9 DEF OneBusy
<1>11. ASSUME NEW d \in Disconnect, DisconnectTake(d) PROVE OneBusy'
  BY <1>11, BusyFrame DEF DisconnectTake, Connects, Retries, Started, Busy
<1>12. ASSUME NEW d \in Disconnect, DisconnectEmit(d) PROVE OneBusy'
  BY <1>12, BusyFrame DEF DisconnectEmit, EmitStatus, Connects, Retries, Started,
     Busy
<1>13. ASSUME NEW a \in Attempt, StartRefused(a) PROVE OneBusy'
  BY <1>13, BusyFrame DEF StartRefused, Connects, Retries, Started, Busy
<1>14. ASSUME NEW a \in Attempt, CreateFiles(a) PROVE OneBusy'
  BY <1>14, BusyFrame DEF CreateFiles, Connects, Retries, Started, Busy
<1>15. ASSUME NEW a \in Attempt, BindSocket(a) PROVE OneBusy'
  BY <1>15, BusyFrame DEF BindSocket, Connects, Retries, Started, Busy
<1>16. ASSUME NEW a \in Attempt, SpawnChild(a) PROVE OneBusy'
  BY <1>16, BusyFrame DEF SpawnChild, Connects, Retries, Started, Busy
<1>17. ASSUME NEW a \in Attempt, SpawnUnwind(a) PROVE OneBusy'
  BY <1>17, BusyFrame DEF SpawnUnwind, Connects, Retries, Started, Busy
<1>18. ASSUME NEW a \in Attempt, StartFailed(a) PROVE OneBusy'
  BY <1>18, BusyFrame DEF StartFailed, Connects, Retries, Started, Busy
<1>19. ASSUME NEW a \in Attempt, StoreSession(a) PROVE OneBusy'
  <2>1. /\ startPc[a] = "store" /\ slot' = a
        /\ startPc' \in {[startPc EXCEPT ![a] = "done"],
                         [startPc EXCEPT ![a] = "joinOld"]}
        /\ UNCHANGED <<mainPc, discPc, pollPc, skip, proc>>
    BY <1>19 DEF StoreSession
  <2>2. SUFFICES ASSUME OneCode' PROVE OneBusy'
    BY DEF OneBusy
  <2>3. Connects' = Connects /\ Started' = Started
    BY <2>1 DEF Connects, Retries, Started
  <2>4. OneCode
    BY <2>1, <2>2, <2>3 DEF OneCode
  <2>5. Busy(a) /\ \A b \in Attempt : Busy(b)' => Busy(b)
    BY <2>1 DEF Busy
  <2>6. pollPc' \notin {"take", "join", "apply", "retry", "retryNoCode"}
    BY <2>1, <2>4, <2>5 DEF OneBusy
  <2>7. QED
    BY <2>1, <2>3, <2>4, <2>5, <2>6 DEF OneBusy
<1>20. ASSUME NEW a \in Attempt, StoreJoin(a) PROVE OneBusy'
  BY <1>20, BusyFrame DEF StoreJoin, DropEnd, Connects, Retries, Started, Busy
<1>21. ASSUME NEW d \in Disconnect, DiscTerminate(d) PROVE OneBusy'
  BY <1>21, BusyFrame DEF DiscTerminate, HelperStop, Exits, Live, Connects, Retries,
     Started, Busy
<1>22. ASSUME NEW d \in Disconnect, DiscDrop(d) PROVE OneBusy'
  BY <1>22, BusyFrame DEF DiscDrop, Connects, Retries, Started, Busy
<1>23. ASSUME NEW d \in Disconnect, DiscJoin(d) PROVE OneBusy'
  BY <1>23, BusyFrame DEF DiscJoin, DropEnd, Connects, Retries, Started, Busy
<1>24. ASSUME NEW d \in Disconnect, DiscKill(d) PROVE OneBusy'
  BY <1>24, BusyFrame DEF DiscKill, HelperStop, Exits, Live, Connects, Retries,
     Started, Busy
<1>25. ASSUME NEW d \in Disconnect, DiscIdle(d) PROVE OneBusy'
  BY <1>25, BusyFrame DEF DiscIdle, Connects, Retries, Started, Busy
<1>26. CASE PollLock
  BY <1>26, BusyFrame DEF PollLock, Connects, Retries, Started, Busy
<1>27. CASE PollEmitUp
  BY <1>27, BusyFrame DEF PollEmitUp, Connects, Retries, Started, Busy
<1>28. CASE PollTryWait
  <2>1. /\ UNCHANGED <<slot, mainPc, startPc, discPc, skip, proc>>
        /\ pollPc' \in {"take", "sleep"}
        /\ pollPc' = "take" => proc[slot] \in {"refused", "exited"}
    BY <1>28 DEF PollTryWait, Classify
  <2>2. slot \in Attempt /\ startPc[slot] \in {"joinOld", "done"}
    BY <1>28 DEF PollTryWait, PollerHoldsSlot, OneOwner, ThreadHolds
  <2>3. SUFFICES ASSUME OneCode' PROVE OneBusy'
    BY DEF OneBusy
  <2>4. Connects' = Connects /\ Started' = Started /\ \A b \in Attempt : Busy(b)' = Busy(b)
    BY <2>1 DEF Connects, Retries, Started, Busy
  <2>5. OneCode
    BY <2>1, <2>3, <2>4 DEF OneCode
  <2>6. pollPc' = "take" => ~Busy(slot) /\ Connects # {}
    BY <2>1, <2>2, <2>5 DEF Busy, OneBusy, Started
  <2>7. QED
    BY ThreadAssumption, <2>1, <2>2, <2>4, <2>5, <2>6 DEF OneBusy
<1>29. CASE PollTake
  BY <1>29, BusyFrame DEF PollTake, Connects, Retries, Started, Busy
<1>30. CASE PollJoin
  BY <1>30, BusyFrame DEF PollJoin, DropEnd, Connects, Retries, Started, Busy
<1>31. CASE ApplyOutcome
  BY <1>31, BusyFrame DEF ApplyOutcome, Connects, Retries, Started, Busy
<1>32. CASE RetryUnpinned
  <2>1. PICK a \in Attempt : /\ startPc[a] = "unused"
                             /\ startPc' = [startPc EXCEPT ![a] = "keyring"]
                             /\ skip' = [skip EXCEPT ![a] = TRUE]
    BY <1>32 DEF RetryUnpinned, IsNext
  <2>2. pollPc = "retry" /\ pollPc' = "sleep" /\ UNCHANGED <<slot, mainPc, discPc, proc>>
    BY <1>32 DEF RetryUnpinned, IsNext
  <2>3. SUFFICES ASSUME OneCode' PROVE OneBusy'
    BY DEF OneBusy
  <2>4. Connects' = Connects
    BY <2>1 DEF Connects, Retries, Started
  <2>5. OneCode
    BY <2>2, <2>3, <2>4 DEF OneCode
  <2>6. /\ Connects # {} /\ slot = NoOne
        /\ \A b \in Attempt : ~Busy(b)
    BY <2>2, <2>5 DEF OneBusy
  <2>7. \A b \in Attempt : Busy(b)' => b = a
    BY <2>1, <2>2, <2>6 DEF Busy
  <2>8. QED
    BY <2>2, <2>4, <2>6, <2>7 DEF OneBusy
<1>33. CASE RetryWithoutCode
  BY <1>33, BusyFrame DEF RetryWithoutCode, Connects, Retries, Started, Busy
<1>34. CASE OutcomeEmit
  BY <1>34, BusyFrame DEF OutcomeEmit, Connects, Retries, Started, Busy
<1>35. CASE OutcomeError
  BY <1>35, BusyFrame DEF OutcomeError, Connects, Retries, Started, Busy
<1>36. CASE PollStatus
  BY <1>36, BusyFrame DEF PollStatus, Connects, Retries, Started, Busy
<1>37. CASE PollProbe
  BY <1>37, BusyFrame DEF PollProbe, Connects, Retries, Started, Busy
<1>38. CASE PollReport
  BY <1>38, BusyFrame DEF PollReport, Connects, Retries, Started, Busy
<1>39. ASSUME NEW a \in Attempt, ServerExit(a) PROVE OneBusy'
  BY <1>39, BusyFrame DEF ServerExit, Connects, Retries, Started, Busy
<1>40. ASSUME NEW a \in Attempt, ChildConnects(a) PROVE OneBusy'
  BY <1>40, BusyFrame DEF ChildConnects, HelperStart, HelperRefuses, HelperExec,
     VpnAuth, VpnUp, VpnExit, Exits, Advance, ChildOnly, Live, Connects, Retries,
     Started, Busy
<1>41. ASSUME NEW a \in Attempt, TunnelEnds(a) PROVE OneBusy'
  BY <1>41, BusyFrame DEF TunnelEnds, VpnExit, Exits, ChildOnly, Live, Connects,
     Retries, Started, Busy
<1>42. CASE UNCHANGED vars
  BY <1>42, BusyFrame DEF vars, Connects, Retries, Started, Busy
<1>43. QED
  BY <1>1, <1>2, <1>3, <1>4, <1>5, <1>6, <1>7, <1>8, <1>9, <1>10, <1>11, <1>12,
     <1>13, <1>14, <1>15, <1>16, <1>17, <1>18, <1>19, <1>20, <1>21, <1>22, <1>23,
     <1>24, <1>25, <1>26, <1>27, <1>28, <1>29, <1>30, <1>31, <1>32, <1>33, <1>34,
     <1>35, <1>36, <1>37, <1>38, <1>39, <1>40, <1>41, <1>42 DEF Next, User,
     MainStep, StartStep, DiscStep, PollStep

-----------------------------------------------------------------------------
(* Who waits for a pinentry thread *)

\* A step that touches neither sessions nor sockets lets nobody wait who did not.
LEMMA WaitFrame ==
  ASSUME SessionsServed, WaitsEnd,
         UNCHANGED <<startPc, slot, hold, server, sock, skip>>,
         mainPc = "commit" => mainPc' = "commit",
         \A d \in Disconnect : discPc'[d] = "unused" => discPc[d] = "unused",
         pollPc' = "join" => pollPc = "join"
  PROVE  SessionsServed' /\ WaitsEnd'
<1>1. SessionsServed'
  BY DEF SessionsServed, ThreadHolds
<1>2. OneCode' /\ NoCancel' => OneCode /\ NoCancel
  BY DEF OneCode, NoCancel, Connects, Retries, Started
<1>3. WaitsEnd'
  BY <1>2 DEF WaitsEnd, ServerLeaves
<1>4. QED
  BY <1>1, <1>3

\* Sessions keep their pinentry threads, and with one code that nobody cancels whoever
\* waits for such a thread waits for one that leaves (main.rs:540-565, 762-770; runner.rs:305-317).
LEMMA WaitStep ==
  TypeOK /\ LocksAndHolds /\ OneOwner /\ ServersStartBound /\ RetryLeft /\ OneBusy
    /\ SessionsServed /\ WaitsEnd /\ [Next]_vars => SessionsServed' /\ WaitsEnd'
<1> SUFFICES ASSUME TypeOK, LocksAndHolds, OneOwner, ServersStartBound, RetryLeft,
                    OneBusy, SessionsServed, WaitsEnd, [Next]_vars
             PROVE  SessionsServed' /\ WaitsEnd'
  OBVIOUS
<1> USE DEF ui, notes, retry, running, poll, child, paths, memo, world
<1>1. CASE BeginConnect
  BY <1>1, WaitFrame DEF BeginConnect
<1>2. CASE BeginProbe
  BY <1>2, WaitFrame DEF BeginProbe
<1>3. CASE Connect
  BY <1>3, WaitFrame DEF Connect
<1>4. CASE ConnectProbe
  BY <1>4, WaitFrame DEF ConnectProbe
<1>5. CASE AdoptLive
  BY <1>5, WaitFrame DEF AdoptLive, EmitStatus
<1>6. CASE ConnectAccept
  BY <1>6, WaitFrame DEF ConnectAccept, EmitStatus
<1>7. CASE ConnectReset
  BY <1>7, WaitFrame DEF ConnectReset
<1>8. CASE TrustCert
  BY <1>8, WaitFrame DEF TrustCert
<1>9. CASE SaveProfile
  BY <1>9, WaitFrame DEF SaveProfile
<1>10. ASSUME NEW d \in Disconnect, DisconnectEmit(d)
      PROVE  SessionsServed' /\ WaitsEnd'
  BY <1>10, WaitFrame DEF DisconnectEmit, EmitStatus
<1>11. ASSUME NEW d \in Disconnect, DiscTerminate(d)
      PROVE  SessionsServed' /\ WaitsEnd'
  BY <1>11, WaitFrame DEF DiscTerminate, HelperStop, Exits
<1>12. ASSUME NEW d \in Disconnect, DiscKill(d)
      PROVE  SessionsServed' /\ WaitsEnd'
  BY <1>12, WaitFrame DEF DiscKill, HelperStop, Exits
<1>13. ASSUME NEW d \in Disconnect, DiscIdle(d)
      PROVE  SessionsServed' /\ WaitsEnd'
  BY <1>13, WaitFrame DEF DiscIdle, EmitStatus
<1>14. CASE PollLock
  BY <1>14, WaitFrame DEF PollLock
<1>15. CASE PollEmitUp
  BY <1>15, WaitFrame DEF PollEmitUp, EmitStatus
<1>16. CASE PollTryWait
  BY <1>16, WaitFrame DEF PollTryWait
<1>17. CASE ApplyOutcome
  BY <1>17, WaitFrame DEF ApplyOutcome
<1>18. CASE RetryWithoutCode
  BY <1>18, WaitFrame DEF RetryWithoutCode
<1>19. CASE OutcomeEmit
  BY <1>19, WaitFrame DEF OutcomeEmit, EmitStatus
<1>20. CASE OutcomeError
  BY <1>20, WaitFrame DEF OutcomeError
<1>21. CASE PollStatus
  BY <1>21, WaitFrame DEF PollStatus
<1>22. CASE PollProbe
  BY <1>22, WaitFrame DEF PollProbe
<1>23. CASE PollReport
  BY <1>23, WaitFrame DEF PollReport, EmitStatus
<1>24. ASSUME NEW a \in Attempt, ChildConnects(a)
      PROVE  SessionsServed' /\ WaitsEnd'
  BY <1>24, WaitFrame DEF ChildConnects, ChildOnly
<1>25. ASSUME NEW a \in Attempt, TunnelEnds(a)
      PROVE  SessionsServed' /\ WaitsEnd'
  BY <1>25, WaitFrame DEF TunnelEnds, ChildOnly
<1>26. CASE UNCHANGED vars
  BY <1>26, WaitFrame DEF vars
<1>27. ASSUME NEW a \in Attempt, ConnectCommit(a)
      PROVE  SessionsServed' /\ WaitsEnd'
  <2>1. /\ mainPc = "commit" /\ startPc[a] = "unused" /\ ~skip[a]
        /\ startPc' = [startPc EXCEPT ![a] = "keyring"]
        /\ UNCHANGED <<slot, hold, server, sock, discPc, pollPc, skip>>
    BY <1>27 DEF ConnectCommit, IsNext, RetryLeft
  <2>2. SessionsServed'
    BY <2>1 DEF SessionsServed, ThreadHolds, TypeOK
  <2>3. a \in Connects' /\ Connects \subseteq Connects' /\ a \notin Connects
    BY <2>1 DEF Connects, Retries, Started, TypeOK
  <2>4. OneCode' /\ NoCancel' => OneCode /\ NoCancel
    BY <2>1, <2>3 DEF OneCode, NoCancel
  <2>5. WaitsEnd'
    BY <2>1, <2>4 DEF WaitsEnd, ServerLeaves, TypeOK
  <2>6. QED
    BY <2>2, <2>5
<1>28. ASSUME NEW d \in Disconnect, DisconnectTake(d)
      PROVE  SessionsServed' /\ WaitsEnd'
  <2>1. ~NoCancel'
    BY <1>28 DEF DisconnectTake, NoCancel, TypeOK
  <2>2. SessionsServed'
    BY <1>28, ThreadAssumption DEF DisconnectTake, SessionsServed, ThreadHolds,
       TypeOK, Thread
  <2>3. QED
    BY <2>1, <2>2 DEF WaitsEnd
<1>29. ASSUME NEW d \in Disconnect, DiscDrop(d)
      PROVE  SessionsServed' /\ WaitsEnd'
  <2>1. ~NoCancel'
    BY <1>29 DEF DiscDrop, NoCancel, TypeOK
  <2>2. SessionsServed'
    BY <1>29 DEF DiscDrop, SessionsServed, ThreadHolds
  <2>3. QED
    BY <2>1, <2>2 DEF WaitsEnd
<1>30. ASSUME NEW d \in Disconnect, DiscJoin(d)
      PROVE  SessionsServed' /\ WaitsEnd'
  <2>1. ~NoCancel'
    BY <1>30 DEF DiscJoin, NoCancel, TypeOK
  <2>2. SessionsServed'
    BY <1>30, ThreadAssumption DEF DiscJoin, DropEnd, SessionsServed, ThreadHolds,
       TypeOK, Thread
  <2>3. QED
    BY <2>1, <2>2 DEF WaitsEnd
<1>31. ASSUME NEW a \in Attempt,
             \/ StartRefused(a) \/ CreateFiles(a) \/ SpawnUnwind(a) \/ StartFailed(a)
      PROVE  SessionsServed' /\ WaitsEnd'
  <2>1. /\ startPc[a] # "unused"
        /\ startPc' \in {[startPc EXCEPT ![a] = "bind"], [startPc EXCEPT ![a] = "failed"],
                         [startPc EXCEPT ![a] = "done"]}
        /\ UNCHANGED <<slot, hold, server, mainPc, discPc, pollPc, skip>>
        /\ sock' = sock \/ sock' = NoOne
    BY <1>31 DEF StartRefused, CreateFiles, SpawnUnwind, StartFailed
  <2>2. SessionsServed'
    BY <2>1 DEF SessionsServed, ThreadHolds, TypeOK
  <2>3. OneCode' /\ NoCancel' => OneCode /\ NoCancel
    BY <2>1 DEF OneCode, NoCancel, Connects, Retries, Started, TypeOK
  <2>4. WaitsEnd'
    BY <2>1, <2>3 DEF WaitsEnd, ServerLeaves, TypeOK
  <2>5. QED
    BY <2>2, <2>4
<1>32. ASSUME NEW a \in Attempt, BindSocket(a)
      PROVE  SessionsServed' /\ WaitsEnd'
  <2>1. /\ startPc[a] = "bind" /\ UNCHANGED <<slot, hold, mainPc, discPc, pollPc, skip>>
        /\ \/ /\ server' = [server EXCEPT ![a] = "serving"]
              /\ startPc' = [startPc EXCEPT ![a] = "child"]
           \/ /\ startPc' = [startPc EXCEPT ![a] = "failed"]
              /\ UNCHANGED <<server, sock>>
    BY <1>32 DEF BindSocket
  <2>2. SessionsServed'
    BY <2>1 DEF SessionsServed, ThreadHolds, TypeOK
  <2>3. SUFFICES ASSUME OneCode', NoCancel' PROVE WaitsEnd'
    BY <2>2 DEF WaitsEnd
  <2>4. OneCode /\ NoCancel
    BY <2>1, <2>3 DEF OneCode, NoCancel, Connects, Retries, Started, TypeOK
  <2>5. Busy(a)
    BY <2>1 DEF Busy, HasChild
  <2>6. pollPc # "join" /\ \A b \in Attempt : startPc[b] # "unwind"
    BY <2>1, <2>4, <2>5 DEF OneBusy, Busy, HasChild
  <2>7. \A b \in Attempt : startPc'[b] \notin {"joinOld", "unwind"}
    BY <2>1, <2>4, <2>6 DEF WaitsEnd, TypeOK
  <2>8. QED
    BY <2>1, <2>6, <2>7 DEF WaitsEnd
<1>33. ASSUME NEW a \in Attempt, SpawnChild(a)
      PROVE  SessionsServed' /\ WaitsEnd'
  <2>1. /\ startPc[a] = "child"
        /\ UNCHANGED <<slot, hold, server, mainPc, discPc, pollPc, skip>>
        /\ \/ startPc' = [startPc EXCEPT ![a] = "store"] /\ sock' = sock
           \/ startPc' = [startPc EXCEPT ![a] = "unwind"] /\ sock' = NoOne
    BY <1>33 DEF SpawnChild, DropBegin
  <2>2. SessionsServed'
    BY <2>1 DEF SessionsServed, ThreadHolds, TypeOK
  <2>3. OneCode' /\ NoCancel' => OneCode /\ NoCancel
    BY <2>1 DEF OneCode, NoCancel, Connects, Retries, Started, TypeOK
  <2>4. server[a] \in {"serving", "gone"}
    BY <2>1 DEF SessionsServed, TypeOK
  <2>5. WaitsEnd'
    BY <2>1, <2>3, <2>4 DEF WaitsEnd, ServerLeaves, TypeOK
  <2>6. QED
    BY <2>2, <2>5
<1>34. ASSUME NEW a \in Attempt, StoreSession(a)
      PROVE  SessionsServed' /\ WaitsEnd'
  <2>1. /\ startPc[a] = "store" /\ slot' = a
        /\ UNCHANGED <<server, mainPc, discPc, pollPc, skip>>
        /\ \/ /\ slot = NoOne /\ startPc' = [startPc EXCEPT ![a] = "done"]
              /\ UNCHANGED <<hold, sock>>
           \/ /\ slot # NoOne /\ startPc' = [startPc EXCEPT ![a] = "joinOld"]
              /\ hold' = [hold EXCEPT ![a] = slot]
    BY <1>34 DEF StoreSession
  <2>2. SessionsServed'
    BY <2>1, ThreadAssumption DEF SessionsServed, ThreadHolds, TypeOK, Thread
  <2>3. SUFFICES ASSUME OneCode', NoCancel' PROVE WaitsEnd'
    BY <2>2 DEF WaitsEnd
  <2>4. OneCode /\ NoCancel
    BY <2>1, <2>3 DEF OneCode, NoCancel, Connects, Retries, Started, TypeOK
  <2>5. Busy(a) /\ slot # a
    BY <2>1 DEF Busy, HasChild, OneOwner, ThreadHolds
  <2>6. slot = NoOne
    BY <2>4, <2>5 DEF OneBusy
  <2>7. QED
    BY <2>1, <2>4, <2>6 DEF WaitsEnd, ServerLeaves, TypeOK
<1>35. ASSUME NEW a \in Attempt, StoreJoin(a)
      PROVE  SessionsServed' /\ WaitsEnd'
  <2>1. /\ startPc[a] = "joinOld" /\ startPc' = [startPc EXCEPT ![a] = "done"]
        /\ hold' = [hold EXCEPT ![a] = NoOne]
        /\ UNCHANGED <<slot, server, mainPc, discPc, skip>>
    BY <1>35 DEF StoreJoin, DropEnd
  <2>2. SessionsServed'
    BY <2>1, ThreadAssumption DEF SessionsServed, ThreadHolds, TypeOK, Thread
  <2>3. OneCode' /\ NoCancel' => OneCode /\ NoCancel
    BY <2>1 DEF OneCode, NoCancel, Connects, Retries, Started, TypeOK
  <2>4. WaitsEnd'
    BY <2>1, <2>3 DEF WaitsEnd
  <2>5. QED
    BY <2>2, <2>4
<1>36. CASE PollTake
  <2>1. /\ pollPc = "take" /\ slot' = NoOne
        /\ UNCHANGED <<startPc, server, mainPc, discPc, skip>>
        /\ \/ slot = NoOne /\ pollPc' = "apply" /\ UNCHANGED <<hold, sock>>
           \/ /\ slot # NoOne /\ pollPc' = "join" /\ sock' = NoOne
              /\ hold' = [hold EXCEPT ![Poller] = slot]
    BY <1>36 DEF PollTake, DropBegin
  <2>2. SessionsServed'
    BY <2>1, ThreadAssumption DEF SessionsServed, ThreadHolds, TypeOK, Thread
  <2>3. OneCode' /\ NoCancel' => OneCode /\ NoCancel
    BY <2>1 DEF OneCode, NoCancel, Connects, Retries, Started
  <2>4. pollPc' = "join" => server[hold'[Poller]] \in {"serving", "gone"} /\ sock' = NoOne
    BY <2>1 DEF SessionsServed, TypeOK, Thread
  <2>5. WaitsEnd'
    BY <2>1, <2>3, <2>4 DEF WaitsEnd, ServerLeaves
  <2>6. QED
    BY <2>2, <2>5
<1>37. CASE PollJoin
  <2>1. /\ pollPc' = "apply" /\ hold' = [hold EXCEPT ![Poller] = NoOne]
        /\ UNCHANGED <<slot, startPc, server, sock, mainPc, discPc, skip>>
    BY <1>37 DEF PollJoin, DropEnd
  <2>2. SessionsServed'
    BY <2>1, ThreadAssumption DEF SessionsServed, ThreadHolds, TypeOK, Thread
  <2>3. OneCode' /\ NoCancel' => OneCode /\ NoCancel
    BY <2>1 DEF OneCode, NoCancel, Connects, Retries, Started
  <2>4. QED
    BY <2>1, <2>2, <2>3 DEF WaitsEnd, ServerLeaves
<1>38. CASE RetryUnpinned
  <2>1. PICK a \in Attempt : /\ startPc[a] = "unused"
                             /\ startPc' = [startPc EXCEPT ![a] = "keyring"]
                             /\ skip' = [skip EXCEPT ![a] = TRUE]
    BY <1>38 DEF RetryUnpinned, IsNext
  <2>2. pollPc' = "sleep" /\ UNCHANGED <<slot, hold, server, sock, mainPc, discPc>>
    BY <1>38 DEF RetryUnpinned, IsNext
  <2>3. SessionsServed'
    BY <2>1, <2>2 DEF SessionsServed, ThreadHolds, TypeOK
  <2>4. Connects' = Connects
    BY <2>1 DEF Connects, Retries, Started, TypeOK
  <2>5. OneCode' /\ NoCancel' => OneCode /\ NoCancel
    BY <2>2, <2>4 DEF OneCode, NoCancel
  <2>6. WaitsEnd'
    BY <2>1, <2>2, <2>5 DEF WaitsEnd, ServerLeaves, TypeOK
  <2>7. QED
    BY <2>3, <2>6
<1>39. ASSUME NEW a \in Attempt, ServerExit(a)
      PROVE  SessionsServed' /\ WaitsEnd'
  <2>1. /\ server' = [server EXCEPT ![a] = "gone"]
        /\ UNCHANGED <<startPc, slot, hold, sock, mainPc, discPc, pollPc, skip>>
    BY <1>39 DEF ServerExit
  <2>2. SessionsServed'
    BY <2>1 DEF SessionsServed, ThreadHolds, TypeOK
  <2>3. OneCode' /\ NoCancel' => OneCode /\ NoCancel
    BY <2>1 DEF OneCode, NoCancel, Connects, Retries, Started
  <2>4. \A b \in Attempt : ServerLeaves(b) => ServerLeaves(b)'
    BY <2>1 DEF ServerLeaves, TypeOK
  <2>5. pollPc = "join" => hold[Poller] \in Attempt
    BY DEF LocksAndHolds, TypeOK, Thread
  <2>6. WaitsEnd'
    BY <2>1, <2>3, <2>4, <2>5 DEF WaitsEnd, ServerLeaves, TypeOK
  <2>7. QED
    BY <2>2, <2>6
<1>40. QED
  BY <1>1, <1>2, <1>3, <1>4, <1>5, <1>6, <1>7, <1>8, <1>9, <1>10, <1>11, <1>12,
     <1>13, <1>14, <1>15, <1>16, <1>17, <1>18, <1>19, <1>20, <1>21, <1>22, <1>23,
     <1>24, <1>25, <1>26, <1>27, <1>28, <1>29, <1>30, <1>31, <1>32, <1>33, <1>34,
     <1>35, <1>36, <1>37, <1>38, <1>39 DEF Next, User, MainStep, StartStep,
     DiscStep, PollStep

-----------------------------------------------------------------------------
(* Whose files are at the common paths *)

\* A step that leaves both files alone and takes nobody to where they are needed.
LEMMA FilesFrame ==
  ASSUME FilesHeld, UNCHANGED <<sock, conf>>,
         OneCode' /\ NoCancel' => OneCode /\ NoCancel,
         \A a \in Attempt : startPc'[a] = "bind" => startPc[a] = "bind",
         \A a \in Attempt : startPc'[a] \in {"child", "store"} \/ HasChild(a)'
                             => startPc[a] \in {"child", "store"} \/ HasChild(a)
  PROVE  FilesHeld'
BY DEF FilesHeld

\* With one code that nobody cancels only the one busy attempt touches the files, in the
\* order in which it needs them (runner.rs:137-152; main.rs:540-543, 764-768).
LEMMA FilesStep ==
  TypeOK /\ OneOwner /\ RetryLeft /\ ChildAfterStart /\ OneBusy /\ WaitsEnd /\ FilesHeld
    /\ [Next]_vars => FilesHeld'
<1> SUFFICES ASSUME TypeOK, OneOwner, RetryLeft, ChildAfterStart, OneBusy, WaitsEnd,
                    FilesHeld, [Next]_vars
             PROVE  FilesHeld'
  OBVIOUS
<1> USE DEF ui, notes, retry, running, poll, child, paths, memo, world, TypeOK
<1>1. CASE BeginConnect
  BY <1>1, FilesFrame DEF BeginConnect, OneCode, NoCancel,
     Connects, Retries, Started, HasChild
<1>2. CASE BeginProbe
  BY <1>2, FilesFrame DEF BeginProbe, OneCode, NoCancel,
     Connects, Retries, Started, HasChild
<1>3. CASE Connect
  BY <1>3, FilesFrame DEF Connect, OneCode, NoCancel,
     Connects, Retries, Started, HasChild
<1>4. CASE ConnectProbe
  BY <1>4, FilesFrame DEF ConnectProbe, OneCode, NoCancel,
     Connects, Retries, Started, HasChild
<1>5. CASE AdoptLive
  BY <1>5, FilesFrame DEF AdoptLive, EmitStatus, OneCode, NoCancel,
     Connects, Retries, Started, HasChild
<1>6. CASE ConnectAccept
  BY <1>6, FilesFrame DEF ConnectAccept, EmitStatus, OneCode, NoCancel,
     Connects, Retries, Started, HasChild
<1>7. CASE ConnectReset
  BY <1>7, FilesFrame DEF ConnectReset, OneCode, NoCancel,
     Connects, Retries, Started, HasChild
<1>8. CASE TrustCert
  BY <1>8, FilesFrame DEF TrustCert, OneCode, NoCancel,
     Connects, Retries, Started, HasChild
<1>9. CASE SaveProfile
  BY <1>9, FilesFrame DEF SaveProfile, OneCode, NoCancel,
     Connects, Retries, Started, HasChild
<1>10. CASE PollLock
  BY <1>10, FilesFrame DEF PollLock, OneCode, NoCancel,
     Connects, Retries, Started, HasChild
<1>11. CASE PollEmitUp
  BY <1>11, FilesFrame DEF PollEmitUp, EmitStatus, OneCode, NoCancel,
     Connects, Retries, Started, HasChild
<1>12. CASE PollTryWait
  BY <1>12, FilesFrame DEF PollTryWait, OneCode, NoCancel,
     Connects, Retries, Started, HasChild
<1>13. CASE ApplyOutcome
  BY <1>13, FilesFrame DEF ApplyOutcome, OneCode, NoCancel,
     Connects, Retries, Started, HasChild
<1>14. CASE RetryWithoutCode
  BY <1>14, FilesFrame DEF RetryWithoutCode, OneCode, NoCancel,
     Connects, Retries, Started, HasChild
<1>15. CASE OutcomeEmit
  BY <1>15, FilesFrame DEF OutcomeEmit, EmitStatus, OneCode, NoCancel,
     Connects, Retries, Started, HasChild
<1>16. CASE OutcomeError
  BY <1>16, FilesFrame DEF OutcomeError, OneCode, NoCancel,
     Connects, Retries, Started, HasChild
<1>17. CASE PollStatus
  BY <1>17, FilesFrame DEF PollStatus, OneCode, NoCancel,
     Connects, Retries, Started, HasChild
<1>18. CASE PollProbe
  BY <1>18, FilesFrame DEF PollProbe, OneCode, NoCancel,
     Connects, Retries, Started, HasChild
<1>19. CASE PollReport
  BY <1>19, FilesFrame DEF PollReport, EmitStatus, OneCode, NoCancel,
     Connects, Retries, Started, HasChild
<1>20. ASSUME NEW d \in Disconnect, DisconnectEmit(d) PROVE FilesHeld'
  BY <1>20, FilesFrame DEF DisconnectEmit, EmitStatus, OneCode, NoCancel,
     Connects, Retries, Started, HasChild
<1>21. ASSUME NEW d \in Disconnect, DiscTerminate(d) PROVE FilesHeld'
  BY <1>21, FilesFrame DEF DiscTerminate, HelperStop, Exits, Live, OneCode, NoCancel,
     Connects, Retries, Started, HasChild
<1>22. ASSUME NEW d \in Disconnect, DiscKill(d) PROVE FilesHeld'
  BY <1>22, FilesFrame DEF DiscKill, HelperStop, Exits, Live, OneCode, NoCancel,
     Connects, Retries, Started, HasChild
<1>23. ASSUME NEW d \in Disconnect, DiscIdle(d) PROVE FilesHeld'
  BY <1>23, FilesFrame DEF DiscIdle, EmitStatus, OneCode, NoCancel,
     Connects, Retries, Started, HasChild
<1>24. ASSUME NEW a \in Attempt, StartRefused(a) PROVE FilesHeld'
  BY <1>24, FilesFrame DEF StartRefused, OneCode, NoCancel,
     Connects, Retries, Started, HasChild
<1>25. ASSUME NEW a \in Attempt, StartFailed(a) PROVE FilesHeld'
  BY <1>25, FilesFrame DEF StartFailed, EmitStatus, OneCode, NoCancel,
     Connects, Retries, Started, HasChild
<1>26. ASSUME NEW a \in Attempt, ServerExit(a) PROVE FilesHeld'
  BY <1>26, FilesFrame DEF ServerExit, OneCode, NoCancel,
     Connects, Retries, Started, HasChild
<1>27. ASSUME NEW a \in Attempt, ChildConnects(a) PROVE FilesHeld'
  BY <1>27, FilesFrame DEF ChildConnects, HelperStart, HelperRefuses, HelperExec,
     VpnAuth, VpnUp, VpnExit, Exits, Advance, ChildOnly, Live, OneCode, NoCancel,
     Connects, Retries, Started, HasChild
<1>28. ASSUME NEW a \in Attempt, TunnelEnds(a) PROVE FilesHeld'
  BY <1>28, FilesFrame DEF TunnelEnds, VpnExit, Exits, ChildOnly, Live, OneCode, NoCancel,
     Connects, Retries, Started, HasChild
<1>29. CASE UNCHANGED vars
  BY <1>29, FilesFrame DEF vars, OneCode, NoCancel, Connects, Retries, Started, HasChild
<1>30. ASSUME NEW a \in Attempt, ConnectCommit(a) PROVE FilesHeld'
  <2>1. /\ mainPc = "commit" /\ startPc[a] = "unused" /\ ~skip[a]
        /\ startPc' = [startPc EXCEPT ![a] = "keyring"]
        /\ UNCHANGED <<discPc, skip, proc, sock, conf>>
    BY <1>30 DEF ConnectCommit, IsNext, RetryLeft
  <2>2. a \in Connects' /\ Connects \subseteq Connects' /\ a \notin Connects
    BY <2>1 DEF Connects, Retries, Started
  <2>3. OneCode' /\ NoCancel' => OneCode /\ NoCancel
    BY <2>1, <2>2 DEF OneCode, NoCancel
  <2>4. QED
    BY <2>1, <2>3, FilesFrame DEF HasChild
<1>31. CASE RetryUnpinned
  <2>1. PICK a \in Attempt : /\ startPc[a] = "unused"
                             /\ startPc' = [startPc EXCEPT ![a] = "keyring"]
                             /\ skip' = [skip EXCEPT ![a] = TRUE]
    BY <1>31 DEF RetryUnpinned, IsNext
  <2>2. UNCHANGED <<mainPc, discPc, proc, sock, conf>>
    BY <1>31 DEF RetryUnpinned
  <2>3. Connects' = Connects
    BY <2>1 DEF Connects, Retries, Started
  <2>4. QED
    BY <2>1, <2>2, <2>3, FilesFrame DEF OneCode, NoCancel, HasChild
<1>32. ASSUME NEW d \in Disconnect, DisconnectTake(d) PROVE FilesHeld'
  <2>1. ~NoCancel'
    BY <1>32 DEF DisconnectTake, NoCancel
  <2>2. QED
    BY <2>1 DEF FilesHeld
<1>33. ASSUME NEW d \in Disconnect, DiscDrop(d) PROVE FilesHeld'
  <2>1. ~NoCancel'
    BY <1>33 DEF DiscDrop, NoCancel
  <2>2. QED
    BY <2>1 DEF FilesHeld
<1>34. ASSUME NEW d \in Disconnect, DiscJoin(d) PROVE FilesHeld'
  <2>1. ~NoCancel'
    BY <1>34 DEF DiscJoin, NoCancel
  <2>2. QED
    BY <2>1 DEF FilesHeld
<1>35. ASSUME NEW a \in Attempt,
              CreateFiles(a) \/ BindSocket(a) \/ SpawnChild(a) \/ SpawnUnwind(a)
      PROVE  FilesHeld'
  <2>1. SUFFICES ASSUME OneCode', NoCancel' PROVE FilesHeld'
    BY DEF FilesHeld
  <2>2. /\ UNCHANGED <<mainPc, discPc, skip>>
        /\ startPc[a] \in {"keyring", "bind", "child", "unwind"}
        /\ startPc'[a] # "unused"
        /\ \A b \in Attempt : b # a => startPc'[b] = startPc[b] /\ proc'[b] = proc[b]
    BY <1>35 DEF CreateFiles, BindSocket, SpawnChild, SpawnUnwind
  <2>3. OneCode /\ NoCancel
    BY <2>1, <2>2 DEF OneCode, NoCancel, Connects, Retries, Started
  <2>4. Busy(a) /\ proc[a] = "none"
    BY <2>2 DEF Busy, ChildAfterStart
  <2>5. ASSUME NEW b \in Attempt, b # a
        PROVE  startPc'[b] \notin {"bind", "child", "store"} /\ ~HasChild(b)'
    <3>1. ~Busy(b)
      BY <2>3, <2>4, <2>5 DEF OneBusy
    <3>2. QED
      BY <2>2, <2>5, <3>1 DEF Busy, HasChild
  <2>6. CASE CreateFiles(a)
    <3>1. startPc'[a] = "bind" /\ conf' = a /\ ~HasChild(a)'
      BY <2>4, <2>6 DEF CreateFiles, HasChild
    <3>2. QED
      BY <2>5, <3>1 DEF FilesHeld
  <2>7. CASE BindSocket(a)
    <3>1. conf = a
      BY <2>3, <2>7 DEF BindSocket, FilesHeld
    <3>2. /\ startPc'[a] # "bind" /\ ~HasChild(a)'
          /\ startPc'[a] \in {"child", "store"} => sock' = a /\ conf' = a
      BY <2>4, <2>7, <3>1 DEF BindSocket, HasChild
    <3>3. QED
      BY <2>5, <3>2 DEF FilesHeld
  <2>8. CASE SpawnChild(a)
    <3>1. sock = a /\ conf = a
      BY <2>3, <2>8 DEF SpawnChild, FilesHeld
    <3>2. /\ startPc'[a] # "bind"
          /\ startPc'[a] \in {"child", "store"} \/ HasChild(a)' => sock' = a /\ conf' = a
      BY <2>4, <2>8, <3>1 DEF SpawnChild, HasChild
    <3>3. QED
      BY <2>5, <3>2 DEF FilesHeld
  <2>9. CASE SpawnUnwind(a)
    <3>1. startPc'[a] = "failed" /\ ~HasChild(a)'
      BY <2>4, <2>9 DEF SpawnUnwind, HasChild
    <3>2. QED
      BY <2>5, <3>1 DEF FilesHeld
  <2>10. QED
    BY <1>35, <2>6, <2>7, <2>8, <2>9
<1>36. ASSUME NEW a \in Attempt, StoreSession(a) PROVE FilesHeld'
  <2>1. SUFFICES ASSUME OneCode', NoCancel' PROVE FilesHeld'
    BY DEF FilesHeld
  <2>2. /\ startPc[a] = "store" /\ UNCHANGED <<mainPc, discPc, skip, proc, conf>>
        /\ startPc' \in {[startPc EXCEPT ![a] = "done"],
                         [startPc EXCEPT ![a] = "joinOld"]}
        /\ slot = NoOne => sock' = sock
    BY <1>36 DEF StoreSession
  <2>3. OneCode /\ NoCancel
    BY <2>1, <2>2 DEF OneCode, NoCancel, Connects, Retries, Started
  <2>4. Busy(a) /\ slot # a
    BY <2>2 DEF Busy, OneOwner
  <2>5. slot = NoOne
    BY <2>3, <2>4 DEF OneBusy
  <2>6. QED
    BY <2>2, <2>3, <2>5, FilesFrame DEF HasChild
<1>37. ASSUME NEW a \in Attempt, StoreJoin(a) PROVE FilesHeld'
  <2>1. /\ startPc[a] = "joinOld" /\ startPc' = [startPc EXCEPT ![a] = "done"]
        /\ UNCHANGED <<mainPc, discPc, skip>>
    BY <1>37 DEF StoreJoin
  <2>2. OneCode' /\ NoCancel' => OneCode /\ NoCancel
    BY <2>1 DEF OneCode, NoCancel, Connects, Retries, Started
  <2>3. ~(OneCode /\ NoCancel)
    BY <2>1 DEF WaitsEnd
  <2>4. QED
    BY <2>2, <2>3 DEF FilesHeld
<1>38. CASE PollTake \/ PollJoin
  <2>1. /\ pollPc \in {"take", "join"}
        /\ UNCHANGED <<mainPc, discPc, skip, startPc, proc>>
    BY <1>38 DEF PollTake, PollJoin
  <2>2. OneCode' => OneCode
    BY <2>1 DEF OneCode, Connects, Retries, Started
  <2>3. OneCode => \A a \in Attempt : ~Busy(a)
    BY <2>1 DEF OneBusy
  <2>4. QED
    BY <2>1, <2>2, <2>3 DEF FilesHeld, Busy, HasChild
<1>39. QED
  BY <1>1, <1>2, <1>3, <1>4, <1>5, <1>6, <1>7, <1>8, <1>9, <1>10, <1>11, <1>12,
     <1>13, <1>14, <1>15, <1>16, <1>17, <1>18, <1>19, <1>20, <1>21, <1>22, <1>23,
     <1>24, <1>25, <1>26, <1>27, <1>28, <1>29, <1>30, <1>31, <1>32, <1>33, <1>34,
     <1>35, <1>36, <1>37, <1>38 DEF Next, User, MainStep, StartStep, DiscStep,
     PollStep

-----------------------------------------------------------------------------
(* The theorems *)

\* The inductive invariant: everything above together.
THEOREM InductiveInvariant == Spec => []IInv
<1>1. Init => IInv
  <2> SUFFICES ASSUME Init PROVE IInv
    OBVIOUS
  <2>1. Started = {} /\ Connects = {} /\ Retries = {}
    BY DEF Init, Started, Connects, Retries
  <2>2. Cardinality(Connects) = 0 /\ Cardinality(Retries) = 0
    BY <2>1, FS_EmptySet
  <2>3. RetriesBounded /\ RetryLeft
    BY <2>1, <2>2 DEF Init, RetriesBounded, RetryLeft, Accepted
  <2>4. Ownership
    BY ThreadAssumption DEF Init, Ownership, LocksAndHolds, PollerHoldsSlot, OneOwner, ThreadHolds,
       ServersStartBound, ServerHasOwner, Thread
  <2>5. RequestsStay
    BY DEF Init, RequestsStay
  <2>6. TypeOK
    BY InitTypeOK
  <2>7. ChildAfterStart /\ OneBusy
    BY <2>1, ThreadAssumption DEF Init, ChildAfterStart, OneBusy, Busy, HasChild
  <2>8. SessionsServed /\ WaitsEnd
    BY ThreadAssumption DEF Init, SessionsServed, WaitsEnd, ThreadHolds, Thread
  <2>9. FilesHeld
    BY DEF Init, FilesHeld, HasChild
  <2>10. QED
    BY <2>3, <2>4, <2>5, <2>6, <2>7, <2>8, <2>9 DEF IInv, Ownership
<1>2. IInv /\ [Next]_vars => IInv'
  BY TypeStep, OwnershipStep, RetryStep, RequestsStep, ChildStep, BusyStep, WaitStep,
     FilesStep
  DEF IInv, Ownership, RetryInv
<1>3. QED
  BY <1>1, <1>2, PTL DEF Spec

\* State and variables keep their types whatever the threads do.
THEOREM TypeCorrect == Spec => []TypeOK
<1>1. IInv => TypeOK
  BY DEF IInv
<1>2. QED
  BY <1>1, InductiveInvariant, PTL

\* No pinentry thread that still serves is forgotten (runner.rs:305-317).
THEOREM ServersHaveOwners == Spec => []ServerHasOwner
<1>1. IInv => ServerHasOwner
  BY DEF IInv
<1>2. QED
  BY <1>1, InductiveInvariant, PTL

\* At most one unpinned retry for every accepted code (main.rs:473, 671-701).
THEOREM NoRetryLoop == Spec => []RetriesBounded
<1>1. IInv => RetriesBounded
  BY DEF IInv
<1>2. QED
  BY <1>1, InductiveInvariant, PTL

\* The poller's tunnel probe never overwrites a request (main.rs:778-816).
THEOREM RequestsSurviveProbe == Spec => []RequestsStay
<1>1. IInv => RequestsStay
  BY DEF IInv
<1>2. QED
  BY <1>1, InductiveInvariant, PTL

\* With one code, cancelled or not, no start is under way while another session's
\* child is on its way or running (main.rs:463-486, 671-701).
THEOREM OneSessionAtATime == Spec => [](OneCode => OneSession)
<1>1. IInv => (OneCode => OneSession)
  <2>1. SUFFICES ASSUME IInv, OneCode PROVE OneSession
    OBVIOUS
  <2>2. ASSUME NEW a \in Attempt, NEW b \in Attempt,
               HasChild(a),
               startPc[b] \in {"keyring", "bind", "child"}
        PROVE  FALSE
    <3>1. Busy(a) /\ Busy(b)
      BY <2>2 DEF Busy, HasChild
    <3>2. a = b
      BY <2>1, <3>1 DEF IInv, OneBusy
    <3>3. QED
      BY <2>1, <2>2, <3>2 DEF IInv, ChildAfterStart, HasChild
  <2>3. QED
    BY <2>2 DEF OneSession
<1>2. QED
  BY <1>1, InductiveInvariant, PTL

\* With one code, cancelled or not, what the poller takes out of the slot, after it gave
\* the lock up and a cancel may have emptied the slot, is a session whose child has
\* ended: the start that could have filled the slot comes after the take
\* (main.rs:562-565, 671-701, 763-768).
THEOREM OnlyEndedTaken == Spec /\ []OneCode => PollTakesEnded
<1>1. ASSUME IInv, OneCode, pollPc = "take", slot # NoOne
      PROVE  proc[slot] \in {"refused", "exited"}
  <2>1. slot \in Attempt /\ ~Busy(slot) /\ startPc[slot] \in {"joinOld", "done"}
    BY <1>1 DEF IInv, TypeOK, OneOwner, ThreadHolds, OneBusy
  <2>2. QED
    BY <1>1, <2>1 DEF IInv, TypeOK, ChildAfterStart, Busy, HasChild
<1>2. IInv /\ OneCode /\ [Next]_vars
        => [pollPc = "take" /\ slot # NoOne /\ slot' = NoOne
              => proc[slot] \in {"refused", "exited"}]_vars
  BY <1>1
<1>3. QED
  BY <1>2, InductiveInvariant, PTL DEF Spec, PollTakesEnded

\* With one code that nobody cancels, the poller, which joins a pinentry thread with the
\* slot locked, joins one that has ended or finds its socket gone, and no start drops a
\* session under that lock (runner.rs:305-317; main.rs:540-543, 764-768).
THEOREM JoinsEndUnlessOverlap == Spec => []WaitsEnd
<1>1. IInv => WaitsEnd
  BY DEF IInv
<1>2. QED
  BY <1>1, InductiveInvariant, PTL

\* A session that nobody cancels keeps its socket and its config while its child lives:
\* no drop before the retry comes too late (runner.rs:137-152, 305-317;
\* main.rs:671-701, 764-768).
THEOREM FilesStayHeld == Spec => []FilesStay
<1>1. IInv => FilesStay
  BY DEF IInv, FilesHeld, FilesStay
<1>2. QED
  BY <1>1, InductiveInvariant, PTL

-----------------------------------------------------------------------------
(* The controller implements SessionLife *)

\* What a session's life is made of.
lifeVars == <<startPc, slot, hold, server>>

\* A step that leaves these alone is a stuttering step of SessionLife.
LEMMA LifeFrame ==
  ASSUME UNCHANGED lifeVars
  PROVE  UNCHANGED Life!vars
BY DEF lifeVars, Life!vars, LifeOf, ThreadHolds, Serving

\* So is one that moves a start within what SessionLife calls opening.
LEMMA OpeningFrame ==
  ASSUME TypeOK, NEW a \in Attempt,
         NEW pc \in {"keyring", "bind", "child", "unwind", "failed", "store"},
         startPc[a] \in {"keyring", "bind", "child", "unwind"},
         startPc' = [startPc EXCEPT ![a] = pc], UNCHANGED <<slot, hold>>
  PROVE  \A b \in Attempt : LifeOf(b)' = LifeOf(b)
BY DEF TypeOK, LifeOf, ThreadHolds

\* No session has begun its life before the program starts.
LEMMA LifeInit == Init => Life!Init
BY DEF Init, Life!Init, LifeOf, ThreadHolds, Serving

\* Each step of the controller is a step of SessionLife or a stuttering step.
LEMMA LifeStep == IInv /\ IInv' /\ [Next]_vars => [Life!Next]_(Life!vars)
<1> SUFFICES ASSUME IInv, IInv', [Next]_vars
             PROVE  Life!Next \/ UNCHANGED Life!vars
  OBVIOUS
<1> DEFINE life == [a \in Attempt |-> LifeOf(a)]
<1>0. TypeOK /\ LocksAndHolds /\ OneOwner /\ ServersStartBound /\ ServerHasOwner
  BY DEF IInv
<1>life. ASSUME \A b \in Attempt : LifeOf(b)' = LifeOf(b) PROVE UNCHANGED life
  BY <1>life
<1>1. CASE BeginConnect
  BY <1>1, LifeFrame DEF BeginConnect, lifeVars, EmitStatus, ui, notes, retry,
     running, poll, child, paths, memo, world
<1>2. CASE BeginProbe
  BY <1>2, LifeFrame DEF BeginProbe, lifeVars, EmitStatus, ui, notes, retry, running,
     poll, child, paths, memo, world
<1>3. CASE Connect
  BY <1>3, LifeFrame DEF Connect, lifeVars, EmitStatus, ui, notes, retry, running,
     poll, child, paths, memo, world
<1>4. CASE ConnectProbe
  BY <1>4, LifeFrame DEF ConnectProbe, lifeVars, EmitStatus, ui, notes, retry,
     running, poll, child, paths, memo, world
<1>5. CASE AdoptLive
  BY <1>5, LifeFrame DEF AdoptLive, lifeVars, EmitStatus, ui, notes, retry, running,
     poll, child, paths, memo, world
<1>6. CASE ConnectAccept
  BY <1>6, LifeFrame DEF ConnectAccept, lifeVars, EmitStatus, ui, notes, retry,
     running, poll, child, paths, memo, world
<1>7. CASE ConnectReset
  BY <1>7, LifeFrame DEF ConnectReset, lifeVars, EmitStatus, ui, notes, retry,
     running, poll, child, paths, memo, world
<1>8. CASE TrustCert
  BY <1>8, LifeFrame DEF TrustCert, lifeVars, EmitStatus, ui, notes, retry, running,
     poll, child, paths, memo, world
<1>9. CASE SaveProfile
  BY <1>9, LifeFrame DEF SaveProfile, lifeVars, EmitStatus, ui, notes, retry,
     running, poll, child, paths, memo, world
<1>10. CASE PollLock
  BY <1>10, LifeFrame DEF PollLock, lifeVars, EmitStatus, ui, notes, retry, running,
     poll, child, paths, memo, world
<1>11. CASE PollEmitUp
  BY <1>11, LifeFrame DEF PollEmitUp, lifeVars, EmitStatus, ui, notes, retry,
     running, poll, child, paths, memo, world
<1>12. CASE PollTryWait
  BY <1>12, LifeFrame DEF PollTryWait, lifeVars, EmitStatus, ui, notes, retry,
     running, poll, child, paths, memo, world
<1>13. CASE ApplyOutcome
  BY <1>13, LifeFrame DEF ApplyOutcome, lifeVars, EmitStatus, ui, notes, retry,
     running, poll, child, paths, memo, world
<1>14. CASE RetryWithoutCode
  BY <1>14, LifeFrame DEF RetryWithoutCode, lifeVars, EmitStatus, ui, notes, retry,
     running, poll, child, paths, memo, world
<1>15. CASE OutcomeEmit
  BY <1>15, LifeFrame DEF OutcomeEmit, lifeVars, EmitStatus, ui, notes, retry,
     running, poll, child, paths, memo, world
<1>16. CASE OutcomeError
  BY <1>16, LifeFrame DEF OutcomeError, lifeVars, EmitStatus, ui, notes, retry,
     running, poll, child, paths, memo, world
<1>17. CASE PollStatus
  BY <1>17, LifeFrame DEF PollStatus, lifeVars, EmitStatus, ui, notes, retry,
     running, poll, child, paths, memo, world
<1>18. CASE PollProbe
  BY <1>18, LifeFrame DEF PollProbe, lifeVars, EmitStatus, ui, notes, retry, running,
     poll, child, paths, memo, world
<1>19. CASE PollReport
  BY <1>19, LifeFrame DEF PollReport, lifeVars, EmitStatus, ui, notes, retry,
     running, poll, child, paths, memo, world
<1>20. ASSUME NEW d \in Disconnect, DisconnectEmit(d) PROVE UNCHANGED Life!vars
  BY <1>20, LifeFrame DEF DisconnectEmit, lifeVars, EmitStatus, DropBegin,
     HelperStop, ui, notes, retry, running, poll, child, paths, memo, world
<1>21. ASSUME NEW d \in Disconnect, DiscTerminate(d) PROVE UNCHANGED Life!vars
  BY <1>21, LifeFrame DEF DiscTerminate, lifeVars, EmitStatus, DropBegin, HelperStop,
     ui, notes, retry, running, poll, child, paths, memo, world
<1>22. ASSUME NEW d \in Disconnect, DiscDrop(d) PROVE UNCHANGED Life!vars
  BY <1>22, LifeFrame DEF DiscDrop, lifeVars, EmitStatus, DropBegin, HelperStop, ui,
     notes, retry, running, poll, child, paths, memo, world
<1>23. ASSUME NEW d \in Disconnect, DiscKill(d) PROVE UNCHANGED Life!vars
  BY <1>23, LifeFrame DEF DiscKill, lifeVars, EmitStatus, DropBegin, HelperStop, ui,
     notes, retry, running, poll, child, paths, memo, world
<1>24. ASSUME NEW d \in Disconnect, DiscIdle(d) PROVE UNCHANGED Life!vars
  BY <1>24, LifeFrame DEF DiscIdle, lifeVars, EmitStatus, DropBegin, HelperStop, ui,
     notes, retry, running, poll, child, paths, memo, world
<1>25. ASSUME NEW a \in Attempt, ChildConnects(a) PROVE UNCHANGED Life!vars
  BY <1>25, LifeFrame DEF ChildConnects, ChildOnly, lifeVars, ui, notes, retry,
     running, poll, child, paths, memo, world
<1>26. ASSUME NEW a \in Attempt, TunnelEnds(a) PROVE UNCHANGED Life!vars
  BY <1>26, LifeFrame DEF TunnelEnds, ChildOnly, lifeVars, ui, notes, retry, running,
     poll, child, paths, memo, world
<1>27. CASE UNCHANGED vars
  BY <1>27, LifeFrame DEF vars, lifeVars
<1>28. ASSUME NEW a \in Attempt, StartRefused(a) PROVE UNCHANGED Life!vars
  <2>1. \A b \in Attempt : LifeOf(b)' = LifeOf(b)
    BY <1>28, <1>0, OpeningFrame DEF StartRefused, DropBegin, ui, notes, retry,
       running, poll, child, paths, memo, world
  <2>2. UNCHANGED server
    BY <1>28 DEF StartRefused, DropBegin, ui, notes, retry, running, poll, child,
       paths, memo, world
  <2>3. QED
    BY <2>1, <2>2, <1>life DEF Life!vars, Serving
<1>29. ASSUME NEW a \in Attempt, CreateFiles(a) PROVE UNCHANGED Life!vars
  <2>1. \A b \in Attempt : LifeOf(b)' = LifeOf(b)
    BY <1>29, <1>0, OpeningFrame DEF CreateFiles, DropBegin, ui, notes, retry,
       running, poll, child, paths, memo, world
  <2>2. UNCHANGED server
    BY <1>29 DEF CreateFiles, DropBegin, ui, notes, retry, running, poll, child,
       paths, memo, world
  <2>3. QED
    BY <2>1, <2>2, <1>life DEF Life!vars, Serving
<1>30. ASSUME NEW a \in Attempt, SpawnChild(a) PROVE UNCHANGED Life!vars
  <2>1. \A b \in Attempt : LifeOf(b)' = LifeOf(b)
    BY <1>30, <1>0, OpeningFrame DEF SpawnChild, DropBegin, ui, notes, retry,
       running, poll, child, paths, memo, world
  <2>2. UNCHANGED server
    BY <1>30 DEF SpawnChild, DropBegin, ui, notes, retry, running, poll, child,
       paths, memo, world
  <2>3. QED
    BY <2>1, <2>2, <1>life DEF Life!vars, Serving
<1>31. ASSUME NEW a \in Attempt, SpawnUnwind(a) PROVE UNCHANGED Life!vars
  <2>1. \A b \in Attempt : LifeOf(b)' = LifeOf(b)
    BY <1>31, <1>0, OpeningFrame DEF SpawnUnwind, DropBegin, ui, notes, retry,
       running, poll, child, paths, memo, world
  <2>2. UNCHANGED server
    BY <1>31 DEF SpawnUnwind, DropBegin, ui, notes, retry, running, poll, child,
       paths, memo, world
  <2>3. QED
    BY <2>1, <2>2, <1>life DEF Life!vars, Serving
<1>32. ASSUME NEW a \in Attempt, BindSocket(a) PROVE Life!Next \/ UNCHANGED Life!vars
  <2>1. \A b \in Attempt : LifeOf(b)' = LifeOf(b)
    BY <1>32, <1>0, OpeningFrame DEF BindSocket, ui, notes, retry, running, poll,
       child, paths, memo, world
  <2>2. CASE UNCHANGED server
    BY <2>1, <2>2, <1>life DEF Life!vars, Serving
  <2>3. CASE server' = [server EXCEPT ![a] = "serving"]
    <3>1. LifeOf(a) = "opening" /\ a \notin Serving
      BY <1>32, <1>0 DEF BindSocket, LifeOf, ThreadHolds, ServersStartBound, Serving
    <3>2. Serving' = Serving \cup {a}
      BY <2>3, <1>0 DEF Serving, TypeOK
    <3>3. Life!Serve(a)
      BY <3>1, <3>2, <2>1, <1>life DEF Life!Serve
    <3>4. QED
      BY <3>3 DEF Life!Next
  <2>4. QED
    BY <1>32, <2>2, <2>3 DEF BindSocket
<1>33. ASSUME NEW a \in Attempt, StartFailed(a) PROVE Life!Next
  <2>1. startPc[a] = "failed" /\ startPc' = [startPc EXCEPT ![a] = "done"]
         /\ UNCHANGED <<slot, hold, server>>
    BY <1>33 DEF StartFailed, ui, notes, retry, running, poll, child, paths, memo, world
  <2>2. slot # a /\ \A t \in Thread : hold[t] # a
    BY <2>1, <1>0 DEF OneOwner, ThreadHolds
  <2>3. a \notin Serving /\ UNCHANGED Serving
    BY <2>1, <2>2, <1>0 DEF ServerHasOwner, Serving
  <2>4. life' = [life EXCEPT ![a] = "closed"] /\ life[a] = "opening"
    BY <2>1, <2>2, <1>0 DEF LifeOf, ThreadHolds, TypeOK
  <2>5. Life!Close(a)
    BY <2>3, <2>4 DEF Life!Close, Life!Moves
  <2>6. QED
    BY <2>5 DEF Life!Next
<1>34. ASSUME NEW a \in Attempt, startPc[a] = "unused",
            startPc' = [startPc EXCEPT ![a] = "keyring"], UNCHANGED <<slot, hold,
            server>>
     PROVE  Life!Next
  <2>1. life' = [life EXCEPT ![a] = "opening"] /\ life[a] = "none"
    BY <1>34, <1>0 DEF LifeOf, ThreadHolds, TypeOK
  <2>2. Life!Open(a)
    BY <1>34, <2>1 DEF Life!Open, Life!Moves, Serving
  <2>3. QED
    BY <2>2 DEF Life!Next
<1>35. ASSUME NEW a \in Attempt, ConnectCommit(a) PROVE Life!Next
  BY <1>35, <1>34 DEF ConnectCommit, IsNext, ui, notes, retry, running, poll, child, paths,
     memo, world
<1>36. CASE RetryUnpinned
  BY <1>36, <1>34 DEF RetryUnpinned, IsNext, ui, notes, retry, running, poll, child, paths,
     memo, world
<1>37. ASSUME NEW a \in Attempt, ServerExit(a) PROVE Life!Next
  <2>1. \A b \in Attempt : LifeOf(b)' = LifeOf(b)
    BY <1>37 DEF ServerExit, LifeOf, ThreadHolds, ui, notes, retry, running, poll,
       child, paths, memo, world
  <2>2. Serving' = Serving \ {a}
    BY <1>37, <1>0 DEF ServerExit, Serving, TypeOK
  <2>3. Life!StopServing(a)
    BY <2>1, <2>2, <1>life DEF Life!StopServing
  <2>4. QED
    BY <2>3 DEF Life!Next
<1>38. ASSUME NEW a \in Attempt, StoreSession(a) PROVE Life!Next
  <2>1. /\ startPc[a] = "store" /\ slot' = a /\ UNCHANGED server
        /\ startPc' \in {[startPc EXCEPT ![a] = "done"],
                         [startPc EXCEPT ![a] = "joinOld"]}
        /\ \/ slot = NoOne /\ UNCHANGED hold
           \/ slot # NoOne /\ hold' = [hold EXCEPT ![a] = slot]
    BY <1>38 DEF StoreSession, ui, notes, retry, running, poll, child, paths, memo,
       world
  <2>2. hold[a] = NoOne
    BY <2>1, <1>0 DEF LocksAndHolds
  <2>3. slot # a /\ \A t \in Thread : hold[t] # a
    BY <2>1, <1>0 DEF OneOwner, ThreadHolds
  <2>4. ASSUME NEW b \in Attempt, b # a
        PROVE  LifeOf(b)' = IF LifeOf(b) = "running" THEN "closing" ELSE LifeOf(b)
    <3>1. startPc'[b] = startPc[b] /\ slot' # b
      BY <2>1, <2>4, <1>0 DEF TypeOK
    <3>2. CASE slot = b
      <4>1. startPc[b] \in {"joinOld", "done"}
        BY <3>2, <1>0 DEF OneOwner, ThreadHolds
      <4>2. a \in Thread /\ hold'[a] = b
        BY <2>1, <3>2, <1>0, ThreadAssumption DEF TypeOK, Thread
      <4>3. QED
        BY <3>1, <3>2, <4>1, <4>2 DEF LifeOf, ThreadHolds
    <3>3. CASE slot # b
      <4>1. ThreadHolds(b)' = ThreadHolds(b)
        BY <2>1, <2>2, <3>3, <1>0, ThreadAssumption DEF ThreadHolds, TypeOK, Thread
      <4>2. QED
        BY <3>1, <3>3, <4>1 DEF LifeOf, ThreadHolds
    <3>4. QED
      BY <3>2, <3>3
  <2>5. LifeOf(a)' = "running" /\ LifeOf(a) = "opening"
    BY <2>1, <1>0 DEF LifeOf, ThreadHolds, TypeOK
  <2>6. Life!Run(a)
    BY <2>1, <2>4, <2>5 DEF Life!Run, Serving
  <2>7. QED
    BY <2>6 DEF Life!Next
<1>39. ASSUME NEW t \in Thread, hold[t] = NoOne, hold' = [hold EXCEPT ![t] = slot],
            slot' = NoOne, UNCHANGED <<startPc, server>>
     PROVE  Life!Next \/ UNCHANGED Life!vars
  <2>1. CASE slot = NoOne
    <3>1. hold' = hold
      BY <1>39, <2>1, <1>0 DEF TypeOK
    <3>2. QED
      BY <1>39, <2>1, <3>1, LifeFrame DEF lifeVars
  <2>2. CASE slot # NoOne
    <3>1. slot \in Attempt /\ startPc[slot] \in {"joinOld", "done"}
      BY <2>2, <1>0 DEF OneOwner, ThreadHolds, TypeOK
    <3>2. LifeOf(slot) = "running"
      BY <3>1 DEF LifeOf, ThreadHolds
    <3>3. ASSUME NEW b \in Attempt
          PROVE  LifeOf(b)' = IF b = slot THEN "closing" ELSE LifeOf(b)
      <4>1. CASE b = slot
        <5>1. hold'[t] = b /\ slot' # b
          BY <1>39, <4>1, <1>0, ThreadAssumption DEF TypeOK
        <5>2. QED
          BY <1>39, <3>1, <4>1, <5>1 DEF LifeOf, ThreadHolds
      <4>2. CASE b # slot
        <5>1. ThreadHolds(b)' = ThreadHolds(b)
          BY <1>39, <4>2, <1>0, ThreadAssumption DEF ThreadHolds, TypeOK
        <5>2. slot' # b
          BY <1>39, ThreadAssumption
        <5>3. QED
          BY <1>39, <4>2, <5>1, <5>2 DEF LifeOf, ThreadHolds
      <4>3. QED
        BY <4>1, <4>2
    <3>4. Life!Take(slot)
      BY <1>39, <3>1, <3>2, <3>3 DEF Life!Take, Life!Moves, Serving
    <3>5. QED
      BY <3>1, <3>4 DEF Life!Next
  <2>3. QED
    BY <2>1, <2>2
<1>40. ASSUME NEW d \in Disconnect, DisconnectTake(d) PROVE Life!Next \/ UNCHANGED Life!vars
  <2>1. d \in Thread /\ hold[d] = NoOne
    BY <1>40, <1>0 DEF DisconnectTake, LocksAndHolds, Thread
  <2>2. QED
    BY <1>40, <2>1, <1>39 DEF DisconnectTake, ui, notes, retry, running, poll, child,
       paths, memo, world
<1>41. CASE PollTake
  <2>1. Poller \in Thread /\ hold[Poller] = NoOne
    BY <1>41, <1>0 DEF PollTake, LocksAndHolds, Thread
  <2>2. CASE slot = NoOne
    BY <1>41, <2>2, LifeFrame DEF PollTake, lifeVars, ui, notes, retry, running,
       poll, child, paths, memo, world
  <2>3. CASE slot # NoOne
    BY <1>41, <2>1, <2>3, <1>39 DEF PollTake, ui, notes, retry, running, poll, child,
       paths, memo, world
  <2>4. QED
    BY <2>2, <2>3
<1>42. ASSUME NEW t \in Thread, hold[t] # NoOne, server[hold[t]] = "gone",
            hold' = [hold EXCEPT ![t] = NoOne], UNCHANGED <<slot, server>>,
            \A b \in Attempt : \/ startPc'[b] = startPc[b]
                               \/ startPc[b] = "joinOld" /\ startPc'[b] = "done"
     PROVE  Life!Next
  <2> DEFINE old == hold[t]
  <2>1. old \in Attempt /\ startPc[old] \in {"joinOld", "done"} /\ slot # old
         /\ \A u \in Thread : hold[u] = old => u = t
    BY <1>42, <1>0 DEF OneOwner, ThreadHolds, TypeOK
  <2>2. old \notin Serving /\ UNCHANGED Serving
    BY <1>42, <1>0 DEF Serving, TypeOK
  <2>3. hold' = [hold EXCEPT ![t] = NoOne]
    BY <1>42
  <2>4. LifeOf(old) = "closing"
    BY <2>1 DEF LifeOf, ThreadHolds
  <2>5. ASSUME NEW b \in Attempt
        PROVE  LifeOf(b)' = IF b = old THEN "closed" ELSE LifeOf(b)
    <3>1. CASE b = old
      <4>1. \A u \in Thread : hold'[u] # b
        BY <2>1, <2>3, <3>1, <1>0, ThreadAssumption DEF TypeOK
      <4>2. QED
        BY <1>42, <2>1, <3>1, <4>1 DEF LifeOf, ThreadHolds
    <3>2. CASE b # old
      <4>1. ThreadHolds(b)' = ThreadHolds(b)
        BY <2>3, <3>2, <1>0, ThreadAssumption DEF ThreadHolds, TypeOK
      <4>2. QED
        BY <1>42, <3>2, <4>1 DEF LifeOf, ThreadHolds
    <3>3. QED
      BY <3>1, <3>2
  <2> HIDE DEF old
  <2>6. Life!Close(old)
    BY <2>1, <2>2, <2>4, <2>5 DEF Life!Close, Life!Moves
  <2>7. QED
    BY <2>1, <2>6 DEF Life!Next
<1>43. ASSUME NEW a \in Attempt, StoreJoin(a) PROVE Life!Next
  <2>1. a \in Thread /\ hold[a] # NoOne
    BY <1>43, <1>0 DEF StoreJoin, LocksAndHolds, Thread
  <2>2. \A b \in Attempt : \/ startPc'[b] = startPc[b]
                           \/ startPc[b] = "joinOld" /\ startPc'[b] = "done"
    BY <1>43, <1>0 DEF StoreJoin, TypeOK
  <2>3. server[hold[a]] = "gone" /\ hold' = [hold EXCEPT ![a] = NoOne]
         /\ UNCHANGED <<slot, server>>
    BY <1>43 DEF StoreJoin, DropEnd, ui, notes, retry, running, poll, child, paths,
       memo, world
  <2>4. QED
    BY <2>1, <2>2, <2>3, <1>42
<1>44. ASSUME NEW d \in Disconnect, DiscJoin(d) PROVE Life!Next
  <2>1. d \in Thread /\ hold[d] # NoOne
    BY <1>44, <1>0 DEF DiscJoin, LocksAndHolds, Thread
  <2>2. server[hold[d]] = "gone" /\ hold' = [hold EXCEPT ![d] = NoOne]
         /\ UNCHANGED <<slot, server, startPc>>
    BY <1>44 DEF DiscJoin, DropEnd, ui, notes, retry, running, poll, child, paths,
       memo, world
  <2>3. QED
    BY <2>1, <2>2, <1>42
<1>45. CASE PollJoin
  <2>1. Poller \in Thread /\ hold[Poller] # NoOne
    BY <1>45, <1>0 DEF PollJoin, LocksAndHolds, Thread
  <2>2. server[hold[Poller]] = "gone" /\ hold' = [hold EXCEPT ![Poller] = NoOne]
         /\ UNCHANGED <<slot, server, startPc>>
    BY <1>45 DEF PollJoin, DropEnd, ui, notes, retry, running, poll, child, paths,
       memo, world
  <2>3. QED
    BY <2>1, <2>2, <1>42
<1>46. QED
  BY <1>1, <1>2, <1>3, <1>4, <1>5, <1>6, <1>7, <1>8, <1>9, <1>10, <1>11, <1>12,
     <1>13, <1>14, <1>15, <1>16, <1>17, <1>18, <1>19, <1>20, <1>21, <1>22,
     <1>23, <1>24, <1>25, <1>26, <1>27, <1>28, <1>29, <1>30, <1>31, <1>32,
     <1>33, <1>34, <1>35, <1>36, <1>37, <1>38, <1>39, <1>40, <1>41, <1>42,
     <1>43, <1>44, <1>45
     DEF Next, User, MainStep, StartStep, DiscStep, PollStep

\* Whatever the threads do, sessions live as SessionLife says (main.rs:540-544,
\* 562-584, 762-770; runner.rs:305-317).
THEOREM ImplementsSessionLife == Spec => SessionsFollowLife
<1>1. IInv /\ IInv' /\ [Next]_vars => [Life!Next]_(Life!vars)
  BY LifeStep
<1>2. QED
  BY <1>1, LifeInit, InductiveInvariant, PTL DEF Spec, SessionsFollowLife, Life!Spec

=============================================================================
