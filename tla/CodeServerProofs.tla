-------------------------- MODULE CodeServerProofs --------------------------
(***************************************************************************)
(* CodeServer's invariants hold for every set of sessions, every choice of *)
(* tunnelled ones and every number of launches.                            *)
(***************************************************************************)
EXTENDS CodeServer, TLAPS

(* Every variable keeps its type.                                          *)
THEOREM TypeCorrect == Spec => []TypeOK
<1>1. Init => TypeOK
  BY CodeServerAssumption DEF Init, TypeOK, Status
<1>2. TypeOK /\ [Next]_vars => TypeOK'
  <2> SUFFICES ASSUME TypeOK, [Next]_vars PROVE TypeOK'
    OBVIOUS
  <2> USE DEF TypeOK, Status
  <2>1. ASSUME NEW k \in Key, NEW i \in Instance, Start(k, i) PROVE TypeOK'
    BY <2>1 DEF Start, readerVars, closerVars
  <2>2. ASSUME NEW k \in Key, Stop(k) PROVE TypeOK'
    BY <2>2 DEF Stop, readerVars
  <2>3. CASE Shutdown
    BY <2>3 DEF Shutdown, readerVars
  <2>4. ASSUME NEW i \in Instance, onPortFound(i) PROVE TypeOK'
    BY <2>4 DEF onPortFound, closerVars
  <2>5. ASSUME NEW i \in Instance, PortReady(i) PROVE TypeOK'
    <3>1. /\ reader' \in [Instance -> {"scan", "resolve", "resolved", "refused", "drain"}]
          /\ UNCHANGED <<instances, keyOf, status, child, timer, tears,
                         dialTeardown, closer, closerKills, closerTears, specTears>>
      BY <2>5 DEF PortReady, closerVars
    <3>2. (keyOf[i] \in TunnelKey) \in BOOLEAN
      OBVIOUS
    <3>3. established' \in [Instance -> BOOLEAN]
      BY <2>5, <3>2, Zenon DEF PortReady
    <3> QED
      BY <3>1, <3>3
  <2>6. ASSUME NEW i \in Instance, PortResolved(i) PROVE TypeOK'
    BY <2>6 DEF PortResolved, closerVars, StillStarting, LateTeardown, Disarmed
  <2>7. ASSUME NEW i \in Instance, onStartTimeout(i) PROVE TypeOK'
    BY <2>7 DEF onStartTimeout, TimesOut, readerVars, closerVars
  <2>8. ASSUME NEW i \in Instance, TimerFires(i) \/ TimeoutKill(i) PROVE TypeOK'
    BY <2>8 DEF TimerFires, TimeoutKill, Killed, readerVars, closerVars
  <2>9. ASSUME NEW i \in Instance, ChildExit(i) PROVE TypeOK'
    BY <2>9 DEF ChildExit, readerVars, closerVars
  <2>10. ASSUME NEW i \in Instance, waitLoop(i) PROVE TypeOK'
    BY <2>10 DEF waitLoop, Exited, readerVars, closerVars
  <2>11. ASSUME NEW i \in Instance, CloseMark(i) PROVE TypeOK'
    BY <2>11 DEF CloseMark, Captured, isActive, readerVars
  <2>12. ASSUME NEW i \in Instance, CloseKill(i) PROVE TypeOK'
    BY <2>12 DEF CloseKill, CloseVictim, Killed, Disarmed, readerVars
  <2>13. ASSUME NEW i \in Instance, CloseTear(i) PROVE TypeOK'
    BY <2>13 DEF CloseTear, readerVars
  <2>14. CASE UNCHANGED vars
    BY <2>14 DEF vars, readerVars, closerVars
  <2> QED
    BY <2>1, <2>2, <2>3, <2>4, <2>5, <2>6, <2>7, <2>8, <2>9, <2>10, <2>11,
       <2>12, <2>13, <2>14
       DEF Next, InstanceStep, Reader, Timer, Closer
<1> QED
  BY <1>1, <1>2, PTL DEF Spec

-----------------------------------------------------------------------------
(* The strengthened invariant is inductive.                                *)
LEMMA InitIInv == Init => IInv
  BY CodeServerAssumption
     DEF Init, IInv, TypeOK, Status, MapAgrees, StatusAgrees, OneOwner,
         Fates, ActiveReachable, isActive, Closing

(* close remembers to kill an instance that it found active.               *)
LEMMA MarkKills ==
    ASSUME TypeOK, NEW i \in Instance, CloseMark(i)
    PROVE  /\ isActive(i) => closerKills'[i]
           /\ \A j \in Instance \ {i} : closerKills'[j] = closerKills[j]
<1>1. closerKills \in [Instance -> BOOLEAN]
  BY DEF TypeOK
<1>2. closerKills' = [closerKills EXCEPT ![i] = isActive(i)]
  BY DEF CloseMark
<1> QED
  BY <1>1, <1>2, Zenon

LEMMA NextIInv == IInv /\ TypeOK' /\ [Next]_vars => IInv'
<1> SUFFICES ASSUME IInv, TypeOK', [Next]_vars PROVE IInv'
  OBVIOUS
<1> USE CodeServerAssumption
    DEF IInv, TypeOK, Status, MapAgrees, StatusAgrees, OneOwner,
        Fates, Refused, ActiveReachable, isActive, Closing
<1>1. ASSUME NEW k \in Key, NEW i \in Instance, Start(k, i) PROVE IInv'
  BY <1>1 DEF Start, CanLaunch, readerVars, closerVars
<1>2. ASSUME NEW k \in Key, Stop(k) PROVE IInv'
  BY <1>2 DEF Stop, readerVars
<1>3. CASE Shutdown
  BY <1>3 DEF Shutdown, readerVars
<1>4. ASSUME NEW i \in Instance, onPortFound(i) PROVE IInv'
  BY <1>4 DEF onPortFound, closerVars
<1>5. ASSUME NEW i \in Instance, PortReady(i) PROVE IInv'
  BY <1>5 DEF PortReady, closerVars
<1>6. ASSUME NEW i \in Instance, PortResolved(i) PROVE IInv'
  <2>1. MapAgrees' /\ StatusAgrees' /\ OneOwner' /\ ActiveReachable'
    BY <1>6 DEF PortResolved, closerVars, StillStarting, LateTeardown
  <2>2. /\ reader[i] \in {"resolved", "refused"} /\ reader' = [reader EXCEPT ![i] = "drain"]
        /\ UNCHANGED <<keyOf, child, established, closer, closerKills>>
        /\ \A j \in Instance \ {i} : UNCHANGED <<status[j], timer[j], dialTeardown[j]>>
    BY <1>6 DEF PortResolved, closerVars
  <2> DEFINE Goal == Fates'
  <2>3. CASE ~ StillStarting(i)
    <3>1. UNCHANGED <<status, timer, dialTeardown>>
      BY <1>6, <2>3 DEF PortResolved
    <3>2. Goal
      BY <2>2, <3>1
    <3> QED
      BY <2>1, <3>2
  <2>4. CASE StillStarting(i) /\ reader[i] = "refused"
    <3>1. /\ status[i] = "starting" /\ status' = [status EXCEPT ![i] = "failed"]
          /\ UNCHANGED dialTeardown
      BY <1>6, <2>4 DEF PortResolved, StillStarting
    <3>2. ~ established[i] /\ ~ dialTeardown[i] /\ keyOf[i] \in TunnelKey
      BY <2>4
    <3>3. Refused(i)'
      BY <2>2, <3>2
    <3>4. Goal
      BY <2>2, <3>1, <3>2, <3>3
    <3> QED
      BY <2>1, <3>4
  <2>5. CASE StillStarting(i) /\ reader[i] = "resolved"
    <3>1. /\ status[i] = "starting" /\ status' = [status EXCEPT ![i] = "running"]
      BY <1>6, <2>5 DEF PortResolved, StillStarting
    <3>2. Goal
      BY <2>2, <3>1
    <3> QED
      BY <2>1, <3>2
  <2> QED
    BY <1>6, <2>3, <2>4, <2>5 DEF PortResolved
<1>7. ASSUME NEW i \in Instance, onStartTimeout(i) PROVE IInv'
  BY <1>7 DEF onStartTimeout, TimesOut, readerVars, closerVars
<1>8. ASSUME NEW i \in Instance, TimerFires(i) \/ TimeoutKill(i) PROVE IInv'
  BY <1>8 DEF TimerFires, TimeoutKill, Killed, readerVars, closerVars
<1>9. ASSUME NEW i \in Instance, ChildExit(i) PROVE IInv'
  BY <1>9 DEF ChildExit, readerVars, closerVars
<1>10. ASSUME NEW i \in Instance, waitLoop(i) PROVE IInv'
  BY <1>10 DEF waitLoop, Exited, readerVars, closerVars
<1>11. ASSUME NEW i \in Instance, CloseMark(i) PROVE IInv'
  <2>1. MapAgrees' /\ StatusAgrees' /\ OneOwner' /\ ActiveReachable'
    BY <1>11 DEF CloseMark, Captured, readerVars
  <2>a. isActive(i) => closerKills'[i]
    BY <1>11, MarkKills
  <2>b. \A j \in Instance \ {i} : closerKills'[j] = closerKills[j]
    BY <1>11, MarkKills
  <2>2. closer'[i] = "marked" /\ status'[i] = "stopped"
        /\ UNCHANGED <<keyOf, child, timer, reader, established, dialTeardown>>
        /\ \A j \in Instance \ {i} : UNCHANGED <<closer[j], status[j]>>
    BY <1>11 DEF CloseMark, readerVars
  <2>3. child[i] = "alive" => isActive(i) \/ timer[i] = "killing" \/ Refused(i)
    <3>1. closer[i] = "queued" /\ status[i] # "stopped"
      BY <1>11 DEF CloseMark
    <3> QED
      BY <3>1
  <2>4. ASSUME NEW j \in Instance, child[j] = "alive", status'[j] \in {"failed", "stopped"}
        PROVE  timer'[j] = "killing" \/ (closer'[j] = "marked" /\ closerKills'[j]) \/ Refused(j)'
    <3>1. CASE j = i
      BY <2>a, <2>2, <2>3, <2>4, <3>1
    <3>2. CASE j # i
      BY <2>b, <2>2, <2>4, <3>2
    <3> QED
      BY <3>1, <3>2
  <2>5. \A j \in Instance : /\ reader'[j] = "refused" => keyOf'[j] \in TunnelKey
                            /\ dialTeardown'[j] /\ status'[j] = "failed" => child'[j] = "reaped"
                            /\ child'[j] = "none" <=> status'[j] = "unborn"
    <3>1. status[i] # "unborn"
      BY <1>11 DEF CloseMark
    <3> QED
      BY <2>2, <3>1
  <2>6. Fates'
    BY <2>2, <2>4, <2>5
  <2> QED
    BY <2>1, <2>6
<1>12. ASSUME NEW i \in Instance, CloseKill(i) PROVE IInv'
  BY <1>12 DEF CloseKill, CloseVictim, Killed, Disarmed, readerVars
<1>13. ASSUME NEW i \in Instance, CloseTear(i) PROVE IInv'
  BY <1>13 DEF CloseTear, readerVars
<1>14. CASE UNCHANGED vars
  BY <1>14 DEF vars, readerVars, closerVars
<1> QED
  BY <1>1, <1>2, <1>3, <1>4, <1>5, <1>6, <1>7, <1>8, <1>9, <1>10, <1>11,
     <1>12, <1>13, <1>14
     DEF Next, InstanceStep, Reader, Timer, Closer

(* The map, the statuses, the closers and the tunnels' owners agree in     *)
(* every reachable state.                                                  *)
THEOREM Inductive == Spec => []IInv
BY InitIInv, NextIInv, TypeCorrect, PTL DEF Spec

(* At most one server per session is live outside a closer's hands.        *)
THEOREM OneServerPerSession == Spec => []ActiveReachable
<1>1. IInv => ActiveReachable
  BY DEF IInv
<1> QED
  BY <1>1, Inductive, PTL

(* However Stop, the timer, the process's exit and a slow PortReady        *)
(* interleave, a closed instance leaves no tunnel process behind ...       *)
THEOREM NoTunnelAfterClose == Spec => []ClosedHasNoTunnel
<1>1. IInv => ClosedHasNoTunnel
  <2> SUFFICES ASSUME IInv, NEW i \in Instance,
                      closer[i] = "closed", reader[i] \in {"scan", "drain"}
               PROVE  ~ TunnelOpen(i)
    BY DEF ClosedHasNoTunnel
  <2>1. established[i] => tears[i] = 1
    BY DEF IInv, OneOwner
  <2> QED
    BY <2>1 DEF TunnelOpen
<1> QED
  BY <1>1, Inductive, PTL

(* ... and its tunnel is torn down by one of them only.                    *)
THEOREM NoDoubleTeardown == Spec => []TeardownsOnce
<1>1. IInv => TeardownsOnce
  BY DEF IInv, OneOwner, TeardownsOnce
<1> QED
  BY <1>1, Inductive, PTL

(* After Shutdown no process and no tunnel is left but those of instances  *)
(* that failed: a tunnel whose server died and was replaced, a server that *)
(* got no tunnel.                                                          *)
THEOREM FewLeftBehind == Spec => []LeftBehind
<1>1. IInv => LeftBehind
  <2> SUFFICES ASSUME IInv, Settled, NEW i \in Instance
               PROVE  /\ TunnelOpen(i) => /\ closer[i] = "none" /\ status[i] = "failed"
                                          /\ child[i] = "reaped"
                      /\ child[i] = "alive" => Refused(i)
    BY DEF LeftBehind
  <2>1. closer[i] \in {"none", "closed"} /\ reader[i] \in {"scan", "drain"}
        /\ timer[i] # "killing"
    BY DEF Settled
  <2>2. ~ isActive(i)
    <3>1. status[i] # "unborn" => instances[keyOf[i]] = None
      BY DEF IInv, StatusAgrees, Settled
    <3> QED
      BY <2>1, <3>1, CodeServerAssumption DEF IInv, ActiveReachable, isActive
  <2>3. ASSUME TunnelOpen(i) PROVE closer[i] = "none" /\ status[i] = "failed" /\ child[i] = "reaped"
    <3>1. dialTeardown[i] /\ closer[i] = "none"
      BY <2>1, <2>3 DEF IInv, OneOwner, TunnelOpen
    <3>2. status[i] = "failed"
      BY <2>2, <3>1 DEF IInv, TypeOK, Status, StatusAgrees, OneOwner, Closing, isActive
    <3> QED
      BY <3>1, <3>2 DEF IInv, Fates
  <2>4. ASSUME child[i] = "alive" PROVE Refused(i)
    <3>1. status[i] \in {"failed", "stopped"}
      BY <2>2, <2>4 DEF IInv, TypeOK, Status, Fates, isActive
    <3> QED
      BY <2>1, <2>4, <3>1 DEF IInv, Fates
  <2> QED
    BY <2>3, <2>4
<1> QED
  BY <1>1, Inductive, PTL

-----------------------------------------------------------------------------
(* How one step may change a status.                                       *)
LEMMA StatusStep ==
  ASSUME IInv, [Next]_vars, NEW j \in Instance
  PROVE  /\ status[j] \in {"failed", "stopped"} => status'[j] \in {status[j], "stopped"}
         /\ status[j] = "running" /\ status'[j] = "failed" => child[j] = "dead"
<1> DEFINE Goal ==
      /\ status[j] \in {"failed", "stopped"} => status'[j] \in {status[j], "stopped"}
      /\ status[j] = "running" /\ status'[j] = "failed" => child[j] = "dead"
<1> USE DEF IInv, TypeOK
<1>1. ASSUME NEW k \in Key, NEW i \in Instance, Start(k, i) PROVE Goal
  BY <1>1 DEF Start
<1>2. ASSUME NEW i \in Instance, PortResolved(i) PROVE Goal
  BY <1>2 DEF PortResolved, StillStarting
<1>3. ASSUME NEW i \in Instance, onStartTimeout(i) PROVE Goal
  BY <1>3 DEF onStartTimeout, TimesOut
<1>4. ASSUME NEW i \in Instance, waitLoop(i) PROVE Goal
  BY <1>4 DEF waitLoop, Exited, isActive
<1>5. ASSUME NEW i \in Instance, CloseMark(i) PROVE Goal
  BY <1>5 DEF CloseMark
<1>6. CASE UNCHANGED status
  BY <1>6
<1> QED
  BY <1>1, <1>2, <1>3, <1>4, <1>5, <1>6
     DEF Next, vars, InstanceStep, Reader, Timer, Closer, Stop, Shutdown,
         onPortFound, PortReady, TimerFires, TimeoutKill, ChildExit, CloseKill, CloseTear

(* Nothing brings a failed or stopped instance back.                       *)
THEOREM FailedStaysDown == Spec => NoResurrection
<1>1. IInv /\ [Next]_vars =>
        [\A i \in Instance : status[i] \in {"failed", "stopped"}
                             => status'[i] \in {status[i], "stopped"}]_vars
  BY StatusStep
<1> QED
  BY <1>1, Inductive, PTL DEF Spec, NoResurrection

(* A late timer or a slow PortReady never fails a server that was reported *)
(* running.                                                                *)
THEOREM RunningServerSpared == Spec => RunningFailsByDeath
<1>1. IInv /\ [Next]_vars =>
        [\A i \in Instance : status[i] = "running" /\ status'[i] = "failed"
                             => child[i] = "dead"]_vars
  BY StatusStep
<1> QED
  BY <1>1, Inductive, PTL DEF Spec, RunningFailsByDeath

-----------------------------------------------------------------------------
(* CodeServer implements CodeSlots.                                        *)
LEMMA InitSlots == Init => Slots!SlotInit
  BY DEF Init, Slots!SlotInit

LEMMA StepSlots == IInv /\ [Next]_vars => [Slots!SlotNext]_(Slots!slotVars)
<1> SUFFICES ASSUME IInv, [Next]_vars PROVE [Slots!SlotNext]_(Slots!slotVars)
  OBVIOUS
<1> USE DEF IInv, TypeOK
<1>1. ASSUME NEW k \in Key, NEW i \in Instance, Start(k, i) PROVE Slots!Launch(k, i)
  BY <1>1 DEF Start, CanLaunch, isActive, closerVars, Slots!Launch, Slots!Vacant, Slots!Live
<1>2. ASSUME NEW k \in Key, Stop(k) PROVE Slots!TakeOut(k)
  BY <1>2 DEF Stop, Slots!TakeOut
<1>3. CASE Shutdown
  <2>1. Slots!TakeOutAll
    BY <1>3 DEF Shutdown, Slots!TakeOutAll
  <2> QED
    BY <2>1 DEF Slots!SlotNext
<1>4. ASSUME NEW i \in Instance, PortResolved(i) PROVE Slots!Settle(i) \/ UNCHANGED Slots!slotVars
  BY <1>4 DEF PortResolved, StillStarting, closerVars, Slots!Settle, Slots!Live, Slots!slotVars
<1>5. ASSUME NEW i \in Instance, onStartTimeout(i) PROVE Slots!Settle(i) \/ UNCHANGED Slots!slotVars
  BY <1>5 DEF onStartTimeout, TimesOut, closerVars, Slots!Settle, Slots!Live, Slots!slotVars
<1>6. ASSUME NEW i \in Instance, waitLoop(i) PROVE Slots!Settle(i) \/ UNCHANGED Slots!slotVars
  BY <1>6 DEF waitLoop, Exited, isActive, closerVars, Slots!Settle, Slots!Live, Slots!slotVars
<1>7. ASSUME NEW i \in Instance, CloseMark(i) PROVE Slots!Retire(i)
  BY <1>7 DEF CloseMark, Slots!Retire
<1>8. ASSUME NEW i \in Instance, CloseKill(i) \/ CloseTear(i) PROVE UNCHANGED Slots!slotVars
  BY <1>8 DEF CloseKill, CloseTear, Slots!slotVars
<1>9. CASE UNCHANGED <<instances, keyOf, status, closer>>
  BY <1>9 DEF Slots!slotVars
<1> QED
  BY <1>1, <1>2, <1>3, <1>4, <1>5, <1>6, <1>7, <1>8, <1>9
     DEF Next, vars, InstanceStep, Reader, Timer, Closer, closerVars,
         onPortFound, PortReady, TimerFires, TimeoutKill, ChildExit, Slots!SlotNext

(* Whatever the sessions, the launches and the timing, callers of the      *)
(* registry see the behaviour CodeSlots describes.                         *)
THEOREM Refinement == Spec => ImplementsSlots
  BY InitSlots, StepSlots, Inductive, PTL DEF Spec, ImplementsSlots, Slots!SlotSpec
=============================================================================
