---------------------------- MODULE ServersProofs -----------------------------
(***************************************************************************)
(* For every number of keys, requests, servers, watchers and shells: the   *)
(* safety of the terminal registry, of the sessions that servers leave and *)
(* clean up, and of the one watcher.                                       *)
(***************************************************************************)
EXTENDS Servers, Naturals, TLAPS


LEMMA InitIInv == Init => IInv
<1> SUFFICES ASSUME Init PROVE IInv
  OBVIOUS
<1> USE WebTermAssumption
        DEF Init, Handler, Alive, Exited, Closing, InEnsure, Taken, IsLocal
<1>1. TypeOK
  BY DEF TypeOK, Pc
<1>2. LocksHeld /\ Launched /\ ClosedInOrder /\ OpenIsRegistered
  BY DEF LocksHeld, RegistryLock, LocalLock, HandlersKnow, Launched, MapAgrees, TerminalsAgree, ShutdownTook, HandlerTook,
         ClosedInOrder, OpenIsRegistered
<1> QED
  BY <1>1, <1>2 DEF IInv

LEMMA NextType == TypeOK /\ LocksHeld /\ Launched /\ [Next]_vars => TypeOK'
<1> SUFFICES ASSUME TypeOK, LocksHeld, Launched, [Next]_vars PROVE TypeOK'
  OBVIOUS
<1> USE WebTermAssumption
    DEF TypeOK, LocksHeld, RegistryLock, LocalLock, HandlersKnow, Pc, Alive,
        Exited, Closing, Handler, Goto, At, IsLocal, launchVars, termVars, lockVars
<1>1. ASSUME NEW r \in Request, NEW k \in Key, Connect(r, k) PROVE TypeOK'
  BY <1>1 DEF Connect
<1>2. ASSUME NEW r \in Request, LockLocal(r) PROVE TypeOK'
  BY <1>2 DEF LockLocal, MutexFree
<1>3. ASSUME NEW r \in Request, LiveLock(r) PROVE TypeOK'
  BY <1>3 DEF LiveLock
<1>4. ASSUME NEW r \in Request, Live(r) PROVE TypeOK'
  BY <1>4 DEF Live, CanAsk, Warm, Registered
<1>5. ASSUME NEW r \in Request, Find(r) PROVE TypeOK'
  BY <1>5 DEF Find
<1>6. ASSUME NEW r \in Request, CheckExited(r) PROVE TypeOK'
  BY <1>6 DEF CheckExited, Released
<1>7. ASSUME NEW r \in Request, Evict(r) PROVE TypeOK'
  BY <1>7 DEF Evict, Registered
<1>8. ASSUME NEW r \in Request, CloseLocal(r) PROVE TypeOK'
  <2>1. /\ req' \in [Request -> [key : Key, pc : Pc, term : Terminal \cup {None}]]
        /\ UNCHANGED <<terms, keyOf, stuck, rmu, localTermMu, server>>
        /\ closed' \in SUBSET Terminal /\ web' \in SUBSET Key
    BY <1>8, SMTT(30) DEF CloseLocal, Mark, Kill, EndWeb
  <2>2. child' \in [Terminal -> {"none", "dead"} \cup Alive \cup Exited]
    BY <1>8 DEF CloseLocal, Mark, Kill, EndWeb
  <2> QED
    BY <2>1, <2>2
<1>9. ASSUME NEW r \in Request, AttachLock(r) PROVE TypeOK'
  BY <1>9 DEF AttachLock
<1>10. ASSUME NEW r \in Request, AttachWarm(r) PROVE TypeOK'
  BY <1>10 DEF AttachWarm, Reusable, Warm, Registered, Released
<1>11. ASSUME NEW r \in Request, AttachFails(r) PROVE TypeOK'
  BY <1>11 DEF AttachFails, Released
<1>12. ASSUME NEW r \in Request, Subscribe(r) PROVE TypeOK'
  BY <1>12 DEF Subscribe
<1>13. ASSUME NEW r \in Request, Unsubscribe(r) PROVE TypeOK'
  BY <1>13 DEF Unsubscribe
<1>14. ASSUME NEW r \in Request, Stall(r) PROVE TypeOK'
  BY <1>14 DEF Stall
<1>15. ASSUME NEW r \in Request, Resume(r) PROVE TypeOK'
  BY <1>15 DEF Resume
<1>16. ASSUME NEW r \in Request, Disconnect(r) PROVE TypeOK'
  BY <1>16 DEF Disconnect
<1>17. ASSUME NEW r \in Request, NEW t \in Terminal, AttachNew(r, t) PROVE TypeOK'
  BY <1>17 DEF AttachNew, Reusable, Warm, Registered, Released
<1>18. ASSUME NEW t \in Terminal, ShutdownPick(t) PROVE TypeOK'
  BY <1>18 DEF ShutdownPick
<1>19. ASSUME NEW t \in Terminal, EnsureWeb(t) PROVE TypeOK'
  BY <1>19 DEF EnsureWeb, Launched, TerminalsAgree
<1>20. ASSUME NEW t \in Terminal, AttachWeb(t) PROVE TypeOK'
  BY <1>20 DEF AttachWeb
<1>21. ASSUME NEW t \in Terminal, ChildExit(t) PROVE TypeOK'
  BY <1>21 DEF ChildExit
<1>22. ASSUME NEW t \in Terminal, BroadcastBlocks(t) PROVE TypeOK'
  BY <1>22 DEF BroadcastBlocks
<1>23. ASSUME NEW t \in Terminal, BroadcastResumes(t) PROVE TypeOK'
  BY <1>23 DEF BroadcastResumes
<1>24. ASSUME NEW t \in Terminal, WaitLoop(t) PROVE TypeOK'
  BY <1>24 DEF WaitLoop
<1>25. ASSUME NEW k \in Key, WebExit(k) PROVE TypeOK'
  BY <1>25 DEF WebExit, EndWeb
<1>26. CASE StopServing
  BY <1>26 DEF StopServing
<1>27. CASE ShutdownTake
  BY <1>27 DEF ShutdownTake
<1>28. CASE ShutdownClose
  <2>1. UNCHANGED <<terms, keyOf, rmu, localTermMu, req>> /\ closed' \in SUBSET Terminal
        /\ stuck' = stuck /\ web' \in SUBSET Key
    BY <1>28 DEF ShutdownClose, Mark, Kill, EndWeb, Launched, ShutdownTook
  <2>2. child' \in [Terminal -> {"none", "dead"} \cup Alive \cup Exited]
    BY <1>28 DEF ShutdownClose, Mark, Kill, EndWeb, Launched, ShutdownTook
  <2>3. server' \in [pc : {"serving", "draining", "next", "done"} \cup Closing,
                     todo : SUBSET Terminal, term : Terminal \cup {None}]
    BY <1>28 DEF ShutdownClose
  <2> QED
    BY <2>1, <2>2, <2>3
<1>29. CASE ShutdownDone
  BY <1>29, SMTT(30) DEF ShutdownDone
<1>30. CASE UNCHANGED vars
  BY <1>30 DEF vars
<1> QED
  BY <1>1, <1>2, <1>3, <1>4, <1>5, <1>6, <1>7, <1>8, <1>9, <1>10, <1>11,
     <1>12, <1>13, <1>14, <1>15, <1>16, <1>17, <1>18, <1>19, <1>20, <1>21,
     <1>22, <1>23, <1>24, <1>25, <1>26, <1>27, <1>28, <1>29, <1>30
     DEF Next, Running, Serve, Attaching, Browser, Shutdown, Loops, Tmux

(* What ends, as far as the registry can tell, when a process or a web     *)
(* session is killed.                                                      *)
Dying ==
    \A u \in Terminal :
        child'[u] = child[u] \/ (child[u] \in Alive /\ child'[u] = "dead")

LEMMA KillEffect ==
    ASSUME TypeOK, NEW t \in Terminal, Kill(t)
    PROVE  UNCHANGED closed /\ Dying /\ child'[t] \notin Alive
BY DEF TypeOK, Kill, Dying, Alive

LEMMA EndWebEffect ==
    ASSUME TypeOK, NEW k, EndWeb(k)
    PROVE  UNCHANGED closed /\ Dying
BY DEF TypeOK, EndWeb, Dying, Alive

LEMMA NextIInv == IInv /\ TypeOK' /\ [Next]_vars => IInv'
<1> SUFFICES ASSUME IInv, TypeOK', [Next]_vars PROVE IInv'
  OBVIOUS
<1> USE WebTermAssumption
    DEF IInv, TypeOK, LocksHeld, RegistryLock, LocalLock, HandlersKnow,
        Launched, MapAgrees, TerminalsAgree, ShutdownTook, HandlerTook,
        ClosedInOrder, OpenIsRegistered, Taken,
        InEnsure, Alive, Exited, Closing, Handler, Goto, At, IsLocal,
        launchVars, termVars, lockVars
<1>1. ASSUME NEW r \in Request, NEW k \in Key, Connect(r, k) PROVE IInv'
  BY <1>1 DEF Connect
<1>2. ASSUME NEW r \in Request, LockLocal(r) PROVE IInv'
  <2>0. /\ req'[r] = Handler(req[r].key, "findLive", None) /\ localTermMu' = r
        /\ req[r].pc = "mutex" /\ localTermMu = None
        /\ \A q \in Request \ {r} : req'[q] = req[q]
        /\ UNCHANGED <<terms, keyOf, child, closed, stuck, web, rmu, server>>
    BY <1>2 DEF LockLocal, MutexFree
  <2>1. Taken' = Taken
    BY <1>2, <2>0
  <2>a. RegistryLock'
    BY <2>0
  <2>b. LocalLock'
    BY <2>0
  <2>c. HandlersKnow'
    BY <2>0
  <2>2. LocksHeld'
    BY <2>a, <2>b, <2>c
  <2>3. Launched'
    <3>1. MapAgrees'
      BY <2>0, <2>1
    <3>2. TerminalsAgree'
      BY <2>0, <2>1
    <3>3. ShutdownTook'
      BY <2>0, <2>1
    <3>4. HandlerTook'
      BY <2>0, <2>1
    <3> QED
      BY <3>1, <3>2, <3>3, <3>4
  <2>4. ClosedInOrder'
    BY <2>0, <2>1
  <2>5. OpenIsRegistered'
    BY <2>0, <2>1
  <2> QED
    BY <2>2, <2>3, <2>4, <2>5
<1>3. ASSUME NEW r \in Request, LiveLock(r) PROVE IInv'
  BY <1>3 DEF LiveLock
<1>4. ASSUME NEW r \in Request, Live(r) PROVE IInv'
  <2>0. /\ req[r].pc = "live" /\ rmu' = None
        /\ req'[r].key = req[r].key
        /\ \/ req'[r].pc = "check" /\ IsLocal(r) /\ req'[r].term \in Terminal
           \/ req'[r].pc = "subscribe" /\ ~ IsLocal(r) /\ req'[r].term \in Terminal
           \/ req'[r].pc = "findAttach" /\ IsLocal(r)
           \/ req'[r].pc = "find" /\ ~ IsLocal(r)
        /\ \A q \in Request \ {r} : req'[q] = req[q]
        /\ UNCHANGED <<terms, keyOf, child, closed, stuck, web, localTermMu, server>>
    BY <1>4 DEF Live, CanAsk, Warm, Registered
  <2>1. Taken' = Taken
    BY <1>4, <2>0
  <2>a. RegistryLock'
    BY <2>0
  <2>b. LocalLock'
    BY <2>0
  <2>c. HandlersKnow'
    BY <2>0
  <2>2. LocksHeld'
    BY <2>a, <2>b, <2>c
  <2>3. Launched'
    <3>1. MapAgrees'
      BY <2>0, <2>1
    <3>2. TerminalsAgree'
      BY <2>0, <2>1
    <3>3. ShutdownTook'
      BY <2>0, <2>1
    <3>4. HandlerTook'
      BY <2>0, <2>1
    <3> QED
      BY <3>1, <3>2, <3>3, <3>4
  <2>4. ClosedInOrder'
    BY <2>0, <2>1
  <2>5. OpenIsRegistered'
    BY <2>0, <2>1
  <2> QED
    BY <2>2, <2>3, <2>4, <2>5
<1>5. ASSUME NEW r \in Request, Find(r) PROVE IInv'
  <2>0. /\ req[r].pc = "find" /\ req'[r].key = req[r].key
        /\ req'[r].pc \in {"findAttach", "idle"}
        /\ \A q \in Request \ {r} : req'[q] = req[q]
        /\ UNCHANGED <<terms, keyOf, child, closed, stuck, web, rmu, localTermMu, server>>
    BY <1>5 DEF Find
  <2>1. Taken' = Taken
    BY <1>5, <2>0
  <2>a. RegistryLock'
    BY <2>0
  <2>b. LocalLock'
    BY <2>0
  <2>c. HandlersKnow'
    BY <2>0
  <2>2. LocksHeld'
    BY <2>a, <2>b, <2>c
  <2>3. Launched'
    <3>1. MapAgrees'
      BY <2>0, <2>1
    <3>2. TerminalsAgree'
      BY <2>0, <2>1
    <3>3. ShutdownTook'
      BY <2>0, <2>1
    <3>4. HandlerTook'
      BY <2>0, <2>1
    <3> QED
      BY <3>1, <3>2, <3>3, <3>4
  <2>4. ClosedInOrder'
    BY <2>0, <2>1
  <2>5. OpenIsRegistered'
    BY <2>0, <2>1
  <2> QED
    BY <2>2, <2>3, <2>4, <2>5
<1>6. ASSUME NEW r \in Request, CheckExited(r) PROVE IInv'
  <2>1. LocksHeld'
    <3>2. localTermMu = r /\ IsLocal(r) /\ req[r].pc = "check" /\ req[r].term \in Terminal
      BY <1>6 DEF CheckExited
    <3>3. /\ \A q \in Request \ {r} : req'[q] = req[q]
          /\ req'[r].key = req[r].key
          /\ \/ req'[r].pc = "evict" /\ localTermMu' = r
             \/ req'[r].pc = "subscribe" /\ localTermMu' = None /\ req'[r].term = req[r].term
          /\ UNCHANGED rmu
      BY <1>6, <3>2 DEF CheckExited, Released
    <3>4. LocalLock'
      BY <3>2, <3>3
    <3>5. RegistryLock'
      BY <3>2, <3>3
    <3>6. HandlersKnow'
      BY <3>2, <3>3
    <3> QED
      BY <3>4, <3>5, <3>6
  <2>2. Launched'
    <3>1. MapAgrees'
      BY <1>6 DEF CheckExited, Released
    <3>2. TerminalsAgree'
      BY <1>6 DEF CheckExited, Released
    <3>3. ShutdownTook'
      BY <1>6 DEF CheckExited, Released
    <3>4. HandlerTook'
      BY <1>6 DEF CheckExited, Released
    <3> QED
      BY <3>1, <3>2, <3>3, <3>4
  <2>3. ClosedInOrder'
    BY <1>6 DEF CheckExited, Released
  <2>4. OpenIsRegistered'
    BY <1>6 DEF CheckExited, Released
  <2> QED
    BY <2>1, <2>2, <2>3, <2>4
<1>7. ASSUME NEW r \in Request, Evict(r) PROVE IInv'
  <2>0. req[r].pc = "evict" /\ req[r].key = LocalKey
    BY <1>7 DEF Evict
  <2>1. /\ \A q \in Request \ {r} : req'[q] = req[q]
        /\ req'[r].key = req[r].key /\ rmu = None
        /\ terms' = [terms EXCEPT ![LocalKey] = None]
        /\ UNCHANGED <<keyOf, child, closed, rmu, localTermMu, server>>
    BY <1>7, <2>0 DEF Evict
  <2>2. \/ /\ terms[LocalKey] # None /\ req'[r].pc = "mark" /\ req'[r].term = terms[LocalKey]
        \/ /\ terms[LocalKey] = None /\ req'[r].pc = "findAttach"
    BY <1>7, <2>0 DEF Evict, Registered
  <2>3. Taken' = IF terms[LocalKey] # None THEN Taken \cup {terms[LocalKey]} ELSE Taken
    BY <2>0, <2>1, <2>2
  <2>4. LocksHeld'
    <3>1. RegistryLock'
      BY <2>0, <2>1, <2>2
    <3>2. LocalLock'
      BY <2>0, <2>1, <2>2
    <3>3. HandlersKnow'
      BY <2>0, <2>1, <2>2
    <3> QED
      BY <3>1, <3>2, <3>3
  <2>5. Launched'
    <3>1. MapAgrees'
      BY <2>0, <2>1, <2>3
    <3>2. TerminalsAgree'
      BY <2>0, <2>1, <2>3
    <3>3. ShutdownTook'
      BY <2>0, <2>1
    <3>4. HandlerTook'
      BY <2>0, <2>1, <2>2
    <3> QED
      BY <3>1, <3>2, <3>3, <3>4
  <2>6. ClosedInOrder'
    BY <2>0, <2>1, <2>2
  <2>7. OpenIsRegistered'
    BY <2>0, <2>1, <2>3
  <2> QED
    BY <2>4, <2>5, <2>6, <2>7
<1>8. ASSUME NEW r \in Request, CloseLocal(r) PROVE IInv'
  <2> DEFINE t == req[r].term
  <2>1. t \in Terminal /\ keyOf[t] = LocalKey /\ IsLocal(r)
    BY <1>8 DEF CloseLocal
  <2>2. /\ \A q \in Request \ {r} : req'[q] = req[q] /\ req[q].pc \notin Closing
        /\ req'[r].key = req[r].key
        /\ UNCHANGED <<terms, keyOf, stuck, rmu, localTermMu, server>>
    BY <1>8, <2>1 DEF CloseLocal, Mark, Kill, EndWeb
  <2>3. CASE At(r, "mark")
    <3>0. /\ req'[r].pc = "kill" /\ req'[r].term = t /\ req[r].pc = "mark"
          /\ closed' = closed \cup {t} /\ UNCHANGED child
      BY <1>8, <2>3 DEF CloseLocal, Mark
    <3>t. Taken' = Taken /\ t \in Taken
      BY <2>1, <2>2, <3>0
    <3>1. RegistryLock' /\ LocalLock'
      BY <2>1, <2>2, <3>0, <3>t
    <3>2. HandlersKnow'
      BY <2>1, <2>2, <3>0, <3>t
    <3>3. Launched'
      <4>1. MapAgrees'
        BY <2>1, <2>2, <3>0, <3>t
      <4>2. TerminalsAgree'
        BY <2>1, <2>2, <3>0, <3>t
      <4>3. ShutdownTook'
        BY <2>1, <2>2, <3>0, <3>t
      <4>4. HandlerTook'
        BY <2>1, <2>2, <3>0, <3>t
      <4> QED
        BY <4>1, <4>2, <4>3, <4>4
    <3>4. ClosedInOrder'
      BY <2>1, <2>2, <3>0, <3>t
    <3>5. OpenIsRegistered'
      BY <2>1, <2>2, <3>0, <3>t
    <3> QED
      BY <3>1, <3>2, <3>3, <3>4, <3>5
  <2>4. CASE At(r, "kill")
    <3>k. Kill(t) /\ req'[r].pc = "tear" /\ req'[r].term = t /\ req[r].pc = "kill"
      BY <1>8, <2>1, <2>4 DEF CloseLocal
    <3>0. UNCHANGED closed /\ Dying /\ child'[t] \notin Alive
      BY <2>1, <3>k, KillEffect
    <3>t. Taken' = Taken /\ t \in Taken
      BY <2>1, <2>2, <3>k
    <3>1. RegistryLock' /\ LocalLock'
      BY <2>1, <2>2, <3>0, <3>k, <3>t DEF Dying
    <3>2. HandlersKnow'
      BY <2>1, <2>2, <3>0, <3>k, <3>t DEF Dying
    <3>3. Launched'
      <4>1. MapAgrees'
        BY <2>1, <2>2, <3>0, <3>k, <3>t DEF Dying
      <4>2. TerminalsAgree'
        BY <2>1, <2>2, <3>0, <3>k, <3>t DEF Dying
      <4>3. ShutdownTook'
        BY <2>1, <2>2, <3>0, <3>k, <3>t DEF Dying
      <4>4. HandlerTook'
        BY <2>1, <2>2, <3>0, <3>k, <3>t DEF Dying
      <4> QED
        BY <4>1, <4>2, <4>3, <4>4
    <3>4. ClosedInOrder'
      BY <2>1, <2>2, <3>0, <3>k, <3>t DEF Dying
    <3>5. OpenIsRegistered'
      BY <2>1, <2>2, <3>0, <3>k, <3>t DEF Dying
    <3> QED
      BY <3>1, <3>2, <3>3, <3>4, <3>5
  <2>5. CASE At(r, "tear")
    <3>k. EndWeb(keyOf[t]) /\ req'[r].pc = "findAttach" /\ req[r].pc = "tear"
      BY <1>8, <2>5 DEF CloseLocal
    <3>0. UNCHANGED closed /\ Dying
      BY <3>k, EndWebEffect
    <3>t. /\ Taken' = Taken \ {t} /\ t \in closed
          /\ child[t] \notin Alive /\ child'[t] \notin Alive
      BY <2>1, <2>2, <3>0, <3>k DEF Dying
    <3>1. RegistryLock' /\ LocalLock'
      BY <2>1, <2>2, <3>0, <3>k, <3>t DEF Dying
    <3>2. HandlersKnow'
      BY <2>1, <2>2, <3>0, <3>k, <3>t DEF Dying
    <3>3. Launched'
      <4>1. MapAgrees'
        BY <2>1, <2>2, <3>0, <3>k, <3>t DEF Dying
      <4>2. TerminalsAgree'
        BY <2>1, <2>2, <3>0, <3>k, <3>t DEF Dying
      <4>3. ShutdownTook'
        BY <2>1, <2>2, <3>0, <3>k, <3>t DEF Dying
      <4>4. HandlerTook'
        BY <2>1, <2>2, <3>0, <3>k, <3>t DEF Dying
      <4> QED
        BY <4>1, <4>2, <4>3, <4>4
    <3>4. ClosedInOrder'
      BY <2>1, <2>2, <3>0, <3>k, <3>t DEF Dying
    <3>5. OpenIsRegistered'
      BY <2>1, <2>2, <3>0, <3>k, <3>t DEF Dying
    <3> QED
      BY <3>1, <3>2, <3>3, <3>4, <3>5
  <2> QED
    BY <1>8, <2>3, <2>4, <2>5 DEF CloseLocal
<1>9. ASSUME NEW r \in Request, AttachLock(r) PROVE IInv'
  BY <1>9 DEF AttachLock
<1>10. ASSUME NEW r \in Request, AttachWarm(r) PROVE IInv'
  BY <1>10 DEF AttachWarm, Reusable, Warm, Registered, Released
<1>11. ASSUME NEW r \in Request, AttachFails(r) PROVE IInv'
  BY <1>11 DEF AttachFails, Released
<1>12. ASSUME NEW r \in Request, Subscribe(r) PROVE IInv'
  BY <1>12 DEF Subscribe
<1>13. ASSUME NEW r \in Request, Unsubscribe(r) PROVE IInv'
  BY <1>13 DEF Unsubscribe
<1>14. ASSUME NEW r \in Request, Stall(r) PROVE IInv'
  BY <1>14 DEF Stall
<1>15. ASSUME NEW r \in Request, Resume(r) PROVE IInv'
  BY <1>15 DEF Resume
<1>16. ASSUME NEW r \in Request, Disconnect(r) PROVE IInv'
  BY <1>16 DEF Disconnect
<1>17. ASSUME NEW r \in Request, NEW t \in Terminal, AttachNew(r, t) PROVE IInv'
  BY <1>17 DEF AttachNew, Reusable, Warm, Registered, Released
<1>18. ASSUME NEW t \in Terminal, ShutdownPick(t) PROVE IInv'
  BY <1>18 DEF ShutdownPick
<1>19. ASSUME NEW t \in Terminal, EnsureWeb(t) PROVE IInv'
  BY <1>19 DEF EnsureWeb
<1>20. ASSUME NEW t \in Terminal, AttachWeb(t) PROVE IInv'
  BY <1>20 DEF AttachWeb
<1>21. ASSUME NEW t \in Terminal, ChildExit(t) PROVE IInv'
  BY <1>21 DEF ChildExit
<1>22. ASSUME NEW t \in Terminal, BroadcastBlocks(t) PROVE IInv'
  BY <1>22 DEF BroadcastBlocks
<1>23. ASSUME NEW t \in Terminal, BroadcastResumes(t) PROVE IInv'
  BY <1>23 DEF BroadcastResumes
<1>24. ASSUME NEW t \in Terminal, WaitLoop(t) PROVE IInv'
  BY <1>24 DEF WaitLoop
<1>25. ASSUME NEW k \in Key, WebExit(k) PROVE IInv'
  BY <1>25 DEF WebExit, EndWeb
<1>26. CASE StopServing
  BY <1>26 DEF StopServing
<1>27. CASE ShutdownTake
  <2>1. /\ server' = [pc |-> "next", term |-> None,
                     todo |-> {t \in Terminal : \E k \in Key : terms[k] = t}]
        /\ terms' = [k \in Key |-> None]
        /\ server.todo = {}
        /\ UNCHANGED <<keyOf, child, closed, stuck, web, rmu, localTermMu, req>>
    BY <1>27 DEF ShutdownTake
  <2>2. LocksHeld' /\ ClosedInOrder'
    BY <2>1
  <2>3. \A t \in Terminal : t \in Taken' <=> t \in Taken \/ \E k \in Key : terms[k] = t
    BY <2>1
  <2>4. MapAgrees' /\ ShutdownTook'
    BY <2>1
  <2>5. TerminalsAgree'
    BY <2>1, <2>3
  <2>6. HandlerTook'
    BY <2>1
  <2>7. OpenIsRegistered'
    BY <2>1, <2>3
  <2> QED
    BY <2>2, <2>4, <2>5, <2>6, <2>7
<1>28. CASE ShutdownClose
  <2>1. LocksHeld'
    BY <1>28 DEF ShutdownClose, Mark, Kill, EndWeb
  <2>2. Launched'
    <3>1. MapAgrees'
      BY <1>28 DEF ShutdownClose, Mark, Kill, EndWeb
    <3>2. TerminalsAgree'
      BY <1>28 DEF ShutdownClose, Mark, Kill, EndWeb
    <3>3. ShutdownTook'
      BY <1>28 DEF ShutdownClose, Mark, Kill, EndWeb
    <3>4. HandlerTook'
      BY <1>28 DEF ShutdownClose, Mark, Kill, EndWeb
    <3> QED
      BY <3>1, <3>2, <3>3, <3>4
  <2>3. ClosedInOrder'
    BY <1>28 DEF ShutdownClose, Mark, Kill, EndWeb
  <2>4. OpenIsRegistered'
    BY <1>28 DEF ShutdownClose, Mark, Kill, EndWeb
  <2> QED
    BY <2>1, <2>2, <2>3, <2>4
<1>29. CASE ShutdownDone
  BY <1>29 DEF ShutdownDone
<1>30. CASE UNCHANGED vars
  BY <1>30 DEF vars
<1> QED
  BY <1>1, <1>2, <1>3, <1>4, <1>5, <1>6, <1>7, <1>8, <1>9, <1>10, <1>11,
     <1>12, <1>13, <1>14, <1>15, <1>16, <1>17, <1>18, <1>19, <1>20, <1>21,
     <1>22, <1>23, <1>24, <1>25, <1>26, <1>27, <1>28, <1>29, <1>30
     DEF Next, Running, Serve, Attaching, Browser, Shutdown, Loops, Tmux

(* The locks, the map and what has been taken out of it agree in every     *)
(* reachable state.                                                        *)
THEOREM Inductive == Spec => []IInv
<1>1. IInv /\ [Next]_vars => IInv'
  <2> SUFFICES ASSUME IInv, [Next]_vars PROVE IInv'
    OBVIOUS
  <2>1. TypeOK /\ LocksHeld /\ Launched
    BY DEF IInv
  <2> QED
    BY <2>1, NextType, NextIInv
<1> QED
  BY <1>1, InitIInv, PTL DEF Spec

(* However many requests for a session overlap, no open terminal drops out *)
(* of the registry's sight.                                                *)
THEOREM NoneLost == Spec => []OpenIsRegistered
<1>1. IInv => OpenIsRegistered
  BY DEF IInv
<1> QED
  BY <1>1, Inductive, PTL

(* Restarting the local terminal never kills the web session under a new   *)
(* terminal.                                                               *)
THEOREM SuccessorSpared == Spec => []TeardownSparesSuccessor
<1>1. IInv => TeardownSparesSuccessor
  <2> SUFFICES ASSUME IInv, NEW r \in Request, req[r].pc \in Closing,
                      NEW t \in Terminal, keyOf[t] = LocalKey, t # req[r].term,
                      child[t] \in Alive
               PROVE  t \in server.todo
    BY DEF TeardownSparesSuccessor
  <2>1. terms[LocalKey] = None /\ localTermMu = r
    BY DEF IInv, LocksHeld, LocalLock, HandlersKnow, Launched, HandlerTook, InEnsure
  <2>2. \A q \in Request : req[q].pc \in Closing => q = r
    BY <2>1 DEF IInv, LocksHeld, LocalLock, HandlersKnow, InEnsure
  <2>3. t \in Taken
    BY <2>1, WebTermAssumption
       DEF IInv, OpenIsRegistered, Launched, TerminalsAgree, Alive
  <2> QED
    BY <2>2, <2>3 DEF Taken
<1> QED
  BY <1>1, Inductive, PTL

-----------------------------------------------------------------------------
(* ServerLife: the grouped sessions of servers that come and go.           *)

LEMMA ServersInitially == L!Init => L!IInv
<1> SUFFICES ASSUME L!Init PROVE L!IInv
  OBVIOUS
<1>1. L!TypeOK
  BY ServersAssumption DEF L!ServerLifeAssumption, L!Init, L!TypeOK, L!Off, L!Place
<1>2. ASSUME NEW p \in L!Process PROVE L!Alone(p) /\ L!Holds(p)
  BY DEF L!Init, L!Off, L!Alone, L!Holds
<1> QED
  BY <1>1, <1>2 DEF L!IInv

(* A step of a process changes where that process is.                      *)
LEMMA ServersTypes == L!TypeOK /\ [L!Next]_L!vars => L!TypeOK'
<1> SUFFICES ASSUME L!TypeOK, [L!Next]_L!vars PROVE L!TypeOK'
  OBVIOUS
<1>a. ASSUME NEW p \in L!Process,
             NEW pc \in {"off", "probe", "list", "kill", "listen", "ready", "up", "closed",
                         "teardown", "external"},
             L!Goes(p, pc)
      PROVE  proc' \in [L!Process -> L!Place]
  BY <1>a DEF L!TypeOK, L!Goes, L!Place
<1>1. ASSUME NEW p \in L!Process, L!Start(p) PROVE L!TypeOK'
  <2>1. others' \subseteq L!Process
    BY <1>1 DEF L!TypeOK, L!Start, L!Running
  <2>2. starts' \in 0..MaxStart
    BY <1>1, ServersAssumption DEF L!TypeOK, L!Start, L!ServerLifeAssumption
  <2> QED
    BY <1>1, <1>a, <2>1, <2>2 DEF L!TypeOK, L!Start, L!tmux
<1>2. ASSUME NEW p \in L!Process,
             \/ L!ProbeAnswered(p) \/ L!AppListens(p) \/ L!Built(p)
             \/ L!ServeListens(p) \/ L!Ready(p) \/ L!Stop(p)
      PROVE  L!TypeOK'
  <2>1. proc' \in [L!Process -> L!Place]
    BY <1>2, <1>a DEF L!TypeOK, L!ProbeAnswered, L!AppListens, L!Built, L!ServeListens, L!Ready, L!Stop,
                      L!Place, L!Off
  <2> QED
    BY <1>2, <2>1 DEF L!TypeOK, L!tmux, L!ProbeAnswered, L!AppListens, L!Built, L!ServeListens,
                      L!Ready, L!Stop
<1>3. ASSUME NEW p \in L!Process, L!Lists(p) PROVE L!TypeOK'
  BY <1>3, <1>a DEF L!TypeOK, L!Lists, L!ListWebSessionNames
<1>4. ASSUME NEW p \in L!Process, NEW s \in Key, L!KillSession(p, s) PROVE L!TypeOK'
  BY <1>4 DEF L!TypeOK, L!KillSession, L!Ends, L!Survives
<1>5. ASSUME NEW p \in L!Process, NEW s \in Key, L!Attach(p, s) \/ L!EnsureWeb(p, s)
      PROVE  L!TypeOK'
  BY <1>5 DEF L!TypeOK, L!Attach, L!EnsureWeb
<1>6. ASSUME NEW p \in L!Process, NEW s \in Key, L!Teardown(p, s) PROVE L!TypeOK'
  BY <1>6 DEF L!TypeOK, L!Teardown, L!Ends, L!Survives
<1>7. ASSUME NEW p \in L!Process, L!Close(p) \/ L!Shutdown(p) PROVE L!TypeOK'
  <2>1. proc' \in [L!Process -> L!Place]
    BY <1>7, <1>a DEF L!TypeOK, L!Close, L!Shutdown
  <2> QED
    BY <1>7, <2>1, ServersAssumption DEF L!TypeOK, L!Close, L!Shutdown, L!ServerLifeAssumption
<1>8. ASSUME NEW p \in L!Process, L!ShutDown(p) \/ L!Die(p) PROVE L!TypeOK'
  <2>1. L!Exits(p)
    BY <1>8 DEF L!ShutDown, L!Die
  <2>2. proc' \in [L!Process -> L!Place]
    BY <2>1 DEF L!TypeOK, L!Exits, L!Off, L!Place
  <2> QED
    BY <2>1, <2>2 DEF L!TypeOK, L!Exits
<1>9. ASSUME NEW s \in Key, L!WebExit(s) PROVE L!TypeOK'
  BY <1>9 DEF L!TypeOK, L!WebExit, L!Ends
<1>10. CASE UNCHANGED L!vars
  BY <1>10 DEF L!TypeOK, L!vars, L!tmux
<1> QED
  BY <1>1, <1>2, <1>3, <1>4, <1>5, <1>6, <1>7, <1>8, <1>9, <1>10 DEF L!Next

(* Who has run alone goes on so until another one starts.                  *)
LEMMA ServersAlone ==
    ASSUME L!IInv, [L!Next]_L!vars, NEW q \in L!Process
    PROVE  L!Alone(q)' /\ L!Holds(q)'
<1>0. /\ L!TypeOK /\ L!Alone(q) /\ L!Holds(q)
      /\ \A p \in L!Process : L!Alone(p) /\ L!Holds(p)
  BY DEF L!IInv
<1> USE <1>0 DEF L!TypeOK, L!Place
<1>1. ASSUME NEW p \in L!Process, L!Start(p) PROVE L!Alone(q)' /\ L!Holds(q)'
  <2>1. /\ proc[p].pc = "off"
        /\ proc' = [proc EXCEPT ![p].pc = proc'[p].pc] /\ proc'[p].pc \in {"probe", "list"}
        /\ UNCHANGED <<reaping, warm, torn>>
    BY <1>1 DEF L!Start, L!Goes, L!tmux
  <2>2. L!Holds(q)'
    BY <2>1 DEF L!Holds, L!Handling, L!Serving
  <2>3. CASE L!Running = {}
    <3>1. \A r \in L!Process \ {p} : proc'[r].pc = "off"
      BY <2>1, <2>3 DEF L!Running
    <3>2. q # p \/ L!Running' = {p}
      BY <2>1, <3>1 DEF L!Running
    <3> QED
      BY <2>1, <2>2, <3>1, <3>2 DEF L!Alone, L!Handling, L!Serving
  <2>4. CASE L!Running # {}
    <3>1. others' = others \cup L!Running \cup {p}
      BY <1>1, <2>4 DEF L!Start
    <3>2. proc'[q].pc # "off" => q \in others'
      BY <2>1, <3>1 DEF L!Running
    <3> QED
      BY <2>2, <3>2 DEF L!Alone
  <2> QED
    BY <2>3, <2>4
(* Every other step is of a process that runs; beside it nobody is alone.   *)
<1>a. ASSUME NEW p \in L!Process, proc[p].pc # "off", UNCHANGED others,
             \A r \in L!Process \ {p} : proc'[r] = proc[r],
             proc'[p].pc # "off" /\ p \notin others =>
                /\ proc'[p].pc = "kill" => sessions' \subseteq reaping'[p] \cup orphans'
                /\ proc'[p].pc = "listen" => sessions' \subseteq orphans'
                /\ L!Handling(p)' => sessions' \subseteq warm'[p] \cup torn'[p] \cup orphans'
      PROVE  L!Alone(q)'
  <2>1. CASE q = p
    <3>1. proc'[p].pc # "off" /\ p \notin others => L!Running' = {p}
      BY <1>a DEF L!Alone, L!Running
    <3> QED
      BY <1>a, <2>1, <3>1 DEF L!Alone
  <2>2. CASE q # p
    <3>1. proc'[q].pc # "off" => p \in L!Running /\ q \in L!Running
      BY <1>a, <2>2 DEF L!Running
    <3>2. proc'[q].pc # "off" => q \in others
      BY <1>a, <2>2, <3>1 DEF L!Alone
    <3> QED
      BY <1>a, <3>2 DEF L!Alone
  <2> QED
    BY <2>1, <2>2
(* Or it ends sessions, or makes one of a terminal or one that is noted.   *)
<1>b. ASSUME UNCHANGED <<proc, reaping, warm, torn, others>>,
             \A s \in sessions' \ orphans' :
                s \in sessions \ orphans \/ \E r \in L!Process : s \in warm[r]
      PROVE  L!Alone(q)' /\ L!Holds(q)'
  <2>1. L!Holds(q)'
    BY <1>b DEF L!Holds, L!Handling, L!Serving
  <2>2. SUFFICES ASSUME proc[q].pc # "off", q \notin others PROVE L!Alone(q)'
    BY <1>b, <2>1 DEF L!Alone
  <2>3. L!Running = {q}
    BY <2>2 DEF L!Alone
  <2>4. \A r \in L!Process : warm[r] # {} => r = q /\ L!Handling(q)
    <3>1. \A r \in L!Process : warm[r] # {} => L!Handling(r)
      BY DEF L!Holds
    <3>2. \A r \in L!Process : L!Handling(r) => r \in L!Running
      BY DEF L!Handling, L!Serving, L!Running
    <3> QED
      BY <2>3, <3>1, <3>2
  <2>5. \A s \in sessions' \ orphans' :
            s \in sessions \ orphans \/ (s \in warm[q] /\ L!Handling(q))
    BY <1>b, <2>4
  <2>6. L!Running' = {q} /\ (L!Handling(q)' <=> L!Handling(q)) /\ proc'[q].pc = proc[q].pc
    BY <1>b, <2>3 DEF L!Running, L!Handling, L!Serving
  <2>7. L!Handling(q) => proc[q].pc \notin {"kill", "listen"}
    BY DEF L!Handling, L!Serving
  <2> QED
    BY <1>b, <2>2, <2>5, <2>6, <2>7 DEF L!Alone
<1>2. ASSUME NEW p \in L!Process,
             \/ L!ProbeAnswered(p) \/ L!AppListens(p) \/ L!Built(p)
             \/ L!ServeListens(p) \/ L!Ready(p) \/ L!Stop(p)
      PROVE  L!Alone(q)' /\ L!Holds(q)'
  <2>1. UNCHANGED <<reaping, warm, torn, sessions, orphans, others>>
        /\ \A r \in L!Process \ {p} : proc'[r] = proc[r]
    BY <1>2 DEF L!ProbeAnswered, L!AppListens, L!Built, L!ServeListens, L!Ready, L!Stop, L!tmux, L!Goes
  <2>2. CASE L!ProbeAnswered(p) \/ L!AppListens(p)
    <3>1. proc[p].pc = "probe" /\ proc'[p].pc \in {"external", "list"}
      BY <2>2 DEF L!ProbeAnswered, L!AppListens, L!Goes
    <3> QED
      BY <1>a, <2>1, <3>1 DEF L!Holds, L!Handling, L!Serving
  <2>3. CASE L!Built(p)
    <3>1. proc[p].pc = "kill" /\ reaping[p] = {} /\ proc'[p].pc \in {"ready", "listen"}
      BY <2>3 DEF L!Built, L!Goes
    <3>2. L!Holds(p) /\ L!Alone(p)
      OBVIOUS
    <3> QED
      BY <1>a, <2>1, <3>1, <3>2 DEF L!Holds, L!Handling, L!Serving, L!Alone
  <2>4. CASE L!ServeListens(p)
    <3>1. proc[p].pc = "listen" /\ proc'[p].pc \in {"off", "up"}
      BY <2>4 DEF L!ServeListens, L!Off
    <3>2. L!Holds(p) /\ L!Alone(p)
      OBVIOUS
    <3> QED
      BY <1>a, <2>1, <3>1, <3>2 DEF L!Holds, L!Handling, L!Serving, L!Alone
  <2>5. CASE L!Ready(p) \/ L!Stop(p)
    <3>1. L!Serving(p) /\ proc'[p].pc \in {"up", "closed"}
      BY <2>5 DEF L!Ready, L!Stop, L!Goes, L!Serving
    <3>2. L!Holds(p) /\ L!Alone(p)
      OBVIOUS
    <3> QED
      BY <1>a, <2>1, <3>1, <3>2 DEF L!Holds, L!Handling, L!Serving, L!Alone
  <2> QED
    BY <1>2, <2>2, <2>3, <2>4, <2>5
<1>3. ASSUME NEW p \in L!Process, L!Lists(p) PROVE L!Alone(q)' /\ L!Holds(q)'
  <2>1. /\ proc[p].pc = "list" /\ proc'[p].pc = "kill" /\ UNCHANGED <<warm, torn, sessions, others>>
        /\ sessions \subseteq reaping'[p] \cup orphans'
        /\ \A r \in L!Process \ {p} : proc'[r] = proc[r] /\ reaping'[r] = reaping[r]
    BY <1>3 DEF L!Lists, L!Goes, L!ListWebSessionNames
  <2> QED
    BY <1>a, <2>1 DEF L!Holds, L!Handling, L!Serving
<1>4. ASSUME NEW p \in L!Process, NEW s \in Key, L!KillSession(p, s)
      PROVE  L!Alone(q)' /\ L!Holds(q)'
  <2>1. /\ proc[p].pc = "kill" /\ UNCHANGED <<proc, others, warm, torn>>
        /\ \A r \in L!Process \ {p} : reaping'[r] = reaping[r]
        /\ reaping'[p] = reaping[p] \ {s}
        /\ \/ sessions' = sessions \ {s} /\ orphans' = orphans \ {s}
           \/ sessions' = sessions /\ orphans' = orphans \cup ({s} \cap sessions)
    BY <1>4 DEF L!KillSession, L!Ends, L!Survives
  <2>2. L!Alone(p)
    OBVIOUS
  <2>3. p \notin others => sessions' \subseteq reaping'[p] \cup orphans'
    BY <2>1, <2>2 DEF L!Alone
  <2>4. L!Alone(q)'
    BY <1>a, <2>1, <2>3 DEF L!Handling, L!Serving
  <2> QED
    BY <2>1, <2>4 DEF L!Holds, L!Handling, L!Serving
<1>5. ASSUME NEW p \in L!Process, NEW s \in Key, L!Attach(p, s)
      PROVE  L!Alone(q)' /\ L!Holds(q)'
  <2>1. /\ L!Handling(p) /\ UNCHANGED <<proc, reaping, torn, sessions, orphans, others>>
        /\ \A r \in L!Process \ {p} : warm'[r] = warm[r]
        /\ warm'[p] = warm[p] \cup {s}
    BY <1>5 DEF L!Attach
  <2>2. L!Alone(p)
    OBVIOUS
  <2>3. L!Alone(q)'
    BY <1>a, <2>1, <2>2 DEF L!Alone, L!Handling, L!Serving
  <2> QED
    BY <2>1, <2>3 DEF L!Holds, L!Handling, L!Serving
<1>6. ASSUME NEW p \in L!Process, NEW s \in Key, L!EnsureWeb(p, s)
      PROVE  L!Alone(q)' /\ L!Holds(q)'
  <2>1. /\ UNCHANGED <<proc, reaping, warm, torn, others>>
        /\ \/ sessions' = sessions /\ orphans' = orphans
           \/ /\ sessions' = sessions \cup {s}
              /\ orphans' = IF s \in warm[p] \cup sessions THEN orphans ELSE orphans \cup {s}
    BY <1>6 DEF L!EnsureWeb
  <2>2. \A t \in sessions' \ orphans' :
            t \in sessions \ orphans \/ \E r \in L!Process : t \in warm[r]
    BY <2>1
  <2> QED
    BY <1>b, <2>1, <2>2
<1>7. ASSUME NEW s \in Key, L!WebExit(s) PROVE L!Alone(q)' /\ L!Holds(q)'
  BY <1>7, <1>b DEF L!WebExit, L!Ends
<1>8. ASSUME NEW p \in L!Process, NEW gone \in SUBSET warm[p],
             L!Handling(p), L!Handling(p)', UNCHANGED <<reaping, sessions, orphans, others>>,
             \A r \in L!Process \ {p} :
                proc'[r] = proc[r] /\ warm'[r] = warm[r] /\ torn'[r] = torn[r],
             warm'[p] = warm[p] \ gone, torn'[p] = torn[p] \cup gone
      PROVE  L!Alone(q)' /\ L!Holds(q)'
  <2>1. L!Alone(p)
    OBVIOUS
  <2>2. L!Alone(q)'
    BY <1>a, <1>8, <2>1 DEF L!Alone, L!Handling, L!Serving
  <2> QED
    BY <1>8, <2>2 DEF L!Holds, L!Handling, L!Serving
<1>9. ASSUME NEW p \in L!Process, L!Close(p) PROVE L!Alone(q)' /\ L!Holds(q)'
  <2>1. /\ L!Handling(p) /\ UNCHANGED <<proc, reaping, sessions, orphans, others>>
        /\ LocalKey \in warm[p]
        /\ \A r \in L!Process \ {p} : warm'[r] = warm[r] /\ torn'[r] = torn[r]
        /\ warm'[p] = warm[p] \ {LocalKey} /\ torn'[p] = torn[p] \cup {LocalKey}
    BY <1>9 DEF L!Close
  <2>2. L!Handling(p)' /\ {LocalKey} \in SUBSET warm[p]
    BY <2>1 DEF L!Handling, L!Serving
  <2> QED
    BY <1>8, <2>1, <2>2
<1>10. ASSUME NEW p \in L!Process, L!Shutdown(p) PROVE L!Alone(q)' /\ L!Holds(q)'
  <2>1. /\ L!Handling(p) /\ L!Handling(p)' /\ UNCHANGED <<reaping, sessions, orphans, others>>
        /\ \A r \in L!Process \ {p} :
              proc'[r] = proc[r] /\ warm'[r] = warm[r] /\ torn'[r] = torn[r]
        /\ warm'[p] = warm[p] \ warm[p] /\ torn'[p] = torn[p] \cup warm[p]
    BY <1>10 DEF L!Shutdown, L!Goes, L!Handling, L!Serving
  <2> QED
    BY <1>8, <2>1
<1>11. ASSUME NEW p \in L!Process, NEW s \in Key, L!Teardown(p, s)
       PROVE  L!Alone(q)' /\ L!Holds(q)'
  <2>1. /\ s \in torn[p] /\ UNCHANGED <<proc, others, warm, reaping>>
        /\ \A r \in L!Process \ {p} : torn'[r] = torn[r]
        /\ torn'[p] = torn[p] \ {s}
        /\ \/ sessions' = sessions \ {s} /\ orphans' = orphans \ {s}
           \/ sessions' = sessions /\ orphans' = orphans \cup ({s} \cap sessions)
    BY <1>11 DEF L!Teardown, L!Ends, L!Survives
  <2>2. L!Alone(p) /\ L!Holds(p)
    OBVIOUS
  <2>3. L!Handling(p)
    BY <2>1, <2>2 DEF L!Holds
  <2>4. p \notin others => sessions' \subseteq warm'[p] \cup torn'[p] \cup orphans'
    BY <2>1, <2>2, <2>3 DEF L!Alone, L!Handling, L!Serving
  <2>5. L!Alone(q)'
    BY <1>a, <2>1, <2>3, <2>4 DEF L!Handling, L!Serving
  <2> QED
    BY <2>1, <2>3, <2>5 DEF L!Holds, L!Handling, L!Serving
<1>12. ASSUME NEW p \in L!Process, L!ShutDown(p) \/ L!Die(p) PROVE L!Alone(q)' /\ L!Holds(q)'
  <2>1. /\ proc[p].pc # "off" /\ proc'[p].pc = "off" /\ UNCHANGED others
        /\ \A r \in L!Process \ {p} : /\ proc'[r] = proc[r] /\ reaping'[r] = reaping[r]
                                      /\ warm'[r] = warm[r] /\ torn'[r] = torn[r]
        /\ warm'[p] = {} /\ torn'[p] = {} /\ reaping'[p] = {}
    BY <1>12 DEF L!ShutDown, L!Die, L!Exits, L!Off
  <2>2. L!Alone(q)'
    BY <1>a, <2>1
  <2> QED
    BY <2>1, <2>2 DEF L!Holds, L!Handling, L!Serving
<1>13. CASE UNCHANGED L!vars
  BY <1>13 DEF L!vars, L!tmux, L!Alone, L!Holds, L!Handling, L!Serving, L!Running
<1> QED
  BY <1>1, <1>2, <1>3, <1>4, <1>5, <1>6, <1>7, <1>9, <1>10, <1>11, <1>12, <1>13 DEF L!Next

(* A server that has run alone from its start has every grouped session    *)
(* that exists in its registry or is about to kill it, also while it shuts *)
(* down: ReapOrphanedLocal leaves none of an earlier server, and the       *)
(* terminals it starts itself are registered before their sessions are     *)
(* made (webterm.go 93-110, reap.go 13-25).  Only what tmux failed to list *)
(* or to kill stays behind, and what the script of a terminal that is gone *)
(* makes late.                                                             *)
THEOREM SoleServerOwns == L!Spec => []SoleServerOwnsAll
<1>1. L!IInv /\ [L!Next]_L!vars => L!IInv'
  BY ServersTypes, ServersAlone DEF L!IInv, L!Process
<1>2. L!IInv => SoleServerOwnsAll
  BY DEF L!IInv, L!Alone, L!Handling, L!Serving, SoleServerOwnsAll, L!SoleServerOwnsAll
<1> QED
  BY <1>1, <1>2, ServersInitially, PTL DEF L!Spec

-----------------------------------------------------------------------------
(* WatchDaemon: watchers, their pidfile and the shells.                    *)

LEMMA WatchersInit == W!Init => W!IInv
<1> SUFFICES ASSUME W!Init PROVE W!IInv
  OBVIOUS
<1>1. W!TypeOK
  BY WatchersAssumption DEF W!WatchDaemonAssumption, W!Init, W!TypeOK, W!Resting
<1>2. W!Watchers = {} /\ \A c \in Command : cmd[c].pc = "idle"
  BY DEF W!Init, W!Watchers, W!Starting, W!Watching, W!Resting
<1>3. W!Terminated
  BY DEF W!Init, W!Terminated
<1>4. W!InTurn
  BY <1>2 DEF W!Init, W!InTurn, W!OneAtWork, W!Known, W!NoneLeft, W!Starting, W!Watching
<1>5. W!Ensured
  BY <1>2 DEF W!Init, W!Ensured, W!OneAtWork, W!Sees
<1> QED
  BY <1>1, <1>3, <1>4, <1>5 DEF W!IInv

LEMMA WatchersTypes == W!TypeOK /\ [W!Next]_W!vars => W!TypeOK'
<1> SUFFICES ASSUME W!TypeOK, [W!Next]_W!vars PROVE W!TypeOK'
  OBVIOUS
<1> DEFINE Place == {"idle", "spawn", "settle", "signal", "cleanup", "wait"}
           Kind == {"free", "other"} \cup W!Starting \cup W!Watching
           Files == pidfile' \in Pid \cup {None, Torn} /\ opened' \subseteq Pid
           Procs == daemon' \in [Pid -> Kind] /\ term' \in [Pid -> BOOLEAN]
           Shells == cmd' \in [Command -> [pc : Place, pid : Pid \cup {None}]]
           History == {wanted', denied'} \subseteq BOOLEAN /\ odd' \subseteq W!Oddity
<1>0. Files /\ Procs /\ Shells /\ History => W!TypeOK'
  BY DEF W!TypeOK, W!Starting, W!Watching, W!Oddity
(* What a step leaves alone.                                               *)
<1>a. /\ UNCHANGED W!files => Files
      /\ UNCHANGED W!procs => Procs
      /\ UNCHANGED cmd => Shells
      /\ UNCHANGED W!history => History
      /\ \A x \in W!Oddity : W!Notes(x) /\ UNCHANGED <<wanted, denied>> => History
  BY DEF W!TypeOK, W!files, W!procs, W!history, W!Notes, W!Starting, W!Watching, W!Oddity
<1>b. ASSUME NEW c \in Command, NEW pc \in Place, NEW p \in Pid \cup {None}, W!Goes(c, pc, p)
      PROVE  Shells
  BY <1>b DEF W!TypeOK, W!Goes
<1>c. ASSUME NEW p, W!Gone(p) PROVE Procs
  BY <1>c DEF W!TypeOK, W!Gone, W!Starting, W!Watching
<1>d. ASSUME NEW p \in Pid, NEW kind \in Kind, daemon' = [daemon EXCEPT ![p] = kind], UNCHANGED term
      PROVE  Procs
  BY <1>d DEF W!TypeOK, W!Starting, W!Watching
<1>e. /\ \A crossed : W!NotesOverlap(crossed) => odd' \subseteq W!Oddity
      /\ W!removePid => Files
      /\ \A c \in Command : cmd[c].pid \in Pid \cup {None}
  BY DEF W!TypeOK, W!NotesOverlap, W!Oddity, W!removePid
<1>1. ASSUME NEW p \in Pid,
             \/ W!RunWatch(p) \/ W!OpenPid(p) \/ W!WritePid(p) \/ W!Catches(p) \/ W!StopsLoop(p)
      PROVE  W!TypeOK'
  <2>1. Procs
    <3>1. UNCHANGED term /\ \E kind \in Kind : daemon' = [daemon EXCEPT ![p] = kind]
      BY <1>1 DEF W!RunWatch, W!Start, W!OpenPid, W!WritePid, W!Catches, W!StopsLoop, W!Starting, W!Watching
    <3> QED
      BY <1>d, <3>1
  <2>2. Files
    <3>1. CASE UNCHANGED W!files
      BY <1>a, <3>1
    <3>2. CASE W!OpenPid(p)
      BY <3>2 DEF W!TypeOK, W!OpenPid
    <3>3. CASE W!WritePid(p)
      BY <3>3 DEF W!TypeOK, W!WritePid
    <3> QED
      BY <1>1, <3>1, <3>2, <3>3 DEF W!RunWatch, W!Catches, W!StopsLoop, W!files
  <2>3. Shells /\ History
    BY <1>1, <1>a DEF W!RunWatch, W!OpenPid, W!WritePid, W!Catches, W!StopsLoop, W!Oddity, W!Notes, W!history
  <2> QED
    BY <1>0, <2>1, <2>2, <2>3
<1>2. ASSUME NEW p \in Pid, W!Leaves(p) \/ W!Crash(p) \/ W!Stranger(p) \/ W!StrangerEnds(p)
      PROVE  W!TypeOK'
  <2>1. Procs
    BY <1>2, <1>c, <1>d DEF W!Leaves, W!Crash, W!Stranger, W!StrangerEnds
  <2>2. Files
    <3>1. CASE W!Crash(p)
      BY <3>1 DEF W!TypeOK, W!Crash
    <3> QED
      BY <1>2, <1>a, <1>e, <3>1 DEF W!Leaves, W!Stranger, W!StrangerEnds
  <2>3. Shells /\ History
    BY <1>2, <1>a DEF W!Leaves, W!Crash, W!Stranger, W!StrangerEnds, W!Oddity, W!history
  <2> QED
    BY <1>0, <2>1, <2>2, <2>3
<1>3. ASSUME NEW c \in Command, W!Launch(c) \/ W!StopWatch(c) PROVE W!TypeOK'
  <2>1. Files /\ Procs
    BY <1>3, <1>a DEF W!Launch, W!StopWatch
  <2>2. Shells
    BY <1>3, <1>a, <1>b DEF W!Launch, W!StopWatch
  <2>3. History
    <3>1. wanted' \in {wanted, TRUE, FALSE} /\ denied' \in BOOLEAN
      BY <1>3 DEF W!TypeOK, W!Launch, W!StopWatch
    <3> QED
      BY <1>3, <1>e, <3>1 DEF W!TypeOK, W!Launch, W!StopWatch
  <2> QED
    BY <1>0, <2>1, <2>2, <2>3
<1>4. ASSUME NEW c \in Command, W!spawnDaemon(c) PROVE W!TypeOK'
  <2>1. PICK p \in Pid : W!Start(p) /\ W!Goes(c, "settle", p)
    BY <1>4 DEF W!spawnDaemon
  <2>2. Procs /\ Shells
    BY <1>b, <1>d, <2>1 DEF W!Start, W!Starting
  <2> QED
    BY <1>0, <1>4, <1>a, <2>2 DEF W!spawnDaemon
<1>5. ASSUME NEW c \in Command, W!SpawnFails(c) \/ W!Settled(c) \/ W!SignalFails(c) \/ W!Waited(c)
      PROVE  W!TypeOK'
  <2>1. Files /\ Procs
    BY <1>5, <1>a DEF W!SpawnFails, W!Settled, W!SignalFails, W!Waited
  <2>2. Shells
    BY <1>5, <1>b DEF W!SpawnFails, W!Settled, W!SignalFails, W!Waited
  <2>3. odd' \subseteq W!Oddity
    BY <1>5 DEF W!TypeOK, W!SpawnFails, W!Settled, W!SignalFails, W!Waited, W!Oddity, W!history
  <2>4. wanted' \in {wanted, TRUE} /\ UNCHANGED denied
    BY <1>5 DEF W!SpawnFails, W!Settled, W!SignalFails, W!Waited, W!history
  <2> QED
    BY <1>0, <2>1, <2>2, <2>3, <2>4 DEF W!TypeOK
<1>6. ASSUME NEW c \in Command, W!Signal(c) \/ W!Cleanup(c) PROVE W!TypeOK'
  <2>1. Files
    <3>1. CASE W!Signal(c)
      BY <3>1 DEF W!TypeOK, W!Signal, W!Signalled
    <3> QED
      BY <1>6, <1>e, <3>1 DEF W!Cleanup
  <2>2. Procs
    <3>1. CASE W!Signal(c)
      <4>1. W!Signalled(cmd[c].pid)
        BY <3>1 DEF W!Signal
      <4>2. \/ term' = [term EXCEPT ![cmd[c].pid] = TRUE] /\ UNCHANGED daemon
            \/ W!Gone(cmd[c].pid)
        BY <4>1 DEF W!Signalled
      <4> QED
        BY <1>c, <4>2 DEF W!TypeOK
    <3> QED
      BY <1>6, <1>a, <3>1 DEF W!Cleanup
  <2>3. Shells
    BY <1>6, <1>b, <1>e DEF W!Signal, W!AfterSignal, W!Cleanup
  <2> QED
    BY <1>0, <1>6, <1>a, <2>1, <2>2, <2>3 DEF W!Signal, W!Cleanup
<1>7. CASE UNCHANGED W!vars
  BY <1>0, <1>7, <1>a DEF W!vars, W!files, W!procs, W!history
<1> QED
  BY <1>1, <1>2, <1>3, <1>4, <1>5, <1>6, <1>7 DEF W!Next

(* Only a watcher that is up has a SIGTERM waiting, and it leaves for one.  *)
LEMMA TermsKept == W!TypeOK /\ W!Terminated /\ [W!Next]_W!vars => W!Terminated'
<1> SUFFICES ASSUME W!TypeOK, W!Terminated, [W!Next]_W!vars, NEW q \in Pid
             PROVE  /\ term'[q] => daemon'[q] \in W!Watching
                    /\ daemon'[q] = "leaving" => term'[q]
  BY DEF W!Terminated, W!Watching
<1> USE DEF W!TypeOK, W!Terminated, W!Watching
<1>1. CASE UNCHANGED W!procs
  BY <1>1 DEF W!procs
<1>2. ASSUME NEW p \in Pid, W!Gone(p)
      PROVE  (term'[q] => daemon'[q] \in W!Watching) /\ (daemon'[q] = "leaving" => term'[q])
  BY <1>2 DEF W!Gone
<1>3. ASSUME NEW p \in Pid, W!Start(p) \/ W!OpenPid(p) \/ W!WritePid(p) \/ W!Catches(p) \/ W!StopsLoop(p)
                            \/ W!Stranger(p)
      PROVE  (term'[q] => daemon'[q] \in W!Watching) /\ (daemon'[q] = "leaving" => term'[q])
  BY <1>3 DEF W!Start, W!OpenPid, W!WritePid, W!Catches, W!StopsLoop, W!Stranger
<1>4. ASSUME NEW c \in Command, W!Signal(c)
      PROVE  (term'[q] => daemon'[q] \in W!Watching) /\ (daemon'[q] = "leaving" => term'[q])
  BY <1>4 DEF W!Signal, W!Signalled, W!Gone
<1>5. ASSUME NEW p \in Pid, W!RunWatch(p) PROVE W!Start(p)
  BY <1>5 DEF W!RunWatch
<1>6. ASSUME NEW p \in Pid, W!Leaves(p) \/ W!Crash(p) \/ W!StrangerEnds(p) PROVE W!Gone(p)
  BY <1>6 DEF W!Leaves, W!Crash, W!StrangerEnds
<1>7. ASSUME NEW c \in Command, W!spawnDaemon(c) PROVE \E p \in Pid : W!Start(p)
  BY <1>7 DEF W!spawnDaemon
<1>8. ASSUME NEW c \in Command,
             \/ W!Launch(c) \/ W!SpawnFails(c) \/ W!Settled(c) \/ W!StopWatch(c)
             \/ W!SignalFails(c) \/ W!Cleanup(c) \/ W!Waited(c)
      PROVE  UNCHANGED W!procs
  BY <1>8 DEF W!Launch, W!SpawnFails, W!Settled, W!StopWatch, W!SignalFails, W!Cleanup, W!Waited
<1>9. CASE UNCHANGED W!vars
  BY <1>1, <1>9 DEF W!vars, W!procs
<1> QED
  BY <1>1, <1>2, <1>3, <1>4, <1>5, <1>6, <1>7, <1>8, <1>9 DEF W!Next

(* What has happened once is never forgotten.                              *)
LEMMA OddStays == [W!Next]_W!vars => odd \subseteq odd'
<1> SUFFICES ASSUME [W!Next]_W!vars PROVE odd \subseteq odd'
  OBVIOUS
<1> USE DEF W!history, W!Notes
<1>1. ASSUME NEW p \in Pid,
             \/ W!RunWatch(p) \/ W!OpenPid(p) \/ W!WritePid(p) \/ W!Catches(p) \/ W!StopsLoop(p)
             \/ W!Leaves(p) \/ W!Crash(p) \/ W!Stranger(p) \/ W!StrangerEnds(p)
      PROVE  odd \subseteq odd'
  BY <1>1 DEF W!RunWatch, W!OpenPid, W!WritePid, W!Catches, W!StopsLoop, W!Leaves, W!Crash, W!Stranger,
              W!StrangerEnds
<1>2. ASSUME NEW c \in Command,
             \/ W!Launch(c) \/ W!spawnDaemon(c) \/ W!SpawnFails(c) \/ W!Settled(c) \/ W!StopWatch(c)
             \/ W!Signal(c) \/ W!SignalFails(c) \/ W!Cleanup(c) \/ W!Waited(c)
      PROVE  odd \subseteq odd'
  BY <1>2 DEF W!Launch, W!spawnDaemon, W!SpawnFails, W!Settled, W!StopWatch, W!Signal, W!SignalFails,
              W!Cleanup, W!Waited, W!NotesOverlap
<1>3. CASE UNCHANGED W!vars
  BY <1>3 DEF W!vars
<1> QED
  BY <1>1, <1>2, <1>3 DEF W!Next

(* A shell that begins does so while no other is at work.                  *)
LEMMA ShellBegins ==
    ASSUME "overlap" \notin odd', NEW crossed, W!NotesOverlap(crossed)
    PROVE  \A d \in Command : cmd[d].pc = "idle"
  BY DEF W!NotesOverlap, W!AtWork

(* A shell that begins, or goes on, is the only one at work.               *)
LEMMA OneShell ==
    ASSUME W!TypeOK, W!OneAtWork, NEW c \in Command, NEW pc, NEW p, W!Goes(c, pc, p),
           cmd[c].pc # "idle" \/ \A d \in Command : cmd[d].pc = "idle"
    PROVE  /\ W!OneAtWork'
           /\ cmd'[c] = [pc |-> pc, pid |-> p]
           /\ \A d \in Command \ {c} : cmd'[d].pc = "idle" /\ cmd[d].pc = "idle"
<1>1. cmd'[c] = [pc |-> pc, pid |-> p] /\ \A d \in Command \ {c} : cmd'[d] = cmd[d]
  BY DEF W!TypeOK, W!Goes
<1>2. \A d \in Command \ {c} : cmd[d].pc = "idle"
  BY DEF W!OneAtWork
<1> QED
  BY <1>1, <1>2 DEF W!OneAtWork

(* Shells in turn, each child up before its shell goes on: one watcher, and *)
(* who looks for it in the pidfile finds it.                               *)
LEMMA TurnsTaken == W!IInv /\ [W!Next]_W!vars => W!InTurn'
<1> DEFINE Expected == odd \cap {"foreground", "slowStart", "overlap"} = {}
           Kept == /\ W!OneAtWork /\ ~ denied
                   /\ \A p, q \in W!Watchers : p = q
                   /\ \A p \in Pid : W!Known(p)
                   /\ \A c \in Command : W!NoneLeft(c)
<1> SUFFICES ASSUME W!IInv, [W!Next]_W!vars, Expected' PROVE Kept'
  BY DEF W!InTurn
<1>0. /\ W!TypeOK /\ Kept
      /\ "foreground" \notin odd' /\ "slowStart" \notin odd' /\ "overlap" \notin odd'
  BY OddStays DEF W!IInv, W!InTurn
<1> USE DEF W!Starting, W!Watching, W!Watchers
(* A step of a watcher: no more of them than before.                       *)
<1>a. ASSUME UNCHANGED <<cmd, denied>>, W!Watchers' \subseteq W!Watchers,
             \A q \in Pid : W!Known(q)'
      PROVE  Kept'
  BY <1>0, <1>a DEF W!OneAtWork, W!NoneLeft
(* A step of a shell that leaves no other at work, nor one still waiting   *)
(* for its child.                                                          *)
<1>b. ASSUME NEW c \in Command, W!OneAtWork', ~ denied',
             \A d \in Command \ {c} : cmd'[d].pc = "idle",
             W!Watchers' \subseteq W!Watchers, W!NoneLeft(c)',
             \A q \in Pid : /\ daemon[q] \notin W!Starting /\ daemon'[q] \notin W!Starting
                            /\ daemon'[q] \in W!Watching => pidfile' = q
      PROVE  Kept'
  BY <1>0, <1>b DEF W!Known, W!NoneLeft
(* A shell at work that does not wait for a child has none that comes up.   *)
<1>c. ASSUME NEW c \in Command, cmd[c].pc # "settle",
             cmd[c].pc # "idle" \/ \A d \in Command : cmd[d].pc = "idle"
      PROVE  \A q \in Pid : daemon[q] \notin W!Starting
  <2> SUFFICES ASSUME NEW q \in Pid, daemon[q] \in W!Starting PROVE FALSE
    OBVIOUS
  <2>1. PICK d \in Command : cmd[d] = [pc |-> "settle", pid |-> q]
    BY <1>0 DEF W!Known
  <2> QED
    BY <1>0, <1>c, <2>1 DEF W!OneAtWork
<1>1. ASSUME NEW p \in Pid, W!OpenPid(p) \/ W!WritePid(p) \/ W!Catches(p) \/ W!StopsLoop(p) PROVE Kept'
  <2>1. /\ UNCHANGED <<cmd, denied>> /\ p \in W!Watchers /\ W!Watchers' = W!Watchers
        /\ \A q \in Pid \ {p} : daemon'[q] = daemon[q]
    BY <1>0, <1>1 DEF W!TypeOK, W!OpenPid, W!WritePid, W!Catches, W!StopsLoop, W!history
  <2>2. W!Known(p)'
    <3>1. CASE W!OpenPid(p)
      BY <1>0, <3>1 DEF W!TypeOK, W!OpenPid, W!Known
    <3>2. CASE W!WritePid(p)
      BY <1>0, <3>2 DEF W!TypeOK, W!WritePid, W!Known
    <3>3. CASE W!Catches(p) \/ W!StopsLoop(p)
      BY <1>0, <3>3 DEF W!TypeOK, W!Catches, W!StopsLoop, W!Known, W!files
    <3> QED
      BY <1>1, <3>1, <3>2, <3>3
  <2>3. \A q \in Pid \ {p} : W!Known(q)'
    BY <1>0, <2>1 DEF W!Known
  <2> QED
    BY <1>a, <2>1, <2>2, <2>3
<1>2. ASSUME NEW p \in Pid, W!Leaves(p) \/ W!Crash(p) PROVE Kept'
  <2>1. /\ UNCHANGED <<cmd, denied>> /\ p \in W!Watchers /\ W!Watchers' = W!Watchers \ {p}
    BY <1>0, <1>2 DEF W!TypeOK, W!Leaves, W!Crash, W!Gone, W!history
  <2>2. W!Watchers' = {}
    BY <1>0, <2>1
  <2>3. \A q \in Pid : W!Known(q)'
    BY <2>2 DEF W!Known
  <2> QED
    BY <1>a, <2>1, <2>3
<1>3. ASSUME NEW p \in Pid, W!Stranger(p) \/ W!StrangerEnds(p) PROVE Kept'
  <2>1. /\ UNCHANGED <<cmd, denied, pidfile, opened>> /\ W!Watchers' = W!Watchers
        /\ \A q \in W!Watchers : daemon'[q] = daemon[q]
    BY <1>0, <1>3 DEF W!TypeOK, W!Stranger, W!StrangerEnds, W!Gone, W!history, W!files
  <2>2. \A q \in Pid : W!Known(q)'
    BY <1>0, <2>1 DEF W!Known
  <2> QED
    BY <1>a, <2>1, <2>2
<1>4. ASSUME NEW p \in Pid, W!RunWatch(p) PROVE Kept'
  BY <1>0, <1>4 DEF W!RunWatch, W!Notes
<1>5. ASSUME NEW c \in Command, W!Launch(c) PROVE Kept'
  <2>1. /\ \A d \in Command : cmd[d].pc = "idle"
        /\ UNCHANGED <<pidfile, opened, daemon, denied>>
    BY <1>0, <1>5, ShellBegins DEF W!Launch, W!files, W!procs
  <2>2. \A q \in Pid : daemon[q] \notin W!Starting
    BY <1>c, <2>1
  <2>3. CASE UNCHANGED cmd
    BY <1>0, <2>1, <2>3 DEF W!OneAtWork, W!Known, W!NoneLeft
  <2>4. CASE ~W!watcherAlive /\ W!Goes(c, "spawn", None)
    <3>1. W!Watchers = {}
      BY <1>0, <2>2, <2>4 DEF W!watcherAlive, W!Known
    <3>2. /\ W!OneAtWork' /\ cmd'[c] = [pc |-> "spawn", pid |-> None]
          /\ \A d \in Command \ {c} : cmd'[d].pc = "idle"
      BY <1>0, <2>1, <2>4, OneShell
    <3>3. W!NoneLeft(c)'
      BY <2>1, <3>1, <3>2 DEF W!NoneLeft
    <3> QED
      BY <1>0, <1>b, <2>1, <2>2, <3>1, <3>2, <3>3 DEF W!Known
  <2> QED
    BY <1>5, <2>3, <2>4 DEF W!Launch
<1>6. ASSUME NEW c \in Command, W!spawnDaemon(c) PROVE Kept'
  <2>1. PICK p \in Pid : W!Start(p) /\ W!Goes(c, "settle", p)
    BY <1>6 DEF W!spawnDaemon
  <2>2. /\ W!OneAtWork' /\ cmd'[c] = [pc |-> "settle", pid |-> p]
        /\ \A d \in Command \ {c} : cmd'[d].pc = "idle"
    BY <1>0, <1>6, <2>1, OneShell DEF W!spawnDaemon
  <2>3. W!Watchers' = {p} /\ daemon'[p] = "new"
    BY <1>0, <1>6, <2>1 DEF W!TypeOK, W!spawnDaemon, W!NoneLeft, W!Start
  <2>4. \A q \in Pid : W!Known(q)'
    BY <2>2, <2>3 DEF W!Known
  <2>5. \A d \in Command : W!NoneLeft(d)'
    BY <2>2 DEF W!NoneLeft
  <2> QED
    BY <1>0, <1>6, <2>2, <2>3, <2>4, <2>5 DEF W!spawnDaemon, W!history
<1>7. ASSUME NEW c \in Command, W!Settled(c) PROVE Kept'
  <2>1. /\ W!OneAtWork' /\ cmd'[c] = [pc |-> "idle", pid |-> None]
        /\ \A d \in Command \ {c} : cmd'[d].pc = "idle"
    BY <1>0, <1>7, OneShell DEF W!Settled
  <2>2. \A q \in Pid : daemon[q] \notin W!Starting
    <3> SUFFICES ASSUME NEW q \in Pid, daemon[q] \in W!Starting PROVE FALSE
      OBVIOUS
    <3>1. PICK d \in Command : cmd[d] = [pc |-> "settle", pid |-> q]
      BY <1>0 DEF W!Known
    <3>2. daemon[cmd[c].pid] \in W!Starting
      BY <1>0, <1>7, <3>1 DEF W!OneAtWork, W!Settled
    <3> QED
      BY <1>0, <1>7, <3>2 DEF W!Settled
  <2>3. UNCHANGED <<pidfile, daemon, denied>>
    BY <1>7 DEF W!Settled, W!files, W!procs
  <2> QED
    BY <1>0, <1>b, <2>1, <2>2, <2>3 DEF W!NoneLeft, W!Known
<1>8. ASSUME NEW c \in Command, W!StopWatch(c) PROVE Kept'
  <2>1. /\ \A d \in Command : cmd[d].pc = "idle"
        /\ UNCHANGED <<pidfile, opened, daemon>>
    BY <1>0, <1>8, ShellBegins DEF W!StopWatch, W!files, W!procs
  <2>2. \A q \in Pid : daemon[q] \notin W!Starting
    BY <1>c, <2>1
  <2>3. ~ denied'
    BY <1>0, <1>8, WatchersAssumption DEF W!StopWatch, W!Known, W!WatchDaemonAssumption
  <2>4. CASE UNCHANGED cmd
    BY <1>0, <2>1, <2>3, <2>4 DEF W!OneAtWork, W!Known, W!NoneLeft
  <2>5. CASE W!Goes(c, "signal", pidfile)
    <3>1. /\ W!OneAtWork' /\ cmd'[c] = [pc |-> "signal", pid |-> pidfile]
          /\ \A d \in Command \ {c} : cmd'[d].pc = "idle"
      BY <1>0, <2>1, <2>5, OneShell
    <3>2. W!Watchers \subseteq {pidfile}
      BY <1>0, <2>2 DEF W!Known
    <3>3. W!NoneLeft(c)'
      BY <2>1, <3>1, <3>2 DEF W!NoneLeft
    <3> QED
      BY <1>0, <1>b, <2>1, <2>2, <2>3, <3>1, <3>3 DEF W!Known
  <2> QED
    BY <1>8, <2>4, <2>5 DEF W!StopWatch
<1>9. ASSUME NEW c \in Command,
             W!Signal(c) \/ W!SpawnFails(c) \/ W!SignalFails(c) \/ W!Cleanup(c) \/ W!Waited(c)
      PROVE  Kept'
  <2>1. /\ cmd[c].pc \notin {"idle", "settle"}
        /\ \E pc \in {"idle", "cleanup", "wait"}, p \in Pid \cup {None} :
              W!Goes(c, pc, p) /\ (pc = "cleanup" => W!SignalFails(c))
    BY <1>0, <1>9 DEF W!TypeOK, W!Signal, W!AfterSignal, W!SpawnFails, W!SignalFails, W!Cleanup, W!Waited
  <2>2. /\ W!OneAtWork' /\ cmd'[c].pc \in {"idle", "cleanup", "wait"}
        /\ cmd'[c].pc = "cleanup" => W!SignalFails(c)
        /\ \A d \in Command \ {c} : cmd'[d].pc = "idle"
    <3>1. PICK pc \in {"idle", "cleanup", "wait"}, p \in Pid \cup {None} :
             W!Goes(c, pc, p) /\ (pc = "cleanup" => W!SignalFails(c))
      BY <2>1
    <3>2. /\ W!OneAtWork' /\ cmd'[c] = [pc |-> pc, pid |-> p]
          /\ \A d \in Command \ {c} : cmd'[d].pc = "idle"
      BY <1>0, <2>1, <3>1, OneShell
    <3> QED
      BY <3>1, <3>2
  <2>3. \A q \in Pid : daemon[q] \notin W!Starting
    BY <1>c, <2>1
  <2>4. /\ denied' = denied
        /\ \A q \in Pid : daemon'[q] \in {daemon[q], "free"}
    BY <1>0, <1>9 DEF W!TypeOK, W!Signal, W!Signalled, W!Gone, W!SpawnFails, W!SignalFails, W!Cleanup, W!Waited,
                      W!history, W!procs
  <2>5. W!NoneLeft(c)'
    <3>1. CASE W!SignalFails(c)
      <4>1. daemon[cmd[c].pid] = "free" /\ W!Watchers \subseteq {cmd[c].pid}
        BY <1>0, <3>1 DEF W!SignalFails, W!NoneLeft
      <4>2. W!Watchers = {}
        BY <4>1
      <4> QED
        BY <2>2, <2>4, <4>2 DEF W!NoneLeft
    <3>2. CASE ~W!SignalFails(c)
      BY <2>2, <3>2 DEF W!NoneLeft
    <3> QED
      BY <3>1, <3>2
  <2>6. ASSUME NEW q \in Pid, daemon'[q] \in W!Watching PROVE pidfile' = q
    <3>1. CASE W!Cleanup(c)
      BY <1>0, <2>4, <2>6, <3>1 DEF W!Cleanup, W!NoneLeft
    <3>2. CASE ~W!Cleanup(c)
      <4>1. UNCHANGED pidfile
        BY <1>9, <3>2 DEF W!Signal, W!SpawnFails, W!SignalFails, W!Waited, W!files
      <4> QED
        BY <1>0, <2>4, <2>6, <4>1 DEF W!Known
    <3> QED
      BY <3>1, <3>2
  <2> QED
    BY <1>0, <1>b, <2>2, <2>3, <2>4, <2>5, <2>6
<1>10. CASE UNCHANGED W!vars
  BY <1>0, <1>10 DEF W!vars, W!OneAtWork, W!Known, W!NoneLeft
<1> QED
  BY <1>1, <1>2, <1>3, <1>4, <1>5, <1>6, <1>7, <1>8, <1>9, <1>10 DEF W!Next

(* A watcher that has no SIGTERM stays; who waits for one to leave sees it. *)
LEMMA WatcherStays == W!IInv /\ [W!Next]_W!vars => W!Ensured'
<1> DEFINE Expected == odd \subseteq {"foreground", "slowStart"}
           Seen(p) == pidfile = p /\ term[p] => \E c \in Command : cmd[c] = [pc |-> "wait", pid |-> p]
           Kept == /\ W!OneAtWork
                   /\ \A p \in Pid : daemon[p] # "other"
                   /\ \A c \in Command : W!Sees(c)
                   /\ \A p \in Pid : Seen(p)
                   /\ wanted => \E p \in W!Watchers : W!Stays(p)
<1> SUFFICES ASSUME W!IInv, [W!Next]_W!vars, Expected' PROVE Kept'
  BY DEF W!Ensured
<1>0. /\ W!TypeOK /\ W!Terminated /\ Kept
      /\ \A x \in {"slowLeave", "killed", "reused", "overlap"} : x \notin odd'
  BY OddStays DEF W!IInv, W!Ensured
<1> USE DEF W!Starting, W!Watching, W!Watchers
(* A step of a watcher that loses none of those that stay.                 *)
<1>a. ASSUME UNCHANGED <<cmd, wanted>>, \A q \in Pid : daemon'[q] # "other",
             \A q \in Pid : W!Stays(q) => W!Stays(q)',
             \A q \in Pid : pidfile' = q /\ term'[q] => pidfile = q /\ term[q]
      PROVE  Kept'
  <2>1. \A p : W!Stays(p) => p \in Pid
    BY DEF W!Stays
  <2>2. \A c \in Command : W!Sees(c)'
    BY <1>0, <1>a, <2>1 DEF W!Sees
  <2>3. wanted' => \E p \in W!Watchers' : W!Stays(p)'
    BY <1>0, <1>a DEF W!Stays
  <2> QED
    BY <1>0, <1>a, <2>2, <2>3 DEF W!OneAtWork
(* A step of a shell, the only one at work.                                *)
<1>b. ASSUME NEW c \in Command, W!OneAtWork', \A d \in Command \ {c} : cmd'[d].pc = "idle",
             W!Sees(c)', \A q \in Pid : daemon'[q] # "other", \A q \in Pid : Seen(q)',
             wanted' => \E p \in Pid : W!Stays(p)'
      PROVE  Kept'
  BY <1>b DEF W!Sees, W!Stays
(* While none waits for a watcher to leave, the pidfile names none that    *)
(* will.                                                                   *)
<1>c. ASSUME NEW c \in Command, cmd[c].pc # "wait",
             cmd[c].pc # "idle" \/ \A d \in Command : cmd[d].pc = "idle"
      PROVE  \A q \in Pid : ~(pidfile = q /\ term[q])
  <2> SUFFICES ASSUME NEW q \in Pid, pidfile = q, term[q] PROVE FALSE
    OBVIOUS
  <2>1. PICK d \in Command : cmd[d] = [pc |-> "wait", pid |-> q]
    BY <1>0
  <2> QED
    BY <1>0, <1>c, <2>1 DEF W!OneAtWork
<1>1. ASSUME NEW p \in Pid, W!RunWatch(p) PROVE Kept'
  <2>1. W!Start(p) /\ UNCHANGED <<pidfile, cmd, wanted>>
    BY <1>1 DEF W!RunWatch, W!files
  <2> QED
    BY <1>0, <1>a, <2>1 DEF W!TypeOK, W!Start, W!Stays
<1>2. ASSUME NEW p \in Pid, W!OpenPid(p) \/ W!WritePid(p) \/ W!Catches(p) \/ W!StopsLoop(p) PROVE Kept'
  <2>1. /\ UNCHANGED <<term, cmd, wanted>> /\ W!Watchers' = W!Watchers
        /\ \A q \in Pid : daemon'[q] # "other"
    BY <1>0, <1>2 DEF W!TypeOK, W!OpenPid, W!WritePid, W!Catches, W!StopsLoop, W!history
  <2>2. \A q \in Pid : W!Stays(q) => W!Stays(q)'
    BY <2>1 DEF W!Stays
  <2>3. pidfile' \in {pidfile, Torn} \/ (pidfile' = p /\ ~ term[p])
    BY <1>0, <1>2 DEF W!OpenPid, W!WritePid, W!Catches, W!StopsLoop, W!files, W!Terminated
  <2>4. Torn \notin Pid
    BY WatchersAssumption DEF W!WatchDaemonAssumption
  <2> QED
    BY <1>a, <2>1, <2>2, <2>3, <2>4
<1>3. ASSUME NEW p \in Pid, W!Leaves(p) PROVE Kept'
  <2>1. term[p] /\ W!Gone(p) /\ UNCHANGED <<cmd, wanted>> /\ pidfile' \notin Pid
    BY <1>0, <1>3, WatchersAssumption DEF W!Leaves, W!removePid, W!Terminated, W!history, W!WatchDaemonAssumption
  <2> QED
    BY <1>0, <1>a, <2>1 DEF W!TypeOK, W!Gone, W!Stays
<1>4. ASSUME NEW p \in Pid, W!Crash(p) \/ W!Stranger(p) \/ W!StrangerEnds(p) PROVE Kept'
  BY <1>0, <1>4 DEF W!Crash, W!Stranger, W!StrangerEnds, W!Notes
<1>5. ASSUME NEW c \in Command, W!Launch(c) PROVE Kept'
  <2>1. /\ \A d \in Command : cmd[d].pc = "idle"
        /\ UNCHANGED <<pidfile, daemon, term>>
    BY <1>0, <1>5, ShellBegins DEF W!Launch, W!files, W!procs
  <2>2. \A q \in Pid : ~(pidfile = q /\ term[q])
    BY <1>c, <2>1
  <2>3. CASE W!watcherAlive /\ UNCHANGED cmd
    <3>1. W!Stays(pidfile)' /\ pidfile \in Pid
      BY <1>0, <2>1, <2>2, <2>3 DEF W!TypeOK, W!watcherAlive, W!Stays
    <3> QED
      BY <1>0, <1>b, <2>1, <2>2, <2>3, <3>1 DEF W!OneAtWork, W!Sees
  <2>4. CASE W!Goes(c, "spawn", None) /\ UNCHANGED wanted
    <3>1. /\ W!OneAtWork' /\ cmd'[c] = [pc |-> "spawn", pid |-> None]
          /\ \A d \in Command \ {c} : cmd'[d].pc = "idle"
      BY <1>0, <2>1, <2>4, OneShell
    <3> QED
      BY <1>0, <1>b, <2>1, <2>2, <2>4, <3>1 DEF W!Sees, W!Stays
  <2> QED
    BY <1>5, <2>3, <2>4 DEF W!Launch
<1>6. ASSUME NEW c \in Command, W!spawnDaemon(c) PROVE Kept'
  <2>1. PICK p \in Pid : W!Start(p) /\ W!Goes(c, "settle", p)
    BY <1>6 DEF W!spawnDaemon
  <2>2. /\ W!OneAtWork' /\ cmd'[c] = [pc |-> "settle", pid |-> p]
        /\ \A d \in Command \ {c} : cmd'[d].pc = "idle"
    BY <1>0, <1>6, <2>1, OneShell DEF W!spawnDaemon
  <2>3. /\ UNCHANGED <<pidfile, term, wanted>> /\ \A q \in Pid : daemon'[q] # "other"
        /\ W!Stays(p)' /\ \A q \in Pid : W!Stays(q) => W!Stays(q)'
    BY <1>0, <1>6, <2>1 DEF W!TypeOK, W!spawnDaemon, W!Start, W!Stays, W!Terminated, W!files, W!history
  <2>4. \A q \in Pid : ~(pidfile = q /\ term[q])
    BY <1>6, <1>c DEF W!spawnDaemon
  <2> QED
    BY <1>0, <1>b, <2>2, <2>3, <2>4 DEF W!Sees
<1>7. ASSUME NEW c \in Command,
             W!SpawnFails(c) \/ W!Settled(c) \/ W!SignalFails(c) \/ W!Cleanup(c) \/ W!Waited(c)
      PROVE  Kept'
  <2>1. PICK pc \in {"idle", "cleanup"} :
           W!Goes(c, pc, None) /\ cmd[c].pc # "idle" /\ (pc = "cleanup" => cmd[c].pc = "signal")
    BY <1>7 DEF W!SpawnFails, W!Settled, W!SignalFails, W!Cleanup, W!Waited
  <2>2. /\ W!OneAtWork' /\ cmd'[c] = [pc |-> pc, pid |-> None]
        /\ \A d \in Command \ {c} : cmd'[d].pc = "idle"
    BY <1>0, <2>1, OneShell
  <2>3. UNCHANGED <<daemon, term>> /\ \A q \in Pid : pidfile' = q => pidfile = q
    BY <1>7, WatchersAssumption
       DEF W!SpawnFails, W!Settled, W!SignalFails, W!Cleanup, W!Waited, W!files, W!procs, W!removePid,
           W!WatchDaemonAssumption
  <2>4. \A q \in Pid : ~(pidfile = q /\ term[q])
    <3>1. CASE W!Waited(c)
      <4> SUFFICES ASSUME NEW q \in Pid, pidfile = q, term[q] PROVE FALSE
        OBVIOUS
      <4>1. PICK d \in Command : cmd[d] = [pc |-> "wait", pid |-> q]
        BY <1>0
      <4>2. cmd[c].pid = q
        BY <1>0, <2>1, <4>1 DEF W!OneAtWork
      <4>3. W!StillLeaving(c)
        BY <1>0, <4>2, WatchersAssumption DEF W!StillLeaving, W!Terminated, W!WatchDaemonAssumption
      <4> QED
        BY <1>0, <3>1, <4>3 DEF W!Waited
    <3>2. CASE ~W!Waited(c)
      BY <1>7, <1>c, <3>2 DEF W!SpawnFails, W!Settled, W!SignalFails, W!Cleanup
    <3> QED
      BY <3>1, <3>2
  <2>5. /\ wanted' => \E p \in Pid : W!Stays(p)'
        /\ cmd[c].pc = "signal" => ~ wanted'
    <3>1. CASE W!Settled(c)
      BY <1>0, <2>3, <3>1 DEF W!Settled, W!Sees, W!Stays
    <3>2. CASE ~W!Settled(c)
      <4>1. UNCHANGED wanted
        BY <1>7, <3>2 DEF W!SpawnFails, W!SignalFails, W!Cleanup, W!Waited, W!history
      <4> QED
        BY <1>0, <2>3, <4>1 DEF W!Sees, W!Stays
    <3> QED
      BY <3>1, <3>2
  <2>6. W!Sees(c)'
    BY <2>1, <2>2, <2>5 DEF W!Sees
  <2> QED
    BY <1>0, <1>b, <2>2, <2>3, <2>4, <2>5, <2>6
<1>8. ASSUME NEW c \in Command, W!StopWatch(c) PROVE Kept'
  <2>1. /\ \A d \in Command : cmd[d].pc = "idle"
        /\ UNCHANGED <<pidfile, daemon, term>> /\ ~ wanted'
    BY <1>0, <1>8, ShellBegins DEF W!StopWatch, W!files, W!procs
  <2>2. \A q \in Pid : ~(pidfile = q /\ term[q])
    BY <1>c, <2>1
  <2>3. CASE UNCHANGED cmd
    BY <1>0, <1>b, <2>1, <2>2, <2>3 DEF W!OneAtWork, W!Sees
  <2>4. CASE W!Goes(c, "signal", pidfile)
    <3>1. /\ W!OneAtWork' /\ cmd'[c] = [pc |-> "signal", pid |-> pidfile]
          /\ \A d \in Command \ {c} : cmd'[d].pc = "idle"
      BY <1>0, <2>1, <2>4, OneShell
    <3> QED
      BY <1>0, <1>b, <2>1, <2>2, <3>1 DEF W!Sees
  <2> QED
    BY <1>8, <2>3, <2>4 DEF W!StopWatch
<1>9. ASSUME NEW c \in Command, W!Signal(c) PROVE Kept'
  <2>1. /\ W!OneAtWork' /\ cmd'[c] = [pc |-> "wait", pid |-> cmd[c].pid]
        /\ \A d \in Command \ {c} : cmd'[d].pc = "idle"
    BY <1>0, <1>9, OneShell DEF W!Signal, W!AfterSignal
  <2>2. ~ wanted' /\ UNCHANGED pidfile
    BY <1>0, <1>9 DEF W!Signal, W!Sees, W!history
  <2>3. \A q \in Pid : ~(pidfile = q /\ term[q])
    BY <1>9, <1>c DEF W!Signal
  <2>4. /\ \A q \in Pid : daemon'[q] # "other"
        /\ \A q \in Pid \ {cmd[c].pid} : term'[q] => term[q]
    BY <1>0, <1>9 DEF W!TypeOK, W!Signal, W!Signalled, W!Gone
  <2> QED
    BY <1>b, <2>1, <2>2, <2>3, <2>4 DEF W!Sees
<1>10. CASE UNCHANGED W!vars
  BY <1>0, <1>10 DEF W!vars, W!OneAtWork, W!Sees, W!Stays
<1> QED
  BY <1>1, <1>2, <1>3, <1>4, <1>5, <1>6, <1>7, <1>8, <1>9, <1>10 DEF W!Next

LEMMA WatchersInductive == W!Spec => []W!IInv
<1>1. W!IInv /\ [W!Next]_W!vars => W!IInv'
  BY WatchersTypes, TermsKept, TurnsTaken, WatcherStays DEF W!IInv
<1> QED
  BY <1>1, WatchersInit, PTL DEF W!Spec

(* `watch --daemon` starts no second watcher, and stop-watch denies none    *)
(* that runs, while shells take turns and children come up in time.        *)
THEOREM WatcherIsOne == W!Spec => []OneWatcher
<1>1. W!IInv => OneWatcher
  BY DEF W!IInv, W!InTurn, OneWatcher, W!OneWatcher
<1> QED
  BY <1>1, WatchersInductive, PTL

(* A `watch --daemon` that has returned left a watcher that stays.          *)
THEOREM WatcherIsEnsured == W!Spec => []WatcherEnsured
<1>1. W!IInv => WatcherEnsured
  BY DEF W!IInv, W!Ensured, W!Stays, WatcherEnsured, W!WatcherEnsured
<1> QED
  BY <1>1, WatchersInductive, PTL

-----------------------------------------------------------------------------
(* A behaviour of the composition is one of each of its parts: what the    *)
(* theorems say of a part they say of what the runs check.                 *)
THEOREM ServersAreTheirs == ServersSpec => Spec /\ L!Spec /\ W!Spec
<1>1. ServersInit => Init /\ L!Init /\ W!Init
  BY DEF ServersInit
<1>2. [ServersNext]_<<vars, serverVars, watchVars, part>> =>
         [Next]_vars /\ [L!Next]_L!vars /\ [W!Next]_W!vars
  <2> SUFFICES ASSUME [ServersNext]_<<vars, serverVars, watchVars, part>>
               PROVE  [Next]_vars /\ [L!Next]_L!vars /\ [W!Next]_W!vars
    OBVIOUS
  <2> USE DEF serverVars, watchVars, L!vars, L!tmux, W!vars
  <2> QED
    BY DEF ServersNext
<1> QED
  BY <1>1, <1>2, PTL DEF ServersSpec, Spec, L!Spec, W!Spec
=============================================================================
