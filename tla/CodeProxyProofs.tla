-------------------------- MODULE CodeProxyProofs ---------------------------
(***************************************************************************)
(* No interleaving of requests reaches another session's server, for any   *)
(* number of sessions, launches and concurrent requests.                   *)
(***************************************************************************)
EXTENDS CodeProxy, TLAPS

(* What a handler does next keeps the type of its request.                 *)
ReqType == [Request -> [op : Op, pc : Pc, key : Key \cup {None},
                        inst : Instance \cup {None}]]

LEMMA GotoType ==
    ASSUME req \in ReqType, NEW r \in Request, NEW pc \in Pc,
           NEW i \in Instance \cup {None}, Goto(r, pc, i)
    PROVE  req' \in ReqType
  BY DEF ReqType, Goto

(* The handlers keep the types of what they share; registerCodeKey relies  *)
(* on its request naming a session.                                        *)
LEMMA NextType == IInv /\ [Next]_proxyVars => TypeOK'
<1> SUFFICES ASSUME IInv, [Next]_proxyVars PROVE TypeOK'
  OBVIOUS
<1> USE DEF IInv, HoldersAgree, TypeOK, SlotTypeOK, Phase, Op, Pc, Idle, slotVars, Goto, Answer, At
<1>1. ASSUME NEW r \in Request, NEW op \in Op, NEW k \in Key, Arrive(r, op, k)
      PROVE  TypeOK'
  BY <1>1 DEF Arrive
<1>2. ASSUME NEW r \in Request, NEW i \in Instance, StartLaunch(r, i) PROVE TypeOK'
  <2>1. req[r].key \in Key
    BY <1>2 DEF StartLaunch
  <2>2. SlotTypeOK' /\ codeKeys' \in SUBSET Key
        /\ codeTransports' \in [Key -> Instance \cup {None}]
    BY <1>2, <2>1 DEF StartLaunch, Launch
  <2>3. req' \in ReqType
    BY <1>2, GotoType DEF StartLaunch, ReqType
  <2> QED
    BY <2>2, <2>3 DEF ReqType
<1>3. ASSUME NEW r \in Request, StartFails(r) \/ StartReuse(r) PROVE TypeOK'
  BY <1>3 DEF StartFails, StartReuse, Vacant
<1>4. ASSUME NEW r \in Request, StatusGet(r) PROVE TypeOK'
  BY <1>4 DEF StatusGet
<1>5. ASSUME NEW r \in Request, Register(r) PROVE TypeOK'
  BY <1>5 DEF Register
<1>6. ASSUME NEW r \in Request, StopTakeOut(r) PROVE TypeOK'
  BY <1>6 DEF StopTakeOut, TakeOut
<1>7. ASSUME NEW r \in Request, StopWait(r) PROVE TypeOK'
  <2>1. req' \in ReqType
    BY <1>7, GotoType DEF StopWait, ReqType
  <2> QED
    BY <1>7, <2>1 DEF StopWait, ReqType
<1>8. ASSUME NEW r \in Request, Unregister(r) PROVE TypeOK'
  BY <1>8 DEF Unregister
<1>9. ASSUME NEW r \in Request, ProxyLookup(r) \/ ProxyGet(r) PROVE TypeOK'
  BY <1>9 DEF ProxyLookup, ProxyGet
<1>10. ASSUME NEW r \in Request, ProxyTransport(r) PROVE TypeOK'
  BY <1>10 DEF ProxyTransport, CachedUnder
<1>11. ASSUME NEW r \in Request, ProxyDial(r) PROVE TypeOK'
  BY <1>11 DEF ProxyDial
<1>12. CASE RegistryStep
  BY <1>12 DEF RegistryStep, TakeOutAll, Settle, Retire
<1>13. CASE UNCHANGED proxyVars
  BY <1>13 DEF proxyVars
<1> QED
  BY <1>1, <1>2, <1>3, <1>4, <1>5, <1>6, <1>7, <1>8, <1>9, <1>10, <1>11,
   <1>12, <1>13 DEF Next, Handle

-----------------------------------------------------------------------------
LEMMA InitIInv ==
    ASSUME CodeProxyAssumption
    PROVE  Init => IInv
<1>1. Init => TypeOK
  BY DEF Init, TypeOK, Idle, Op, Pc, SlotInit, SlotTypeOK, Phase
<1>2. Init => SlotsAgree /\ HoldersAgree
  BY DEF CodeProxyAssumption, Init, SlotsAgree, HoldersAgree, Idle, SlotInit, Live
<1> QED
  BY <1>1, <1>2 DEF IInv

(* A launched instance keeps the session it was launched for, and an       *)
(* unborn one is in nobody's hands.                                        *)
LEMMA NextIInv ==
    ASSUME CodeProxyAssumption
    PROVE  IInv /\ [Next]_proxyVars => IInv'
<1> SUFFICES ASSUME IInv, [Next]_proxyVars PROVE SlotsAgree' /\ HoldersAgree'
  BY NextType DEF IInv
<1> USE DEF CodeProxyAssumption, IInv, TypeOK, SlotTypeOK, SlotsAgree,
        HoldersAgree, Live, Phase, Op, Pc, Idle, slotVars, Goto, Answer, At
<1> DEFINE Goal == SlotsAgree' /\ HoldersAgree'
<1>1. ASSUME NEW r \in Request, NEW op \in Op, NEW k \in Key, Arrive(r, op, k)
      PROVE  Goal
  BY <1>1 DEF Arrive
<1>2. ASSUME NEW r \in Request, NEW i \in Instance, StartLaunch(r, i) PROVE Goal
  <2>1. req[r].key \in Key /\ owner[i] = None
    BY <1>2 DEF StartLaunch, Launch
  <2>2. SlotsAgree'
    BY <1>2, <2>1 DEF StartLaunch, Launch, Vacant
  <2>3. HoldersAgree'
    BY <1>2, <2>1 DEF StartLaunch, Launch
  <2> QED
    BY <2>2, <2>3
<1>3. ASSUME NEW r \in Request, StartFails(r) \/ StartReuse(r) PROVE Goal
  BY <1>3 DEF StartFails, StartReuse
<1>4. ASSUME NEW r \in Request, StatusGet(r) PROVE Goal
  BY <1>4 DEF StatusGet
<1>5. ASSUME NEW r \in Request, Register(r) PROVE Goal
  BY <1>5 DEF Register
<1>6. ASSUME NEW r \in Request, StopTakeOut(r) PROVE Goal
  BY <1>6 DEF StopTakeOut, TakeOut
<1>7. ASSUME NEW r \in Request, StopWait(r) PROVE Goal
  BY <1>7 DEF StopWait
<1>8. ASSUME NEW r \in Request, Unregister(r) PROVE Goal
  BY <1>8 DEF Unregister
<1>9. ASSUME NEW r \in Request, ProxyLookup(r) \/ ProxyGet(r) PROVE Goal
  BY <1>9 DEF ProxyLookup, ProxyGet
<1>10. ASSUME NEW r \in Request, ProxyTransport(r) PROVE Goal
  BY <1>10 DEF ProxyTransport, CachedUnder
<1>11. ASSUME NEW r \in Request, ProxyDial(r) PROVE Goal
  BY <1>11 DEF ProxyDial
<1>12. CASE RegistryStep
  <2>1. CASE TakeOutAll
    BY <1>12, <2>1 DEF RegistryStep, TakeOutAll
  <2>2. ASSUME NEW i \in Instance, Settle(i) PROVE Goal
    BY <1>12, <2>2 DEF RegistryStep, Settle
  <2>3. ASSUME NEW i \in Instance, Retire(i) PROVE Goal
    <3>1. i \in leaving /\ phase[i] # "unborn" /\ owner[i] # None
      BY <2>3 DEF Retire
    <3>2. UNCHANGED <<slot, owner, codeKeys, codeTransports, req>>
      BY <1>12, <2>3 DEF RegistryStep, Retire
    <3>3. SlotsAgree'
      BY <2>3, <3>1, <3>2 DEF Retire
    <3> QED
      BY <3>2, <3>3
  <2> QED
    BY <1>12, <2>1, <2>2, <2>3 DEF RegistryStep
<1>13. CASE UNCHANGED proxyVars
  BY <1>13 DEF proxyVars
<1> QED
  BY <1>1, <1>2, <1>3, <1>4, <1>5, <1>6, <1>7, <1>8, <1>9, <1>10, <1>11,
     <1>12, <1>13 DEF Next, Handle

(* Every variable keeps its type.                                          *)
THEOREM TypeCorrect ==
    ASSUME CodeProxyAssumption
    PROVE  Spec => []TypeOK
<1>1. IInv => TypeOK
  BY DEF IInv
<1> QED
  BY <1>1, InitIInv, NextIInv, PTL DEF Spec

(* A proxied request never reaches another session's server, nor a         *)
(* predecessor that is neither registered nor being stopped.               *)
THEOREM NoCrossSessionDial ==
    ASSUME CodeProxyAssumption
    PROVE  Spec => []DialsOwnServer
<1>1. IInv => DialsOwnServer
  BY DEF IInv, SlotsAgree, HoldersAgree, DialsOwnServer, Live
<1> QED
  BY <1>1, InitIInv, NextIInv, PTL DEF Spec
=============================================================================
