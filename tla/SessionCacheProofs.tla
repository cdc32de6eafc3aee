------------------------- MODULE SessionCacheProofs -------------------------
(***************************************************************************)
(* One refresh at a time, and refreshes in order, for any number of        *)
(* handlers, goroutines, renames and state changes.                        *)
(***************************************************************************)
EXTENDS SessionCache, TLAPS

LEMMA NoListType == NoList \in List
  BY SessionCacheAssumption DEF NoList, List

LEMMA InitIInv == Init => IInv
<1> SUFFICES ASSUME Init PROVE IInv
  OBVIOUS
<1> USE SessionCacheAssumption DEF Init, Idle, Stored
<1>1. TypeOK
  <2>1. have \in BOOLEAN /\ refreshing \in BOOLEAN
    OBVIOUS
  <2>2. world \in [state : 0..MaxState, name : 0..MaxName]
    OBVIOUS
  <2>3. snapshot \in [list : List, by : {"nobody", "load", "refresh"}]
    BY NoListType
  <2>4. age \in 0..TTL
    OBVIOUS
  <2>5. caller \in [Caller -> [pc : {"idle", "get", "age", "load", "loaded", "patch"},
                              list : List]]
        /\ refresher \in [Refresher -> [pc : {"idle", "load", "loaded"}, list : List]]
    BY NoListType
  <2> QED
    BY <2>1, <2>2, <2>3, <2>4, <2>5 DEF TypeOK
<1>2. SingleFlight
  BY DEF SingleFlight, Refreshers
<1>3. RefreshReadsLater
  BY DEF RefreshReadsLater, NoList
<1> QED
  BY <1>1, <1>2, <1>3 DEF IInv

(* The strengthening is inductive: a refresh starts only while the flag is *)
(* clear, hence alone, and reads the world after the last one was stored.  *)
LEMMA NextIInv == IInv /\ [Next]_vars => IInv'
<1> SUFFICES ASSUME IInv, [Next]_vars PROVE IInv'
  OBVIOUS
<1> USE SessionCacheAssumption
    DEF IInv, TypeOK, SingleFlight, RefreshReadsLater, Refreshers, Idle,
        NoList, List, Stored, cache
<1>1. ASSUME NEW c \in Caller, GetCheck(c) PROVE IInv'
  BY <1>1 DEF GetCheck
<1>2. ASSUME NEW c \in Caller, GetFresh(c) PROVE IInv'
  BY <1>2 DEF GetFresh
<1>3. ASSUME NEW c \in Caller, GetStale(c) PROVE IInv'
  <2>1. CASE refreshing
    BY <1>3, <2>1 DEF GetStale, MayRefresh
  <2>2. CASE ~ refreshing
    <3>1. PICK b \in Refresher :
             /\ refresher[b].pc = "idle"
             /\ refresher' = [refresher EXCEPT ![b].pc = "load"]
             /\ refreshing' = TRUE
      BY <1>3, <2>2 DEF GetStale, MayRefresh
    <3>2. TypeOK'
      BY <1>3, <3>1 DEF GetStale
    <3>3. Refreshers' = {b}
      BY <2>2, <3>1
    <3>4. SingleFlight'
      BY <3>1, <3>3
    <3>5. RefreshReadsLater'
      BY <1>3, <3>1 DEF GetStale
    <3> QED
      BY <3>2, <3>4, <3>5
  <2> QED
    BY <2>1, <2>2
<1>4. ASSUME NEW c \in Caller, LoadCall(c) PROVE IInv'
  BY <1>4 DEF LoadCall, Loaded
<1>5. ASSUME NEW c \in Caller, LoadStore(c) PROVE IInv'
  BY <1>5 DEF LoadStore
<1>6. ASSUME NEW b \in Refresher, RefreshCall(b) PROVE IInv'
  <2>1. TypeOK'
    BY <1>6 DEF RefreshCall, Loaded
  <2>2. Refreshers' = Refreshers
    BY <1>6 DEF RefreshCall
  <2>3. RefreshReadsLater'
    BY <1>6 DEF RefreshCall, Loaded
  <2> QED
    BY <1>6, <2>1, <2>2, <2>3 DEF RefreshCall
<1>7. ASSUME NEW b \in Refresher, RefreshStore(b) PROVE IInv'
  <2>1. TypeOK'
    <3>1. snapshot' \in [list : List, by : {"nobody", "load", "refresh"}]
      BY <1>7 DEF RefreshStore
    <3>2. refreshing' \in BOOLEAN
      BY <1>7, Zenon DEF RefreshStore, StillRefreshing
    <3> QED
      BY <1>7, <3>1, <3>2 DEF RefreshStore
  <2>2. Refreshers' = {}
    BY <1>7 DEF RefreshStore
  <2>3. SingleFlight'
    BY <1>7, <2>2 DEF RefreshStore, StillRefreshing
  <2>4. RefreshReadsLater'
    BY <1>7, <2>2 DEF RefreshStore
  <2> QED
    BY <2>1, <2>3, <2>4
<1>8. ASSUME NEW c \in Caller, SetName(c) PROVE IInv'
  <2>1. world' \in [state : 0..MaxState, name : 0..MaxName]
        /\ world'.state = world.state
    BY <1>8 DEF SetName
  <2> DEFINE renamed == Renaming(world.name + 1)
  <2>2. renamed \in List /\ renamed.state = 0
    BY <1>8 DEF SetName, Renaming
  <2>3. caller' = [caller EXCEPT ![c] = [pc |-> "patch", list |-> renamed]]
    BY <1>8 DEF SetName
  <2> HIDE DEF renamed
  <2>4. caller' \in [Caller -> [pc : {"idle", "get", "age", "load", "loaded", "patch"},
                              list : List]]
        /\ \A d \in Caller : caller'[d].list.state <= world.state
    BY <2>2, <2>3
  <2> QED
    BY <1>8, <2>1, <2>4 DEF SetName
<1>9. ASSUME NEW c \in Caller, PatchName(c) PROVE IInv'
  <2>1. snapshot' \in [list : List, by : {"nobody", "load", "refresh"}]
        /\ snapshot'.by = snapshot.by
        /\ snapshot'.list.state = snapshot.list.state
    BY <1>9 DEF PatchName
  <2>2. PICK pc \in {"get", "idle"} :
            caller' = [caller EXCEPT ![c] = [Idle EXCEPT !.pc = pc]]
    BY <1>9 DEF PatchName
  <2> DEFINE back == [Idle EXCEPT !.pc = pc]
  <2>3. /\ caller' = [caller EXCEPT ![c] = back]
        /\ back.list = NoList
        /\ back \in [pc : {"get", "idle"}, list : List]
    BY <2>2, NoListType
  <2> HIDE DEF back
  <2>4. caller' \in [Caller -> [pc : {"idle", "get", "age", "load", "loaded", "patch"},
                              list : List]]
        /\ \A d \in Caller : caller'[d].list.state <= world.state
    BY <2>3, NoListType
  <2> QED
    BY <1>9, <2>1, <2>4 DEF PatchName
<1>10. CASE StateChanges
  BY <1>10 DEF StateChanges
<1>11. CASE Tick
  BY <1>11 DEF Tick
<1>12. CASE UNCHANGED vars
  BY <1>12 DEF vars
<1> QED
  BY <1>1, <1>2, <1>3, <1>4, <1>5, <1>6, <1>7, <1>8, <1>9, <1>10, <1>11,
     <1>12 DEF Next, Get, Refresh

(* The strengthening holds in every reachable state.                       *)
THEOREM Inductive == Spec => []IInv
  BY InitIInv, NextIInv, PTL DEF Spec

(* At most one background refresh runs, exactly while the flag is set.     *)
THEOREM OneRefresh == Spec => []SingleFlight
<1>1. IInv => SingleFlight
  BY DEF IInv
<1> QED
  BY <1>1, Inductive, PTL

(* No refresh puts back an older state than the refresh before it stored.  *)
THEOREM OrderedRefreshes == Spec => RefreshesInOrder
<1> DEFINE Step(b) ==
       RefreshStore(b) /\ snapshot.by = "refresh"
       /\ snapshot.list.ok /\ snapshot'.list.ok
           => snapshot'.list.state >= snapshot.list.state
<1>1. ASSUME IInv, NEW b \in Refresher PROVE Step(b)
  BY <1>1 DEF IInv, RefreshReadsLater, RefreshStore, Stored
<1>2. IInv /\ [Next]_vars => [\A b \in Refresher : Step(b)]_vars
  BY <1>1
<1> HIDE DEF Step
<1>3. Spec => [][\A b \in Refresher : Step(b)]_vars
  BY <1>2, Inductive, PTL DEF Spec
<1> QED
  BY <1>3 DEF RefreshesInOrder, Step
=============================================================================
