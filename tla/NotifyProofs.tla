---------------------------- MODULE NotifyProofs ----------------------------
(***************************************************************************)
(* The file, the flock and any number of observers implement the atomic    *)
(* store, crashes and failed saves included; and observers that compare in *)
(* the order they have read announce nothing twice.                        *)
(***************************************************************************)
EXTENDS Notify, FiniteSetTheorems, TLAPS

(* The types of what a comparison computes.                                *)
LEMMA RecordedType ==
    ASSUME NEW snap \in [Session -> Entry], NEW batch \in Batch
    PROVE  Recorded(snap, batch) \in [Session -> Entry]
  BY DEF Recorded, Before, notifiableState, Entry

LEMMA AnnouncedType ==
    ASSUME NEW snap \in [Session -> Entry], NEW batch \in Batch
    PROVE  Announced(snap, batch) \in [Session -> Nat]
<1> SUFFICES ASSUME NEW s \in Session
             PROVE  Announced(snap, batch)[s] \in Nat
  BY DEF Announced
<1> DEFINE firing == {n \in Reporting(batch, s) :
                        Fires(Before(snap[s], batch, s, n), notifiableState(batch[n][s]))}
<1>1. firing \subseteq 1..NSources
  BY DEF Reporting
<1>2. IsFiniteSet(1..NSources)
  BY FS_Interval, NotifyAssumption
<1>3. IsFiniteSet(firing)
  BY <1>1, <1>2, FS_Subset
<1>4. Cardinality(firing) \in Nat
  BY <1>3, FS_CardinalityType
<1> QED
  BY <1>4 DEF Announced

-----------------------------------------------------------------------------
LEMMA BlameInit == Init => BlameOK
  BY DEF Init, BlameOK

LEMMA InitIInv == Init => IInv
<1> SUFFICES ASSUME Init PROVE IInv
  OBVIOUS
<1>1. Ready \in [pc : {"gather", "lock", "load", "save", "unlock", "fire"},
                 source : 1..NSources, batch : Batch, snap : [Session -> Entry]]
  BY NotifyAssumption DEF Ready, Unread, Empty, Batch, State, Entry
<1>2. ObserversOK
  <2>1. state \in [Session -> State] /\ cached \in [Session -> State]
    BY DEF Init, State
  <2>2. store \in [Session -> Entry] /\ pending \in [Observer -> [Session -> Nat]]
    BY DEF Init, StoreInit, Nothing, Entry
  <2>3. moves \in 0..MaxMoves /\ lockedBy \in Observer \cup {None}
    BY NotifyAssumption DEF Init
  <2>4. entered \in [Session -> Nat] /\ fired \in [Session -> Nat]
    BY DEF Init, Nothing
  <2>5. obs \in [Observer -> [pc : {"gather", "lock", "load", "save", "unlock", "fire"},
                              source : 1..NSources, batch : Batch,
                              snap : [Session -> Entry]]]
    BY <1>1 DEF Init
  <2> QED
    BY <2>1, <2>2, <2>3, <2>4, <2>5 DEF ObserversOK
<1>3. HolderReadsLast
  BY NotifyAssumption DEF Init, HolderReadsLast, Critical, Ready, StoreInit
<1> QED
  BY <1>2, <1>3, BlameInit DEF IInv, TypeOK

ObsType == [Observer -> [pc : {"gather", "lock", "load", "save", "unlock", "fire"},
                         source : 1..NSources, batch : Batch,
                         snap : [Session -> Entry]]]

LEMMA ReadyType == Ready \in [pc : {"gather"}, source : {1}, batch : Batch,
                              snap : [Session -> Entry]]
  BY NotifyAssumption DEF Ready, Unread, Empty, Batch, State, Entry

LEMMA NextObservers == IInv /\ [Next]_vars => ObserversOK'
<1> SUFFICES ASSUME IInv, [Next]_vars PROVE ObserversOK'
  OBVIOUS
<1> USE NotifyAssumption DEF IInv, TypeOK, ObserversOK, world
<1>1. ASSUME NEW s \in Session, NEW new \in State, SessionMoves(s, new)
      PROVE  ObserversOK'
  <2>1. state' \in [Session -> State]
    BY <1>1 DEF SessionMoves
  <2>2. moves' \in 0..MaxMoves
    <3>1. moves < MaxMoves /\ moves' = moves + 1
      BY <1>1, Zenon DEF SessionMoves
    <3>2. MaxMoves \in Nat /\ moves \in 0..MaxMoves
      OBVIOUS
    <3> HIDE DEF IInv, TypeOK, ObserversOK
    <3> QED
      BY <3>1, <3>2
  <2>3. entered' = entered \/ entered' = [entered EXCEPT ![s] = @ + 1]
    BY <1>1, Zenon DEF SessionMoves
  <2>4. entered' \in [Session -> Nat]
    BY <2>3
  <2> QED
    BY <1>1, <2>1, <2>2, <2>4 DEF SessionMoves
<1>2. CASE CacheRefreshed
  BY <1>2 DEF CacheRefreshed
<1>3. ASSUME NEW o \in Observer, Gather(o) PROVE ObserversOK'
  <2>1. \A n \in 1..NSources : Reports(n) \subseteq [Session -> State]
    BY DEF Reports, Answer, Unread, State
  <2>2. PICK seen \in Reports(obs[o].source) :
           obs' = [obs EXCEPT
                   ![o].batch[obs[o].source] = seen,
                   ![o].source = IF @ < NSources THEN @ + 1 ELSE 1,
                   ![o].pc = IF obs[o].source < NSources THEN "gather" ELSE "lock"]
    BY <1>3, Zenon DEF Gather
  <2> DEFINE batch == [obs[o].batch EXCEPT ![obs[o].source] = seen]
             source == IF obs[o].source < NSources THEN obs[o].source + 1 ELSE 1
             pc == IF obs[o].source < NSources THEN "gather" ELSE "lock"
  <2>3. batch \in Batch
    BY <2>1 DEF Batch
  <2>4. source \in 1..NSources
    OBVIOUS
  <2>5. obs' = [obs EXCEPT ![o] = [obs[o] EXCEPT !.batch = batch,
                                  !.source = source, !.pc = pc]]
    BY <2>2
  <2> DEFINE next == [obs[o] EXCEPT !.batch = batch, !.source = source, !.pc = pc]
  <2>6. next \in [pc : {"gather", "lock"}, source : 1..NSources, batch : Batch,
                  snap : [Session -> Entry]]
    <3> HIDE DEF batch, source
    <3> QED
      BY <2>3, <2>4
  <2>7. obs' = [obs EXCEPT ![o] = next]
    BY <2>5
  <2>8. obs' \in ObsType
    <3> HIDE DEF next
    <3> QED
      BY <2>6, <2>7 DEF ObsType
  <2> QED
    BY <1>3, <2>8 DEF Gather, ObsType
<1>4. ASSUME NEW o \in Observer, Lock(o) PROVE ObserversOK'
  BY <1>4 DEF Lock
<1>5. ASSUME NEW o \in Observer, Load(o) PROVE ObserversOK'
  BY <1>5, ZenonT(30) DEF Load
<1>6. ASSUME NEW o \in Observer, Save(o) PROVE ObserversOK'
  <2> DEFINE unlocking == [Ready EXCEPT !.pc = "unlock"]
  <2>0. unlocking \in [pc : {"unlock"}, source : {1}, batch : Batch,
                       snap : [Session -> Entry]]
    BY ReadyType, SMTT(30) DEF Ready
  <2>1. obs' \in ObsType
    <3>1. obs' = [obs EXCEPT ![o] = unlocking]
      BY <1>6, Zenon DEF Save
    <3> HIDE DEF unlocking
    <3> QED
      BY <2>0, <3>1 DEF ObsType
  <2>2. obs[o].snap \in [Session -> Entry] /\ obs[o].batch \in Batch
    OBVIOUS
  <2>3. Announced(obs[o].snap, obs[o].batch) \in [Session -> Nat]
        /\ Recorded(obs[o].snap, obs[o].batch) \in [Session -> Entry]
    BY <2>2, RecordedType, AnnouncedType
  <2> QED
    BY <1>6, <2>1, <2>3 DEF Save, ObsType
<1>7. ASSUME NEW o \in Observer, SaveFails(o) PROVE ObserversOK'
  <2> DEFINE unlocking == [Ready EXCEPT !.pc = "unlock"]
  <2>0. unlocking \in [pc : {"unlock"}, source : {1}, batch : Batch,
                       snap : [Session -> Entry]]
    BY ReadyType, SMTT(30) DEF Ready
  <2>1. obs' \in ObsType
    <3>1. obs' = [obs EXCEPT ![o] = unlocking]
      BY <1>7, Zenon DEF SaveFails
    <3> HIDE DEF unlocking
    <3> QED
      BY <2>0, <3>1 DEF ObsType
  <2>2. obs[o].snap \in [Session -> Entry] /\ obs[o].batch \in Batch
    OBVIOUS
  <2>3. Announced(obs[o].snap, obs[o].batch) \in [Session -> Nat]
        /\ Recorded(obs[o].snap, obs[o].batch) \in [Session -> Entry]
    BY <2>2, RecordedType, AnnouncedType
  <2> QED
    BY <1>7, <2>1, <2>3 DEF SaveFails, ObsType
<1>8. ASSUME NEW o \in Observer, Unlock(o) PROVE ObserversOK'
  BY <1>8 DEF Unlock
<1>9. ASSUME NEW o \in Observer, NEW s \in Session, Fire(o, s) PROVE ObserversOK'
  BY <1>9 DEF Fire, Announce
<1>10. ASSUME NEW o \in Observer, Done(o) PROVE ObserversOK'
  BY <1>10, ReadyType DEF Done
<1>11. ASSUME NEW o \in Observer, Crash(o) PROVE ObserversOK'
  BY <1>11, ReadyType DEF Crash, Nothing
<1>12. CASE UNCHANGED vars
  BY <1>12 DEF vars
<1> QED
  BY <1>1, <1>2, <1>3, <1>4, <1>5, <1>6, <1>7, <1>8, <1>9, <1>10, <1>11,
     <1>12 DEF Next, Poll

LEMMA NextBlame == IInv /\ [Next]_vars => BlameOK'
<1> USE DEF IInv, TypeOK, BlameOK, blame
<1> SUFFICES ASSUME IInv, [Next]_vars PROVE BlameOK'
  OBVIOUS
<1>1. ASSUME NEW o \in Observer, Gather(o) PROVE BlameOK'
  BY <1>1 DEF Gather
<1>2. ASSUME NEW o \in Observer, Save(o) \/ SaveFails(o) \/ Crash(o) PROVE BlameOK'
  BY <1>2 DEF Save, SaveFails, Crash, Begun
<1>3. ASSUME NEW o \in Observer,
             Lock(o) \/ Load(o) \/ Unlock(o) \/ Done(o) \/ \E s \in Session : Fire(o, s)
      PROVE  BlameOK'
  BY <1>3 DEF Lock, Load, Unlock, Done, Fire
<1>4. ASSUME NEW s \in Session, NEW new \in State, SessionMoves(s, new)
      PROVE  BlameOK'
  BY <1>4 DEF SessionMoves
<1>5. CASE CacheRefreshed
  BY <1>5 DEF CacheRefreshed
<1>6. CASE UNCHANGED vars
  BY <1>6 DEF vars
<1> HIDE DEF IInv, TypeOK, BlameOK, blame
<1> QED
  BY <1>1, <1>2, <1>3, <1>4, <1>5, <1>6 DEF Next, Poll

LEMMA NextType == IInv /\ [Next]_vars => TypeOK'
  BY NextObservers, NextBlame DEF TypeOK

(* Only the holder of the flock is between reading the file and releasing  *)
(* it, so the file is what it read until it replaces it.                   *)
LEMMA NextIInv == IInv /\ [Next]_vars => IInv'
<1> SUFFICES ASSUME IInv, [Next]_vars PROVE HolderReadsLast'
  BY NextType DEF IInv
<1> USE NotifyAssumption DEF IInv, TypeOK, ObserversOK, HolderReadsLast, Critical
<1>1. ASSUME NEW s \in Session, NEW new \in State, SessionMoves(s, new)
      PROVE  HolderReadsLast'
  BY <1>1 DEF SessionMoves
<1>2. CASE CacheRefreshed
  BY <1>2 DEF CacheRefreshed
<1>3. ASSUME NEW o \in Observer, Gather(o) PROVE HolderReadsLast'
  <2>1. obs'[o].pc \in {"gather", "lock"}
        /\ \A p \in Observer \ {o} : obs'[p] = obs[p]
    BY <1>3 DEF Gather
  <2> QED
    BY <1>3, <2>1 DEF Gather
<1>4. ASSUME NEW o \in Observer, Lock(o) PROVE HolderReadsLast'
  BY <1>4 DEF Lock, Grants
<1>5. ASSUME NEW o \in Observer, Load(o) PROVE HolderReadsLast'
  BY <1>5 DEF Load
<1>6. ASSUME NEW o \in Observer, Save(o) PROVE HolderReadsLast'
  BY <1>6 DEF Save
<1>7. ASSUME NEW o \in Observer, SaveFails(o) PROVE HolderReadsLast'
  BY <1>7 DEF SaveFails
<1>8. ASSUME NEW o \in Observer, Unlock(o) PROVE HolderReadsLast'
  BY <1>8 DEF Unlock
<1>9. ASSUME NEW o \in Observer, NEW s \in Session, Fire(o, s)
      PROVE  HolderReadsLast'
  BY <1>9 DEF Fire, Announce
<1>10. ASSUME NEW o \in Observer, Done(o) PROVE HolderReadsLast'
  BY <1>10, ReadyType DEF Done
<1>11. ASSUME NEW o \in Observer, Crash(o) PROVE HolderReadsLast'
  BY <1>11, ReadyType DEF Crash
<1>12. CASE UNCHANGED vars
  BY <1>12 DEF vars, world
<1> QED
  BY <1>1, <1>2, <1>3, <1>4, <1>5, <1>6, <1>7, <1>8, <1>9, <1>10, <1>11,
     <1>12 DEF Next, Poll

(* Every variable keeps its type, and the lock protects the file.          *)
THEOREM Inductive == Spec => []IInv
  BY InitIInv, NextIInv, PTL DEF Spec

-----------------------------------------------------------------------------
(* Every step of an observer is a step of the atomic store or none.        *)
LEMMA StepStore == IInv /\ [Next]_vars => [StoreNext]_storeVars
<1> SUFFICES ASSUME IInv, [Next]_vars PROVE [StoreNext]_storeVars
  OBVIOUS
<1> USE DEF storeVars
<1>1. ASSUME NEW o \in Observer, Save(o) PROVE StoreNext
  <2>1. obs[o].snap = store /\ pending[o] = Nothing /\ obs[o].batch \in Batch
    BY <1>1 DEF Save, IInv, TypeOK, ObserversOK, HolderReadsLast
  <2>2. Apply(o, obs[o].batch)
    BY <1>1, <2>1 DEF Save, Apply
  <2> QED
    BY <2>1, <2>2 DEF StoreNext
<1>2. ASSUME NEW o \in Observer, SaveFails(o) PROVE [StoreNext]_storeVars
  <2>1. obs[o].snap = store /\ pending[o] = Nothing /\ obs[o].batch \in Batch
    BY <1>2 DEF SaveFails, IInv, TypeOK, ObserversOK, HolderReadsLast
  <2>2. ApplyUnrecorded(o, obs[o].batch) \/ UNCHANGED storeVars
    BY <1>2, <2>1 DEF SaveFails, ApplyUnrecorded
  <2> QED
    BY <2>1, <2>2 DEF StoreNext
<1>3. ASSUME NEW o \in Observer, NEW s \in Session, Fire(o, s) PROVE StoreNext
  BY <1>3 DEF Fire, StoreNext
<1>4. ASSUME NEW o \in Observer, Crash(o) PROVE StoreNext
  BY <1>4, ZenonT(30) DEF Crash, Lose, StoreNext
<1>5. ASSUME NEW o \in Observer,
             Gather(o) \/ Lock(o) \/ Load(o) \/ Unlock(o) \/ Done(o)
      PROVE  UNCHANGED storeVars
  BY <1>5, ZenonT(30) DEF Gather, Lock, Load, Unlock, Done
<1>6. ASSUME NEW s \in Session, NEW new \in State, SessionMoves(s, new)
      PROVE  UNCHANGED storeVars
  BY <1>6 DEF SessionMoves
<1>7. CASE CacheRefreshed
  BY <1>7 DEF CacheRefreshed
<1>8. CASE UNCHANGED vars
  BY <1>8 DEF vars
<1> QED
  BY <1>1, <1>2, <1>3, <1>4, <1>5, <1>6, <1>7, <1>8 DEF Next, Poll

(* Any number of observers, interleaved and crashing anywhere, and the     *)
(* file behave as the atomic store.                                        *)
THEOREM Refinement == Spec => ImplementsStore
<1>1. Init => StoreInit
  BY DEF Init
<1> QED
  BY <1>1, StepStore, Inductive, PTL DEF Spec, ImplementsStore, StoreSpec

-----------------------------------------------------------------------------
(* A set of positions has a last one.                                      *)
LEMMA LastPosition ==
    ASSUME NEW n \in Nat, NEW T \in SUBSET (1..n), T # {}
    PROVE  Max(T) \in T
<1> DEFINE R == OpToRel(<, Nat)
           U == {n - x : x \in T}
<1>1. U \subseteq Nat /\ U # {}
  <2>1. U # {}
    OBVIOUS
  <2> QED
    BY <2>1
<1>2. IsWellFoundedOn(R, Nat)
  BY NatLessThanWellFounded
<1>3. PICK u \in U : \A v \in U : ~ (<<v, u>> \in R)
  <2> HIDE DEF R, U
  <2> QED
    BY <1>1, <1>2, WFMin, Zenon
<1>4. \A v, w \in Nat : v < w => <<v, w>> \in R
  BY DEF OpToRel
<1>5. \A v \in U : v >= u
  <2> HIDE DEF R, U
  <2> SUFFICES ASSUME NEW v \in U, v < u PROVE FALSE
    BY <1>1
  <2>1. v \in Nat /\ u \in Nat
    BY <1>1
  <2>2. <<v, u>> \in R
    BY <1>4, <2>1
  <2> QED
    BY <1>3, <2>2, Zenon
<1>6. \E x \in T : \A y \in T : x >= y
  BY <1>5
<1> QED
  BY <1>6 DEF Max

LEMMA UnreadType == Unread \in Batch
  BY DEF Unread, Batch, State

(* An empty batch announces nothing.                                       *)
LEMMA NothingReported ==
    ASSUME NEW s \in Session, store \in [Session -> Entry]
    PROVE  /\ Announced(store, Unread)[s] = 0
           /\ Before(store[s], Unread, s, NSources + 1) = store[s]
           /\ Reporting(Unread, s) = {}
<1>1. Reporting(Unread, s) = {}
  BY DEF Reporting, Unread
<1>2. Before(store[s], Unread, s, NSources + 1) = store[s]
  BY <1>1 DEF Before
<1>3. Announced(store, Unread)[s] = 0
  BY <1>1, FS_EmptySet DEF Announced
<1> QED
  BY <1>1, <1>2, <1>3

(* What was recorded before a position depends on what was said before it. *)
LEMMA SaidBefore ==
    ASSUME NEW s \in Session, NEW a \in Batch, NEW b \in Batch, NEW entry, NEW n \in Nat,
           {m \in Reporting(a, s) : m < n} = {m \in Reporting(b, s) : m < n},
           \A m \in Reporting(a, s) : m < n => a[m] = b[m]
    PROVE  Before(entry, a, s, n) = Before(entry, b, s, n)
<1> DEFINE met == {m \in Reporting(a, s) : m < n}
<1>1. Before(entry, a, s, n) = IF met = {} THEN entry ELSE notifiableState(a[Max(met)][s])
  BY Zenon DEF Before
<1>2. Before(entry, b, s, n) = IF met = {} THEN entry ELSE notifiableState(b[Max(met)][s])
  BY Zenon DEF Before
<1>3. met # {} => Max(met) \in met
  <2>1. met \in SUBSET (1..NSources)
    BY DEF Reporting
  <2> QED
    BY <2>1, LastPosition, NotifyAssumption
<1>4. met # {} => a[Max(met)] = b[Max(met)]
  BY <1>3
<1> HIDE DEF met
<1> QED
  BY <1>1, <1>2, <1>4

(* The sources at which a comparison announces s.                          *)
Firing(entry, batch, s) ==
    {n \in Reporting(batch, s) : Fires(Before(entry, batch, s, n), notifiableState(batch[n][s]))}

LEMMA FiringType ==
    ASSUME NEW s \in Session, NEW batch \in Batch, NEW entry
    PROVE  /\ Firing(entry, batch, s) \subseteq Reporting(batch, s)
           /\ Reporting(batch, s) \subseteq 1..NSources
           /\ IsFiniteSet(Firing(entry, batch, s))
           /\ Cardinality(Firing(entry, batch, s)) \in 0..NSources
<1>1. Firing(entry, batch, s) \subseteq Reporting(batch, s) /\ Reporting(batch, s) \subseteq 1..NSources
  BY DEF Firing, Reporting
<1>2. NSources \in Int /\ 1 \in Int /\ NSources > 0
  BY NotifyAssumption
<1>3. IsFiniteSet(1..NSources) /\ Cardinality(1..NSources) = NSources
  BY <1>2, FS_Interval
<1>4. Firing(entry, batch, s) \in SUBSET (1..NSources)
  BY <1>1
<1>5. IsFiniteSet(Firing(entry, batch, s)) /\ Cardinality(Firing(entry, batch, s)) <= NSources
  BY <1>3, <1>4, FS_Subset
<1>6. Cardinality(Firing(entry, batch, s)) \in Nat
  BY <1>5, FS_CardinalityType
<1> QED
  BY <1>1, <1>5, <1>6, NotifyAssumption

(* A source with nothing to say changes nothing.                           *)
LEMMA SilentSource ==
    ASSUME NEW s \in Session, NEW batch \in Batch, NEW read \in Batch, NEW entry,
           NEW k \in 1..NSources, read[k][s] = "absent",
           \A n \in 1..NSources : n # k => read[n] = batch[n],
           \A n \in Reporting(batch, s) : n < k
    PROVE  /\ Firing(entry, read, s) = Firing(entry, batch, s)
           /\ Before(entry, read, s, NSources + 1) = Before(entry, batch, s, NSources + 1)
<1> USE NotifyAssumption
<1>1. Reporting(read, s) = Reporting(batch, s)
  BY DEF Reporting
<1>2. \A n \in Reporting(read, s) : read[n] = batch[n]
  BY <1>1 DEF Reporting
<1>3. ASSUME NEW n \in Nat PROVE Before(entry, read, s, n) = Before(entry, batch, s, n)
  BY <1>1, <1>2, SaidBefore
<1>4. \A n \in Reporting(read, s) : n \in Nat
  BY DEF Reporting
<1> QED
  BY <1>1, <1>2, <1>3, <1>4 DEF Firing

(* A source that says what is so announces it if it is not recorded.       *)
LEMMA SpeakingSource ==
    ASSUME NEW s \in Session, NEW batch \in Batch, NEW read \in Batch, NEW entry,
           NEW k \in 1..NSources, read[k][s] # "absent",
           \A n \in 1..NSources : n # k => read[n] = batch[n],
           \A n \in Reporting(batch, s) : n < k
    PROVE  /\ Before(entry, read, s, NSources + 1) = notifiableState(read[k][s])
           /\ k \notin Firing(entry, batch, s)
           /\ Firing(entry, read, s) = Firing(entry, batch, s) \cup
                (IF Fires(Before(entry, batch, s, NSources + 1), notifiableState(read[k][s]))
                 THEN {k} ELSE {})
<1> USE NotifyAssumption
<1>1. Reporting(read, s) = Reporting(batch, s) \cup {k}
  BY DEF Reporting
<1>2. \A n \in Reporting(batch, s) : n \in 1..NSources /\ n < k /\ n # k /\ read[n] = batch[n]
  BY DEF Reporting
<1>3. ASSUME NEW n \in 1..k PROVE Before(entry, read, s, n) = Before(entry, batch, s, n)
  <2>1. {m \in Reporting(read, s) : m < n} = {m \in Reporting(batch, s) : m < n}
    BY <1>1
  <2>2. \A m \in Reporting(read, s) : m < n => read[m] = batch[m]
    BY <1>1, <1>2
  <2> QED
    BY <2>1, <2>2, SaidBefore
<1>4. Before(entry, batch, s, k) = Before(entry, batch, s, NSources + 1)
  <2>1. {m \in Reporting(batch, s) : m < k} = {m \in Reporting(batch, s) : m < NSources + 1}
    BY <1>2
  <2> QED
    BY <2>1, Zenon DEF Before
<1>5. Before(entry, read, s, NSources + 1) = notifiableState(read[k][s])
  <2> DEFINE met == {m \in Reporting(read, s) : m < NSources + 1}
  <2>1. k \in met /\ met \in SUBSET (1..NSources) /\ \A m \in met : k >= m
    BY <1>1, <1>2
  <2>2. Before(entry, read, s, NSources + 1)
          = IF met = {} THEN entry ELSE notifiableState(read[Max(met)][s])
    BY Zenon DEF Before
  <2> HIDE DEF met
  <2>3. Max(met) \in met
    BY <2>1, LastPosition
  <2>4. Max(met) >= k
    BY <2>1, Zenon DEF Max
  <2>5. Max(met) = k
    <3>1. PICK x \in met : x = Max(met)
      BY <2>3, Zenon
    <3>2. x >= k
      BY <2>4, <3>1, Zenon
    <3>3. x = k
      BY <2>1, <3>2
    <3> QED
      BY <3>1, <3>3, Zenon
  <2> QED
    BY <2>1, <2>2, <2>5
<1>6. k \notin Firing(entry, batch, s)
  BY <1>2 DEF Firing
<1>7. ASSUME NEW n \in Reporting(batch, s)
      PROVE  n \in Firing(entry, read, s) <=> n \in Firing(entry, batch, s)
  <2>1. n \in 1..k /\ read[n] = batch[n] /\ n \in Reporting(read, s)
    BY <1>1, <1>2
  <2>2. Before(entry, read, s, n) = Before(entry, batch, s, n)
    BY <1>3, <2>1
  <2> QED
    BY <2>1, <2>2 DEF Firing
<1>8. k \in Firing(entry, read, s)
        <=> Fires(Before(entry, batch, s, NSources + 1), notifiableState(read[k][s]))
  <2>1. k \in 1..k
    OBVIOUS
  <2>2. Before(entry, read, s, k) = Before(entry, batch, s, NSources + 1)
    BY <1>3, <1>4, <2>1
  <2>3. k \in Reporting(read, s)
    BY <1>1
  <2> QED
    BY <2>2, <2>3 DEF Firing
<1>9. /\ Firing(entry, read, s) \subseteq Reporting(batch, s) \cup {k}
      /\ Firing(entry, batch, s) \subseteq Reporting(batch, s)
  BY <1>1 DEF Firing
<1> QED
  BY <1>5, <1>6, <1>7, <1>8, <1>9

LEMMA ComingIs ==
    ASSUME NEW s \in Session, NEW batch
    PROVE  LET fires == Fires(Before(store[s], batch, s, NSources + 1), notifiableState(state[s]))
           IN  /\ fires => Coming(s, batch) = Cardinality(Firing(store[s], batch, s)) + 1
               /\ ~ fires => Coming(s, batch) = Cardinality(Firing(store[s], batch, s)) + 0
<1>1. Announced(store, batch)[s] = Cardinality(Firing(store[s], batch, s))
  BY DEF Announced, Firing
<1> QED
  BY <1>1, Zenon DEF Coming

(* So reading on what is so, or nothing, announces what was coming anyway. *)
LEMMA ReadingOn ==
    ASSUME NEW s \in Session, NEW batch \in Batch, NEW k \in 1..NSources,
           NEW seen \in [Session -> State], seen[s] \in {"absent", state[s]},
           \A n \in k..NSources : batch[n] = Unread[n]
    PROVE  Coming(s, [batch EXCEPT ![k] = seen]) = Coming(s, batch)
<1> USE NotifyAssumption
<1> DEFINE read == [batch EXCEPT ![k] = seen]
           entry == store[s]
           cur == notifiableState(state[s])
<1>1. read \in Batch /\ read[k] = seen /\ \A n \in 1..NSources : n # k => read[n] = batch[n]
  BY DEF Batch
<1>2. \A n \in Reporting(batch, s) : n < k
  BY DEF Reporting, Unread, Batch
<1> HIDE DEF read
<1> DEFINE c(b) == Cardinality(Firing(entry, b, s))
           f(b) == Fires(Before(entry, b, s, NSources + 1), cur)
<1>3. ASSUME NEW b \in {batch, read}
      PROVE  (f(b) => Coming(s, b) = c(b) + 1) /\ (~ f(b) => Coming(s, b) = c(b) + 0)
  BY ComingIs
<1>4. CASE seen[s] = "absent"
  <2>1. /\ Firing(entry, read, s) = Firing(entry, batch, s)
        /\ Before(entry, read, s, NSources + 1) = Before(entry, batch, s, NSources + 1)
    BY <1>1, <1>2, <1>4, SilentSource
  <2>2. (f(read) <=> f(batch)) /\ c(read) = c(batch)
    BY <2>1
  <2>3. Coming(s, read) = Coming(s, batch)
    <3> HIDE DEF c, f
    <3> QED
      BY <1>3, <2>2
  <2> QED
    BY <2>3 DEF read
<1>5. CASE seen[s] # "absent"
  <2> HIDE DEF entry
  <2>0. read[k][s] = state[s] /\ read[k][s] # "absent"
    BY <1>1, <1>5
  <2>1. /\ Before(entry, read, s, NSources + 1) = cur
        /\ k \notin Firing(entry, batch, s)
        /\ Firing(entry, read, s) = Firing(entry, batch, s) \cup
             (IF Fires(Before(entry, batch, s, NSources + 1), cur) THEN {k} ELSE {})
    BY <1>1, <1>2, <2>0, SpeakingSource
  <2>2. ~ Fires(Before(entry, read, s, NSources + 1), cur)
    BY <2>1 DEF Fires
  <2>3. IsFiniteSet(Firing(entry, batch, s)) /\ Cardinality(Firing(entry, batch, s)) \in Nat
    BY FiringType
  <2>4. Cardinality(Firing(entry, batch, s) \cup {k}) = Cardinality(Firing(entry, batch, s)) + 1
    BY <2>1, <2>3, FS_AddElement
  <2>5. c(batch) \in Nat /\ ~ f(read)
    BY <2>2, <2>3
  <2>6. (f(batch) => c(read) = c(batch) + 1) /\ (~ f(batch) => c(read) = c(batch))
    <3>1. CASE f(batch)
      <4>1. Firing(entry, read, s) = Firing(entry, batch, s) \cup {k}
        BY <2>1, <3>1
      <4> QED
        BY <2>4, <3>1, <4>1
    <3>2. CASE ~ f(batch)
      <4>1. Firing(entry, read, s) = Firing(entry, batch, s)
        BY <2>1, <3>2
      <4> QED
        BY <3>2, <4>1
    <3> HIDE DEF c, f
    <3> QED
      BY <3>1, <3>2
  <2>7. Coming(s, read) = Coming(s, batch)
    <3> HIDE DEF c, f
    <3> QED
      BY <1>3, <2>5, <2>6
  <2> QED
    BY <2>7 DEF read
<1> QED
  BY <1>4, <1>5 DEF read

-----------------------------------------------------------------------------
(* What is coming, by what is recorded of s and how s is now.              *)
Expected(entry, batch, s, cur) ==
    Cardinality(Firing(entry, batch, s))
    + IF Fires(Before(entry, batch, s, NSources + 1), cur) THEN 1 ELSE 0

LEMMA ExpectedIs ==
    ASSUME NEW s \in Session, NEW batch
    PROVE  /\ Announced(store, batch)[s] = Cardinality(Firing(store[s], batch, s))
           /\ Coming(s, batch) = Expected(store[s], batch, s, notifiableState(state[s]))
           /\ Coming(s, batch)' = Expected(store'[s], batch, s, notifiableState(state'[s]))
<1>1. Announced(store, batch)[s] = Cardinality(Firing(store[s], batch, s))
  BY DEF Announced, Firing
<1>2. Announced(store', batch)[s] = Cardinality(Firing(store'[s], batch, s))
  BY DEF Announced, Firing
<1> QED
  BY <1>1, <1>2, Zenon DEF Coming, Expected

LEMMA ExpectedType ==
    ASSUME NEW s \in Session, NEW batch \in Batch, NEW entry, NEW cur
    PROVE  LET c == Cardinality(Firing(entry, batch, s))
               fires == Fires(Before(entry, batch, s, NSources + 1), cur)
           IN  /\ c \in Nat /\ Expected(entry, batch, s, cur) \in {c, c + 1}
               /\ fires => Expected(entry, batch, s, cur) = c + 1
               /\ ~ fires => Expected(entry, batch, s, cur) = c
<1> DEFINE c == Cardinality(Firing(entry, batch, s))
           fires == Fires(Before(entry, batch, s, NSources + 1), cur)
<1>1. c \in Nat
  BY FiringType
<1>2. (fires => Expected(entry, batch, s, cur) = c + 1) /\ (~ fires => Expected(entry, batch, s, cur) = c + 0)
  BY Zenon DEF Expected
<1> HIDE DEF c, fires
<1>3. c + 0 = c
  BY <1>1
<1>4. /\ fires => Expected(entry, batch, s, cur) = c + 1
      /\ ~ fires => Expected(entry, batch, s, cur) = c
  BY <1>2, <1>3, Zenon
<1> QED
  BY <1>1, <1>4, Zenon DEF c, fires

LEMMA UnreadExpects ==
    ASSUME NEW s \in Session, NEW entry, NEW cur
    PROVE  /\ Fires(entry, cur) => Expected(entry, Unread, s, cur) = 1
           /\ ~ Fires(entry, cur) => Expected(entry, Unread, s, cur) = 0
<1>1. Reporting(Unread, s) = {}
  BY DEF Reporting, Unread
<1>2. Before(entry, Unread, s, NSources + 1) = entry
  BY <1>1, Zenon DEF Before
<1>3. Firing(entry, Unread, s) = {}
  BY <1>1 DEF Firing
<1>4. Cardinality(Firing(entry, Unread, s)) = 0
  BY <1>3, FS_EmptySet
<1>5. Unread \in Batch
  BY UnreadType
<1> QED
  BY <1>2, <1>4, <1>5, ExpectedType

-----------------------------------------------------------------------------
(* Claims follow what is pending.                                          *)
LEMMA ClaimsGrow ==
    ASSUME NEW o \in Observer, NEW s \in Session, NEW count \in [Session -> 0..NSources],
           pending \in [Observer -> [Session -> Nat]], pending[o] = Nothing,
           pending' = [pending EXCEPT ![o] = count], IsFiniteSet(Claims(s))
    PROVE  /\ IsFiniteSet(Claims(s)')
           /\ Cardinality(Claims(s)') = Cardinality(Claims(s)) + count[s]
           /\ Cardinality(Claims(s)) \in Nat
<1> USE NotifyAssumption
<1> DEFINE mine == {o} \X (1..count[s])
<1>1. Claims(s)' = Claims(s) \cup mine
  <2>1. Claims(s)' = {c \in Observer \X (1..NSources) : c[2] <= pending'[c[1]][s]}
    BY DEF Claims
  <2>2. mine \subseteq Observer \X (1..NSources)
    OBVIOUS
  <2>3. ASSUME NEW c \in Observer \X (1..NSources)
        PROVE  c[2] <= pending'[c[1]][s] <=> c[2] <= pending[c[1]][s] \/ c \in mine
    <3>1. PICK p \in Observer, i \in 1..NSources : c = <<p, i>>
      OBVIOUS
    <3>2. CASE p = o
      <4>1. pending'[p][s] = count[s] /\ pending[p][s] = 0
        BY <3>2 DEF Nothing
      <4>2. c \in mine <=> i \in 1..count[s]
        BY <3>1, <3>2
      <4> QED
        BY <3>1, <4>1, <4>2
    <3>3. CASE p # o
      BY <3>1, <3>3
    <3> QED
      BY <3>2, <3>3
  <2> HIDE DEF mine
  <2> QED
    BY <2>1, <2>2, <2>3 DEF Claims
<1>2. Claims(s) \cap mine = {}
  BY DEF Claims, Nothing
<1>3. count[s] \in Nat /\ count[s] \in Int /\ 1 \in Int
  OBVIOUS
<1>4. IsFiniteSet(1..count[s]) /\ Cardinality(1..count[s]) = count[s]
  BY <1>3, FS_Interval
<1>5. IsFiniteSet({o}) /\ Cardinality({o}) = 1
  BY FS_Singleton
<1>6. IsFiniteSet(mine) /\ Cardinality(mine) = 1 * count[s]
  BY <1>4, <1>5, FS_Product
<1>7. Cardinality(Claims(s)) \in Nat
  BY FS_CardinalityType
<1> HIDE DEF mine
<1>8. /\ IsFiniteSet(Claims(s) \cup mine)
      /\ Cardinality(Claims(s) \cup mine)
           = Cardinality(Claims(s)) + Cardinality(mine) - Cardinality(Claims(s) \cap mine)
  BY <1>6, FS_Union
<1>9. Cardinality(Claims(s) \cap mine) = 0
  BY <1>2, FS_EmptySet
<1> QED
  BY <1>1, <1>3, <1>6, <1>7, <1>8, <1>9

LEMMA ClaimsShrink ==
    ASSUME NEW o \in Observer, NEW s \in Session,
           pending \in [Observer -> [Session -> Nat]],
           pending' = [pending EXCEPT ![o] = Nothing], IsFiniteSet(Claims(s))
    PROVE  /\ IsFiniteSet(Claims(s)')
           /\ Cardinality(Claims(s)') <= Cardinality(Claims(s))
           /\ Cardinality(Claims(s)') \in Nat /\ Cardinality(Claims(s)) \in Nat
<1>1. Claims(s)' \in SUBSET Claims(s)
  <2>1. \A p \in Observer : pending'[p][s] <= pending[p][s] /\ pending'[p][s] \in Nat
    BY DEF Nothing
  <2> QED
    BY <2>1, NotifyAssumption DEF Claims
<1> QED
  BY <1>1, FS_Subset, FS_CardinalityType

LEMMA ClaimAnnounced ==
    ASSUME NEW o \in Observer, NEW s \in Session, NEW t \in Session,
           pending \in [Observer -> [Session -> Nat]], FewClaims, pending[o][s] > 0,
           pending' = [pending EXCEPT ![o][s] = @ - 1], IsFiniteSet(Claims(t))
    PROVE  /\ IsFiniteSet(Claims(t)')
           /\ Cardinality(Claims(t)') = Cardinality(Claims(t)) - IF s = t THEN 1 ELSE 0
           /\ Cardinality(Claims(t)) \in Nat
<1> USE NotifyAssumption
<1>1. Claims(t)' = {c \in Observer \X (1..NSources) : c[2] <= pending'[c[1]][t]}
  BY DEF Claims
<1>2. CASE s # t
  <2>1. \A p \in Observer : pending'[p][t] = pending[p][t]
    BY <1>2
  <2>2. Claims(t)' = Claims(t)
    BY <1>1, <2>1 DEF Claims
  <2> QED
    BY <1>2, <2>2, FS_CardinalityType
<1>3. CASE s = t
  <2> DEFINE last == <<o, pending[o][s]>>
  <2>1. last \in Claims(s)
    BY DEF Claims, FewClaims
  <2>2. Claims(s)' = Claims(s) \ {last}
    <3>1. ASSUME NEW c \in Observer \X (1..NSources)
          PROVE  c[2] <= pending'[c[1]][s] <=> c[2] <= pending[c[1]][s] /\ c # last
      <4>1. PICK p \in Observer, i \in 1..NSources : c = <<p, i>>
        OBVIOUS
      <4>2. CASE p = o
        BY <4>1, <4>2
      <4>3. CASE p # o
        BY <4>1, <4>3
      <4> QED
        BY <4>2, <4>3
    <3> HIDE DEF last
    <3> QED
      BY <1>1, <1>3, <3>1 DEF Claims
  <2> HIDE DEF last
  <2>3. /\ IsFiniteSet(Claims(s) \ {last})
        /\ Cardinality(Claims(s) \ {last}) = Cardinality(Claims(s)) - 1
    BY <1>3, <2>1, FS_RemoveElement
  <2> QED
    BY <1>3, <2>2, <2>3, FS_CardinalityType
<1> QED
  BY <1>2, <1>3

-----------------------------------------------------------------------------
LEMMA InitInOrder == Init => InOrder
<1> SUFFICES ASSUME Init PROVE InOrder
  OBVIOUS
<1>1. \A o \in Observer : obs[o].pc = "gather" /\ obs[o].batch = Unread
  BY DEF Init, Ready
<1>2. ReadSoFar
  BY <1>1 DEF ReadSoFar
<1>3. \A o \in Observer, s \in Session : pending[o][s] = 0
  BY DEF Init, StoreInit, Nothing
<1>4. FewClaims
  BY <1>3, NotifyAssumption DEF FewClaims
<1>5. \A s \in Session : Claims(s) = {}
  BY <1>3, NotifyAssumption DEF Claims
<1>6. \A s \in Session : IsFiniteSet(Claims(s)) /\ Cardinality(Claims(s)) = 0
  BY <1>5, FS_EmptySet
<1>7. ASSUME NEW s \in Session, NEW batch \in Current
      PROVE  fired[s] + Cardinality(Claims(s)) + Coming(s, batch) <= entered[s]
  <2>1. batch = Unread
    BY <1>1, <1>7 DEF Current
  <2>2. store[s] = "new" /\ fired[s] = 0 /\ entered[s] = 0
    BY DEF Init, StoreInit, Nothing
  <2>3. ~ Fires(store[s], notifiableState(state[s]))
    BY <2>2 DEF Fires
  <2>4. Coming(s, batch) = 0
    BY <2>1, <2>3, ExpectedIs, UnreadExpects
  <2> QED
    BY <1>6, <2>2, <2>4
<1>8. Entitled /\ ClaimsFinite
  BY <1>6, <1>7 DEF Entitled, ClaimsFinite
<1> QED
  BY <1>2, <1>4, <1>8 DEF InOrder

(* What a reading observer has asked so far.                               *)
LEMMA NextReadSoFar == IInv /\ ReadSoFar /\ [Next]_vars => ReadSoFar'
<1> SUFFICES ASSUME IInv, ReadSoFar, [Next]_vars PROVE ReadSoFar'
  OBVIOUS
<1> USE DEF IInv, TypeOK, ObserversOK, ReadSoFar
<1>1. ASSUME NEW o \in Observer, Gather(o) PROVE ReadSoFar'
  <2> DEFINE k == obs[o].source
  <2>1. PICK seen \in Reports(k) :
           obs' = [obs EXCEPT
                   ![o].batch[k] = seen,
                   ![o].source = IF @ < NSources THEN @ + 1 ELSE 1,
                   ![o].pc = IF k < NSources THEN "gather" ELSE "lock"]
    BY <1>1, Zenon DEF Gather
  <2>2. /\ obs'[o].pc = IF k < NSources THEN "gather" ELSE "lock"
        /\ obs'[o].source = IF k < NSources THEN k + 1 ELSE 1
        /\ obs'[o].batch = [obs[o].batch EXCEPT ![k] = seen]
        /\ \A p \in Observer : p # o => obs'[p] = obs[p]
    BY <2>1
  <2>3. ASSUME obs'[o].pc = "gather", NEW n \in obs'[o].source..NSources
        PROVE  obs'[o].batch[n] = Unread[n]
    <3>1. k \in 1..NSources /\ k < NSources /\ n \in k..NSources /\ n # k
      BY <2>2, <2>3, NotifyAssumption
    <3>2. obs[o].batch[n] = Unread[n]
      BY <1>1, <3>1 DEF Gather
    <3>3. obs[o].batch \in Batch
      OBVIOUS
    <3> HIDE DEF k
    <3> QED
      BY <2>2, <3>1, <3>2, <3>3 DEF Batch
  <2>4. obs'[o].pc \notin {"unlock", "fire"}
    BY <2>2
  <2>5. ASSUME NEW p \in Observer
        PROVE  /\ obs'[p].pc = "gather" =>
                    \A n \in obs'[p].source..NSources : obs'[p].batch[n] = Unread[n]
               /\ obs'[p].pc \in {"unlock", "fire"} => obs'[p].batch = Unread
    <3>1. CASE p = o
      BY <2>3, <2>4, <3>1
    <3>2. CASE p # o
      BY <2>2, <3>2
    <3> QED
      BY <3>1, <3>2
  <2> HIDE DEF IInv
  <2> QED
    BY <2>5
<1>2. ASSUME NEW o \in Observer, Save(o) \/ SaveFails(o) PROVE ReadSoFar'
  <2>1. obs' = [obs EXCEPT ![o] = [Ready EXCEPT !.pc = "unlock"]]
    BY <1>2 DEF Save, SaveFails
  <2>2. obs'[o].batch = Unread /\ obs'[o].pc = "unlock"
        /\ \A p \in Observer : p # o => obs'[p] = obs[p]
    BY <2>1 DEF Ready
  <2> HIDE DEF IInv, TypeOK, ObserversOK
  <2> QED
    BY <2>2
<1>3. ASSUME NEW o \in Observer, Done(o) \/ Crash(o) PROVE ReadSoFar'
  <2>1. obs' = [obs EXCEPT ![o] = Ready]
    BY <1>3 DEF Done, Crash
  <2>2. obs'[o].batch = Unread /\ obs'[o].pc = "gather"
        /\ \A p \in Observer : p # o => obs'[p] = obs[p]
    BY <2>1 DEF Ready
  <2> HIDE DEF IInv, TypeOK, ObserversOK
  <2> QED
    BY <2>2
<1>4. ASSUME NEW o \in Observer, Lock(o) \/ Load(o) \/ Unlock(o) PROVE ReadSoFar'
  <2>1. /\ \A p \in Observer : obs'[p].batch = obs[p].batch /\ obs'[p].source = obs[p].source
        /\ \A p \in Observer : p # o => obs'[p] = obs[p]
        /\ obs'[o].pc # "gather"
        /\ obs'[o].pc \in {"unlock", "fire"} => obs[o].pc \in {"unlock", "fire"}
    <3>1. CASE Lock(o)
      BY <3>1 DEF Lock
    <3>2. CASE Load(o)
      BY <3>2 DEF Load
    <3>3. CASE Unlock(o)
      BY <3>3 DEF Unlock
    <3> QED
      BY <1>4, <3>1, <3>2, <3>3
  <2> HIDE DEF IInv, TypeOK, ObserversOK
  <2> QED
    BY <2>1
<1>5. CASE UNCHANGED obs
  BY <1>5
<1>6. ASSUME NEW o \in Observer, NEW s \in Session, Fire(o, s) PROVE UNCHANGED obs
  BY <1>6 DEF Fire
<1>7. ASSUME NEW s \in Session, NEW new \in State, SessionMoves(s, new) PROVE UNCHANGED obs
  BY <1>7 DEF SessionMoves
<1>8. CacheRefreshed \/ UNCHANGED vars => UNCHANGED obs
  BY DEF CacheRefreshed, vars
<1> HIDE DEF IInv, ReadSoFar
<1> QED
  BY <1>1, <1>2, <1>3, <1>4, <1>5, <1>6, <1>7, <1>8 DEF Next, Poll

(* What a comparison announces of a session has a place among the sources. *)
LEMMA AnnouncedFew ==
    ASSUME NEW o \in Observer, IInv
    PROVE  Announced(obs[o].snap, obs[o].batch) \in [Session -> 0..NSources]
<1>1. obs[o].batch \in Batch
  BY DEF IInv, TypeOK, ObserversOK
<1>2. ASSUME NEW s \in Session
      PROVE  Announced(obs[o].snap, obs[o].batch)[s] = Cardinality(Firing(obs[o].snap[s], obs[o].batch, s))
  BY DEF Announced, Firing
<1>3. ASSUME NEW s \in Session
      PROVE  Announced(obs[o].snap, obs[o].batch)[s] \in 0..NSources
  BY <1>1, <1>2, FiringType
<1>4. Announced(obs[o].snap, obs[o].batch) = [s \in Session |-> Announced(obs[o].snap, obs[o].batch)[s]]
  BY DEF Announced
<1> QED
  BY <1>3, <1>4

(* An observer that saves, or fails to, adds what it announces.            *)
LEMMA SaveClaims ==
    ASSUME NEW o \in Observer, IInv, ClaimsFinite, Save(o) \/ SaveFails(o), NEW s \in Session
    PROVE  LET more == Cardinality(Firing(store[s], obs[o].batch, s))
           IN  /\ IsFiniteSet(Claims(s)')
               /\ Cardinality(Claims(s)') = Cardinality(Claims(s)) + more \/ pending' = pending
               /\ Cardinality(Claims(s)) \in Nat /\ more \in Nat
<1> DEFINE count == Announced(obs[o].snap, obs[o].batch)
<1>1. obs[o].snap = store /\ pending[o] = Nothing /\ obs[o].batch \in Batch
      /\ pending \in [Observer -> [Session -> Nat]]
  BY DEF IInv, TypeOK, ObserversOK, HolderReadsLast, Save, SaveFails
<1>2. count \in [Session -> 0..NSources]
  BY AnnouncedFew
<1>3. count[s] = Cardinality(Firing(store[s], obs[o].batch, s))
  BY <1>1 DEF Announced, Firing
<1>4. IsFiniteSet(Claims(s)) /\ Cardinality(Claims(s)) \in Nat
  BY FS_CardinalityType DEF ClaimsFinite
<1>5. CASE pending' = [pending EXCEPT ![o] = count]
  <2> HIDE DEF count
  <2>1. IsFiniteSet(Claims(s)') /\ Cardinality(Claims(s)') = Cardinality(Claims(s)) + count[s]
    BY <1>1, <1>2, <1>4, <1>5, ClaimsGrow
  <2>2. count[s] \in Nat
    BY <1>2
  <2> QED
    BY <1>3, <1>4, <2>1, <2>2, Zenon
<1>6. CASE pending' = pending
  <2>1. Claims(s)' = Claims(s)
    BY <1>6 DEF Claims
  <2> QED
    BY <1>2, <1>3, <1>4, <1>6, <2>1
<1> QED
  BY <1>5, <1>6 DEF Save, SaveFails

LEMMA NextClaims ==
    IInv /\ FewClaims /\ ClaimsFinite /\ [Next]_vars => FewClaims' /\ ClaimsFinite'
<1> SUFFICES ASSUME IInv, FewClaims, ClaimsFinite, [Next]_vars
             PROVE  FewClaims' /\ ClaimsFinite'
  OBVIOUS
<1>0. pending \in [Observer -> [Session -> Nat]]
  BY DEF IInv, TypeOK, ObserversOK
<1>1. CASE pending' = pending
  BY <1>1 DEF FewClaims, ClaimsFinite, Claims
<1>2. ASSUME NEW o \in Observer, Save(o) \/ SaveFails(o) PROVE FewClaims' /\ ClaimsFinite'
  <2> DEFINE count == Announced(obs[o].snap, obs[o].batch)
  <2>1. count \in [Session -> 0..NSources]
    BY AnnouncedFew
  <2>2. pending' = pending \/ pending' = [pending EXCEPT ![o] = count]
    BY <1>2 DEF Save, SaveFails
  <2>3. FewClaims'
    <3> HIDE DEF count
    <3> QED
      BY <1>0, <2>1, <2>2, NotifyAssumption DEF FewClaims
  <2>4. ClaimsFinite'
    BY <1>2, SaveClaims DEF ClaimsFinite
  <2> QED
    BY <2>3, <2>4
<1>3. ASSUME NEW o \in Observer, NEW s \in Session, Fire(o, s)
      PROVE  FewClaims' /\ ClaimsFinite'
  <2>1. pending[o][s] > 0 /\ pending' = [pending EXCEPT ![o][s] = @ - 1]
    BY <1>3 DEF Fire, Announce
  <2>2. FewClaims'
    BY <1>0, <2>1, NotifyAssumption DEF FewClaims
  <2>3. ClaimsFinite'
    BY <1>0, <2>1, ClaimAnnounced DEF ClaimsFinite
  <2> QED
    BY <2>2, <2>3
<1>4. ASSUME NEW o \in Observer, Crash(o) PROVE FewClaims' /\ ClaimsFinite'
  <2>1. pending' = [pending EXCEPT ![o] = Nothing]
    BY <1>4 DEF Crash
  <2>2. FewClaims'
    BY <1>0, <2>1, NotifyAssumption DEF FewClaims, Nothing
  <2>3. ClaimsFinite'
    BY <1>0, <2>1, ClaimsShrink DEF ClaimsFinite
  <2> QED
    BY <2>2, <2>3
<1>5. ASSUME NEW o \in Observer, Gather(o) \/ Lock(o) \/ Load(o) \/ Unlock(o) \/ Done(o)
      PROVE  pending' = pending
  BY <1>5, ZenonT(30) DEF Gather, Lock, Load, Unlock, Done
<1>6. ASSUME NEW s \in Session, NEW new \in State, SessionMoves(s, new) PROVE pending' = pending
  BY <1>6 DEF SessionMoves
<1>7. CacheRefreshed \/ UNCHANGED vars => pending' = pending
  BY DEF CacheRefreshed, vars
<1> QED
  BY <1>1, <1>2, <1>3, <1>4, <1>5, <1>6, <1>7 DEF Next, Poll

LEMMA AllUnread ==
    ASSUME NEW batch \in Batch, \A n \in 1..NSources : batch[n] = Unread[n]
    PROVE  batch = Unread
  BY DEF Batch, Unread

LEMMA NextEntitled == IInv /\ InOrder /\ [Next]_vars => Entitled'
<1> SUFFICES ASSUME IInv, InOrder, [Next]_vars, "repeated" \notin flaws',
                    NEW s \in Session, NEW batch \in Current'
             PROVE  fired'[s] + Cardinality(Claims(s)') + Coming(s, batch)' <= entered'[s]
  BY DEF Entitled
<1> DEFINE cur == notifiableState(state[s])
           Goal == fired'[s] + Cardinality(Claims(s)') + Coming(s, batch)' <= entered'[s]
<1>0. /\ IsFiniteSet(Claims(s)) /\ Cardinality(Claims(s)) \in Nat
      /\ fired[s] \in Nat /\ entered[s] \in Nat
      /\ pending \in [Observer -> [Session -> Nat]]
      /\ \A o \in Observer : obs[o].batch \in Batch /\ obs[o].source \in 1..NSources
  BY FS_CardinalityType DEF IInv, TypeOK, ObserversOK, InOrder, ClaimsFinite
<1>a. ASSUME "repeated" \notin flaws, NEW b \in Current
      PROVE  /\ fired[s] + Cardinality(Claims(s)) + Expected(store[s], b, s, cur) <= entered[s]
             /\ Expected(store[s], b, s, cur) \in Nat /\ b \in Batch
  <2>1. fired[s] + Cardinality(Claims(s)) + Coming(s, b) <= entered[s]
    BY <1>a DEF InOrder, Entitled
  <2>2. Coming(s, b) = Expected(store[s], b, s, cur)
    BY ExpectedIs
  <2>3. b \in Batch
    BY <1>0, UnreadType DEF Current
  <2>4. Expected(store[s], b, s, cur) \in Nat
    BY <2>3, ExpectedType
  <2> QED
    BY <2>1, <2>2, <2>3, <2>4
<1>b. Coming(s, batch)' = Expected(store'[s], batch, s, notifiableState(state'[s]))
  BY ExpectedIs
<1>c. ASSUME "repeated" \notin flaws, batch \in Current,
             UNCHANGED <<fired, pending, store, state, entered>>
      PROVE  Goal
  <2>1. Claims(s)' = Claims(s)
    BY <1>c DEF Claims
  <2> QED
    BY <1>a, <1>b, <1>c, <2>1
<1>1. ASSUME NEW t \in Session, NEW new \in State, SessionMoves(t, new) PROVE Goal
  <2>1. /\ "repeated" \notin flaws /\ Current' = Current /\ Claims(s)' = Claims(s)
        /\ fired' = fired /\ store' = store /\ state' = [state EXCEPT ![t] = new]
        /\ entered' = IF notifiableState(new) # "" THEN [entered EXCEPT ![t] = @ + 1] ELSE entered
    BY <1>1 DEF SessionMoves, Current, Claims
  <2>2. state \in [Session -> State] /\ entered \in [Session -> Nat]
    BY DEF IInv, TypeOK, ObserversOK
  <2> DEFINE old == Expected(store[s], batch, s, cur)
             next == Expected(store[s], batch, s, notifiableState(state'[s]))
  <2>3. /\ fired[s] + Cardinality(Claims(s)) + old <= entered[s] /\ old \in Nat
        /\ batch \in Batch
    BY <1>a, <2>1
  <2>6. fired'[s] = fired[s] /\ Cardinality(Claims(s)') = Cardinality(Claims(s))
    BY <2>1
  <2>4. CASE t # s
    <3>1. state'[s] = state[s] /\ entered'[s] = entered[s]
      BY <2>1, <2>2, <2>4
    <3> QED
      BY <1>b, <2>1, <2>3, <3>1
  <2>5. CASE t = s
    <3>1. state'[s] = new
      BY <2>1, <2>2, <2>5
    <3> DEFINE c == Cardinality(Firing(store[s], batch, s))
    <3>2. c \in Nat /\ old \in {c, c + 1} /\ next \in {c, c + 1}
      BY <2>3, ExpectedType
    <3>3. CASE notifiableState(new) # ""
      <4>1. entered'[s] = entered[s] + 1
        BY <2>1, <2>2, <2>5, <3>3
      <4> HIDE DEF old, next, c
      <4>2. next <= old + 1 /\ next \in Nat
        BY <3>2
      <4>3. Coming(s, batch)' = next
        BY <1>b, <2>1, Zenon DEF next
      <4> QED
        BY <1>0, <2>3, <2>6, <4>1, <4>2, <4>3
    <3>4. CASE notifiableState(new) = ""
      <4>1. entered'[s] = entered[s]
        BY <2>1, <3>4
      <4>2. ~ Fires(Before(store[s], batch, s, NSources + 1), notifiableState(state'[s]))
        BY <3>1, <3>4 DEF Fires
      <4>3. next = c
        BY <2>3, <4>2, ExpectedType
      <4>4. Coming(s, batch)' = next
        BY <1>b, <2>1, Zenon
      <4> HIDE DEF old, next, c
      <4>5. next <= old /\ next \in Nat
        BY <3>2, <4>3
      <4> QED
        BY <1>0, <2>3, <2>6, <4>1, <4>4, <4>5
    <3> QED
      BY <3>3, <3>4
  <2> QED
    BY <2>4, <2>5
<1>2. CASE CacheRefreshed
  BY <1>2, <1>c DEF CacheRefreshed, blame, Current
<1>3. ASSUME NEW o \in Observer, Gather(o) PROVE Goal
  <2> DEFINE k == obs[o].source
  <2>1. PICK seen \in Reports(k) :
           /\ obs' = [obs EXCEPT
                   ![o].batch[k] = seen,
                   ![o].source = IF @ < NSources THEN @ + 1 ELSE 1,
                   ![o].pc = IF k < NSources THEN "gather" ELSE "lock"]
           /\ flaws' = flaws \cup (IF seen # Answer(k) THEN {"lost"} ELSE {})
                             \cup (IF Outdated(seen) THEN {"repeated"} ELSE {})
    BY <1>3, Zenon DEF Gather
  <2>2. UNCHANGED <<fired, pending, store, state, entered, overtaken>>
    BY <1>3, Zenon DEF Gather, world
  <2>3. "repeated" \notin flaws /\ ~ Outdated(seen)
    BY <2>1
  <2>4. seen[s] \in {"absent", state[s]}
    BY <2>3 DEF Outdated
  <2>5. seen \in [Session -> State]
    BY DEF Reports, Answer, Unread, State, IInv, TypeOK, ObserversOK
  <2>6. /\ obs'[o].batch = [obs[o].batch EXCEPT ![k] = seen]
        /\ \A p \in Observer : p # o => obs'[p] = obs[p]
    <3>1. obs \in [Observer -> [pc : {"gather", "lock", "load", "save", "unlock", "fire"},
                             source : 1..NSources, batch : Batch, snap : [Session -> Entry]]]
      BY DEF IInv, TypeOK, ObserversOK
    <3> QED
      BY <2>1, <3>1
  <2>7. CASE batch \in Current
    BY <1>c, <2>2, <2>3, <2>7
  <2>8. CASE batch \notin Current
    <3>1. o \notin overtaken /\ batch = [obs[o].batch EXCEPT ![k] = seen]
      BY <2>2, <2>6, <2>8 DEF Current
    <3>2. \A n \in k..NSources : obs[o].batch[n] = Unread[n]
      BY <1>3 DEF Gather, InOrder, ReadSoFar
    <3>3. Coming(s, batch) = Coming(s, obs[o].batch)
      <4> DEFINE was == obs[o].batch
      <4>1. was \in Batch /\ k \in 1..NSources
        BY <1>0
      <4> HIDE DEF was, k
      <4> QED
        BY <2>4, <2>5, <3>1, <3>2, <4>1, ReadingOn DEF was
    <3>4. obs[o].batch \in Current
      BY <3>1 DEF Current
    <3>5. fired[s] + Cardinality(Claims(s)) + Coming(s, obs[o].batch) <= entered[s]
      BY <2>3, <3>4 DEF InOrder, Entitled
    <3>6. Claims(s)' = Claims(s)
      BY <2>2 DEF Claims
    <3>7. Coming(s, batch)' = Coming(s, batch)
      BY <2>2, ExpectedIs
    <3> QED
      BY <2>2, <3>3, <3>5, <3>6, <3>7
  <2> QED
    BY <2>7, <2>8
<1>4. ASSUME NEW o \in Observer, Save(o) PROVE Goal
  <2> DEFINE mine == obs[o].batch
             entry == store[s]
             more == Cardinality(Firing(entry, mine, s))
  <2>1. /\ o \notin overtaken /\ "repeated" \notin flaws
        /\ overtaken' = (overtaken \ {o}) \cup Begun
        /\ obs' = [obs EXCEPT ![o] = [Ready EXCEPT !.pc = "unlock"]]
        /\ store' = Recorded(obs[o].snap, mine)
        /\ UNCHANGED <<state, entered, fired>>
    BY <1>4 DEF Save, world
  <2>2. obs[o].snap = store /\ lockedBy = o /\ mine \in Batch /\ mine \in Current
        /\ pending[o] = Nothing
    BY <1>0, <1>4, <2>1 DEF Save, IInv, HolderReadsLast, Critical, Current
  <2>3. batch = Unread
    <3>1. ASSUME NEW p \in Observer, p \notin overtaken', p # o PROVE obs[p].batch = Unread
      <4>1. ~ Critical(p)
        BY <2>2, <3>1 DEF IInv, HolderReadsLast
      <4>2. p \notin Begun
        BY <2>1, <3>1
      <4>3. obs[p].pc = "fire" \/ (obs[p].pc = "gather" /\ obs[p].source = 1)
        BY <1>0, <4>1, <4>2 DEF Critical, Begun, IInv, TypeOK, ObserversOK
      <4>4. CASE obs[p].pc = "fire"
        BY <4>4 DEF InOrder, ReadSoFar
      <4>5. CASE obs[p].pc = "gather" /\ obs[p].source = 1
        <5>1. \A n \in 1..NSources : obs[p].batch[n] = Unread[n]
          BY <4>5 DEF InOrder, ReadSoFar
        <5> QED
          BY <1>0, <5>1, AllUnread
      <4> QED
        BY <4>3, <4>4, <4>5
    <3>2. obs'[o].batch = Unread
      BY <2>1 DEF Ready, IInv, TypeOK, ObserversOK
    <3>3. \A p \in Observer : p # o => obs'[p] = obs[p]
      BY <2>1
    <3> QED
      BY <3>1, <3>2, <3>3 DEF Current
  <2>4. /\ fired[s] + Cardinality(Claims(s)) + Expected(entry, mine, s, cur) <= entered[s]
        /\ Expected(entry, mine, s, cur) \in Nat
    BY <1>a, <2>1, <2>2
  <2>5. /\ Cardinality(Claims(s)') = Cardinality(Claims(s)) + more
        /\ more \in Nat
    <3>1. Announced(store, mine) \in [Session -> 0..NSources]
      BY <2>2, AnnouncedFew
    <3>2. pending' = [pending EXCEPT ![o] = Announced(store, mine)]
      BY <1>4, <2>2 DEF Save
    <3>3. Announced(store, mine)[s] = more
      BY ExpectedIs
    <3>4. more \in Nat
      BY <3>1, <3>3
    <3> HIDE DEF more
    <3> QED
      BY <1>0, <2>2, <3>1, <3>2, <3>3, <3>4, ClaimsGrow
  <2>6. Coming(s, batch)' = Expected(Recorded(store, mine)[s], Unread, s, cur)
    BY <1>b, <2>1, <2>2, <2>3
  <2>7. more + Expected(Recorded(store, mine)[s], Unread, s, cur) <= Expected(entry, mine, s, cur)
        /\ Expected(Recorded(store, mine)[s], Unread, s, cur) \in Nat
    <3> DEFINE after == Expected(Recorded(store, mine)[s], Unread, s, cur)
               before == Expected(entry, mine, s, cur)
    <3>0. more \in Nat
      BY <2>5
    <3>1. CASE Fires(Recorded(store, mine)[s], cur)
      <4>1. Recorded(store, mine)[s] # "new"
        BY <3>1 DEF Fires
      <4>2. Recorded(store, mine)[s] = Before(entry, mine, s, NSources + 1)
        BY <4>1 DEF Recorded
      <4>3. before = more + 1
        BY <2>2, <3>1, <4>2, ExpectedType
      <4>4. after = 1
        BY <3>1, UnreadExpects
      <4> HIDE DEF more, after, before
      <4>5. more + after <= before /\ after \in Nat
        BY <3>0, <4>3, <4>4
      <4> QED
        BY <4>5, Zenon DEF after, before
    <3>2. CASE ~ Fires(Recorded(store, mine)[s], cur)
      <4>1. after = 0
        BY <3>2, UnreadExpects
      <4>2. before \in {more, more + 1}
        BY <2>2, ExpectedType
      <4> HIDE DEF more, after, before
      <4>3. more + after <= before /\ after \in Nat
        BY <3>0, <4>1, <4>2
      <4> QED
        BY <4>3, Zenon DEF after, before
    <3> QED
      BY <3>1, <3>2
  <2> HIDE DEF more
  <2> QED
    BY <1>0, <2>1, <2>4, <2>5, <2>6, <2>7
<1>5. ASSUME NEW o \in Observer, SaveFails(o) PROVE Goal
  <2>1. /\ o \in Web /\ "repeated" \notin flaws /\ overtaken' = overtaken \ {o}
        /\ obs' = [obs EXCEPT ![o] = [Ready EXCEPT !.pc = "unlock"]]
        /\ UNCHANGED <<state, entered, fired, pending, store>>
    BY <1>5 DEF SaveFails, world
  <2>2. obs'[o].batch = Unread /\ \A p \in Observer : p # o => obs'[p] = obs[p]
    BY <2>1 DEF Ready, IInv, TypeOK, ObserversOK
  <2>3. batch \in Current
    BY <2>1, <2>2 DEF Current
  <2> QED
    BY <1>c, <2>1, <2>3
<1>6. ASSUME NEW o \in Observer, Crash(o) PROVE Goal
  <2>1. /\ "repeated" \notin flaws /\ overtaken' = overtaken \ {o}
        /\ obs' = [obs EXCEPT ![o] = Ready]
        /\ pending' = [pending EXCEPT ![o] = Nothing]
        /\ UNCHANGED <<state, entered, fired, store>>
    BY <1>6 DEF Crash
  <2>2. obs'[o].batch = Unread /\ \A p \in Observer : p # o => obs'[p] = obs[p]
    BY <2>1 DEF Ready, IInv, TypeOK, ObserversOK
  <2>3. batch \in Current
    BY <2>1, <2>2 DEF Current
  <2>4. Cardinality(Claims(s)') <= Cardinality(Claims(s)) /\ Cardinality(Claims(s)') \in Nat
    BY <1>0, <2>1, ClaimsShrink
  <2>5. /\ fired[s] + Cardinality(Claims(s)) + Expected(store[s], batch, s, cur) <= entered[s]
        /\ Expected(store[s], batch, s, cur) \in Nat
    BY <1>a, <2>1, <2>3
  <2>6. Coming(s, batch)' = Expected(store[s], batch, s, cur)
    BY <1>b, <2>1
  <2> QED
    BY <1>0, <2>1, <2>4, <2>5, <2>6
<1>7. ASSUME NEW o \in Observer, Lock(o) \/ Load(o) \/ Unlock(o) \/ Done(o) PROVE Goal
  <2>1. "repeated" \notin flaws /\ overtaken' = overtaken
        /\ UNCHANGED <<fired, pending, store, state, entered>>
    BY <1>7, ZenonT(30) DEF Lock, Load, Unlock, Done, world, blame
  <2>2. ASSUME NEW p \in Observer PROVE obs'[p].batch \in {obs[p].batch, Unread}
    <3>1. CASE Lock(o)
      BY <3>1 DEF Lock, IInv, TypeOK, ObserversOK
    <3>2. CASE Load(o)
      BY <3>2 DEF Load, IInv, TypeOK, ObserversOK
    <3>3. CASE Unlock(o)
      BY <3>3 DEF Unlock, IInv, TypeOK, ObserversOK
    <3>4. CASE Done(o)
      BY <3>4 DEF Done, Ready, IInv, TypeOK, ObserversOK
    <3> QED
      BY <1>7, <3>1, <3>2, <3>3, <3>4
  <2>3. batch \in Current
    BY <2>1, <2>2 DEF Current
  <2> QED
    BY <1>c, <2>1, <2>3
<1>8. ASSUME NEW o \in Observer, NEW t \in Session, Fire(o, t) PROVE Goal
  <2>1. /\ "repeated" \notin flaws /\ Current' = Current
        /\ UNCHANGED <<store, state, entered>>
        /\ pending[o][t] > 0 /\ pending' = [pending EXCEPT ![o][t] = @ - 1]
        /\ fired' = [fired EXCEPT ![t] = IF @ > MaxMoves THEN @ ELSE @ + 1]
    BY <1>8 DEF Fire, Announce, world, blame, Current
  <2>2. Cardinality(Claims(s)') = Cardinality(Claims(s)) - IF t = s THEN 1 ELSE 0
    BY <1>0, <2>1, ClaimAnnounced DEF InOrder
  <2>3. fired'[s] <= fired[s] + (IF t = s THEN 1 ELSE 0) /\ fired'[s] \in Nat
    <3>1. fired \in [Session -> Nat]
      BY DEF IInv, TypeOK, ObserversOK
    <3> QED
      BY <2>1, <3>1
  <2>4. /\ fired[s] + Cardinality(Claims(s)) + Expected(store[s], batch, s, cur) <= entered[s]
        /\ Expected(store[s], batch, s, cur) \in Nat
    BY <1>a, <2>1
  <2>5. Coming(s, batch)' = Expected(store[s], batch, s, cur)
    BY <1>b, <2>1
  <2> QED
    BY <1>0, <2>1, <2>2, <2>3, <2>4, <2>5
<1>9. CASE UNCHANGED vars
  <2>1. "repeated" \notin flaws /\ Current' = Current
        /\ UNCHANGED <<fired, pending, store, state, entered>>
    BY <1>9 DEF vars, world, blame, Current
  <2> QED
    BY <1>c, <2>1
<1>10. ASSUME NEW o \in Observer, Poll(o) \/ SaveFails(o) \/ Crash(o) PROVE Goal
  BY <1>3, <1>4, <1>5, <1>6, <1>7, <1>8, <1>10, Zenon DEF Poll
<1>11. Goal
  <2>1. CASE Next
    BY <1>1, <1>2, <1>10, <2>1 DEF Next
  <2> QED
    BY <1>9, <2>1
<1> QED
  BY <1>11 DEF Goal

LEMMA NextInOrder == IInv /\ InOrder /\ [Next]_vars => InOrder'
  BY NextReadSoFar, NextClaims, NextEntitled DEF InOrder

(* For any number of observers, sources and sessions: a transition is      *)
(* announced at most once, unless a batch was saved that was outdated, a   *)
(* source reported what is no more so, or a save failed.                   *)
THEOREM NeverTwice == Spec => []AtMostOnceInOrder
<1>1. ASSUME IInv, InOrder PROVE AtMostOnceInOrder
  <2> SUFFICES ASSUME "repeated" \notin flaws, NEW s \in Session PROVE fired[s] <= entered[s]
    BY DEF AtMostOnceInOrder, AtMostOnce
  <2>1. fired[s] \in Nat /\ entered[s] \in Nat /\ Cardinality(Claims(s)) \in Nat
    BY <1>1, FS_CardinalityType DEF IInv, TypeOK, ObserversOK, InOrder, ClaimsFinite
  <2>2. fired[s] + Cardinality(Claims(s)) + Coming(s, Unread) <= entered[s]
    BY <1>1 DEF InOrder, Entitled, Current
  <2>3. Coming(s, Unread) \in Nat
    BY ExpectedIs, UnreadExpects
  <2> QED
    BY <2>1, <2>2, <2>3
<1> QED
  BY <1>1, InitInOrder, NextInOrder, Inductive, PTL DEF Spec
=============================================================================
