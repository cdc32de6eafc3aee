----------------------------- MODULE StoresProofs -----------------------------
(***************************************************************************)
(* Any set of processes that take turns, over any set of sessions: a done  *)
(* mark is earned.  Any set of remotes, through any watchers and loads: no *)
(* session is listed twice.                                                *)
(***************************************************************************)
EXTENDS Stores, TLAPS


LEMMA RestingType == Resting \in Held /\ Resting.pc = "idle" /\ NoEntries \in File
<1>1. NoEntries \in File
    BY DEF NoEntries, File, Entry
<1>2. NoStates \in [Session -> State]
    BY DEF NoStates, State, IdleState
<1> QED
    BY <1>1, <1>2 DEF Resting, Held

(* Clear changes one entry of a file.                                      *)
LEMMA ClearedType ==
    ASSUME NEW f \in File, NEW s \in Session
    PROVE  /\ [f EXCEPT ![s].done = FALSE] \in File
           /\ [f EXCEPT ![s].done = FALSE][s].done = FALSE
           /\ [f EXCEPT ![s].done = FALSE][s].last = f[s].last
           /\ \A t \in Session \ {s} : [f EXCEPT ![s].done = FALSE][t] = f[t]
BY DEF File, Entry

(* The initial state: nothing is recorded, nobody has read anything.       *)
LEMMA InitIInv == Init => IInv
<1> SUFFICES ASSUME Init PROVE IInv
    OBVIOUS
<1>1. TypeOK
    <2>1. proc \in [Process -> Held] /\ file \in File
        BY RestingType DEF Init
    <2>2. moves \in 0..MaxMoves
        BY DoneStateAssumption DEF Init
    <2>3. earned \in [Session -> BOOLEAN] /\ overlap \in BOOLEAN
        BY DEF Init
    <2>4. raw \in [Session -> State] /\ late \subseteq Process
        BY DEF Init
    <2> QED
        BY <2>1, <2>2, <2>3, <2>4 DEF TypeOK
<1>2. Sound(file)
    BY DEF Init, Sound, NoEntries
<1>3. \A p \in Process : proc[p].pc = "idle"
    BY RestingType DEF Init
<1> QED
    BY <1>1, <1>2, <1>3 DEF IInv, TakeTurns, Busy, HoldsSound

(* What Merge computes from a sound file, or from none, and an observation *)
(* in time is sound: only the end of a turn marks an entry.                *)
LEMMA MergeSound ==
    ASSUME NEW p \in Process, TypeOK, Sound(file), SeenInTime(p),
           NEW held, held = file \/ held = NoEntries,
           NEW new, new = [s \in Session |-> Merged(held[s], proc[p].seen[s])]
    PROVE  new \in File /\ Sound(new)
<1>1. ASSUME NEW s \in Session
      PROVE  /\ new[s] \in Entry
             /\ new[s].done => earned[s]
             /\ new[s].last = "working" =>
                    ~ new[s].done /\ (raw[s] = "working" \/ earned[s])
    <2>1. file[s] \in Entry /\ proc[p].seen[s] \in State
        BY DEF TypeOK, File, Held
    <2>2. new[s] = Merged(held[s], proc[p].seen[s])
        OBVIOUS
    <2>3. CASE held = NoEntries
        <3>1. held[s].last = "" /\ held[s].done = FALSE
            BY <2>3 DEF NoEntries
        <3>2. new[s].done = FALSE /\ new[s].last = proc[p].seen[s]
            BY <2>2, <3>1 DEF Merged, KeepsDone, EndsTurn
        <3>3. new[s] = [last |-> proc[p].seen[s], done |-> new[s].done]
            BY <2>2 DEF Merged
        <3> QED
            BY <2>1, <3>2, <3>3 DEF SeenInTime, Entry
    <2>4. CASE held = file
      <3> QED
        BY <2>1, <2>2, <2>4 DEF Merged, KeepsDone, EndsTurn, Sound, SeenInTime,
                          Entry, State, IdleState
    <2> QED
        BY <2>3, <2>4
<1> QED
    BY <1>1 DEF Sound, File

(* What the two forms of Merge do to whoever runs it.                      *)
LEMMA MergeSteps ==
    ASSUME NEW p \in Process, TypeOK, Merge(p) \/ MergeBlind(p)
    PROVE  \E held \in {file, NoEntries}, blind \in BOOLEAN :
              /\ MergeInto(p, held, blind)
              /\ moves' \in 0..MaxMoves
<1>1. moves' \in 0..MaxMoves
    <2>1. moves \in 0..MaxMoves
        BY DEF TypeOK
    <2>2. moves' = moves \/ (moves < MaxMoves /\ moves' = moves + 1)
        BY Zenon DEF Merge, MergeBlind, Troubled
    <2> QED
        BY <2>1, <2>2, DoneStateAssumption
<1>2. MergeInto(p, file, FALSE) \/ MergeInto(p, NoEntries, TRUE)
    BY DEF Merge, MergeBlind
<1> QED
    BY <1>1, <1>2, Zenon

LEMMA MergeHeld ==
    ASSUME NEW p \in Process, TypeOK, NEW held, NEW blind \in BOOLEAN, MergeInto(p, held, blind),
           NEW new, new = [s \in Session |-> Merged(held[s], proc[p].seen[s])], new \in File
    PROVE  \/ /\ proc' \in [Process -> Held] /\ proc'[p].pc = "save" /\ proc'[p].rt = new
              /\ \A q \in Process \ {p} : proc'[q] = proc[q]
           \/ /\ proc' \in [Process -> Held] /\ proc'[p].pc = "idle"
              /\ \A q \in Process \ {p} : proc'[q] = proc[q]
<1> DEFINE saving == [proc[p] EXCEPT !.pc = "save", !.rt = new, !.blind = blind]
<1>1. proc[p] \in Held
    BY DEF TypeOK
<1>2. saving \in Held /\ saving.pc = "save" /\ saving.rt = new
    BY <1>1 DEF Held
<1>3. proc' = [proc EXCEPT ![p] = saving] \/ proc' = [proc EXCEPT ![p] = Resting]
    BY DEF MergeInto, Rests
<1> HIDE DEF saving
<1> QED
    BY <1>2, <1>3, RestingType DEF TypeOK

(* Types, whoever overlaps.                                                *)
LEMMA NextType == TypeOK /\ [Next]_vars => TypeOK'
<1> SUFFICES ASSUME TypeOK, [Next]_vars PROVE TypeOK'
    OBVIOUS
<1> USE DEF TypeOK
<1>1. ASSUME NEW s \in Session, NEW new \in State, AgentMoves(s, new)
      PROVE  TypeOK'
    <2>1. raw' \in [Session -> State] /\ earned' \in [Session -> BOOLEAN]
        BY <1>1 DEF AgentMoves
    <2> QED
        BY <1>1, <2>1, DoneStateAssumption DEF AgentMoves, Troubled
<1>2. ASSUME NEW p \in Process, Observe(p) PROVE TypeOK'
    <2>1. [proc[p] EXCEPT !.pc = "load", !.seen = raw] \in Held
        BY DEF Held
    <2>2. proc' \in [Process -> Held]
        BY <1>2, <2>1 DEF Observe
    <2> QED
        BY <1>2, <2>2 DEF Observe, NotesOverlap, Others
<1>3. ASSUME NEW p \in Process, Merge(p) \/ MergeBlind(p) PROVE TypeOK'
    <2>1. PICK held \in {file, NoEntries}, blind \in BOOLEAN :
             MergeInto(p, held, blind) /\ moves' \in 0..MaxMoves
        BY <1>3, MergeSteps
    <2> DEFINE new == [s \in Session |-> Merged(held[s], proc[p].seen[s])]
    <2>2. new \in File
        <3>1. ASSUME NEW s \in Session PROVE new[s] \in Entry
            <4>1. held[s] \in Entry /\ proc[p].seen[s] \in State
                BY RestingType DEF File, Held
            <4> QED
                BY <4>1 DEF Merged, KeepsDone, EndsTurn, Entry
        <3> QED
            BY <3>1 DEF File
    <2> HIDE DEF new
    <2>3. proc' \in [Process -> Held]
        BY <2>1, <2>2, MergeHeld DEF new
    <2>4. UNCHANGED <<raw, file, earned, overlap, late>>
        BY <2>1 DEF MergeInto, Rests
    <2> QED
        BY <2>1, <2>3, <2>4
<1>4. ASSUME NEW p \in Process, Save(p) PROVE TypeOK'
    <2>1. proc[p].rt \in File
        BY DEF Held
    <2> QED
        BY <1>4, <2>1, RestingType DEF Save, Saves, Holding, Rests
<1>5. ASSUME NEW p \in Process, NEW s \in Session, ClearLoad(p, s) PROVE TypeOK'
    <2> DEFINE rt == [file EXCEPT ![s].done = FALSE]
    <2>1. rt \in File
        BY ClearedType
    <2>2. [proc[p] EXCEPT !.pc = "clear", !.id = s, !.rt = rt] \in Held
        BY <2>1 DEF Held
    <2>3. proc' = [proc EXCEPT ![p] = [proc[p] EXCEPT !.pc = "clear", !.id = s, !.rt = rt]]
        BY <1>5 DEF ClearLoad
    <2> HIDE DEF rt
    <2>4. proc' \in [Process -> Held]
        BY <2>2, <2>3
    <2> QED
        BY <1>5, <2>4 DEF ClearLoad, NotesOverlap, Others
<1>6. ASSUME NEW p \in Process, ClearSave(p) PROVE TypeOK'
    <2>1. proc[p].rt \in File
        BY DEF Held
    <2> QED
        BY <1>6, <2>1, RestingType DEF ClearSave, Saves, Holding, Rests
<1>7. ASSUME NEW p \in Process, Crash(p) PROVE TypeOK'
    BY <1>7, RestingType, DoneStateAssumption DEF Crash, Rests, Troubled
<1>8. CASE UNCHANGED vars
    BY <1>8 DEF vars
<1> QED
    BY <1>1, <1>2, <1>3, <1>4, <1>5, <1>6, <1>7, <1>8 DEF Next, List, Resume

(* An overlap stays on record, and until there is one a process that is    *)
(* busy is the only one.                                                   *)
LEMMA NextTurns ==
    ASSUME TypeOK, [Next]_vars, ~ overlap'
    PROVE  /\ ~ overlap
           /\ (\A p, q \in Process : Busy(p) /\ Busy(q) => p = q)
                 => \A p, q \in Process : Busy(p)' /\ Busy(q)' => p = q
<1> USE RestingType DEF TypeOK, Busy
<1>1. ASSUME NEW s \in Session, NEW new \in State, AgentMoves(s, new)
      PROVE  UNCHANGED <<overlap, proc>>
    BY <1>1 DEF AgentMoves
<1>2. ASSUME NEW p \in Process, Observe(p)
      PROVE  /\ ~ overlap /\ \A q \in Process : proc[q].pc = "idle"
             /\ \A q \in Process \ {p} : proc'[q] = proc[q]
    BY <1>2 DEF Observe, NotesOverlap, Others
<1>3. ASSUME NEW p \in Process, NEW s \in Session, ClearLoad(p, s)
      PROVE  /\ ~ overlap /\ \A q \in Process : proc[q].pc = "idle"
             /\ \A q \in Process \ {p} : proc'[q] = proc[q]
    BY <1>3 DEF ClearLoad, NotesOverlap, Others
<1>4. ASSUME NEW p \in Process,
             Merge(p) \/ MergeBlind(p) \/ Save(p) \/ ClearSave(p) \/ Crash(p)
      PROVE  /\ ~ overlap /\ Busy(p)
             /\ \A q \in Process \ {p} : proc'[q] = proc[q]
    BY <1>4 DEF Merge, MergeBlind, MergeInto, Save, ClearSave, Saves, Crash, Rests
<1>5. CASE UNCHANGED vars
    BY <1>5 DEF vars
<1> QED
    BY <1>1, <1>2, <1>3, <1>4, <1>5 DEF Next, List, Resume

(* While processes take turns, whoever takes a step is the only one busy.  *)
LEMMA OthersIdle ==
    ASSUME NEW p \in Process, TypeOK, TakeTurns, ~ overlap',
           Observe(p) \/ Merge(p) \/ MergeBlind(p) \/ Save(p) \/ ClearSave(p) \/ Crash(p)
              \/ \E s \in Session : ClearLoad(p, s)
    PROVE  \A q \in Process \ {p} : proc[q].pc = "idle" /\ proc'[q].pc = "idle"
<1>1. \A q \in Process \ {p} : proc'[q] = proc[q]
    BY DEF Observe, Merge, MergeBlind, MergeInto, Save, ClearSave, Saves, Crash, ClearLoad, Rests, TypeOK
<1>2. CASE Observe(p) \/ \E s \in Session : ClearLoad(p, s)
    BY <1>1, <1>2 DEF Observe, ClearLoad, NotesOverlap, Others, Busy
<1>3. CASE Merge(p) \/ MergeBlind(p) \/ Save(p) \/ ClearSave(p) \/ Crash(p)
    <2>1. Busy(p)
        BY <1>3 DEF Merge, MergeBlind, MergeInto, Save, ClearSave, Crash, Busy
    <2> QED
        BY <1>1, <2>1 DEF TakeTurns, Busy
<1> QED
    BY <1>2, <1>3

(* Then what is recorded and held stays sound.                             *)
LEMMA NextSound ==
    ASSUME TypeOK, TakeTurns, [Next]_vars, ~ overlap'
    PROVE  Sound(file)' /\ \A q \in Process : HoldsSound(q)'
<1>1. ASSUME NEW s \in Session, NEW new \in State, AgentMoves(s, new)
      PROVE  Sound(file)' /\ \A q \in Process : HoldsSound(q)'
    <2>1. /\ raw' = [raw EXCEPT ![s] = new]
          /\ earned' = [earned EXCEPT ![s] = @ \/ raw[s] = "working"]
          /\ file' = file /\ proc' = proc
        BY <1>1 DEF AgentMoves
    <2>2. \A t \in Session : /\ earned[t] => earned'[t]
                             /\ raw[t] = "working" => raw'[t] = "working" \/ earned'[t]
        BY <2>1 DEF TypeOK
    <2> QED
        BY <2>1, <2>2 DEF TakeTurns, HoldsSound, Sound, SeenInTime, ClearsOne
<1>2. ASSUME NEW p \in Process, Observe(p)
      PROVE  Sound(file)' /\ HoldsSound(p)'
    <2>1. proc'[p].pc = "load" /\ proc'[p].seen = raw /\ UNCHANGED <<raw, file, earned>>
        BY <1>2 DEF Observe, TypeOK, Held
    <2> QED
        BY <2>1 DEF TakeTurns, HoldsSound, SeenInTime, Sound
<1>3. ASSUME NEW p \in Process, Merge(p) \/ MergeBlind(p)
      PROVE  Sound(file)' /\ HoldsSound(p)'
    <2>1. PICK held \in {file, NoEntries}, blind \in BOOLEAN : MergeInto(p, held, blind)
        BY <1>3, MergeSteps
    <2>2. proc[p].pc = "load" /\ UNCHANGED <<raw, file, earned>>
        BY <2>1 DEF MergeInto
    <2> DEFINE new == [s \in Session |-> Merged(held[s], proc[p].seen[s])]
    <2>3. new \in File /\ Sound(new)
        BY <2>2, MergeSound DEF TakeTurns, HoldsSound
    <2> HIDE DEF new
    <2>4. \/ proc'[p].pc = "save" /\ proc'[p].rt = new
          \/ proc'[p].pc = "idle"
        BY <2>1, <2>3, MergeHeld DEF new
    <2> QED
        BY <2>2, <2>3, <2>4 DEF TakeTurns, HoldsSound, Sound
<1>4. ASSUME NEW p \in Process, Save(p)
      PROVE  Sound(file)' /\ HoldsSound(p)'
    <2>1. proc'[p].pc = "idle"
        BY <1>4, RestingType DEF Save, Saves, Rests, TypeOK
    <2> QED
        BY <1>4, <2>1 DEF Save, Saves, TakeTurns, HoldsSound, Sound
<1>5. ASSUME NEW p \in Process, NEW s \in Session, ClearLoad(p, s)
      PROVE  Sound(file)' /\ HoldsSound(p)'
    <2>1. /\ file[s].done
          /\ proc'[p].pc = "clear" /\ proc'[p].id = s
          /\ proc'[p].rt = [file EXCEPT ![s].done = FALSE]
          /\ UNCHANGED <<raw, file, earned>>
        BY <1>5 DEF ClearLoad, TypeOK, Held
    <2> QED
        BY <2>1 DEF TakeTurns, HoldsSound, ClearsOne, Sound
<1>6. ASSUME NEW p \in Process, ClearSave(p)
      PROVE  Sound(file)' /\ HoldsSound(p)'
    <2>1. /\ file' = [file EXCEPT ![proc[p].id].done = FALSE]
          /\ proc[p].id \in Session /\ file[proc[p].id].done
          /\ earned' = [earned EXCEPT ![proc[p].id] = FALSE]
          /\ raw' = raw /\ file \in File
        BY <1>6 DEF ClearSave, Saves, TakeTurns, HoldsSound, ClearsOne, TypeOK
    <2>2. ASSUME NEW t \in Session
          PROVE  /\ file'[t].done => earned'[t]
                 /\ file'[t].last = "working" =>
                        ~ file'[t].done /\ (raw'[t] = "working" \/ earned'[t])
        <3>1. CASE t = proc[p].id
            <4>0. file' = [file EXCEPT ![t].done = FALSE]
                BY <3>1, <2>1
            <4>1. file'[t].done = FALSE /\ file'[t].last = file[t].last
                <5> DEFINE cleared == [file EXCEPT ![t].done = FALSE]
                <5>0. file \in File
                    BY <2>1
                <5>1. cleared[t].done = FALSE /\ cleared[t].last = file[t].last
                    BY <5>0, ClearedType
                <5> HIDE DEF cleared
                <5> QED
                    BY <4>0, <5>1 DEF cleared
            <4>2. file[t].last # "working"
                BY <3>1, <2>1 DEF TakeTurns, Sound
            <4> QED
                BY <4>1, <4>2
        <3>2. CASE t # proc[p].id
            <4>1. file'[t] = file[t]
                BY <3>2, <2>1, ClearedType
            <4>2. earned'[t] = earned[t] /\ raw'[t] = raw[t]
                BY <3>2, <2>1 DEF TypeOK
            <4> QED
                BY <4>1, <4>2 DEF TakeTurns, Sound
        <3> QED
            BY <3>1, <3>2
    <2>3. proc'[p].pc = "idle"
        BY <1>6, RestingType DEF ClearSave, Saves, Rests, TypeOK
    <2> QED
        BY <2>2, <2>3 DEF Sound, HoldsSound
<1>7. ASSUME NEW p \in Process, Crash(p)
      PROVE  Sound(file)' /\ HoldsSound(p)'
    <2>1. proc'[p].pc = "idle" /\ UNCHANGED <<raw, file, earned>>
        BY <1>7, RestingType DEF Crash, Rests, TypeOK
    <2> QED
        BY <2>1 DEF TakeTurns, HoldsSound, Sound
<1>8. CASE UNCHANGED vars
    BY <1>8 DEF vars, TakeTurns, HoldsSound, Sound, SeenInTime, ClearsOne
<1>9. ASSUME NEW p \in Process,
             Observe(p) \/ Merge(p) \/ MergeBlind(p) \/ Save(p) \/ ClearSave(p) \/ Crash(p)
                \/ \E s \in Session : ClearLoad(p, s)
      PROVE  Sound(file)' /\ \A q \in Process : HoldsSound(q)'
    <2>1. \A q \in Process \ {p} : HoldsSound(q)'
        BY <1>9, OthersIdle DEF HoldsSound
    <2>2. Sound(file)' /\ HoldsSound(p)'
        BY <1>9, <1>2, <1>3, <1>4, <1>5, <1>6, <1>7
    <2> QED
        BY <2>1, <2>2
<1> QED
    BY <1>1, <1>8, <1>9 DEF Next, List, Resume

LEMMA NextIInv == IInv /\ [Next]_vars => IInv'
    BY NextType, NextTurns, NextSound DEF IInv, TakeTurns

(* The strengthened invariant, for any processes and sessions, whatever    *)
(* the bound on moves.                                                     *)
THEOREM Inductive == Spec => []IInv
BY InitIInv, NextIInv, PTL DEF Spec

(* As long as no two processes are between reading and saving at once, a   *)
(* session is marked done only if a turn of it has ended since its mark    *)
(* was last cleared: neither a first sighting, nor a crash between load    *)
(* and save, nor a file that cannot be read, nor Clear makes a mark that   *)
(* is not due (merge.go 21-76, donestate.go 102-117).                      *)
THEOREM MarksAreEarned == Spec => []DoneIsEarned
<1>1. IInv => DoneIsEarned
    BY DEF IInv, TakeTurns, Sound, DoneIsEarned
<1> QED
    BY <1>1, Inductive, PTL

-----------------------------------------------------------------------------
(* Snapshot: what watchers and loads list.                                 *)

LEMMA ListsAssumed ==
    /\ Local \notin Remote /\ Tolerance \in Nat /\ MaxChange \in Nat
    /\ \A age \in S!Age : S!Older(age) \in S!Age /\ S!Older(age) >= age
  BY ListsAssumption DEF S!SnapshotAssumption, S!Age, S!Older

(* What is loaded of any sources has each of them once.                    *)
LEMMA LoadedOnce ==
    ASSUME S!TypeOK, NEW sources \in SUBSET S!Source
    PROVE  /\ S!Of(sources) \in SUBSET S!Entry /\ S!Once(S!Of(sources))
           /\ \A e \in S!Of(sources) : e[1] \in sources
           /\ Local \in sources => S!Complete(S!Of(sources))
<1>1. S!Of(sources) \in SUBSET S!Entry
  BY DEF S!TypeOK, S!Of, S!Entry
<1>2. \A e \in S!Of(sources) : e[1] \in sources /\ e = <<e[1], sessions[e[1]]>>
  BY DEF S!Of
<1>3. S!Once(S!Of(sources))
  BY <1>2 DEF S!Once
<1>4. ASSUME Local \in sources PROVE \E e \in S!Of(sources) : e[1] = Local
  <2>1. <<Local, sessions[Local]>> \in S!Of(sources)
    BY <1>4 DEF S!Of
  <2> QED
    BY <2>1
<1> QED
  BY <1>1, <1>2, <1>3, <1>4 DEF S!Complete

(* The local sessions alone.                                               *)
LEMMA LocalLoaded ==
    ASSUME S!TypeOK
    PROVE  /\ S!Of({Local}) \in SUBSET S!Entry /\ S!Complete(S!Of({Local}))
           /\ S!OnlyLocal(S!Of({Local}))
  BY LoadedOnce DEF S!Source, S!OnlyLocal

(* The remotes' sessions stand beside the local ones.                      *)
LEMMA RemotesAdded ==
    ASSUME S!TypeOK, NEW l \in SUBSET S!Entry, S!Complete(l), S!OnlyLocal(l), NEW up \in SUBSET Remote
    PROVE  /\ S!Of(up) \in SUBSET S!Entry /\ S!Once(S!Of(up))
           /\ \A d \in l, e \in S!Of(up) : d[1] # e[1]
           /\ l \cup S!Of(up) \in SUBSET S!Entry /\ S!Complete(l \cup S!Of(up))
<1>1. /\ S!Of(up) \in SUBSET S!Entry /\ S!Once(S!Of(up))
      /\ \A e \in S!Of(up) : e[1] \in up
  BY LoadedOnce DEF S!Source
<1>2. \A d \in l, e \in S!Of(up) : d[1] # e[1]
  BY <1>1, ListsAssumed DEF S!OnlyLocal
<1> QED
  BY <1>1, <1>2 DEF S!Complete, S!Once

(* A reader that drops the remotes keeps each source once.                 *)
LEMMA FilteredComplete ==
    ASSUME NEW l \in SUBSET S!Entry, S!Complete(l), NEW use
    PROVE  /\ S!filterOrigin(l, use) \in SUBSET S!Entry /\ S!Complete(S!filterOrigin(l, use))
           /\ use # "find" => S!OnlyLocal(S!filterOrigin(l, use))
  BY DEF S!filterOrigin, S!Complete, S!Once, S!OnlyLocal

LEMMA ListsInit == S!Init => S!IInv
<1> SUFFICES ASSUME S!Init PROVE S!IInv
  OBVIOUS
<1>1. S!Absent \in S!File /\ S!Waiting \in S!Watch /\ S!Resting \in S!Load
  BY ListsAssumed DEF S!Absent, S!File, S!Waiting, S!Watch, S!Resting, S!Load, S!Age
<1>2. S!TypeOK
  BY <1>1, ListsAssumed DEF S!Init, S!TypeOK, S!Version
<1>3. ~S!Fresh
  BY ListsAssumed DEF S!Init, S!Fresh, S!Absent
<1>4. (\A w \in Watcher : S!Watched(w)) /\ \A r \in Reader : S!Read(r)
  BY DEF S!Init, S!Watched, S!Read, S!Waiting, S!Resting
<1> QED
  BY <1>2, <1>3, <1>4 DEF S!IInv

LEMMA ListsTypes == S!IInv /\ [S!Next]_S!vars => S!TypeOK'
<1> SUFFICES ASSUME S!IInv, [S!Next]_S!vars PROVE S!TypeOK'
  OBVIOUS
<1>0. S!TypeOK
  BY DEF S!IInv
<1>a. /\ S!Waiting \in S!Watch /\ S!Resting \in S!Load /\ 0 \in S!Age
      /\ \A x \in S!Watch : x.list \in SUBSET S!Entry /\ x.age \in S!Age
      /\ \A x \in S!Watch, age \in S!Age : [x EXCEPT !.age = age] \in S!Watch
      /\ \A x \in S!Watch, l \in SUBSET S!Entry : [x EXCEPT !.pc = "remotes", !.list = l] \in S!Watch
      /\ \A age \in S!Age, l \in SUBSET S!Entry : /\ [pc |-> "write", list |-> l, age |-> age] \in S!Watch
                                                  /\ [list |-> l, age |-> age] \in S!File
  <2>1. 0 \in S!Age
    BY ListsAssumed DEF S!Age
  <2> QED
    BY <2>1 DEF S!Waiting, S!Watch, S!Resting, S!Load, S!File
<1>b. \A x \in S!Load, l \in SUBSET S!Entry, pc \in {"idle", "live", "remotes", "shown"},
         use \in {"list", "local", "find", None} :
         /\ [S!Resting EXCEPT !.pc = pc, !.list = l] \in S!Load
         /\ [x EXCEPT !.pc = pc, !.use = use] \in S!Load
         /\ [x EXCEPT !.pc = pc, !.remotes = l] \in S!Load
  BY <1>a DEF S!Load, S!Resting
<1>c. \A x \in S!File : /\ x.list \in SUBSET S!Entry /\ x.age \in S!Age
                        /\ [x EXCEPT !.age = S!Older(@)] \in S!File
  BY ListsAssumed DEF S!File
<1>1. ASSUME NEW s \in S!Source, S!Changes(s) PROVE S!TypeOK'
  BY <1>0, <1>1, ListsAssumed DEF S!TypeOK, S!Changes, S!Version
<1>2. CASE S!Tick
  BY <1>0, <1>2, <1>a, <1>c, ListsAssumed DEF S!TypeOK, S!Tick
<1>3. ASSUME NEW w \in Watcher,
             S!Refresh(w) \/ S!RefreshRemotes(w) \/ S!Write(w) \/ S!RefreshFails(w)
      PROVE  S!TypeOK'
  <2>1. CASE S!Refresh(w)
    <3>1. watch' = [watch EXCEPT ![w] = [watch[w] EXCEPT !.pc = "remotes", !.list = S!Of({Local})]]
      BY <1>0, <2>1 DEF S!TypeOK, S!Refresh, S!LoadsLocal
    <3>2. [watch[w] EXCEPT !.pc = "remotes", !.list = S!Of({Local})] \in S!Watch
      BY <1>0, <1>a, LocalLoaded DEF S!TypeOK
    <3> QED
      BY <1>0, <2>1, <3>1, <3>2 DEF S!TypeOK, S!Refresh
  <2>2. CASE S!RefreshRemotes(w)
    <3>1. PICK up \in SUBSET Remote :
             watch' = [watch EXCEPT ![w] = [pc |-> "write", list |-> @.list \cup S!Of(up), age |-> 0]]
      BY <2>2 DEF S!RefreshRemotes
    <3>2. S!Of(up) \in SUBSET S!Entry /\ watch[w].list \in SUBSET S!Entry
      BY <1>0, <1>a, LoadedOnce DEF S!TypeOK, S!Source
    <3> QED
      BY <1>0, <1>a, <2>2, <3>1, <3>2 DEF S!TypeOK, S!RefreshRemotes
  <2>3. CASE S!Write(w)
    BY <1>0, <1>a, <2>3 DEF S!TypeOK, S!Write
  <2>4. CASE S!RefreshFails(w)
    BY <1>0, <1>a, <2>4 DEF S!TypeOK, S!RefreshFails
  <2> QED
    BY <1>3, <2>1, <2>2, <2>3, <2>4
<1>d. ASSUME NEW r \in Reader, NEW use \in {"list", "local", "find", None}, NEW l \in SUBSET S!Entry,
             S!Found(r, use, l)
      PROVE  reader' \in [Reader -> S!Load]
  <2>1. S!filterOrigin(l, use) \in SUBSET S!Entry
    BY DEF S!filterOrigin
  <2> QED
    BY <1>0, <1>b, <1>d, <2>1 DEF S!TypeOK, S!Found
<1>4. ASSUME NEW r \in Reader, NEW use \in {"list", "local", "find"}, NEW noCache \in BOOLEAN,
             S!LoadAll(r, use, noCache)
      PROVE  S!TypeOK'
  <2>1. reader' \in [Reader -> S!Load]
    <3>1. CASE S!Fresh /\ ~ noCache
      BY <1>0, <1>c, <1>d, <1>4, <3>1 DEF S!TypeOK, S!LoadAll
    <3>2. CASE ~(S!Fresh /\ ~ noCache)
      <4>1. reader' = [reader EXCEPT ![r] = [reader[r] EXCEPT !.pc = "live", !.use = use]]
        BY <1>0, <1>4, <3>2 DEF S!TypeOK, S!LoadAll
      <4> QED
        BY <1>0, <1>b, <4>1 DEF S!TypeOK
    <3> QED
      BY <3>1, <3>2
  <2> QED
    BY <1>0, <1>4, <2>1 DEF S!TypeOK, S!LoadAll
<1>5. ASSUME NEW r \in Reader, S!loadAllLive(r) \/ S!LoadFails(r) \/ S!FetchRemotes(r) \/ S!Shown(r)
      PROVE  S!TypeOK'
  <2>1. reader' \in [Reader -> S!Load]
    <3>1. CASE S!loadAllLive(r)
      <4>1. reader[r].use \in {"list", "local", "find", None}
        BY <1>0 DEF S!TypeOK, S!Load
      <4> QED
        BY <1>0, <1>d, <3>1, <4>1, LocalLoaded DEF S!loadAllLive
    <3>2. CASE S!FetchRemotes(r)
      <4>1. PICK up \in SUBSET Remote :
               reader' = [reader EXCEPT ![r].pc = "shown", ![r].remotes = S!Of(up)]
        BY <3>2 DEF S!FetchRemotes
      <4> QED
        BY <1>0, <1>b, <4>1, LoadedOnce DEF S!TypeOK, S!Source
    <3>3. CASE S!LoadFails(r) \/ S!Shown(r)
      BY <1>0, <1>a, <3>3 DEF S!TypeOK, S!LoadFails, S!Shown
    <3> QED
      BY <1>5, <3>1, <3>2, <3>3
  <2>2. UNCHANGED <<sessions, list, watch>>
    BY <1>5 DEF S!loadAllLive, S!LoadFails, S!FetchRemotes, S!Shown
  <2> QED
    BY <1>0, <2>1, <2>2 DEF S!TypeOK
<1>6. CASE UNCHANGED S!vars
  BY <1>0, <1>6 DEF S!TypeOK, S!vars
<1> QED
  BY <1>1, <1>2, <1>3, <1>4, <1>5, <1>6 DEF S!Next

(* What has been loaded stays complete on its way into the file and out of *)
(* it.                                                                     *)
LEMMA ListsComplete ==
    ASSUME S!IInv, [S!Next]_S!vars
    PROVE  /\ S!Fresh' => S!Complete(list'.list)
           /\ \A w \in Watcher : S!Watched(w)'
           /\ \A r \in Reader : S!Read(r)'
<1> DEFINE Goal == /\ S!Fresh' => S!Complete(list'.list)
                   /\ \A w \in Watcher : S!Watched(w)'
                   /\ \A r \in Reader : S!Read(r)'
<1>0. /\ S!TypeOK
      /\ S!Fresh => S!Complete(list.list)
      /\ \A w \in Watcher : S!Watched(w)
      /\ \A r \in Reader : S!Read(r)
  BY DEF S!IInv
(* Who does not take the step stands as before.                            *)
<1>a. UNCHANGED list => (S!Fresh' => S!Complete(list'.list))
  BY <1>0 DEF S!Fresh
<1>b. ASSUME NEW w \in Watcher, watch'[w] = watch[w] PROVE S!Watched(w)'
  BY <1>0, <1>b DEF S!Watched
<1>c. ASSUME NEW r \in Reader, reader'[r] = reader[r] PROVE S!Read(r)'
  BY <1>0, <1>c DEF S!Read
<1>1. ASSUME NEW s \in S!Source, S!Changes(s) PROVE Goal
  BY <1>1, <1>a, <1>b, <1>c DEF S!Changes
<1>2. CASE S!Tick
  <2>1. S!Fresh' => S!Complete(list'.list)
    <3>1. list.age \in S!Age /\ list' = [list EXCEPT !.age = S!Older(@)]
      BY <1>0, <1>2 DEF S!TypeOK, S!File, S!Tick
    <3>2. list'.list = list.list /\ list'.age = S!Older(list.age)
      BY <1>0, <3>1 DEF S!TypeOK, S!File
    <3>3. S!Fresh' => S!Fresh
      BY <3>1, <3>2, ListsAssumed DEF S!Fresh, S!Age
    <3> QED
      BY <1>0, <3>2, <3>3
  <2>2. ASSUME NEW w \in Watcher PROVE S!Watched(w)'
    <3>1. watch'[w].pc = watch[w].pc /\ watch'[w].list = watch[w].list
      BY <1>0, <1>2 DEF S!TypeOK, S!Watch, S!Tick
    <3> QED
      BY <1>0, <3>1 DEF S!Watched
  <2> QED
    BY <1>2, <1>c, <2>1, <2>2 DEF S!Tick
<1>3. ASSUME NEW w \in Watcher,
             S!Refresh(w) \/ S!RefreshRemotes(w) \/ S!Write(w) \/ S!RefreshFails(w)
      PROVE  Goal
  <2>1. S!Watched(w)'
    <3>1. CASE S!Refresh(w)
      <4>1. watch'[w].pc = "remotes" /\ watch'[w].list = S!Of({Local})
        BY <1>0, <3>1 DEF S!TypeOK, S!Watch, S!Refresh, S!LoadsLocal
      <4> QED
        BY <1>0, <4>1, LocalLoaded DEF S!Watched
    <3>2. CASE S!RefreshRemotes(w)
      <4>1. PICK up \in SUBSET Remote :
               watch'[w] = [pc |-> "write", list |-> watch[w].list \cup S!Of(up), age |-> 0]
        BY <1>0, <3>2 DEF S!TypeOK, S!RefreshRemotes
      <4>2. watch[w].list \in SUBSET S!Entry /\ S!Complete(watch[w].list) /\ S!OnlyLocal(watch[w].list)
        BY <1>0, <3>2 DEF S!TypeOK, S!Watch, S!Watched, S!RefreshRemotes
      <4> QED
        BY <1>0, <4>1, <4>2, RemotesAdded DEF S!Watched
    <3>3. CASE S!Write(w) \/ S!RefreshFails(w)
      BY <1>0, <3>3 DEF S!TypeOK, S!Write, S!RefreshFails, S!Watched, S!Waiting
    <3> QED
      BY <1>3, <3>1, <3>2, <3>3
  <2>2. \A v \in Watcher \ {w} : watch'[v] = watch[v]
    BY <1>0, <1>3 DEF S!TypeOK, S!Refresh, S!RefreshRemotes, S!Write, S!RefreshFails
  <2>3. S!Fresh' => S!Complete(list'.list)
    <3>1. CASE S!Write(w)
      BY <1>0, <3>1 DEF S!Write, S!Watched
    <3> QED
      BY <1>3, <1>a, <3>1 DEF S!Refresh, S!RefreshRemotes, S!RefreshFails
  <2> QED
    BY <1>3, <1>b, <1>c, <2>1, <2>2, <2>3 DEF S!Refresh, S!RefreshRemotes, S!Write, S!RefreshFails
<1>d. ASSUME NEW r \in Reader, NEW use, NEW l \in SUBSET S!Entry, S!Complete(l), S!Found(r, use, l)
      PROVE  S!Read(r)'
  <2>1. /\ reader'[r].list = S!filterOrigin(l, use) /\ reader'[r].remotes = {}
        /\ reader'[r].pc = "remotes" => use = "list"
    BY <1>0, <1>d DEF S!TypeOK, S!Load, S!Found, S!Resting
  <2> QED
    BY <1>d, <2>1, FilteredComplete DEF S!Read, S!Once
<1>4. ASSUME NEW r \in Reader,
             \/ \E use \in {"list", "local", "find"}, noCache \in BOOLEAN : S!LoadAll(r, use, noCache)
             \/ S!loadAllLive(r) \/ S!LoadFails(r) \/ S!FetchRemotes(r) \/ S!Shown(r)
      PROVE  Goal
  <2>1. S!Read(r)'
    <3>1. ASSUME NEW use \in {"list", "local", "find"}, NEW noCache \in BOOLEAN,
                 S!LoadAll(r, use, noCache)
          PROVE  S!Read(r)'
      <4>1. CASE S!Fresh /\ ~ noCache
        BY <1>0, <1>d, <3>1, <4>1 DEF S!LoadAll, S!TypeOK, S!File
      <4>2. CASE ~(S!Fresh /\ ~ noCache)
        BY <1>0, <3>1, <4>2 DEF S!LoadAll, S!TypeOK, S!Load, S!Read
      <4> QED
        BY <4>1, <4>2
    <3>2. CASE S!loadAllLive(r)
      BY <1>0, <1>d, <3>2, LocalLoaded DEF S!loadAllLive
    <3>3. CASE S!LoadFails(r) \/ S!Shown(r)
      BY <1>0, <3>3 DEF S!TypeOK, S!LoadFails, S!Shown, S!Read, S!Resting
    <3>4. CASE S!FetchRemotes(r)
      <4>1. PICK up \in SUBSET Remote :
               reader' = [reader EXCEPT ![r].pc = "shown", ![r].remotes = S!Of(up)]
        BY <3>4 DEF S!FetchRemotes
      <4>2. /\ reader'[r].list = reader[r].list /\ reader'[r].remotes = S!Of(up)
            /\ reader'[r].pc = "shown"
        BY <1>0, <4>1 DEF S!TypeOK, S!Load
      <4>3. /\ reader[r].list \in SUBSET S!Entry
            /\ S!Complete(reader[r].list) /\ S!OnlyLocal(reader[r].list)
        BY <1>0, <3>4 DEF S!TypeOK, S!Load, S!Read, S!FetchRemotes
      <4> QED
        BY <1>0, <4>2, <4>3, RemotesAdded DEF S!Read
    <3> QED
      BY <1>4, <3>1, <3>2, <3>3, <3>4
  <2>2. UNCHANGED <<list, watch>> /\ \A q \in Reader \ {r} : reader'[q] = reader[q]
    BY <1>0, <1>4 DEF S!TypeOK, S!LoadAll, S!Found, S!loadAllLive, S!LoadFails, S!FetchRemotes, S!Shown
  <2> QED
    BY <1>a, <1>b, <1>c, <2>1, <2>2
<1>5. CASE UNCHANGED S!vars
  BY <1>5, <1>a, <1>b, <1>c DEF S!vars
<1> QED
  BY <1>1, <1>2, <1>3, <1>4, <1>5 DEF S!Next

(* A list that is shown has each source once, the local one among them,    *)
(* and of a remote only what it has just answered (loadAllWithRemotes).    *)
THEOREM ShownOnce == S!Spec => []ListedOnce
<1>1. S!IInv /\ [S!Next]_S!vars => S!IInv'
  BY ListsTypes, ListsComplete DEF S!IInv
<1>2. S!IInv => ListedOnce
  <2> SUFFICES ASSUME S!IInv, NEW r \in Reader, reader[r].pc = "shown"
               PROVE  LET shown == reader[r].list \cup reader[r].remotes
                      IN  /\ \E e \in shown : e[1] = Local
                          /\ \A d, e \in shown : d[1] = e[1] => d = e
                          /\ \A d \in reader[r].list, e \in reader[r].remotes : d[1] # e[1]
    BY DEF ListedOnce, S!ListedOnce
  <2> QED
    BY DEF S!IInv, S!Read, S!Complete, S!Once
<1> QED
  BY <1>1, <1>2, ListsInit, PTL DEF S!Spec

-----------------------------------------------------------------------------
(* A behaviour of the composition is one of each of its parts: what the    *)
(* theorems say of a part they say of what the runs check.                 *)
THEOREM StoresAreTheirs == StoresSpec => Spec /\ S!Spec
<1>1. StoresInit => Init /\ S!Init
  BY DEF StoresInit
<1>2. [StoresNext]_<<vars, listVars, part>> =>
         [Next]_vars /\ [S!Next]_S!vars
  <2> SUFFICES ASSUME [StoresNext]_<<vars, listVars, part>>
               PROVE  [Next]_vars /\ [S!Next]_S!vars
    OBVIOUS
  <2> USE DEF listVars, S!vars, In
  <2> QED
    BY DEF StoresNext
<1> QED
  BY <1>1, <1>2, PTL DEF StoresSpec, Spec, S!Spec
=============================================================================
