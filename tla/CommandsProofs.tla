---------------------------- MODULE CommandsProofs ----------------------------
(***************************************************************************)
(* For any number of processes, writers, agents, directories and names:    *)
(* the alias file is an atomic store, whatever fails and whoever dies; the *)
(* names of sessions persist; resuming and `tsession new` reach the pane   *)
(* they are meant for; bridges are given to the sessions they are of.      *)
(***************************************************************************)
EXTENDS Commands, Naturals, TLAPS


LEMMA NoNamesType == NoNames \in Names
  BY DEF NoNames, Names

LEMMA RestingType ==
  ASSUME NEW answer \in {"none", "ok", "err"}
  PROVE  Resting(answer) \in Call
  BY NoNamesType DEF Resting, Call, Outside

LEMMA StoredType == TypeOK => Stored \in Names
  BY NoNamesType DEF TypeOK, Stored, Parsed

LEMMA InitIInv == Init => IInv
<1> SUFFICES ASSUME Init PROVE IInv
  OBVIOUS
<1>1. TypeOK
  BY RestingType DEF Init, TypeOK
<1>2. Exclusive /\ MutexHeld
  BY RepoNamesAssumption DEF Init, Exclusive, MutexHeld, Resting, Locked, Outside
<1>3. FileWhole /\ \A w \in Writer : HolderReady(w)
  BY DEF Init, FileWhole, HolderReady, At, Resting
<1> QED
  BY <1>1, <1>2, <1>3 DEF IInv

(* On its way out of Set, without having renamed anything over the file, a *)
(* writer leaves the others as they were.                                  *)
LEMMA LeaveIInv ==
  ASSUME IInv, NEW w \in Writer, NEW answer \in {"ok", "err"},
         call[w].pc \notin Outside, Leave(w, answer),
         UNCHANGED <<main, disk>>, tmp' = tmp \/ (tmp' = None /\ flock = w)
  PROVE  IInv'
<1> USE RepoNamesAssumption DEF IInv, Leave, Released
<1>1. TypeOK'
  BY RestingType DEF TypeOK
<1>2. Exclusive' /\ MutexHeld'
  BY ZenonT(30) DEF TypeOK, Exclusive, MutexHeld, Resting, Locked, Outside, Call
<1>3. FileWhole'
  BY DEF FileWhole
<1>4. ASSUME NEW v \in Writer PROVE HolderReady(v)'
  <2>1. CASE v = w
    BY <2>1 DEF HolderReady, Resting, At, TypeOK
  <2>2. CASE v # w
    <3>1. call'[v] = call[v]
      BY <2>2 DEF TypeOK
    <3>2. flock = w => call[v].pc \notin Locked
      BY <2>2 DEF Exclusive
    <3> QED
      BY <3>1, <3>2 DEF HolderReady, At, Stored, Locked
  <2> QED
    BY <2>1, <2>2
<1> QED
  BY <1>1, <1>2, <1>3, <1>4

(* Only the holder of the file lock can disturb what HolderReady says, and *)
(* the other writers are not past the lock.                                *)
LEMMA OthersReady ==
  ASSUME IInv, NEW w \in Writer, flock = w, NEW v \in Writer, v # w,
         call'[v] = call[v]
  PROVE  HolderReady(v)'
<1>1. call[v].pc \notin Locked
  BY DEF IInv, Exclusive
<1> QED
  BY <1>1 DEF IInv, HolderReady, At, Locked

LEMMA NextIInv == IInv /\ [Next]_vars => IInv'
<1> SUFFICES ASSUME IInv, [Next]_vars PROVE IInv'
  OBVIOUS
<1> USE RepoNamesAssumption DEF IInv
<1>1. ASSUME NEW w \in Writer, NEW k \in Key, NEW a \in Alias \cup {None}, Begin(w, k, a)
      PROVE  IInv'
  <2>1. TypeOK'
    BY <1>1, NoNamesType DEF Begin, TypeOK, Resting, Call, Outside
  <2>2. Exclusive' /\ MutexHeld' /\ FileWhole'
    BY <1>1 DEF Begin, TypeOK, Exclusive, MutexHeld, FileWhole, Resting, At, Locked, Outside
  <2>3. \A v \in Writer : HolderReady(v)'
    BY <1>1 DEF Begin, TypeOK, HolderReady, Resting, At, Stored
  <2> QED
    BY <2>1, <2>2, <2>3
<1>2. ASSUME NEW w \in Writer, TakeMu(w) PROVE IInv'
  <2>1. TypeOK'
    BY <1>2 DEF TakeMu, TypeOK, Call
  <2>2. Exclusive' /\ MutexHeld' /\ FileWhole'
    BY <1>2 DEF TakeMu, TypeOK, Exclusive, MutexHeld, FileWhole, At, Locked, Outside, Call
  <2>3. \A v \in Writer : HolderReady(v)'
    <3>1. \A v \in Writer : v # w => call'[v] = call[v]
      BY <1>2 DEF TakeMu, TypeOK
    <3>2. /\ call'[w].pc = "flock" /\ call'[w].key = call[w].key
          /\ call'[w].fd = call[w].fd /\ At(w, "mu")
      BY <1>2 DEF TakeMu, TypeOK, Call, At
    <3>3. Stored' = Stored /\ tmp' = tmp /\ disk' = disk
      BY <1>2 DEF TakeMu, Stored
    <3>4. HolderReady(w)'
      BY <3>2 DEF HolderReady, At
    <3>5. ASSUME NEW v \in Writer, v # w PROVE HolderReady(v)'
      <4>1. call'[v] = call[v]
        BY <3>1, <3>5
      <4> QED
        BY <3>3, <4>1 DEF HolderReady, At
    <3> QED
      BY <3>4, <3>5
  <2> QED
    BY <2>1, <2>2, <2>3
<1>3. ASSUME NEW w \in Writer, TakeFlock(w) PROVE IInv'
  <2>1. TypeOK'
    BY <1>3 DEF TakeFlock, TypeOK, Call, Locked
  <2>2. Exclusive' /\ MutexHeld' /\ FileWhole'
    BY <1>3 DEF TakeFlock, LockFree, TypeOK, Exclusive, MutexHeld, FileWhole, At, Locked, Outside, Call
  <2>3. \A v \in Writer : HolderReady(v)'
    <3>1. \A v \in Writer : v # w => call'[v] = call[v]
      BY <1>3 DEF TakeFlock, TypeOK
    <3>2. /\ call'[w].pc = "load" /\ call'[w].key = call[w].key
          /\ call'[w].fd = call[w].fd /\ At(w, "flock")
      BY <1>3 DEF TakeFlock, TypeOK, Call, At
    <3>3. Stored' = Stored /\ tmp' = tmp /\ disk' = disk
      BY <1>3 DEF TakeFlock, Stored
    <3>4. HolderReady(w)'
      BY <3>2 DEF HolderReady, At
    <3>5. ASSUME NEW v \in Writer, v # w PROVE HolderReady(v)'
      <4>1. call'[v] = call[v]
        BY <3>1, <3>5
      <4> QED
        BY <3>3, <4>1 DEF HolderReady, At
    <3> QED
      BY <3>4, <3>5
  <2> QED
    BY <2>1, <2>2, <2>3
<1>4. ASSUME NEW w \in Writer, LoadNames(w) PROVE IInv'
  <2> DEFINE merged == [Stored EXCEPT ![call[w].key] = call[w].alias]
  <2>0. merged \in Names /\ call[w].key \in Key
    BY <1>4, StoredType DEF LoadNames, TypeOK, HolderReady, At, Call, Names
  <2>1. TypeOK'
    <3> DEFINE c == [call[w] EXCEPT !.pc = "open", !.m = merged]
    <3>1. c \in Call
      BY <2>0, ZenonT(30) DEF TypeOK, Call, Locked
    <3>2. call' = [call EXCEPT ![w] = c]
      BY <1>4 DEF LoadNames, TypeOK
    <3>3. UNCHANGED <<main, tmp, disk, mu, flock>>
      BY <1>4 DEF LoadNames
    <3> HIDE DEF c
    <3> QED
      BY <3>1, <3>2, <3>3 DEF TypeOK
  <2>2. Exclusive' /\ MutexHeld' /\ FileWhole'
    BY <1>4 DEF LoadNames, TypeOK, Exclusive, MutexHeld, FileWhole, At, Locked, Outside, Call
  <2>3. \A v \in Writer : HolderReady(v)'
    <3>1. flock = w
      BY <1>4 DEF LoadNames, At, Exclusive, Locked
    <3>2. ASSUME NEW v \in Writer, v # w PROVE HolderReady(v)'
      BY <1>4, <3>1, <3>2, OthersReady DEF LoadNames, TypeOK
    <3>3. HolderReady(w)'
      <4>1. /\ call'[w].pc = "open" /\ call'[w].key = call[w].key
            /\ call'[w].alias = call[w].alias /\ call'[w].fd = call[w].fd
            /\ call'[w].m = merged
        BY <1>4 DEF LoadNames, TypeOK, Call
      <4>2. Stored' = Stored
        BY <1>4 DEF LoadNames, Stored
      <4> QED
        BY <1>4, <4>1, <4>2, <2>0 DEF LoadNames, HolderReady, At
    <3> QED
      BY <3>2, <3>3
  <2> QED
    BY <2>1, <2>2, <2>3
<1>5. ASSUME NEW w \in Writer, OpenTmp(w) PROVE IInv'
  <2>1. PICK i \in Inode :
           /\ IF tmp = None THEN Free(i) ELSE i = tmp
           /\ tmp' = i
           /\ disk' = [disk EXCEPT ![i] = Torn]
           /\ call' = [call EXCEPT ![w].pc = "fill", ![w].fd = i]
    BY <1>5 DEF OpenTmp
  <2>2. i # main
    BY <2>1 DEF Free, FileWhole
  <2>3. TypeOK'
    <3>1. [call[w] EXCEPT !.pc = "fill", !.fd = i] \in Call
      BY ZenonT(30) DEF TypeOK, Call, Locked
    <3>2. call' = [call EXCEPT ![w] = [call[w] EXCEPT !.pc = "fill", !.fd = i]]
      BY <2>1 DEF TypeOK
    <3> QED
      BY <1>5, <2>1, <3>1, <3>2 DEF OpenTmp, TypeOK
  <2>4. Exclusive' /\ MutexHeld'
    BY <1>5, <2>1 DEF OpenTmp, TypeOK, Exclusive, MutexHeld, At, Locked, Outside, Call
  <2>5. FileWhole' /\ Stored' = Stored
    BY <1>5, <2>1, <2>2 DEF OpenTmp, TypeOK, FileWhole, Stored
  <2>6. \A v \in Writer : HolderReady(v)'
    <3>1. flock = w
      BY <1>5 DEF OpenTmp, At, Exclusive, Locked
    <3>2. ASSUME NEW v \in Writer, v # w PROVE HolderReady(v)'
      BY <2>1, <3>1, <3>2, OthersReady DEF TypeOK
    <3>3. HolderReady(w)'
      <4>1. /\ call'[w].pc = "fill" /\ call'[w].key = call[w].key
            /\ call'[w].alias = call[w].alias /\ call'[w].fd = i
            /\ call'[w].m = call[w].m
        BY <2>1 DEF TypeOK, Call
      <4> QED
        BY <1>5, <2>1, <2>5, <4>1 DEF OpenTmp, HolderReady, At
    <3> QED
      BY <3>2, <3>3
  <2> QED
    BY <2>3, <2>4, <2>5, <2>6
<1>6. ASSUME NEW w \in Writer, FillTmp(w) PROVE IInv'
  <2>1. flock = w /\ call[w].fd \in Inode /\ call[w].fd = tmp /\ tmp # main
    BY <1>6 DEF FillTmp, At, Exclusive, Locked, HolderReady, FileWhole, TypeOK, Call
  <2>2. TypeOK'
    <3>1. [call[w] EXCEPT !.pc = "rename", !.fd = None] \in Call
      BY ZenonT(30) DEF TypeOK, Call, Locked
    <3>2. call' = [call EXCEPT ![w] = [call[w] EXCEPT !.pc = "rename", !.fd = None]]
      BY <1>6 DEF FillTmp, TypeOK
    <3>3. call[w].m \in Names
      BY DEF TypeOK, Call
    <3> QED
      BY <1>6, <2>1, <3>1, <3>2, <3>3 DEF FillTmp, TypeOK
  <2>3. Exclusive' /\ MutexHeld'
    BY <1>6 DEF FillTmp, TypeOK, Exclusive, MutexHeld, At, Locked, Outside, Call
  <2>4. FileWhole' /\ Stored' = Stored
    BY <1>6, <2>1 DEF FillTmp, TypeOK, FileWhole, Stored
  <2>5. \A v \in Writer : HolderReady(v)'
    <3>2. ASSUME NEW v \in Writer, v # w PROVE HolderReady(v)'
      BY <1>6, <2>1, <3>2, OthersReady DEF FillTmp, TypeOK
    <3>3. HolderReady(w)'
      <4>1. /\ call'[w].pc = "rename" /\ call'[w].key = call[w].key
            /\ call'[w].alias = call[w].alias /\ call'[w].fd = None
            /\ call'[w].m = call[w].m
        BY <1>6 DEF FillTmp, TypeOK, Call
      <4>2. tmp' = tmp /\ tmp # None /\ disk'[tmp] = call[w].m
        BY <1>6, <2>1 DEF FillTmp, TypeOK
      <4> QED
        BY <1>6, <2>4, <4>1, <4>2 DEF FillTmp, HolderReady, At
    <3> QED
      BY <3>2, <3>3
  <2> QED
    BY <2>2, <2>3, <2>4, <2>5
<1>7. ASSUME NEW w \in Writer, RenameTmp(w) PROVE IInv'
  <2>1. flock = w /\ tmp \in Inode /\ disk[tmp] = call[w].m /\ call[w].m \in Names
    BY <1>7 DEF RenameTmp, At, Exclusive, Locked, HolderReady, TypeOK, Call
  <2>2. TypeOK'
    <3>1. [call[w] EXCEPT !.pc = "unlock"] \in Call
      BY DEF TypeOK, Call, Locked
    <3>2. call' = [call EXCEPT ![w] = [call[w] EXCEPT !.pc = "unlock"]]
      BY <1>7 DEF RenameTmp, TypeOK
    <3>3. main' \in Inode /\ tmp' = None /\ UNCHANGED <<disk, mu, flock>>
      BY <1>7, <2>1 DEF RenameTmp
    <3> QED
      BY <3>1, <3>2, <3>3 DEF TypeOK
  <2>3. Exclusive' /\ MutexHeld'
    BY <1>7 DEF RenameTmp, TypeOK, Exclusive, MutexHeld, At, Locked, Outside, Call
  <2>4. FileWhole'
    BY <1>7, <2>1 DEF RenameTmp, FileWhole, Names
  <2>5. \A v \in Writer : HolderReady(v)'
    <3>2. ASSUME NEW v \in Writer, v # w PROVE HolderReady(v)'
      BY <1>7, <2>1, <3>2, OthersReady DEF RenameTmp, TypeOK
    <3>3. HolderReady(w)'
      <4>1. /\ call'[w].pc = "unlock" /\ call'[w].key = call[w].key
            /\ call'[w].fd = call[w].fd /\ At(w, "rename")
        BY <1>7 DEF RenameTmp, TypeOK, Call, At
      <4> QED
        BY <4>1 DEF HolderReady, At
    <3> QED
      BY <3>2, <3>3
  <2> QED
    BY <2>2, <2>3, <2>4, <2>5
<1>8. ASSUME NEW w \in Writer, RenameFails(w) PROVE IInv'
  <2>1. flock = w
    BY <1>8 DEF RenameFails, At, Exclusive, Locked
  <2>2. TypeOK'
    BY <1>8 DEF RenameFails, TypeOK, Call, Locked
  <2>3. Exclusive' /\ MutexHeld' /\ FileWhole'
    BY <1>8 DEF RenameFails, TypeOK, Exclusive, MutexHeld, FileWhole, At, Locked, Outside, Call
  <2>4. \A v \in Writer : HolderReady(v)'
    <3>1. \A v \in Writer : v # w => call'[v] = call[v]
      BY <1>8 DEF RenameFails, TypeOK
    <3>2. /\ call'[w].pc = "remove" /\ call'[w].key = call[w].key
          /\ call'[w].fd = call[w].fd /\ At(w, "rename")
      BY <1>8 DEF RenameFails, TypeOK, Call, At
    <3>3. Stored' = Stored /\ tmp' = tmp /\ disk' = disk
      BY <1>8 DEF RenameFails, Stored
    <3>4. HolderReady(w)'
      BY <3>2 DEF HolderReady, At
    <3>5. ASSUME NEW v \in Writer, v # w PROVE HolderReady(v)'
      <4>1. call'[v] = call[v]
        BY <3>1, <3>5
      <4> QED
        BY <3>3, <4>1 DEF HolderReady, At
    <3> QED
      BY <3>4, <3>5
  <2> QED
    BY <2>2, <2>3, <2>4
<1>9. ASSUME NEW w \in Writer, RemoveTmp(w) PROVE IInv'
  <2>1. flock = w /\ call[w].pc \notin Outside
    BY <1>9 DEF RemoveTmp, At, Exclusive, Locked, Outside
  <2> QED
    BY <1>9, <2>1, LeaveIInv DEF RemoveTmp
<1>10. ASSUME NEW w \in Writer, GivesUp(w) PROVE IInv'
  BY <1>10, LeaveIInv DEF GivesUp, Outside
<1>11. ASSUME NEW w \in Writer, Unlock(w) PROVE IInv'
  BY <1>11, LeaveIInv DEF Unlock, Outside, At
<1>12. ASSUME NEW p \in Process, Crash(p) PROVE IInv'
  <2>1. TypeOK'
    BY <1>12, RestingType DEF Crash, TypeOK
  <2>2. Exclusive' /\ MutexHeld' /\ FileWhole'
    BY <1>12 DEF Crash, TypeOK, Exclusive, MutexHeld, FileWhole, Resting, Locked, Outside
  <2>3. \A v \in Writer : HolderReady(v)'
    BY <1>12 DEF Crash, TypeOK, HolderReady, Resting, At, Stored
  <2> QED
    BY <2>1, <2>2, <2>3
<1>13. CASE UNCHANGED vars
  BY <1>13 DEF vars, TypeOK, Exclusive, MutexHeld, FileWhole, HolderReady, At, Stored
<1> QED
  BY <1>1, <1>2, <1>3, <1>4, <1>5, <1>6, <1>7, <1>8, <1>9, <1>10, <1>11, <1>12, <1>13
     DEF Next, Proceeds

(* The writer past the lock is alone, and about to replace the file by     *)
(* what is there now with its own alias changed.                           *)
THEOREM Inductive == Spec => []IInv
<1> QED
  BY InitIInv, NextIInv, PTL DEF Spec

-----------------------------------------------------------------------------
(* Every step of Set is a step of the store, or none: the renaming is where*)
(* the name is set, all else before it may still be refused.               *)
LEMMA InitStore == Init => Store!StoreInit
  BY DEF Init, Store!StoreInit, Store!Quiet, Stored, NoNames, askBar, Resting, At

LEMMA NextStore == IInv /\ [Next]_vars => [Store!StoreNext]_(Store!storeVars)
<1> SUFFICES ASSUME IInv, [Next]_vars PROVE [Store!StoreNext]_(Store!storeVars)
  OBVIOUS
<1> USE DEF IInv, Store!storeVars
<1>1. ASSUME NEW w \in Writer, NEW k \in Key, NEW a \in Alias \cup {None}, Begin(w, k, a)
      PROVE  Store!Ask(w, k, a)
  <2>1. Stored' = Stored
    BY <1>1 DEF Begin, Stored
  <2> QED
    BY <1>1, <2>1 DEF Begin, Store!Ask, askBar, At, Resting, TypeOK
<1>2. ASSUME NEW w \in Writer, \/ TakeMu(w) \/ TakeFlock(w) \/ LoadNames(w)
                               \/ OpenTmp(w) \/ FillTmp(w) \/ RenameFails(w)
      PROVE  askBar' = askBar
  <2>1. PICK c \in Call :
           /\ call' = [call EXCEPT ![w] = c]
           /\ c.pc \notin {"idle", "unlock"} /\ call[w].pc \notin {"idle", "unlock"}
           /\ c.key = call[w].key /\ c.alias = call[w].alias /\ c.answer = call[w].answer
    <3>1. TypeOK'
      BY <1>2, NextIInv DEF Next, Proceeds
    <3>2. call' = [call EXCEPT ![w] = call'[w]] /\ call'[w] \in Call
      BY <1>2, <3>1 DEF TypeOK, TakeMu, TakeFlock, LoadNames, OpenTmp, FillTmp, RenameFails
    <3>3. /\ call'[w].pc \notin {"idle", "unlock"} /\ call[w].pc \notin {"idle", "unlock"}
          /\ call'[w].key = call[w].key /\ call'[w].alias = call[w].alias
          /\ call'[w].answer = call[w].answer
      BY <1>2 DEF TypeOK, Call, At, TakeMu, TakeFlock, LoadNames, OpenTmp, FillTmp, RenameFails
    <3> QED
      BY <3>2, <3>3
  <2> QED
    BY <2>1 DEF TypeOK, askBar, At
<1>3. ASSUME NEW w \in Writer, \/ TakeMu(w) \/ TakeFlock(w) \/ LoadNames(w) \/ RenameFails(w)
      PROVE  Stored' = Stored
  BY <1>3 DEF TakeMu, TakeFlock, LoadNames, RenameFails, Stored
<1>4. ASSUME NEW w \in Writer, OpenTmp(w) PROVE Stored' = Stored
  <2>1. PICK i \in Inode : i # main /\ disk' = [disk EXCEPT ![i] = Torn] /\ main' = main
    BY <1>4 DEF OpenTmp, Free, FileWhole
  <2> QED
    BY <2>1 DEF Stored, TypeOK
<1>5. ASSUME NEW w \in Writer, FillTmp(w) PROVE Stored' = Stored
  BY <1>5 DEF FillTmp, At, HolderReady, FileWhole, Stored, TypeOK
<1>6. ASSUME NEW w \in Writer, RenameTmp(w) PROVE Store!Assign(w)
  <2>1. call[w].m \in Names /\ disk[tmp] = call[w].m /\ tmp \in Inode
    BY <1>6 DEF RenameTmp, At, HolderReady, TypeOK, Call
  <2>2. call[w].m = [Stored EXCEPT ![call[w].key] = call[w].alias]
    BY <1>6 DEF RenameTmp, At, HolderReady
  <2>3. Stored' = call[w].m
    BY <1>6, <2>1, RepoNamesAssumption DEF RenameTmp, Stored, Parsed, Names
  <2>4. askBar[w].at = "asked" /\ askBar[w].key = call[w].key /\ askBar[w].alias = call[w].alias
    BY <1>6 DEF RenameTmp, At, askBar
  <2>5. askBar' = [askBar EXCEPT ![w].at = "set"]
    <3>1. /\ call'[w].pc = "unlock" /\ call[w].pc = "rename"
          /\ call'[w].key = call[w].key /\ call'[w].alias = call[w].alias
          /\ call'[w].answer = call[w].answer
      BY <1>6 DEF RenameTmp, At, TypeOK, Call
    <3>2. \A v \in Writer : v # w => call'[v] = call[v]
      BY <1>6 DEF RenameTmp, TypeOK
    <3> QED
      BY <3>1, <3>2 DEF askBar, At
  <2> QED
    BY <2>2, <2>3, <2>4, <2>5 DEF Store!Assign
<1>7. ASSUME NEW w \in Writer, RemoveTmp(w) \/ GivesUp(w) PROVE Store!Refuse(w)
  <2>1. call[w].pc \notin {"idle", "unlock"} /\ Stored' = Stored
    BY <1>7 DEF RemoveTmp, GivesUp, At, Stored
  <2>2. call' = [call EXCEPT ![w] = Resting("err")]
    BY <1>7 DEF RemoveTmp, GivesUp, Leave
  <2> QED
    BY <2>1, <2>2 DEF Store!Refuse, Store!Quiet, askBar, At, Resting, TypeOK
<1>8. ASSUME NEW w \in Writer, Unlock(w) PROVE Store!Accept(w)
  <2>1. At(w, "unlock") /\ Stored' = Stored /\ call' = [call EXCEPT ![w] = Resting("ok")]
    BY <1>8 DEF Unlock, Leave, Stored
  <2> QED
    BY <2>1 DEF Store!Accept, Store!Quiet, askBar, At, Resting, TypeOK
<1>9. ASSUME NEW p \in Process, Crash(p)
      PROVE  Store!Die({w \in Writer : ProcessOf[w] = p})
  BY <1>9 DEF Crash, Store!Die, Store!Quiet, askBar, At, Resting, Stored
<1>10. CASE UNCHANGED vars
  BY <1>10 DEF vars, askBar, At, Stored
<1> QED
  BY <1>1, <1>2, <1>3, <1>4, <1>5, <1>6, <1>7, <1>8, <1>9, <1>10
     DEF Next, Proceeds, Store!StoreNext

(* The file is an atomic store: see ImplementsStore.                       *)
THEOREM Refinement == Spec => ImplementsStore
<1> QED
  BY Inductive, InitStore, NextStore, PTL DEF Spec, ImplementsStore, Store!StoreSpec

-----------------------------------------------------------------------------
(* Names: the names that goroutines of several processes set.              *)

LEMMA NamesAssumed ==
    /\ SetterOf \in [Setter -> Process] /\ None \notin Setter /\ None \notin Session
    /\ Empty \notin N!NameMap /\ Torn \notin N!NameMap /\ Empty # Torn
  BY SettersAssumption DEF N!NamesAssumption, N!NameMap

LEMMA NoDisplays == N!NoNames \in N!NameMap /\ N!Resting \in N!Call
<1>1. N!NoNames \in N!NameMap
  BY DEF N!NoNames, N!NameMap
<1> QED
  BY <1>1 DEF N!Resting, N!Call

(* Where a writer is and what it holds.                                    *)
LEMMA CallUpdated ==
    ASSUME NEW c \in N!Call
    PROVE  /\ c.pc \in {"idle", "mu", "load", "open", "fill", "return"}
           /\ c.key \in Session \cup {None} /\ c.name \in Display \cup {None} /\ c.m \in N!NameMap
           /\ \A pc \in {"idle", "mu", "load", "open", "fill", "return"} : [c EXCEPT !.pc = pc] \in N!Call
           /\ \A pc \in {"idle", "mu", "load", "open", "fill", "return"}, m \in N!NameMap :
                 [c EXCEPT !.pc = pc, !.m = m] \in N!Call
           /\ \A k \in Session, n \in Display \cup {None} :
                 [c EXCEPT !.pc = "mu", !.key = k, !.name = n] \in N!Call
  BY DEF N!Call

LEMMA NamesInit == N!Init => N!IInv
<1> SUFFICES ASSUME N!Init PROVE N!IInv
  OBVIOUS
<1>1. \A w \in Setter : setter[w].pc = "idle"
  BY DEF N!Init, N!Resting
<1>2. N!Serialised
  BY <1>1, NoDisplays, NamesAssumed DEF N!Init, N!Serialised, N!TypeOK
<1> QED
  BY <1>1, <1>2 DEF N!Init, N!IInv, N!SetsName, N!InTurn, N!Unharmed, N!Writing, N!At

LEMMA NamesLoaded == N!TypeOK => N!Load \in N!NameMap
  BY NoDisplays DEF N!TypeOK, N!Load

LEMMA NamesTypes == N!IInv /\ [N!Next]_N!vars => N!TypeOK'
<1> SUFFICES ASSUME N!IInv, [N!Next]_N!vars PROVE N!TypeOK'
  OBVIOUS
<1>0. N!TypeOK /\ \A w \in Setter : setter[w] \in N!Call
  BY DEF N!IInv, N!Serialised, N!TypeOK
<1> USE <1>0, CallUpdated, NoDisplays DEF N!TypeOK
<1>1. ASSUME NEW w \in Setter, NEW k \in Session, NEW n \in Display \cup {None}, N!Begin(w, k, n)
      PROVE  N!TypeOK'
  <2>1. [N!Resting EXCEPT !.pc = "mu", !.key = k, !.name = n] \in N!Call
    OBVIOUS
  <2> QED
    BY <1>1, <2>1 DEF N!Begin
<1>2. ASSUME NEW w \in Setter, N!TakeMu(w) PROVE N!TypeOK'
  BY <1>2 DEF N!TakeMu
<1>3. ASSUME NEW w \in Setter, N!LoadNames(w) PROVE N!TypeOK'
  <2>1. PICK m0 \in N!NameMap, more \in SUBSET N!Harm :
           /\ setter' = [setter EXCEPT ![w].pc = "open",
                                       ![w].m = [m0 EXCEPT ![setter[w].key] = setter[w].name]]
           /\ harm' = harm \cup more
    BY <1>3, NamesLoaded DEF N!LoadNames, N!Harm
  <2> DEFINE m == [m0 EXCEPT ![setter[w].key] = setter[w].name]
  <2>2. m \in N!NameMap
    BY DEF N!NameMap
  <2>3. setter' = [setter EXCEPT ![w] = [setter[w] EXCEPT !.pc = "open", !.m = m]]
    BY <2>1
  <2>4. [setter[w] EXCEPT !.pc = "open", !.m = m] \in N!Call
    BY <2>2
  <2>5. setter' \in [Setter -> N!Call] /\ harm' \subseteq N!Harm
    BY <2>1, <2>3, <2>4
  <2> QED
    BY <1>3, <2>5 DEF N!LoadNames
<1>4. ASSUME NEW w \in Setter, N!OpenFile(w) PROVE N!TypeOK'
  BY <1>4 DEF N!OpenFile
<1>5. ASSUME NEW w \in Setter, N!FillFile(w) PROVE N!TypeOK'
  <2>1. stored' \in N!NameMap
    BY <1>5 DEF N!FillFile, N!NameMap
  <2>2. file' \in N!NameMap \cup {Empty, Torn}
    BY <1>5 DEF N!FillFile, N!Overwritten
  <2> QED
    BY <1>5, <2>1, <2>2 DEF N!FillFile
<1>6. ASSUME NEW w \in Setter, N!Return(w) \/ N!WriteFails(w) PROVE N!TypeOK'
  <2>1. N!Leave(w) /\ harm' \subseteq N!Harm /\ UNCHANGED <<file, stored>>
    BY <1>6 DEF N!Return, N!WriteFails, N!Harms, N!Harm
  <2> QED
    BY <2>1 DEF N!Leave
<1>7. ASSUME NEW p \in Process, N!Crash(p) PROVE N!TypeOK'
  BY <1>7 DEF N!Crash, N!Harms, N!Harm
<1>8. CASE UNCHANGED N!vars
  BY <1>8 DEF N!vars
<1> QED
  BY <1>1, <1>2, <1>3, <1>4, <1>5, <1>6, <1>7, <1>8 DEF N!Next

(* The mutex of each process.                                              *)
LEMMA NamesSerial == N!IInv /\ [N!Next]_N!vars => N!Serialised'
<1> SUFFICES ASSUME N!IInv, [N!Next]_N!vars, NEW v \in Setter
             PROVE  setter'[v].pc \notin {"idle", "mu"} <=> setMu'[SetterOf[v]] = v
  BY NamesTypes DEF N!Serialised
<1>0. /\ N!TypeOK
      /\ \A w \in Setter : /\ setter[w].pc \notin {"idle", "mu"} <=> setMu[SetterOf[w]] = w
                           /\ SetterOf[w] \in Process /\ w # None
  BY NamesAssumed DEF N!IInv, N!Serialised
<1> USE <1>0 DEF N!TypeOK
<1>1. ASSUME NEW w \in Setter, NEW k \in Session, NEW n \in Display \cup {None}, N!Begin(w, k, n)
      PROVE  setter'[v].pc \notin {"idle", "mu"} <=> setMu'[SetterOf[v]] = v
  BY <1>1 DEF N!Begin, N!At, N!Resting
<1>2. ASSUME NEW w \in Setter, N!TakeMu(w)
      PROVE  setter'[v].pc \notin {"idle", "mu"} <=> setMu'[SetterOf[v]] = v
  BY <1>2 DEF N!TakeMu, N!At, N!MuFree, N!Call
<1>3. ASSUME NEW w \in Setter, N!LoadNames(w) \/ N!OpenFile(w) \/ N!FillFile(w)
      PROVE  setter'[v].pc \notin {"idle", "mu"} <=> setMu'[SetterOf[v]] = v
  <2>1. /\ UNCHANGED setMu /\ setter[w].pc \notin {"idle", "mu"} /\ setter'[w].pc \notin {"idle", "mu"}
        /\ \A u \in Setter \ {w} : setter'[u] = setter[u]
    BY <1>3 DEF N!LoadNames, N!OpenFile, N!FillFile, N!At, N!Call
  <2> QED
    BY <2>1
<1>4. ASSUME NEW w \in Setter, N!Return(w) \/ N!WriteFails(w)
      PROVE  setter'[v].pc \notin {"idle", "mu"} <=> setMu'[SetterOf[v]] = v
  <2>1. N!Leave(w) /\ setter[w].pc \notin {"idle", "mu"}
    BY <1>4 DEF N!Return, N!WriteFails, N!At
  <2> QED
    BY <2>1 DEF N!Leave, N!Resting
<1>5. ASSUME NEW p \in Process, N!Crash(p)
      PROVE  setter'[v].pc \notin {"idle", "mu"} <=> setMu'[SetterOf[v]] = v
  BY <1>5 DEF N!Crash, N!Resting
<1>6. CASE UNCHANGED N!vars
  BY <1>6 DEF N!vars
<1> QED
  BY <1>1, <1>2, <1>3, <1>4, <1>5, <1>6 DEF N!Next

(* What a writer holds has the name it sets; while processes take turns    *)
(* the file is its own, and what it has read is what is stored.            *)
LEMMA NamesKept ==
    ASSUME N!IInv, [N!Next]_N!vars
    PROVE  /\ \A w \in Setter : N!SetsName(w)'
           /\ "overlap" \notin harm' => N!InTurn'
           /\ harm' = {} => N!Unharmed'
<1> DEFINE Goal == /\ \A w \in Setter : N!SetsName(w)'
                   /\ "overlap" \notin harm' => N!InTurn'
                   /\ harm' = {} => N!Unharmed'
<1>0. /\ N!TypeOK /\ \A w \in Setter : setter[w] \in N!Call
      /\ \A w \in Setter : N!SetsName(w)
      /\ "overlap" \notin harm => N!InTurn
      /\ harm = {} => N!Unharmed
      /\ \A w \in Setter : setter[w].pc \notin {"idle", "mu"} <=> setMu[SetterOf[w]] = w
  BY DEF N!IInv, N!Serialised, N!TypeOK
(* Writers that go back to the start, or forward to where nobody writes.    *)
<1>a. ASSUME UNCHANGED <<file, stored>>, harm \subseteq harm',
             \A w \in Setter : setter'[w] = setter[w] \/ (setter'[w].pc \in {"idle", "mu", "load"}
                                                          /\ (setter'[w].pc # "idle" => setter'[w].key \in Session)),
             harm' = {} => \A w \in Setter : setter[w].pc = "fill" => setter'[w].pc = "fill"
      PROVE  Goal
  <2>1. \A w \in Setter : N!SetsName(w)'
    BY <1>0, <1>a DEF N!SetsName, N!Writing
  <2>2. "overlap" \notin harm' => N!InTurn'
    BY <1>0, <1>a DEF N!InTurn, N!Writing, N!At
  <2>3. harm' = {} => N!Unharmed'
    BY <1>0, <1>a DEF N!Unharmed, N!At
  <2> QED
    BY <2>1, <2>2, <2>3
<1>1. ASSUME NEW w \in Setter,
             N!TakeMu(w) \/ \E k \in Session, n \in Display \cup {None} : N!Begin(w, k, n)
      PROVE  Goal
  <2>1. /\ UNCHANGED <<file, stored, harm>> /\ setter[w].pc \in {"idle", "mu"}
        /\ setter'[w].pc \in {"mu", "load"} /\ setter'[w].key \in Session
        /\ \A v \in Setter \ {w} : setter'[v] = setter[v]
    <3>1. CASE N!TakeMu(w)
      BY <1>0, <3>1 DEF N!TypeOK, N!TakeMu, N!At, N!Call, N!SetsName
    <3>2. ASSUME NEW k \in Session, NEW n \in Display \cup {None}, N!Begin(w, k, n)
          PROVE  /\ setter[w].pc = "idle" /\ UNCHANGED <<file, stored, harm>>
                 /\ setter'[w].pc = "mu" /\ setter'[w].key = k
                 /\ \A v \in Setter \ {w} : setter'[v] = setter[v]
      BY <1>0, <3>2 DEF N!TypeOK, N!Begin, N!At, N!Resting
    <3> QED
      BY <1>1, <3>1, <3>2
  <2> QED
    BY <1>a, <2>1
<1>2. ASSUME NEW w \in Setter, N!Return(w) \/ N!WriteFails(w) PROVE Goal
  <2>1. /\ UNCHANGED <<file, stored>> /\ harm \subseteq harm' /\ setter'[w].pc = "idle"
        /\ \A v \in Setter \ {w} : setter'[v] = setter[v]
        /\ setter[w].pc = "fill" => harm' # {}
    BY <1>0, <1>2 DEF N!TypeOK, N!Return, N!WriteFails, N!Leave, N!Harms, N!At, N!Resting
  <2> QED
    BY <1>a, <2>1
<1>3. ASSUME NEW p \in Process, N!Crash(p) PROVE Goal
  <2>1. /\ UNCHANGED <<file, stored>> /\ harm \subseteq harm'
        /\ \A v \in Setter : setter'[v] = setter[v] \/ setter'[v].pc = "idle"
        /\ harm' = {} => \A v \in Setter : setter[v].pc = "fill" => setter'[v].pc = "fill"
    BY <1>0, <1>3 DEF N!TypeOK, N!Crash, N!Harms, N!At, N!Resting
  <2> QED
    BY <1>a, <2>1
<1>4. ASSUME NEW w \in Setter, N!LoadNames(w) PROVE Goal
  <2>1. PICK readable \in BOOLEAN :
           /\ setter' = [setter EXCEPT ![w].pc = "open",
                            ![w].m = [IF readable THEN N!Load ELSE N!NoNames
                                      EXCEPT ![setter[w].key] = setter[w].name]]
           /\ harm' = harm \cup (IF readable THEN {} ELSE {"unread"})
                           \cup (IF N!Overlapping(w) THEN {"overlap"} ELSE {})
    BY <1>4 DEF N!LoadNames
  <2> DEFINE m == IF readable THEN N!Load ELSE N!NoNames
  <2>2. /\ setter[w].pc = "load" /\ setter[w].key \in Session /\ UNCHANGED <<file, stored>>
        /\ m \in N!NameMap
    BY <1>0, <1>4, NamesLoaded, NoDisplays DEF N!LoadNames, N!At, N!SetsName
  <2>3. /\ setter'[w].pc = "open" /\ setter'[w].key = setter[w].key /\ setter'[w].name = setter[w].name
        /\ setter'[w].m = [m EXCEPT ![setter[w].key] = setter[w].name]
        /\ \A v \in Setter \ {w} : setter'[v] = setter[v]
    BY <1>0, <2>1 DEF N!TypeOK, N!Call
  <2>4. harm \subseteq harm' /\ (harm' = {} => readable)
    BY <2>1
  <2>5. ASSUME "overlap" \notin harm' PROVE \A v \in Setter \ {w} : ~N!Writing(v)
    <3>1. \A v \in Setter : SetterOf[v] # SetterOf[w] => ~N!Writing(v)
      BY <2>1, <2>5 DEF N!Overlapping, N!Writing
    <3>2. \A v \in Setter \ {w} : SetterOf[v] = SetterOf[w] => ~N!Writing(v)
      BY <1>0, <2>2 DEF N!Writing
    <3> QED
      BY <3>1, <3>2
  <2>6. \A v \in Setter : N!SetsName(v)'
    BY <1>0, <2>2, <2>3 DEF N!SetsName, N!Writing, N!NameMap
  <2>7. "overlap" \notin harm' => N!InTurn'
    BY <1>0, <2>3, <2>5 DEF N!InTurn, N!Writing, N!At
  <2>8. ASSUME harm' = {} PROVE N!Unharmed'
    <3>1. \A v \in Setter \ {w} : ~N!Writing(v)
      BY <2>5, <2>8
    <3>2. file = stored /\ m = stored
      BY <1>0, <2>2, <2>4, <2>8, <3>1, NamesAssumed DEF N!Unharmed, N!At, N!Writing, N!TypeOK, N!Load
    <3> QED
      BY <2>2, <2>3, <3>1, <3>2 DEF N!Unharmed, N!At, N!Writing
  <2> QED
    BY <2>6, <2>7, <2>8
<1>5. ASSUME NEW w \in Setter, N!OpenFile(w) \/ N!FillFile(w) PROVE Goal
  <2>1. /\ N!Writing(w) /\ setter'[w] = [setter[w] EXCEPT !.pc = setter'[w].pc] /\ UNCHANGED harm
        /\ setter'[w].key = setter[w].key /\ setter'[w].name = setter[w].name /\ setter'[w].m = setter[w].m
        /\ \A v \in Setter \ {w} : setter'[v] = setter[v]
        /\ setter[w].key \in Session
        /\ \/ setter[w].pc = "open" /\ setter'[w].pc = "fill" /\ file' = Empty /\ UNCHANGED stored
           \/ /\ setter[w].pc = "fill" /\ setter'[w].pc = "return"
              /\ file' \in N!Overwritten(setter[w].m)
              /\ stored' = [stored EXCEPT ![setter[w].key] = setter[w].name]
    BY <1>0, <1>5 DEF N!TypeOK, N!OpenFile, N!FillFile, N!At, N!Writing, N!Call, N!SetsName
  <2>2. \A v \in Setter : N!SetsName(v)'
    BY <1>0, <2>1 DEF N!SetsName, N!Writing
  <2>3. ASSUME "overlap" \notin harm PROVE N!InTurn' /\ \A v \in Setter \ {w} : ~N!Writing(v)
    <3>1. \A v \in Setter \ {w} : ~N!Writing(v)
      BY <1>0, <2>1, <2>3 DEF N!InTurn
    <3>2. setter[w].pc = "fill" => file' = setter[w].m
      BY <1>0, <2>1, <2>3 DEF N!InTurn, N!At, N!Overwritten
    <3> QED
      BY <2>1, <3>1, <3>2 DEF N!InTurn, N!Writing, N!At
  <2>4. ASSUME harm = {} PROVE N!Unharmed'
    <3>1. /\ \A v \in Setter \ {w} : ~N!Writing(v)
          /\ setter[w].m = [stored EXCEPT ![setter[w].key] = setter[w].name]
      BY <1>0, <2>1, <2>3, <2>4 DEF N!Unharmed, N!Writing
    <3>2. setter[w].pc = "fill" => file' = setter[w].m
      BY <1>0, <2>1, <2>4 DEF N!InTurn, N!At, N!Overwritten
    <3> QED
      BY <2>1, <3>1, <3>2 DEF N!Unharmed, N!At, N!Writing
  <2> QED
    BY <2>1, <2>2, <2>3, <2>4
<1>6. CASE UNCHANGED N!vars
  BY <1>a, <1>6 DEF N!vars
<1> QED
  BY <1>1, <1>2, <1>3, <1>4, <1>5, <1>6 DEF N!Next

LEMMA NamesInductive == N!Spec => []N!IInv
<1>1. N!IInv /\ [N!Next]_N!vars => N!IInv'
  BY NamesSerial, NamesKept DEF N!IInv
<1> QED
  BY <1>1, NamesInit, PTL DEF N!Spec

(* Nobody in Set: the file says what was last set; about to return from    *)
(* it: the file has that name.                                             *)
THEOREM NamesArePersisted == N!Spec => []NamesPersist
<1>1. N!IInv => NamesPersist
  <2> SUFFICES ASSUME N!IInv PROVE NamesPersist
    OBVIOUS
  <2>1. ASSUME harm = {}, \A w \in Setter : N!At(w, "idle") PROVE N!Load = stored
    BY <2>1, NamesAssumed DEF N!IInv, N!Serialised, N!TypeOK, N!Unharmed, N!At, N!Load
  <2>2. ASSUME "overlap" \notin harm, NEW w \in Setter, N!At(w, "return")
        PROVE  N!Load[setter[w].key] = setter[w].name
    <3>1. setter[w].m \in N!NameMap /\ file = setter[w].m /\ setter[w].m[setter[w].key] = setter[w].name
      BY <2>2, CallUpdated DEF N!IInv, N!Serialised, N!TypeOK, N!InTurn, N!SetsName, N!Writing, N!At
    <3> QED
      BY <3>1, NamesAssumed DEF N!Load
  <2> QED
    BY <2>1, <2>2 DEF NamesPersist, N!NamesPersist
<1> QED
  BY <1>1, NamesInductive, PTL

-----------------------------------------------------------------------------
(* Panes: agents and the tmux sessions they run in.                        *)

LEMMA PanesAssumed ==
    /\ CwdOf \in [Agent -> Dir] /\ BaseOf \in [Dir -> TmuxName]
    /\ Suffixed \in [TmuxName -> SUBSET TmuxName]
    /\ None \notin Agent /\ None \notin TmuxName /\ None \notin Dir
    /\ Climb \in Nat /\ MaxPane \in Nat /\ MaxPid \in Nat
  BY TracingAssumption DEF P!PanesAssumption

LEMMA PanesTypes ==
    /\ P!Closed \in P!TmuxSession /\ P!Off \in P!Running /\ P!Resting \in P!Load /\ P!Idle \in P!New
    /\ \A l \in 0..MaxPid : [P!Off EXCEPT !.lock = l] \in P!Running
<1>1. P!Closed \in P!TmuxSession /\ P!Idle \in P!New
  BY PanesAssumed DEF P!Closed, P!TmuxSession, P!Idle, P!New
<1>2. P!Off \in P!Running /\ \A l \in 0..MaxPid : [P!Off EXCEPT !.lock = l] \in P!Running
  BY PanesAssumed DEF P!Off, P!Running
<1>3. P!Resting \in P!Load
  <2>1. /\ [a \in Agent |-> 0] \in [Agent -> 0..MaxPid]
        /\ [n \in TmuxName |-> P!Closed] \in [TmuxName -> P!TmuxSession]
        /\ [n \in TmuxName |-> 0] \in [TmuxName -> 0..MaxPane]
        /\ [a \in Agent |-> None] \in [Agent -> TmuxName \cup {None}]
    BY <1>1, PanesAssumed
  <2> QED
    BY <2>1 DEF P!Resting, P!Load
<1> QED
  BY <1>1, <1>2, <1>3

LEMMA PanesInit == P!Init => P!IInv
<1> SUFFICES ASSUME P!Init PROVE P!IInv
  OBVIOUS
<1>1. P!TypeOK
  BY PanesTypes, PanesAssumed DEF P!Init, P!TypeOK, P!Nothing
<1>2. \A n \in TmuxName : tmux[n].pane = 0
  BY DEF P!Init, P!Closed
<1>3. P!PanesNumbered /\ P!PidsNumbered
  BY <1>2 DEF P!Init, P!PanesNumbered, P!PidsNumbered, P!Up, P!Idle, P!Off, P!Resting
<1> QED
  BY <1>1, <1>3 DEF P!Init, P!IInv, P!TracedToPane, P!Resting, P!Idle, P!Nothing, P!ResumeReachesAgent,
                    P!NewLandsInPlace, P!NewChosen

(* A pane that is opened has a number of its own.                          *)
LEMMA OpenedPane ==
    ASSUME P!TypeOK, P!PanesNumbered, NEW n \in TmuxName, NEW d \in Dir, P!Opened(n, d)
    PROVE  /\ tmux' \in [TmuxName -> P!TmuxSession] /\ born' \in [panes : 0..MaxPane, pids : 0..MaxPid]
           /\ born'.panes = born.panes + 1 /\ born'.pids = born.pids
           /\ tmux'[n] = [pane |-> born.panes + 1, path |-> d]
           /\ \A m \in TmuxName \ {n} : tmux'[m] = tmux[m]
           /\ \A m, k \in TmuxName : tmux'[m].pane > 0 /\ tmux'[m].pane = tmux'[k].pane => m = k
           /\ \A m \in TmuxName : tmux'[m].pane <= born'.panes
<1>1. /\ born.panes + 1 \in 0..MaxPane /\ born.panes \in Nat
      /\ tmux'[n] = [pane |-> born.panes + 1, path |-> d]
      /\ \A m \in TmuxName \ {n} : tmux'[m] = tmux[m]
      /\ \A m \in TmuxName : tmux[m].pane \in Nat
      /\ born'.panes = born.panes + 1 /\ born'.pids = born.pids
  BY PanesAssumed DEF P!TypeOK, P!Opened, P!TmuxSession
<1>2. [pane |-> born.panes + 1, path |-> d] \in P!TmuxSession
  BY <1>1 DEF P!TmuxSession
<1>3. tmux' \in [TmuxName -> P!TmuxSession]
  BY <1>2 DEF P!TypeOK, P!Opened
<1>4. born' \in [panes : 0..MaxPane, pids : 0..MaxPid]
  BY <1>1 DEF P!TypeOK, P!Opened
<1> QED
  BY <1>1, <1>3, <1>4 DEF P!PanesNumbered, P!Up

(* Renaming moves a pane to another name, or does nothing.                 *)
LEMMA RenamedPane ==
    ASSUME P!TypeOK, P!PanesNumbered, NEW m \in TmuxName, NEW n \in TmuxName, P!Renamed(m, n)
    PROVE  /\ tmux' \in [TmuxName -> P!TmuxSession]
           /\ \A k, l \in TmuxName : tmux'[k].pane > 0 /\ tmux'[k].pane = tmux'[l].pane => k = l
           /\ \A k \in TmuxName : tmux'[k] = P!Closed \/ \E l \in TmuxName : tmux'[k] = tmux[l]
<1>1. CASE tmux' = tmux
  BY <1>1 DEF P!TypeOK, P!PanesNumbered, P!Up
<1>2. CASE tmux' # tmux
  <2>1. tmux' = [k \in TmuxName |-> IF k = n THEN tmux[m] ELSE IF k = m THEN P!Closed ELSE tmux[k]]
        /\ (m = n \/ ~(tmux[n].pane > 0))
    BY <1>2 DEF P!Renamed, P!Up
  <2>2. \A k \in TmuxName : tmux[k].pane \in Nat /\ tmux[k] \in P!TmuxSession
    BY PanesAssumed DEF P!TypeOK, P!TmuxSession
  <2>3. tmux' \in [TmuxName -> P!TmuxSession]
    BY <2>1, <2>2, PanesTypes
  <2>4. \A k, l \in TmuxName : tmux'[k].pane > 0 /\ tmux'[k].pane = tmux'[l].pane => k = l
    <3>1. P!Closed.pane = 0
      BY DEF P!Closed
    <3> QED
      BY <2>1, <2>2, <3>1 DEF P!PanesNumbered, P!Up
  <2> QED
    BY <2>1, <2>3, <2>4
<1> QED
  BY <1>1, <1>2

(* A load that goes on has found something.                                *)
LEMMA LoadGoesOn ==
    ASSUME NEW x \in P!Load
    PROVE  /\ x.pid \in [Agent -> 0..MaxPid] /\ x.panes \in [TmuxName -> 0..MaxPane]
           /\ x.listed \in [TmuxName -> P!TmuxSession]
           /\ x.name \in [Agent -> TmuxName \cup {None}] /\ x.target \in [Agent -> TmuxName \cup {None}]
           /\ \A pid \in [Agent -> 0..MaxPid] : [x EXCEPT !.pc = "sessions", !.pid = pid] \in P!Load
           /\ \A listed \in [TmuxName -> P!TmuxSession] :
                 [x EXCEPT !.pc = "panes", !.listed = listed] \in P!Load
           /\ \A panes \in [TmuxName -> 0..MaxPane] : [x EXCEPT !.pc = "merge", !.panes = panes] \in P!Load
           /\ \A name, target \in [Agent -> TmuxName \cup {None}],
                 listed \in [TmuxName -> P!TmuxSession] :
                 [x EXCEPT !.pc = "done", !.target = target, !.listed = listed, !.name = name] \in P!Load
  BY DEF P!Load

(* And so for `tsession new`.                                              *)
LEMMA NewGoesOn ==
    ASSUME NEW x \in P!New
    PROVE  /\ \A d \in Dir : [x EXCEPT !.pc = "list", !.dir = d] \in P!New
           /\ \A start \in BOOLEAN, name \in TmuxName, pane \in 0..MaxPane :
                 [x EXCEPT !.pc = IF start THEN "create" ELSE "switch", !.name = name, !.pane = pane] \in P!New
           /\ \A pane \in 0..MaxPane : [x EXCEPT !.pc = "switch", !.pane = pane] \in P!New
  BY DEF P!New

(* The session `tsession new` has chosen, there already or to be created.  *)
LEMMA NewNamed ==
    ASSUME P!IInv, P!ListForNew,
           NEW r \in P!ResolveSessionName(new.dir) \cup {[name |-> BaseOf[new.dir], start |-> TRUE]}
    PROVE  /\ new.dir \in Dir /\ r.name \in TmuxName /\ r.start \in BOOLEAN
           /\ ~ r.start => tmux[r.name].pane > 0 /\ tmux[r.name].path = new.dir
<1>1. new.dir \in Dir /\ BaseOf[new.dir] \in TmuxName /\ Suffixed[BaseOf[new.dir]] \subseteq TmuxName
  BY PanesAssumed DEF P!IInv, P!NewChosen, P!ListForNew
<1> DEFINE rooted == {n \in TmuxName : P!Up(n) /\ tmux[n].path = new.dir}
           free == {n \in {BaseOf[new.dir]} \cup Suffixed[BaseOf[new.dir]] : ~ P!Up(n)}
<1>2. CASE r \in [name : rooted, start : {FALSE}]
  BY <1>1, <1>2 DEF P!Up
<1>3. CASE r \in [name : IF BaseOf[new.dir] \in free THEN {BaseOf[new.dir]} ELSE free, start : {TRUE}]
  <2>1. r.name \in {BaseOf[new.dir]} \cup Suffixed[BaseOf[new.dir]] /\ r.start = TRUE
    BY <1>3
  <2> QED
    BY <1>1, <2>1
<1>4. CASE r = [name |-> BaseOf[new.dir], start |-> TRUE]
  BY <1>1, <1>4
<1> QED
  BY <1>2, <1>3, <1>4 DEF P!ResolveSessionName

LEMMA PanesTyped == P!IInv /\ [P!Next]_P!vars => P!TypeOK'
<1> SUFFICES ASSUME P!IInv, [P!Next]_P!vars PROVE P!TypeOK'
  OBVIOUS
<1> DEFINE Act == [what : {"none", "resume", "rename", "new"}, by : Agent \cup Dir \cup {None},
                   pane : 0..MaxPane, kept : BOOLEAN]
<1>0. P!TypeOK /\ P!PanesNumbered /\ P!Nothing \in Act
  BY PanesAssumed DEF P!IInv, P!Nothing
<1>1. ASSUME NEW n \in TmuxName, NEW d \in Dir, P!Open(n, d) PROVE P!TypeOK'
  BY <1>0, <1>1, OpenedPane DEF P!TypeOK, P!Open
<1>2. ASSUME NEW n \in TmuxName, P!Close(n) PROVE P!TypeOK'
  <2>1. \A a \in Agent : runs[a] \in P!Running /\ runs[a].lock \in 0..MaxPid
    BY <1>0 DEF P!TypeOK, P!Running
  <2>2. runs' \in [Agent -> P!Running]
    BY <1>2, <2>1, PanesTypes DEF P!Close
  <2> QED
    BY <1>0, <1>2, <2>2, PanesTypes DEF P!TypeOK, P!Close
<1>3. ASSUME NEW a \in Agent, NEW n \in TmuxName, NEW depth \in 0..Climb, P!Launch(a, n, depth)
      PROVE  P!TypeOK'
  <2>1. born.pids + 1 \in 0..MaxPid /\ tmux[n].pane \in 0..MaxPane
    BY <1>0, <1>3, PanesAssumed DEF P!TypeOK, P!TmuxSession, P!Launch
  <2>2. [pid |-> born.pids + 1, pane |-> tmux[n].pane, depth |-> depth, lock |-> born.pids + 1]
           \in P!Running
    BY <2>1 DEF P!Running
  <2>3. born' \in [panes : 0..MaxPane, pids : 0..MaxPid]
    BY <1>0, <1>3, <2>1 DEF P!TypeOK, P!Launch
  <2> QED
    BY <1>0, <1>3, <2>2, <2>3 DEF P!TypeOK, P!Launch
<1>4. ASSUME NEW a \in Agent, P!Quit(a) PROVE P!TypeOK'
  BY <1>0, <1>4, PanesTypes DEF P!TypeOK, P!Quit
<1>5. ASSUME P!readInusePID \/ P!ListSessions \/ P!ListPanes \/ P!Merge \/ P!Loaded PROVE P!TypeOK'
  <2>1. UNCHANGED <<tmux, runs, new, born>> /\ act' = P!Nothing
    BY <1>5 DEF P!readInusePID, P!ListSessions, P!ListPanes, P!Merge, P!Loaded
  <2>2. tracing \in P!Load
    BY <1>0 DEF P!TypeOK
  <2>3. tracing' \in P!Load
    <3>1. CASE P!readInusePID
      <4>1. [a \in Agent |-> runs[a].lock] \in [Agent -> 0..MaxPid]
        BY <1>0 DEF P!TypeOK, P!Running
      <4> QED
        BY <2>2, <3>1, <4>1, LoadGoesOn DEF P!readInusePID
    <3>2. CASE P!ListSessions
      BY <1>0, <2>2, <3>2, LoadGoesOn DEF P!TypeOK, P!ListSessions
    <3>3. CASE P!ListPanes
      <4>1. PICK ok \in BOOLEAN :
               tracing' = [tracing EXCEPT !.pc = "merge",
                              !.panes = [n \in TmuxName |-> IF ok THEN tmux[n].pane ELSE 0]]
        BY <3>3 DEF P!ListPanes
      <4>2. [n \in TmuxName |-> IF ok THEN tmux[n].pane ELSE 0] \in [TmuxName -> 0..MaxPane]
        BY <1>0, PanesAssumed DEF P!TypeOK, P!TmuxSession
      <4> QED
        BY <2>2, <4>1, <4>2, LoadGoesOn
    <3>4. CASE P!Merge
      <4>1. PICK guess \in [Agent -> TmuxName \cup {None}], target \in [Agent -> TmuxName \cup {None}] :
               tracing' = [tracing EXCEPT !.pc = "done", !.target = target,
                              !.listed = P!Resting.listed,
                              !.name = [a \in Agent |-> IF guess[a] = None THEN target[a] ELSE guess[a]]]
        BY <3>4 DEF P!Merge
      <4>2. [a \in Agent |-> IF guess[a] = None THEN target[a] ELSE guess[a]]
               \in [Agent -> TmuxName \cup {None}]
        OBVIOUS
      <4>3. P!Resting.listed \in [TmuxName -> P!TmuxSession]
        BY PanesTypes, LoadGoesOn
      <4> QED
        BY <2>2, <4>1, <4>2, <4>3, LoadGoesOn
    <3>5. CASE P!Loaded
      BY <3>5, PanesTypes DEF P!Loaded
    <3> QED
      BY <1>5, <3>1, <3>2, <3>3, <3>4, <3>5
  <2> QED
    BY <1>0, <2>1, <2>3 DEF P!TypeOK
<1>6. ASSUME NEW a \in Agent, P!Resume(a) PROVE P!TypeOK'
  <2>1. P!SwitchTarget(a) \in TmuxName
    BY <1>0, <1>6, LoadGoesOn DEF P!TypeOK, P!Resume, P!SwitchTarget
  <2>2. tmux[P!SwitchTarget(a)].pane \in 0..MaxPane
    BY <1>0, <2>1 DEF P!TypeOK, P!TmuxSession
  <2>3. act' \in Act
    <3> DEFINE kept == tmux[P!SwitchTarget(a)].pane = tracing.panes[P!SwitchTarget(a)]
    <3>1. \/ act' = P!Nothing
          \/ act' = [what |-> "resume", by |-> a, pane |-> tmux[P!SwitchTarget(a)].pane, kept |-> kept]
      BY <1>6 DEF P!Resume
    <3>2. kept \in BOOLEAN
      OBVIOUS
    <3> HIDE DEF kept
    <3> QED
      BY <1>0, <2>2, <3>1, <3>2
  <2> QED
    BY <1>0, <1>6, <2>3 DEF P!TypeOK, P!Resume
<1>7. ASSUME NEW a \in Agent, NEW n \in TmuxName, P!Rename(a, n) PROVE P!TypeOK'
  <2>1. tracing.name[a] \in TmuxName
    BY <1>0, <1>7, LoadGoesOn DEF P!TypeOK, P!Rename
  <2>2. tmux[tracing.name[a]].pane \in 0..MaxPane
    BY <1>0, <2>1 DEF P!TypeOK, P!TmuxSession
  <2>3. act' \in Act
    BY <1>7, <2>2 DEF P!Rename
  <2>4. tmux' \in [TmuxName -> P!TmuxSession]
    BY <1>0, <1>7, <2>1, RenamedPane DEF P!Rename
  <2> QED
    BY <1>0, <1>7, <2>3, <2>4 DEF P!TypeOK, P!Rename
<1>8. ASSUME NEW d \in Dir, P!NewIn(d) PROVE P!TypeOK'
  <2>1. new' \in P!New
    BY <1>8, PanesTypes, NewGoesOn DEF P!NewIn
  <2> QED
    BY <1>0, <1>8, <2>1 DEF P!TypeOK, P!NewIn
<1>9. ASSUME P!ListForNew PROVE P!TypeOK'
  <2>1. PICK r \in P!ResolveSessionName(new.dir) \cup {[name |-> BaseOf[new.dir], start |-> TRUE]} :
           new' = [new EXCEPT !.pc = IF r.start THEN "create" ELSE "switch",
                              !.name = r.name, !.pane = tmux[r.name].pane]
    BY <1>9 DEF P!ListForNew
  <2>2. r.name \in TmuxName
    BY <2>1, <1>9, NewNamed
  <2>3. tmux[r.name].pane \in 0..MaxPane
    BY <1>0, <2>2 DEF P!TypeOK, P!TmuxSession
  <2>4. new' \in P!New
    BY <1>0, <2>1, <2>2, <2>3, NewGoesOn DEF P!TypeOK
  <2> QED
    BY <1>0, <1>9, <2>4 DEF P!TypeOK, P!ListForNew
<1>10. CASE P!NewSession
  <2>1. new.name \in TmuxName /\ new.dir \in Dir
    BY <1>10 DEF P!IInv, P!NewChosen, P!NewSession
  <2>2. CASE P!Up(new.name)
    BY <1>0, <1>10, <2>2, PanesTypes DEF P!TypeOK, P!NewSession
  <2>3. CASE ~P!Up(new.name)
    <3>1. /\ tmux' \in [TmuxName -> P!TmuxSession] /\ born' \in [panes : 0..MaxPane, pids : 0..MaxPid]
          /\ new' = [new EXCEPT !.pc = "switch", !.pane = born'.panes]
      BY <1>0, <1>10, <2>1, <2>3, OpenedPane DEF P!NewSession
    <3>2. new' \in P!New
      BY <1>0, <3>1, NewGoesOn DEF P!TypeOK
    <3> QED
      BY <1>0, <1>10, <3>1, <3>2 DEF P!TypeOK, P!NewSession
  <2> QED
    BY <2>2, <2>3
<1>11. CASE P!SwitchToNew
  <2>1. new.name \in TmuxName /\ new.dir \in Dir
    BY <1>11 DEF P!IInv, P!NewChosen, P!SwitchToNew
  <2>2. tmux[new.name].pane \in 0..MaxPane
    BY <1>0, <2>1 DEF P!TypeOK, P!TmuxSession
  <2>3. act' \in Act
    <3> DEFINE kept == tmux[new.name].pane = new.pane
    <3>1. \/ act' = P!Nothing
          \/ act' = [what |-> "new", by |-> new.dir, pane |-> tmux[new.name].pane, kept |-> kept]
      BY <1>11 DEF P!SwitchToNew
    <3>2. kept \in BOOLEAN
      OBVIOUS
    <3> HIDE DEF kept
    <3> QED
      BY <1>0, <2>1, <2>2, <3>1, <3>2
  <2> QED
    BY <1>0, <1>11, <2>3, PanesTypes DEF P!TypeOK, P!SwitchToNew
<1>12. CASE UNCHANGED P!vars
  BY <1>0, <1>12 DEF P!TypeOK, P!vars
<1> QED
  BY <1>1, <1>2, <1>3, <1>4, <1>5, <1>6, <1>7, <1>8, <1>9, <1>10, <1>11, <1>12 DEF P!Next

(* Steps that keep what the load has found, and of the agents whatever was *)
(* traced.                                                                 *)
LEMMA LoadStands ==
    ASSUME P!IInv, P!TypeOK', tracing' = tracing, born.pids <= born'.pids,
           \A a \in Agent : runs'[a].lock <= born'.pids,
           \A a \in Agent : runs'[a] = runs[a] \/ runs'[a].pid = 0 \/ runs'[a].pid > born.pids
    PROVE  P!PidsNumbered' /\ P!TracedToPane'
<1>1. ASSUME NEW a \in Agent
      PROVE  /\ tracing.pid[a] <= born.pids /\ tracing.pid[a] \in Nat /\ born.pids \in Nat
             /\ born'.pids \in Nat /\ runs'[a].pid \in Nat
  <2>1. tracing \in P!Load /\ runs'[a] \in P!Running
    BY DEF P!IInv, P!TypeOK
  <2>2. tracing.pid[a] \in Nat
    <3>1. tracing.pid \in [Agent -> 0..MaxPid]
      BY <2>1, LoadGoesOn
    <3> QED
      BY <3>1, PanesAssumed
  <2>3. runs'[a].pid \in Nat
    BY <2>1, PanesAssumed DEF P!Running
  <2> QED
    BY <2>2, <2>3, PanesAssumed DEF P!IInv, P!TypeOK, P!PidsNumbered
<1>2. P!PidsNumbered'
  BY <1>1 DEF P!PidsNumbered
<1>3. ASSUME NEW a \in Agent, P!Traced(a)' PROVE P!Traced(a) /\ runs'[a] = runs[a]
  <2>1. runs'[a].pid = tracing.pid[a] /\ runs'[a].pid > 0 /\ tracing.target[a] # None
    BY <1>3 DEF P!Traced
  <2>2. runs'[a].pid <= born.pids
    BY <1>1, <2>1
  <2>3. runs'[a] = runs[a]
    BY <1>1, <2>1, <2>2
  <2> QED
    BY <2>1, <2>3 DEF P!Traced
<1>4. tracing.pc = "done" => \A a \in Agent : P!Traced(a) => tracing.panes[tracing.target[a]] = runs[a].pane
  BY DEF P!IInv, P!TracedToPane
<1>5. P!TracedToPane'
  BY <1>3, <1>4 DEF P!TracedToPane
<1> QED
  BY <1>2, <1>5

(* A process keeps its number, and the pane it was traced to its own.      *)
LEMMA PidsKept == P!IInv /\ [P!Next]_P!vars => P!PidsNumbered' /\ P!TracedToPane'
<1> SUFFICES ASSUME P!IInv, [P!Next]_P!vars PROVE P!PidsNumbered' /\ P!TracedToPane'
  OBVIOUS
<1>0. /\ P!TypeOK /\ P!PidsNumbered /\ P!TracedToPane /\ P!TypeOK'
      /\ tracing \in P!Load /\ born.pids \in Nat
      /\ \A a \in Agent : runs[a] \in P!Running /\ runs[a].pid \in Nat /\ runs[a].lock \in Nat
  BY PanesAssumed, PanesTyped DEF P!IInv, P!TypeOK, P!Running
<1>1. ASSUME NEW n \in TmuxName, NEW d \in Dir, P!Open(n, d) PROVE P!PidsNumbered' /\ P!TracedToPane'
  <2>1. tracing' = tracing /\ runs' = runs /\ born'.pids = born.pids
    BY <1>0, <1>1 DEF P!TypeOK, P!Open, P!Opened
  <2>2. \A a \in Agent : runs'[a].lock <= born'.pids
    BY <1>0, <2>1 DEF P!PidsNumbered
  <2> QED
    BY <1>0, <2>1, <2>2, LoadStands
<1>2. ASSUME NEW n \in TmuxName, P!Close(n) PROVE P!PidsNumbered' /\ P!TracedToPane'
  <2>1. tracing' = tracing /\ born' = born
    BY <1>2 DEF P!Close
  <2>2. \A a \in Agent : runs'[a] = runs[a] \/ (runs'[a].pid = 0 /\ runs'[a].lock = runs[a].lock)
    BY <1>0, <1>2 DEF P!Close, P!Off
  <2>3. \A a \in Agent : runs'[a].lock <= born'.pids
    BY <1>0, <2>1, <2>2 DEF P!PidsNumbered
  <2> QED
    BY <1>0, <2>1, <2>2, <2>3, LoadStands
<1>3. ASSUME NEW a \in Agent, NEW n \in TmuxName, NEW depth \in 0..Climb, P!Launch(a, n, depth)
      PROVE  P!PidsNumbered' /\ P!TracedToPane'
  <2>1. /\ tracing' = tracing
        /\ born'.pids = born.pids + 1 /\ runs'[a].pid = born.pids + 1 /\ runs'[a].lock = born.pids + 1
        /\ \A c \in Agent \ {a} : runs'[c] = runs[c]
    BY <1>0, <1>3 DEF P!TypeOK, P!Launch
  <2>2. \A c \in Agent : runs'[c].lock <= born'.pids
    BY <1>0, <2>1 DEF P!PidsNumbered
  <2>3. \A c \in Agent : runs'[c] = runs[c] \/ runs'[c].pid = 0 \/ runs'[c].pid > born.pids
    BY <1>0, <2>1
  <2>4. born.pids <= born'.pids
    BY <1>0, <2>1
  <2> QED
    BY <1>0, <2>1, <2>2, <2>3, <2>4, LoadStands
<1>4. ASSUME NEW a \in Agent, P!Quit(a) PROVE P!PidsNumbered' /\ P!TracedToPane'
  <2>1. /\ tracing' = tracing /\ born' = born /\ runs'[a].pid = 0 /\ runs'[a].lock = 0
        /\ \A c \in Agent \ {a} : runs'[c] = runs[c]
    BY <1>0, <1>4 DEF P!TypeOK, P!Quit, P!Off
  <2>2. \A c \in Agent : runs'[c].lock <= born'.pids
    BY <1>0, <2>1 DEF P!PidsNumbered
  <2> QED
    BY <1>0, <2>1, <2>2, LoadStands
<1>5. ASSUME UNCHANGED <<runs, tracing, born>> PROVE P!PidsNumbered' /\ P!TracedToPane'
  BY <1>0, <1>5 DEF P!PidsNumbered, P!TracedToPane, P!Traced
<1>6. CASE P!NewSession
  <2>1. CASE UNCHANGED born
    BY <1>5, <1>6, <2>1 DEF P!NewSession
  <2>2. CASE P!Opened(new.name, new.dir)
    <3>1. tracing' = tracing /\ runs' = runs /\ born'.pids = born.pids
      BY <1>0, <1>6, <2>2 DEF P!TypeOK, P!Opened, P!NewSession
    <3>2. \A a \in Agent : runs'[a].lock <= born'.pids
      BY <1>0, <3>1 DEF P!PidsNumbered
    <3> QED
      BY <1>0, <3>1, <3>2, LoadStands
  <2> QED
    BY <1>6, <2>1, <2>2 DEF P!NewSession
<1>7. CASE P!readInusePID
  <2>1. tracing'.pc = "sessions" /\ \A a \in Agent : tracing'.pid[a] = runs[a].lock
    BY <1>0, <1>7 DEF P!readInusePID, P!Load
  <2> QED
    BY <1>0, <1>7, <2>1 DEF P!readInusePID, P!PidsNumbered, P!TracedToPane
<1>8. CASE P!ListSessions \/ P!ListPanes
  <2>1. tracing'.pc # "done" /\ tracing'.pid = tracing.pid /\ UNCHANGED <<runs, born>>
    BY <1>0, <1>8 DEF P!ListSessions, P!ListPanes, P!Load
  <2> QED
    BY <1>0, <2>1 DEF P!PidsNumbered, P!TracedToPane
<1>9. CASE P!Merge
  <2>1. /\ tracing'.pid = tracing.pid /\ tracing'.panes = tracing.panes /\ UNCHANGED <<runs, born>>
        /\ \A a \in Agent : tracing'.target[a] \in P!walkToPane(a)
    BY <1>0, <1>9 DEF P!Merge, P!Load
  <2>2. ASSUME NEW a \in Agent, tracing'.target[a] # None
        PROVE  tracing'.panes[tracing'.target[a]] = runs[a].pane
    BY <2>1, <2>2 DEF P!walkToPane
  <2> QED
    BY <1>0, <2>1, <2>2 DEF P!PidsNumbered, P!TracedToPane, P!Traced
<1>10. CASE P!Loaded
  <2>1. tracing'.pc = "idle" /\ \A a \in Agent : tracing'.pid[a] = 0
    BY <1>10 DEF P!Loaded, P!Resting
  <2> QED
    BY <1>0, <1>10, <2>1 DEF P!Loaded, P!PidsNumbered, P!TracedToPane
<1>11. ASSUME NEW a \in Agent, P!Resume(a) \/ \E n \in TmuxName : P!Rename(a, n)
       PROVE  P!PidsNumbered' /\ P!TracedToPane'
  BY <1>5, <1>11 DEF P!Resume, P!Rename
<1>12. CASE P!ListForNew \/ P!SwitchToNew \/ \E d \in Dir : P!NewIn(d)
  BY <1>5, <1>12 DEF P!ListForNew, P!SwitchToNew, P!NewIn
<1>13. CASE UNCHANGED P!vars
  BY <1>5, <1>13 DEF P!vars
<1> QED
  BY <1>1, <1>2, <1>3, <1>4, <1>6, <1>7, <1>8, <1>9, <1>10, <1>11, <1>12, <1>13 DEF P!Next

(* Moving panes between names, or closing them, keeps them apart.          *)
LEMMA PanesMoved ==
    ASSUME P!IInv, P!TypeOK', new' = new, born' = born,
           \A n \in TmuxName : tmux'[n] = P!Closed \/ \E m \in TmuxName : tmux'[n] = tmux[m],
           \A m, n \in TmuxName : tmux'[m].pane > 0 /\ tmux'[m].pane = tmux'[n].pane => m = n
    PROVE  P!PanesNumbered' /\ P!NewChosen'
<1>1. /\ P!PanesNumbered /\ P!NewChosen /\ P!Closed.pane = 0
      /\ born.panes \in Nat /\ new.pane \in Nat
      /\ \A n \in TmuxName : tmux[n].pane \in Nat /\ tmux[n].pane <= born.panes
  BY PanesAssumed DEF P!IInv, P!TypeOK, P!New, P!TmuxSession, P!PanesNumbered, P!Closed
<1>2. \A n \in TmuxName : tmux'[n].pane <= born.panes
  BY <1>1
<1>3. P!PanesNumbered'
  BY <1>1, <1>2 DEF P!PanesNumbered, P!Up
<1>4. new.pc = "switch" => new.pane > 0 /\ \A n \in TmuxName : tmux'[n].pane = new.pane => tmux'[n].path = new.dir
  BY <1>1 DEF P!NewChosen, P!InPlace
<1>5. P!NewChosen'
  BY <1>1, <1>4 DEF P!NewChosen, P!InPlace
<1> QED
  BY <1>3, <1>5

(* A pane keeps its number and its path, whatever name it has.             *)
LEMMA PanesKept == P!IInv /\ [P!Next]_P!vars => P!PanesNumbered' /\ P!NewChosen'
<1> SUFFICES ASSUME P!IInv, [P!Next]_P!vars PROVE P!PanesNumbered' /\ P!NewChosen'
  OBVIOUS
<1>0. /\ P!TypeOK /\ P!PanesNumbered /\ P!NewChosen /\ P!TypeOK'
      /\ born.panes \in Nat /\ new \in P!New /\ new.pane \in Nat /\ \A n \in TmuxName : tmux[n].pane \in Nat
  BY PanesTyped, PanesAssumed DEF P!IInv, P!TypeOK, P!New, P!TmuxSession
<1>1. ASSUME NEW n \in TmuxName, NEW d \in Dir, P!Open(n, d) PROVE P!PanesNumbered' /\ P!NewChosen'
  <2>1. P!Opened(n, d) /\ new' = new
    BY <1>1 DEF P!Open
  <2>0. /\ born'.panes = born.panes + 1
        /\ tmux'[n] = [pane |-> born.panes + 1, path |-> d]
        /\ \A m \in TmuxName \ {n} : tmux'[m] = tmux[m]
        /\ \A m, k \in TmuxName : tmux'[m].pane > 0 /\ tmux'[m].pane = tmux'[k].pane => m = k
        /\ \A m \in TmuxName : tmux'[m].pane <= born'.panes
    BY <1>0, <2>1, OpenedPane
  <2>2. tmux'[n].pane = born.panes + 1
    BY <2>0
  <2>3. P!PanesNumbered'
    BY <1>0, <2>0, <2>1 DEF P!PanesNumbered, P!Up
  <2>4. \A m \in TmuxName : tmux'[m].pane = new.pane => tmux'[m] = tmux[m]
    BY <1>0, <2>0, <2>2 DEF P!PanesNumbered
  <2>5. P!NewChosen'
    BY <1>0, <2>1, <2>4 DEF P!NewChosen, P!InPlace
  <2> QED
    BY <2>3, <2>5
<1>2. ASSUME NEW n \in TmuxName, P!Close(n) PROVE P!PanesNumbered' /\ P!NewChosen'
  <2>1. /\ new' = new /\ born' = born /\ P!Closed.pane = 0 /\ tmux'[n] = P!Closed
        /\ \A m \in TmuxName \ {n} : tmux'[m] = tmux[m]
    BY <1>0, <1>2 DEF P!Close, P!TypeOK, P!Closed
  <2>2. \A m \in TmuxName : tmux'[m] = P!Closed \/ \E k \in TmuxName : tmux'[m] = tmux[k]
    BY <2>1
  <2>3. \A m, k \in TmuxName : tmux'[m].pane > 0 /\ tmux'[m].pane = tmux'[k].pane => m = k
    BY <1>0, <2>1 DEF P!PanesNumbered, P!Up
  <2> QED
    BY <1>0, <2>1, <2>2, <2>3, PanesMoved
<1>3. ASSUME NEW a \in Agent, NEW n \in TmuxName, P!Rename(a, n) PROVE P!PanesNumbered' /\ P!NewChosen'
  <2>0. tracing.name \in [Agent -> TmuxName \cup {None}]
    BY <1>0, LoadGoesOn DEF P!TypeOK
  <2>1. tracing.name[a] \in TmuxName
    BY <1>3, <2>0 DEF P!Rename
  <2>2. P!Renamed(tracing.name[a], n) /\ new' = new /\ born' = born
    BY <1>3 DEF P!Rename
  <2> QED
    BY <1>0, <2>1, <2>2, RenamedPane, PanesMoved
<1>4. ASSUME NEW d \in Dir, P!NewIn(d) PROVE P!PanesNumbered' /\ P!NewChosen'
  <2>1. /\ new'.pc = "list" /\ new'.dir = d /\ new'.pane = 0 /\ UNCHANGED <<tmux, born>>
    BY <1>4 DEF P!NewIn, P!Idle
  <2> QED
    BY <1>0, <2>1 DEF P!PanesNumbered, P!Up, P!NewChosen
<1>5. CASE P!ListForNew
  <2>1. PICK r \in P!ResolveSessionName(new.dir) \cup {[name |-> BaseOf[new.dir], start |-> TRUE]} :
           new' = [new EXCEPT !.pc = IF r.start THEN "create" ELSE "switch",
                              !.name = r.name, !.pane = tmux[r.name].pane]
    BY <1>5 DEF P!ListForNew
  <2>2. /\ new.dir \in Dir /\ r.name \in TmuxName
        /\ ~ r.start => tmux[r.name].pane > 0 /\ tmux[r.name].path = new.dir
    BY <1>5, <2>1, NewNamed
  <2>3. /\ new'.pc = (IF r.start THEN "create" ELSE "switch")
        /\ new'.dir = new.dir /\ new'.name = r.name /\ new'.pane = tmux[r.name].pane
    BY <1>0, <2>1 DEF P!New
  <2>4. UNCHANGED <<tmux, born>>
    BY <1>5 DEF P!ListForNew
  <2>5. P!PanesNumbered'
    BY <1>0, <2>2, <2>3, <2>4 DEF P!PanesNumbered, P!Up
  <2>6. ~ r.start => \A n \in TmuxName : tmux[n].pane = tmux[r.name].pane => tmux[n].path = new.dir
    BY <1>0, <2>2 DEF P!PanesNumbered, P!Up
  <2>7. P!NewChosen'
    BY <2>2, <2>3, <2>4, <2>6 DEF P!NewChosen, P!InPlace
  <2> QED
    BY <2>5, <2>7
<1>6. CASE P!NewSession
  <2>1. CASE P!Up(new.name)
    <3>1. /\ new'.pc = "idle" /\ new'.pane = 0 /\ UNCHANGED <<tmux, born>>
      BY <1>6, <2>1 DEF P!NewSession, P!Idle
    <3> QED
      BY <1>0, <3>1 DEF P!PanesNumbered, P!Up, P!NewChosen
  <2>2. CASE ~ P!Up(new.name)
    <3>1. /\ P!Opened(new.name, new.dir) /\ new' = [new EXCEPT !.pc = "switch", !.pane = born'.panes]
          /\ new.name \in TmuxName /\ new.dir \in Dir
      BY <1>0, <1>6, <2>2 DEF P!NewSession, P!NewChosen
    <3>2. /\ new'.pc = "switch" /\ new'.name = new.name /\ new'.dir = new.dir /\ new'.pane = born'.panes
      BY <1>0, <3>1 DEF P!New
    <3>3. /\ born'.panes = born.panes + 1
          /\ tmux'[new.name] = [pane |-> born.panes + 1, path |-> new.dir]
          /\ \A m, k \in TmuxName : tmux'[m].pane > 0 /\ tmux'[m].pane = tmux'[k].pane => m = k
          /\ \A m \in TmuxName : tmux'[m].pane <= born'.panes
      BY <1>0, <3>1, OpenedPane
    <3>4. P!PanesNumbered'
      BY <1>0, <3>2, <3>3 DEF P!PanesNumbered, P!Up
    <3>5. \A m \in TmuxName : tmux'[m].pane = born'.panes => m = new.name
      BY <1>0, <3>1, <3>3
    <3>6. P!NewChosen'
      BY <1>0, <3>1, <3>2, <3>3, <3>5 DEF P!NewChosen, P!InPlace
    <3> QED
      BY <3>4, <3>6
  <2> QED
    BY <2>1, <2>2
<1>7. CASE P!SwitchToNew
  <2>1. /\ new'.pc = "idle" /\ new'.pane = 0 /\ UNCHANGED <<tmux, born>>
    BY <1>7 DEF P!SwitchToNew, P!Idle
  <2> QED
    BY <1>0, <2>1 DEF P!PanesNumbered, P!Up, P!NewChosen
<1>8. ASSUME NEW a \in Agent, NEW n \in TmuxName, NEW depth \in 0..Climb, P!Launch(a, n, depth)
      PROVE  P!PanesNumbered' /\ P!NewChosen'
  <2>1. born'.panes = born.panes /\ tmux' = tmux /\ new' = new
    BY <1>0, <1>8 DEF P!TypeOK, P!Launch
  <2> QED
    BY <1>0, <2>1 DEF P!PanesNumbered, P!Up, P!NewChosen, P!InPlace
<1>9. ASSUME UNCHANGED <<tmux, new, born>> PROVE P!PanesNumbered' /\ P!NewChosen'
  BY <1>0, <1>9 DEF P!PanesNumbered, P!Up, P!NewChosen, P!InPlace
<1>10. CASE \/ P!readInusePID \/ P!ListSessions \/ P!ListPanes \/ P!Merge \/ P!Loaded
            \/ UNCHANGED P!vars
  BY <1>9, <1>10 DEF P!readInusePID, P!ListSessions, P!ListPanes, P!Merge, P!Loaded, P!vars
<1>11. ASSUME NEW a \in Agent, P!Quit(a) \/ P!Resume(a) PROVE P!PanesNumbered' /\ P!NewChosen'
  BY <1>9, <1>11 DEF P!Quit, P!Resume
<1> QED
  BY <1>1, <1>2, <1>3, <1>4, <1>5, <1>6, <1>7, <1>8, <1>10, <1>11 DEF P!Next

(* Only a resume and a `tsession new` leave a trace, of what they have hit.*)
LEMMA PanesHit == P!IInv /\ [P!Next]_P!vars => P!ResumeReachesAgent' /\ P!NewLandsInPlace'
<1> SUFFICES ASSUME P!IInv, [P!Next]_P!vars PROVE P!ResumeReachesAgent' /\ P!NewLandsInPlace'
  OBVIOUS
<1>0. P!TypeOK /\ P!TracedToPane /\ P!NewChosen /\ P!ResumeReachesAgent /\ P!NewLandsInPlace
  BY DEF P!IInv
<1>1. ASSUME act'.what = "none" \/ act'.what = "rename" PROVE P!ResumeReachesAgent' /\ P!NewLandsInPlace'
  BY <1>1 DEF P!ResumeReachesAgent, P!NewLandsInPlace
<1>2. ASSUME NEW a \in Agent, P!Resume(a) PROVE P!ResumeReachesAgent' /\ P!NewLandsInPlace'
  <2> DEFINE n == P!SwitchTarget(a)
             kept == tmux[n].pane = tracing.panes[n]
  <2>1. CASE ~ P!Up(n)
    BY <1>1, <1>2, <2>1 DEF P!Resume, P!Nothing
  <2>2. CASE P!Up(n)
    <3>1. /\ act'.what = "resume" /\ act'.by = a /\ act'.pane = tmux[n].pane /\ act'.kept = kept
          /\ tracing.pc = "done" /\ tracing' = tracing /\ runs' = runs
      BY <1>2, <2>2 DEF P!Resume
    <3>2. P!Traced(a) => n = tracing.target[a] /\ tracing.panes[n] = runs[a].pane
      BY <1>0, <3>1 DEF P!Traced, P!SwitchTarget, P!TracedToPane
    <3>3. (act.kept /\ P!Traced(act.by) => act.pane = runs[act.by].pane)'
      BY <3>1, <3>2 DEF P!Traced
    <3> QED
      BY <3>1, <3>3 DEF P!ResumeReachesAgent, P!NewLandsInPlace
  <2> QED
    BY <2>1, <2>2
<1>3. CASE P!SwitchToNew
  <2> DEFINE kept == tmux[new.name].pane = new.pane
  <2>1. CASE ~ P!Up(new.name)
    BY <1>1, <1>3, <2>1 DEF P!SwitchToNew, P!Nothing
  <2>2. CASE P!Up(new.name)
    <3>1. /\ act'.what = "new" /\ act'.by = new.dir /\ act'.pane = tmux[new.name].pane /\ act'.kept = kept
          /\ tmux' = tmux /\ new.pc = "switch"
      BY <1>3, <2>2 DEF P!SwitchToNew
    <3>2. \A n \in TmuxName : tmux[n].pane = new.pane => tmux[n].path = new.dir
      BY <1>0, <3>1 DEF P!NewChosen, P!InPlace
    <3> QED
      BY <3>1, <3>2 DEF P!ResumeReachesAgent, P!NewLandsInPlace
  <2> QED
    BY <2>1, <2>2
<1>4. ASSUME act' = P!Nothing PROVE P!ResumeReachesAgent' /\ P!NewLandsInPlace'
  BY <1>1, <1>4 DEF P!Nothing
<1>5. ASSUME NEW n \in TmuxName, P!Close(n) \/ \E d \in Dir : P!Open(n, d)
      PROVE  P!ResumeReachesAgent' /\ P!NewLandsInPlace'
  BY <1>4, <1>5 DEF P!Close, P!Open
<1>6. ASSUME NEW a \in Agent,
             P!Quit(a) \/ \E n \in TmuxName, depth \in 0..Climb : P!Launch(a, n, depth)
      PROVE  P!ResumeReachesAgent' /\ P!NewLandsInPlace'
  BY <1>4, <1>6 DEF P!Quit, P!Launch
<1>7. ASSUME NEW a \in Agent, NEW n \in TmuxName, P!Rename(a, n)
      PROVE  P!ResumeReachesAgent' /\ P!NewLandsInPlace'
  BY <1>1, <1>7 DEF P!Rename
<1>8. CASE P!readInusePID \/ P!ListSessions \/ P!ListPanes \/ P!Merge \/ P!Loaded
  BY <1>4, <1>8 DEF P!readInusePID, P!ListSessions, P!ListPanes, P!Merge, P!Loaded
<1>9. CASE P!ListForNew \/ P!NewSession \/ \E d \in Dir : P!NewIn(d)
  BY <1>4, <1>9 DEF P!ListForNew, P!NewSession, P!NewIn
<1>10. CASE UNCHANGED P!vars
  BY <1>0, <1>10 DEF P!vars, P!ResumeReachesAgent, P!NewLandsInPlace, P!Traced
<1> QED
  BY <1>2, <1>3, <1>5, <1>6, <1>7, <1>8, <1>9, <1>10 DEF P!Next

LEMMA PanesInductive == P!Spec => []P!IInv
<1>1. P!IInv /\ [P!Next]_P!vars => P!IInv'
  <2> SUFFICES ASSUME P!IInv, [P!Next]_P!vars PROVE P!IInv'
    OBVIOUS
  <2> QED
    BY PanesTyped, PidsKept, PanesKept, PanesHit DEF P!IInv
<1> QED
  BY <1>1, PanesInit, PTL DEF P!Spec

(* Whatever the names and directories: resuming a traced session shows the *)
(* pane its agent runs in, unless that pane has been closed or renamed.    *)
THEOREM ResumeShowsAgent == P!Spec => []ResumeReachesAgent
<1>1. P!IInv => ResumeReachesAgent
  BY DEF P!IInv, ResumeReachesAgent
<1> QED
  BY <1>1, PanesInductive, PTL

(* `tsession new` ends up in a session of the directory it was called for. *)
THEOREM NewIsInPlace == P!Spec => []NewLandsInPlace
<1>1. P!IInv => NewLandsInPlace
  BY DEF P!IInv, NewLandsInPlace
<1> QED
  BY <1>1, PanesInductive, PTL

-----------------------------------------------------------------------------
(* Bridge: resumes of remote sessions and the bridges they are given.      *)

LEMMA BridgesAssumed ==
    /\ OriginOf \in [Session -> Origin]
    /\ Primary \in [Session -> BridgeName] /\ Alternate \in [Session -> BridgeName]
    /\ \A s, t \in Session : /\ Primary[s] # Alternate[t]
                             /\ Alternate[s] = Alternate[t] => Primary[s] = Primary[t]
    /\ None \notin Session /\ None \notin Origin /\ None \notin BridgeName
    /\ MaxTrouble \in Nat
  BY BridgesAssumption DEF B!BridgeAssumption

LEMMA BridgesTypes ==
    /\ B!Down \in B!TmuxSession /\ B!Fresh \in B!TmuxSession /\ B!Resting \in B!Call
    /\ ~ B!Down.up /\ B!Fresh.up = TRUE /\ B!Fresh.id = None /\ B!Fresh.pane = "shell" /\ B!Resting.pc = "idle"
    /\ \A b \in B!TmuxSession :
          /\ [b EXCEPT !.remain = TRUE] \in B!TmuxSession
          /\ \A o \in Origin : [b EXCEPT !.origin = o] \in B!TmuxSession
          /\ \A s \in Session : [b EXCEPT !.id = s] \in B!TmuxSession
          /\ \A p \in {"command", "dead"} : [b EXCEPT !.pane = p] \in B!TmuxSession
<1>1. /\ B!Down \in B!TmuxSession /\ B!Fresh \in B!TmuxSession
      /\ ~ B!Down.up /\ B!Fresh.up = TRUE /\ B!Fresh.id = None /\ B!Fresh.pane = "shell"
  BY DEF B!Down, B!Fresh, B!TmuxSession
<1>2. B!Resting \in B!Call /\ B!Resting.pc = "idle"
  BY DEF B!Resting, B!Call
<1>3. \A b \in B!TmuxSession :
         /\ [b EXCEPT !.remain = TRUE] \in B!TmuxSession
         /\ \A o \in Origin : [b EXCEPT !.origin = o] \in B!TmuxSession
         /\ \A s \in Session : [b EXCEPT !.id = s] \in B!TmuxSession
         /\ \A p \in {"command", "dead"} : [b EXCEPT !.pane = p] \in B!TmuxSession
  BY DEF B!TmuxSession
<1> QED
  BY <1>1, <1>2, <1>3

(* What a name given to tmux stands for.                                   *)
LEMMA TargetFound ==
    ASSUME NEW n \in BridgeName
    PROVE  /\ bridge[n].up => B!Target(n) = n
           /\ B!Longer(n) = {} /\ ~ bridge[n].up => B!Target(n) = None
           /\ B!Target(n) # None =>
                /\ B!Target(n) \in BridgeName /\ bridge[B!Target(n)].up
                /\ ~ bridge[n].up => B!Longer(n) = {B!Target(n)}
<1>1. ASSUME NEW m \in BridgeName, B!Longer(n) = {m}, ~ bridge[n].up
      PROVE  B!Target(n) = m /\ bridge[m].up
  <2>1. (CHOOSE k \in BridgeName : B!Longer(n) = {k}) = m
    <3>1. \A k \in BridgeName : B!Longer(n) = {k} => k = m
      BY <1>1
    <3> QED
      BY <1>1, <3>1, Zenon
  <2>2. B!Target(n) = m
    BY <1>1, <2>1 DEF B!Target
  <2> QED
    BY <1>1, <2>2 DEF B!Longer
<1>2. ASSUME ~ \E m \in BridgeName : B!Longer(n) = {m}, ~ bridge[n].up PROVE B!Target(n) = None
  BY <1>2 DEF B!Target
<1>3. bridge[n].up => B!Target(n) = n
  BY DEF B!Target
<1> QED
  BY <1>1, <1>2, <1>3, BridgesAssumed

LEMMA AlternateIsLongest ==
    ASSUME NEW s \in Session
    PROVE  B!Longer(Alternate[s]) = {}
  BY BridgesAssumed DEF B!Longer

(* As long as the same bridges are up, a name stands for the same.         *)
LEMMA SameUp ==
    ASSUME \A n \in BridgeName : bridge'[n].up = bridge[n].up
    PROVE  \A n \in BridgeName : B!Longer(n)' = B!Longer(n) /\ B!Target(n)' = B!Target(n)
<1>1. ASSUME NEW n \in BridgeName PROVE B!Longer(n)' = B!Longer(n)
  BY DEF B!Longer
<1>2. ASSUME NEW n \in BridgeName PROVE B!Target(n)' = B!Target(n)
  BY <1>1 DEF B!Target
<1> QED
  BY <1>1, <1>2

(* A bridge that is gone takes from no name what it stands for, but itself.*)
LEMMA GoneTarget ==
    ASSUME NEW n \in BridgeName, ~ bridge'[n].up,
           \A k \in BridgeName \ {n} : bridge'[k].up = bridge[k].up,
           NEW m \in BridgeName, m = n => B!Longer(n) = {},
           bridge[m].up \/ \E k \in BridgeName : B!Longer(m) \subseteq {k}
    PROVE  /\ B!Longer(m)' \subseteq B!Longer(m)
           /\ bridge'[m].up \/ \E k \in BridgeName : B!Longer(m)' \subseteq {k}
           /\ B!Target(m)' # None => B!Target(m)' = B!Target(m) /\ B!Target(m) # n /\ B!Target(m) \in BridgeName
<1>1. B!Longer(m)' \subseteq B!Longer(m) \ {n}
  BY DEF B!Longer
<1>2. CASE bridge'[m].up
  <2>1. bridge[m].up /\ m # n
    BY <1>2
  <2>2. B!Target(m)' = m /\ B!Target(m) = m
    BY <1>2, <2>1 DEF B!Target
  <2> QED
    BY <1>1, <1>2, <2>1, <2>2
<1>3. CASE ~ bridge'[m].up
  <2>1. PICK k \in BridgeName : B!Longer(m)' \subseteq {k} /\ (B!Longer(m)' # {} => ~ bridge[m].up /\ B!Longer(m) \subseteq {k})
    BY <1>1, <1>3
  <2>2. CASE B!Longer(m)' = {}
    <3>1. B!Target(m)' = None
      BY <1>3, <2>2 DEF B!Target
    <3> QED
      BY <1>1, <2>1, <3>1
  <2>3. CASE B!Longer(m)' # {}
    <3>1. B!Longer(m)' = {k} /\ B!Longer(m) = {k} /\ ~ bridge[m].up /\ k # n
      BY <1>1, <2>1, <2>3
    <3>2. B!Target(m)' = B!Target(m)
      BY <1>3, <3>1 DEF B!Target
    <3>3. B!Target(m) = k
      <4>1. B!Target(m) = CHOOSE j \in BridgeName : {k} = {j}
        BY <3>1 DEF B!Target
      <4>2. \A j \in BridgeName : {k} = {j} => j = k
        OBVIOUS
      <4> QED
        BY <4>1, <4>2, Zenon
    <3> QED
      BY <1>1, <2>1, <3>1, <3>2, <3>3
  <2> QED
    BY <2>2, <2>3
<1> QED
  BY <1>2, <1>3

LEMMA BridgesInit == B!Init => B!IInv
<1> SUFFICES ASSUME B!Init PROVE B!IInv
  OBVIOUS
<1>1. B!TypeOK
  BY BridgesTypes, BridgesAssumed DEF B!Init, B!TypeOK
<1>2. \A n \in BridgeName : ~ bridge[n].up
  BY BridgesTypes DEF B!Init
<1>3. \A c \in Caller : resume[c].pc = "idle"
  BY BridgesTypes DEF B!Init
<1>4. (\A c \in Caller : B!Named(resume[c])) /\ B!Sound
  BY <1>2, <1>3 DEF B!Init, B!Named, B!Sound, B!Tagged, B!HalfMade, B!Meant, B!Making
<1>5. B!Based /\ B!OnePerSession
  BY <1>2, BridgesAssumed DEF B!Based, B!OnePerSession
<1>6. B!Overlapping
  BY <1>3, <1>5 DEF B!Overlapping, B!Standing, B!Making
<1>7. B!Alternating
  BY <1>3, <1>5 DEF B!Alternating, B!UpToDate, B!Second, B!Making
<1> QED
  BY <1>1, <1>4, <1>6, <1>7 DEF B!IInv

(* What is known of a resume goes on while bridges keep their options.     *)
LEMMA CallStands ==
    ASSUME \A n \in BridgeName : /\ bridge'[n].up = bridge[n].up /\ bridge'[n].remain = bridge[n].remain
                                 /\ bridge'[n].id = bridge[n].id /\ bridge'[n].origin = bridge[n].origin,
           NEW d \in Caller, NEW y, resume'[d] = y, B!Named(y)
    PROVE  /\ B!Named(resume[d])'
           /\ B!HalfMade(y) => B!HalfMade(resume[d])'
           /\ B!Meant(y) => B!Meant(resume[d])'
           /\ B!Standing(y) => B!Standing(resume[d])'
           /\ /\ B!UpToDate(y)
              /\ \A n \in BridgeName : bridge'[n].pane = "command" => bridge[n].pane = "command"
              => B!UpToDate(resume[d])'
           /\ B!Second(y) => B!Second(resume[d])'
<1>1. /\ y.pc # "idle" => y.n \in BridgeName /\ y.s \in Session /\ Primary[y.s] \in BridgeName
      /\ y.pc # "idle" /\ B!Target(y.n) # None => B!Target(y.n) \in BridgeName
  BY BridgesAssumed, TargetFound DEF B!Named
<1>2. B!Named(resume[d])'
  BY DEF B!Named
<1>3. B!HalfMade(y) => B!HalfMade(resume[d])'
  BY <1>1, SameUp DEF B!HalfMade, B!Making
<1>4. B!Meant(y) => B!Meant(resume[d])'
  BY <1>1, SameUp DEF B!Meant
<1>5. B!Standing(y) => B!Standing(resume[d])'
  BY <1>1 DEF B!Standing
<1>6. /\ B!UpToDate(y)
      /\ \A n \in BridgeName : bridge'[n].pane = "command" => bridge[n].pane = "command"
      => B!UpToDate(resume[d])'
  BY <1>1, SameUp DEF B!UpToDate
<1>7. B!Second(y) => B!Second(resume[d])'
  BY <1>1, SameUp DEF B!Second, B!Making
<1> QED
  BY <1>2, <1>3, <1>4, <1>5, <1>6, <1>7

LEMMA OddGrows ==
    ASSUME odd \subseteq odd'
    PROVE  /\ B!OverlapOnly' => B!OverlapOnly
           /\ B!InTurn' => B!InTurn
           /\ "killed" \notin odd' => "killed" \notin odd
  BY DEF B!OverlapOnly, B!InTurn

(* A resume goes on while the bridges rest.                                *)
LEMMA ResumeGoesOn ==
    ASSUME B!IInv, NEW c \in Caller, NEW x \in B!Call, resume' = [resume EXCEPT ![c] = x],
           bridge' = bridge, odd \subseteq odd', odd' \subseteq B!Oddity, trouble' \in 0..MaxTrouble,
           B!Named(x), x.pc \notin B!Making,
           \/ given' = given
           \/ x.pc = "ok" /\ B!Target(x.n) # None /\ given' = given \cup {B!Target(x.n)},
           B!OverlapOnly' => B!HalfMade(x) /\ B!Meant(x) /\ B!Standing(x),
           B!InTurn' =>
              /\ B!HalfMade(x) /\ B!Meant(x) /\ B!UpToDate(x) /\ ("killed" \notin odd' => B!Second(x))
              /\ \A d \in Caller \ {c} : x.pc = "idle" \/ resume[d].pc = "idle"
    PROVE  B!IInv'
<1>0. /\ B!TypeOK /\ \A d \in Caller : B!Named(resume[d])
      /\ resume'[c] = x /\ \A d \in Caller \ {c} : resume'[d] = resume[d]
  BY DEF B!IInv, B!TypeOK
<1>1. x.pc = "ok" => x.n \in BridgeName /\ x.s \in Session
  BY BridgesAssumed DEF B!Named
<1>2. B!TypeOK'
  <2>1. given' \subseteq BridgeName
    BY <1>0, <1>1, TargetFound DEF B!TypeOK
  <2> QED
    BY <1>0, <2>1 DEF B!TypeOK
<1>3. \A d \in Caller : B!Named(resume[d])'
  BY <1>0, CallStands
<1>4. ASSUME B!Sound, B!HalfMade(x), B!Meant(x) PROVE B!Sound'
  <2>1. \A d \in Caller : B!HalfMade(resume[d])' /\ B!Meant(resume[d])'
    BY <1>0, <1>4, CallStands DEF B!Sound
  <2>2. ASSUME NEW n \in BridgeName PROVE B!Tagged(n)'
    <3>1. n \in given' \ given => bridge[n].up /\ bridge[n].id # None
      BY <1>1, <1>4, TargetFound, BridgesAssumed DEF B!Meant
    <3> QED
      BY <1>4, <3>1 DEF B!Sound, B!Tagged
  <2> QED
    BY <2>1, <2>2 DEF B!Sound
<1>5. ASSUME B!OverlapOnly' PROVE B!Sound' /\ B!Overlapping'
  <2>1. B!Sound /\ B!Overlapping
    BY <1>5, OddGrows DEF B!IInv
  <2>2. \A d \in Caller : B!Standing(resume[d])'
    BY <1>0, <1>5, <2>1, CallStands DEF B!Overlapping
  <2>3. B!Based'
    BY <2>1 DEF B!Overlapping, B!Based
  <2>4. \A d, e \in Caller :
           resume'[d].pc \in B!Making /\ resume'[e].pc \in B!Making /\ resume'[d].n = resume'[e].n => d = e
    BY <1>0, <2>1 DEF B!Overlapping
  <2> QED
    BY <1>4, <1>5, <2>1, <2>2, <2>3, <2>4 DEF B!Overlapping, B!Making
<1>6. ASSUME B!InTurn' PROVE B!Sound' /\ B!Alternating'
  <2>1. B!Sound /\ B!Alternating
    BY <1>6, OddGrows DEF B!IInv
  <2>2. \A d \in Caller : B!UpToDate(resume[d])'
    BY <1>0, <1>6, <2>1, CallStands DEF B!Alternating
  <2>3. ASSUME "killed" \notin odd' PROVE B!Based' /\ B!OnePerSession' /\ \A d \in Caller : B!Second(resume[d])'
    <3>1. B!Based /\ B!OnePerSession /\ \A d \in Caller : B!Second(resume[d])
      BY <2>1, <2>3 DEF B!Alternating
    <3>2. \A d \in Caller : B!Second(resume[d])'
      BY <1>0, <1>6, <2>3, <3>1, CallStands
    <3> QED
      BY <3>1, <3>2 DEF B!Based, B!OnePerSession
  <2>4. \A d, e \in Caller : resume'[d].pc # "idle" /\ resume'[e].pc # "idle" => d = e
    BY <1>0, <1>6, <2>1 DEF B!Alternating
  <2> QED
    BY <1>4, <1>6, <2>1, <2>2, <2>3, <2>4 DEF B!Alternating
<1> QED
  BY <1>2, <1>3, <1>5, <1>6 DEF B!IInv

LEMMA TroubleCounted ==
    ASSUME B!TypeOK, NEW kinds \in SUBSET B!Oddity, B!Troubled(kinds)
    PROVE  odd \subseteq odd' /\ odd' \subseteq B!Oddity /\ kinds \subseteq odd' /\ trouble' \in 0..MaxTrouble
  BY BridgesAssumed DEF B!TypeOK, B!Troubled

LEMMA ResumeEnds ==
    ASSUME B!IInv, NEW c \in Caller, B!Fails(c), bridge' = bridge, given' = given,
           odd \subseteq odd', odd' \subseteq B!Oddity, trouble' \in 0..MaxTrouble
    PROVE  B!IInv'
<1> DEFINE x == B!Resting
<1>1. x \in B!Call /\ x.pc = "idle" /\ x.pc \notin B!Making /\ resume' = [resume EXCEPT ![c] = x]
  BY BridgesTypes DEF B!Fails, B!Making
<1>2. B!Named(x) /\ B!HalfMade(x) /\ B!Meant(x) /\ B!Standing(x) /\ B!UpToDate(x) /\ B!Second(x)
  BY <1>1 DEF B!Named, B!HalfMade, B!Meant, B!Standing, B!UpToDate, B!Second, B!Making
<1> HIDE DEF x
<1> QED
  BY <1>1, <1>2, ResumeGoesOn

(* What holds of a resume that is at it.                                   *)
LEMMA ResumeKnown ==
    ASSUME B!IInv, NEW c \in Caller, resume[c].pc # "idle"
    PROVE  /\ B!TypeOK /\ resume[c] \in B!Call /\ B!Named(resume[c])
           /\ resume[c].s \in Session /\ resume[c].n \in BridgeName
           /\ resume[c].n \in {Primary[resume[c].s], Alternate[resume[c].s]}
           /\ odd \subseteq B!Oddity /\ trouble \in 0..MaxTrouble
           /\ B!OverlapOnly => B!Sound /\ B!Overlapping
           /\ B!InTurn => B!Sound /\ B!Alternating
  BY BridgesAssumed DEF B!IInv, B!TypeOK, B!Named

LEMMA BridgeResume ==
    ASSUME B!IInv, NEW c \in Caller, NEW s \in Session, B!Resume(c, s)
    PROVE  B!IInv'
<1>0. B!TypeOK
  BY DEF B!IInv
<1> DEFINE x == [B!Resting EXCEPT !.pc = "has", !.s = s, !.n = Primary[s]]
<1>1. /\ x \in B!Call /\ x.pc = "has" /\ x.s = s /\ x.n = Primary[s]
      /\ resume' = [resume EXCEPT ![c] = x] /\ bridge' = bridge /\ given' = given
  BY BridgesAssumed DEF B!Resting, B!Call, B!Reusing, B!Resume
<1>2. /\ B!Named(x) /\ B!HalfMade(x) /\ B!Meant(x) /\ B!Standing(x) /\ B!UpToDate(x) /\ B!Second(x)
      /\ x.pc \notin B!Making
  BY <1>1, BridgesAssumed DEF B!Named, B!HalfMade, B!Meant, B!Standing, B!UpToDate, B!Second, B!Making
<1>3. /\ odd \subseteq odd' /\ odd' \subseteq B!Oddity /\ trouble' \in 0..MaxTrouble
      /\ (\A d \in Caller : resume[d].pc = "idle") \/ "overlap" \in odd'
  <2>1. CASE \A d \in Caller : resume[d].pc = "idle"
    BY <1>0, <2>1 DEF B!Resume, B!happened, B!TypeOK
  <2>2. CASE ~ \A d \in Caller : resume[d].pc = "idle"
    <3>1. B!Troubled({"overlap"}) /\ {"overlap"} \in SUBSET B!Oddity
      BY <2>2 DEF B!Resume, B!Oddity
    <3> QED
      BY <1>0, <3>1, TroubleCounted
  <2> QED
    BY <2>1, <2>2
<1>4. B!InTurn' => \A d \in Caller : resume[d].pc = "idle"
  BY <1>3 DEF B!InTurn
<1> HIDE DEF x
<1> QED
  BY <1>1, <1>2, <1>3, <1>4, ResumeGoesOn

LEMMA BridgeHasSession ==
    ASSUME B!IInv, NEW c \in Caller, B!HasSession(c)
    PROVE  B!IInv'
<1> DEFINE y == resume[c]
           found == B!Target(y.n) # None
           x == [y EXCEPT !.pc = IF ~ found THEN "new" ELSE "readOrigin"]
<1>0. y.pc = "has"
  BY DEF B!HasSession
<1>1. /\ y \in B!Call /\ y.s \in Session /\ y.n \in BridgeName /\ B!Named(y) /\ B!TypeOK
      /\ y.n \in {Primary[y.s], Alternate[y.s]}
  BY <1>0, ResumeKnown
<1>2. /\ resume' = [resume EXCEPT ![c] = x] /\ bridge' = bridge /\ given' = given /\ UNCHANGED <<odd, trouble>>
  BY <1>1 DEF B!HasSession, B!Goes, B!Missing, B!happened, B!TypeOK
<1>3. /\ x \in B!Call /\ x.pc = (IF ~ found THEN "new" ELSE "readOrigin") /\ x.s = y.s /\ x.n = y.n
      /\ x.pc \notin B!Making
  BY <1>1 DEF B!Call, B!Creating, B!Reusing, B!Making
<1> HIDE DEF x
<1>4. B!Named(x) /\ B!HalfMade(x) /\ B!UpToDate(x)
  BY <1>0, <1>1, <1>3 DEF B!Named, B!HalfMade, B!UpToDate, B!Making
<1>5. B!Meant(x)
  BY <1>1, <1>3, TargetFound DEF B!Meant
<1>6. ASSUME B!OverlapOnly PROVE B!Standing(x)
  <2>1. B!Based /\ B!Standing(y)
    BY <1>0, <1>6, ResumeKnown DEF B!Overlapping
  <2>2. found => bridge[y.n].up
    BY <1>1, <2>1, TargetFound DEF B!Longer, B!Based
  <2> QED
    BY <1>0, <1>3, <2>1, <2>2 DEF B!Standing
<1>7. ASSUME B!InTurn
      PROVE  /\ "killed" \notin odd => B!Second(x)
             /\ \A d \in Caller \ {c} : resume[d].pc = "idle"
  BY <1>0, <1>3, <1>7, ResumeKnown DEF B!Alternating, B!Second, B!Making
<1>8. odd \subseteq odd' /\ odd' \subseteq B!Oddity /\ trouble' \in 0..MaxTrouble /\ odd' = odd
  BY <1>0, <1>2, ResumeKnown
<1> QED
  BY <1>1, <1>2, <1>3, <1>4, <1>5, <1>6, <1>7, <1>8, OddGrows, ResumeGoesOn

LEMMA BridgeReadOrigin ==
    ASSUME B!IInv, NEW c \in Caller, B!ReadOrigin(c)
    PROVE  B!IInv'
<1> DEFINE y == resume[c]
           t == B!Target(y.n)
           x == [y EXCEPT !.pc = "readId", !.seen = bridge[t].origin]
<1>0. y.pc = "readOrigin"
  BY DEF B!ReadOrigin
<1>1. /\ y \in B!Call /\ y.s \in Session /\ y.n \in BridgeName /\ B!Named(y) /\ B!TypeOK
      /\ y.n \in {Primary[y.s], Alternate[y.s]}
  BY <1>0, ResumeKnown
<1>2. bridge' = bridge /\ given' = given /\ UNCHANGED <<odd, trouble>>
  BY DEF B!ReadOrigin, B!happened
<1>3. odd \subseteq odd' /\ odd' \subseteq B!Oddity /\ trouble' \in 0..MaxTrouble /\ odd' = odd
  BY <1>0, <1>2, ResumeKnown
<1>4. CASE t = None
  <2>1. B!Fails(c)
    BY <1>4 DEF B!ReadOrigin, B!Missing
  <2> QED
    BY <1>2, <1>3, <2>1, ResumeEnds
<1>5. CASE t # None
  <2>1. t \in BridgeName /\ bridge[t] \in B!TmuxSession
    BY <1>1, <1>5, TargetFound DEF B!TypeOK
  <2>2. resume' = [resume EXCEPT ![c] = x]
    BY <1>1, <1>5 DEF B!ReadOrigin, B!Missing, B!TypeOK
  <2>3. x \in B!Call /\ x.pc = "readId" /\ x.s = y.s /\ x.n = y.n /\ x.seen = bridge[t].origin
    BY <1>1, <2>1 DEF B!Call, B!Reusing, B!TmuxSession
  <2> HIDE DEF x
  <2>4. B!Named(x) /\ B!HalfMade(x) /\ B!UpToDate(x) /\ x.pc \notin B!Making
    BY <1>0, <1>1, <2>3 DEF B!Named, B!HalfMade, B!UpToDate, B!Making
  <2>5. B!Meant(y) => B!Meant(x)
    BY <1>0, <2>3 DEF B!Meant
  <2>6. B!Standing(y) => B!Standing(x)
    BY <1>0, <2>3 DEF B!Standing
  <2>7. B!Second(y) => B!Second(x)
    BY <1>0, <2>3 DEF B!Second, B!Making
  <2>8. B!OverlapOnly => B!Meant(x) /\ B!Standing(x)
    BY <1>0, <2>5, <2>6, ResumeKnown DEF B!Sound, B!Overlapping
  <2>9. B!InTurn => /\ B!Meant(x) /\ ("killed" \notin odd => B!Second(x))
                    /\ \A d \in Caller \ {c} : resume[d].pc = "idle"
    BY <1>0, <2>5, <2>7, ResumeKnown DEF B!Sound, B!Alternating
  <2> QED
    BY <1>2, <1>3, <2>2, <2>3, <2>4, <2>8, <2>9, OddGrows, ResumeGoesOn
<1> QED
  BY <1>4, <1>5

LEMMA BridgeReadId ==
    ASSUME B!IInv, NEW c \in Caller, B!ReadId(c)
    PROVE  B!IInv'
<1> DEFINE y == resume[c]
           t == B!Target(y.n)
<1>0. y.pc = "readId"
  BY DEF B!ReadId
<1>1. /\ y \in B!Call /\ y.s \in Session /\ y.n \in BridgeName /\ B!Named(y) /\ B!TypeOK
      /\ y.n \in {Primary[y.s], Alternate[y.s]}
  BY <1>0, ResumeKnown
<1>2. bridge' = bridge /\ given' = given /\ UNCHANGED <<odd, trouble>>
  BY DEF B!ReadId, B!happened
<1>3. odd \subseteq odd' /\ odd' \subseteq B!Oddity /\ trouble' \in 0..MaxTrouble /\ odd' = odd
  BY <1>0, <1>2, ResumeKnown
<1>a. CASE B!Fails(c)
  BY <1>2, <1>3, <1>a, ResumeEnds
<1>4. CASE t # None /\ B!Mine(y.s, y.seen, bridge[t])
  <2> DEFINE x == [y EXCEPT !.pc = "pane"]
  <2>1. bridge[t].id = y.s
    BY <1>4 DEF B!Mine
  <2>2. resume' = [resume EXCEPT ![c] = x]
    BY <1>1, <1>4 DEF B!ReadId, B!Missing, B!Goes, B!TypeOK
  <2>3. x \in B!Call /\ x.pc = "pane" /\ x.s = y.s /\ x.n = y.n
    BY <1>1 DEF B!Call, B!Reusing
  <2> HIDE DEF x
  <2>4. B!Named(x) /\ B!HalfMade(x) /\ B!UpToDate(x) /\ x.pc \notin B!Making
    BY <1>0, <1>1, <2>3 DEF B!Named, B!HalfMade, B!UpToDate, B!Making
  <2>5. B!Meant(y) => B!Meant(x)
    BY <1>0, <2>1, <2>3 DEF B!Meant
  <2>6. B!Standing(y) => B!Standing(x)
    BY <1>0, <2>3 DEF B!Standing
  <2>7. B!Second(y) => B!Second(x)
    BY <1>0, <2>3 DEF B!Second, B!Making
  <2>8. B!OverlapOnly => B!Meant(x) /\ B!Standing(x)
    BY <1>0, <2>5, <2>6, ResumeKnown DEF B!Sound, B!Overlapping
  <2>9. B!InTurn => /\ B!Meant(x) /\ ("killed" \notin odd => B!Second(x))
                    /\ \A d \in Caller \ {c} : resume[d].pc = "idle"
    BY <1>0, <2>5, <2>7, ResumeKnown DEF B!Sound, B!Alternating
  <2> QED
    BY <1>2, <1>3, <2>2, <2>3, <2>4, <2>8, <2>9, OddGrows, ResumeGoesOn
<1>5. CASE t # None /\ ~ B!Mine(y.s, y.seen, bridge[t]) /\ y.n = Primary[y.s]
  <2> DEFINE x == [y EXCEPT !.pc = "has", !.n = Alternate[y.s], !.seen = None]
  <2>1. t \in BridgeName /\ bridge[t].up /\ (~ bridge[y.n].up => B!Longer(y.n) = {t})
    BY <1>1, <1>5, TargetFound
  <2>2. resume' = [resume EXCEPT ![c] = x]
    BY <1>1, <1>5 DEF B!ReadId, B!Missing, B!Collides, B!TypeOK
  <2>3. x \in B!Call /\ x.pc = "has" /\ x.s = y.s /\ x.n = Alternate[y.s]
    BY <1>1, BridgesAssumed DEF B!Call, B!Reusing
  <2> HIDE DEF x
  <2>4. B!Named(x) /\ B!HalfMade(x) /\ B!UpToDate(x) /\ B!Meant(x) /\ x.pc \notin B!Making
    BY <1>1, <2>3 DEF B!Named, B!HalfMade, B!UpToDate, B!Meant, B!Making
  <2>5. B!Standing(y) => B!Standing(x)
    BY <1>0, <1>5, <2>3 DEF B!Standing
  <2>6. B!OverlapOnly => B!Standing(x)
    BY <1>0, <2>5, ResumeKnown DEF B!Overlapping
  <2>7. ASSUME B!InTurn, "killed" \notin odd PROVE B!Second(x)
    <3>1. B!Sound /\ B!Based /\ B!UpToDate(y)
      BY <1>0, <2>7, ResumeKnown DEF B!Alternating
    <3>2. bridge[y.n].up
      BY <2>1, <3>1 DEF B!Longer, B!Based
    <3>3. t = y.n /\ y.seen = bridge[t].origin
      BY <1>0, <1>1, <1>5, <3>1, <3>2, TargetFound DEF B!UpToDate
    <3>4. bridge[t].id # y.s
      BY <1>1, <1>5, <2>1, <3>1, <3>3, BridgesAssumed DEF B!Sound, B!Tagged, B!Mine
    <3> QED
      BY <1>5, <2>3, <3>2, <3>3, <3>4 DEF B!Second, B!Making
  <2>8. B!InTurn => \A d \in Caller \ {c} : resume[d].pc = "idle"
    BY <1>0, ResumeKnown DEF B!Alternating
  <2> QED
    BY <1>2, <1>3, <2>2, <2>3, <2>4, <2>6, <2>7, <2>8, OddGrows, ResumeGoesOn
<1>6. CASE t = None \/ (~ B!Mine(y.s, y.seen, bridge[t]) /\ y.n # Primary[y.s])
  <2>1. B!Fails(c)
    BY <1>6 DEF B!ReadId, B!Missing, B!Collides
  <2> QED
    BY <1>a, <2>1
<1> QED
  BY <1>4, <1>5, <1>6

LEMMA BridgePaneState ==
    ASSUME B!IInv, NEW c \in Caller, B!PaneState(c)
    PROVE  B!IInv'
<1> DEFINE y == resume[c]
           t == B!Target(y.n)
<1>0. y.pc = "pane"
  BY DEF B!PaneState
<1>1. /\ y \in B!Call /\ y.s \in Session /\ y.n \in BridgeName /\ B!Named(y) /\ B!TypeOK
      /\ y.n \in {Primary[y.s], Alternate[y.s]}
  BY <1>0, ResumeKnown
<1>2. bridge' = bridge /\ UNCHANGED <<odd, trouble>>
  BY DEF B!PaneState, B!happened
<1>3. odd \subseteq odd' /\ odd' \subseteq B!Oddity /\ trouble' \in 0..MaxTrouble /\ odd' = odd
  BY <1>0, <1>2, ResumeKnown
<1>4. CASE t = None
  <2>1. B!Fails(c) /\ given' = given
    BY <1>4 DEF B!PaneState, B!Missing
  <2> QED
    BY <1>2, <1>3, <2>1, ResumeEnds
<1>5. CASE t # None
  <2>1. PICK pc \in {"respawn", "ok"} :
           /\ B!Goes(c, pc)
           /\ pc = "respawn" => bridge[t].pane = "dead" /\ given' = given
           /\ pc = "ok" => given' = given \cup {t}
    BY <1>5 DEF B!PaneState, B!Missing, B!PaneDead, B!Hands
  <2> DEFINE x == [y EXCEPT !.pc = pc]
  <2>2. resume' = [resume EXCEPT ![c] = x]
    BY <1>1, <2>1 DEF B!Goes, B!TypeOK
  <2>3. x \in B!Call /\ x.pc = pc /\ x.s = y.s /\ x.n = y.n
    BY <1>1 DEF B!Call
  <2> HIDE DEF x
  <2>4. B!Named(x) /\ B!HalfMade(x) /\ B!UpToDate(x) /\ x.pc \notin B!Making
    BY <1>0, <1>1, <2>1, <2>3 DEF B!Named, B!HalfMade, B!UpToDate, B!Making
  <2>5. B!Meant(y) => B!Meant(x)
    BY <1>0, <2>3 DEF B!Meant
  <2>6. B!Standing(y) => B!Standing(x)
    BY <1>0, <2>3 DEF B!Standing
  <2>7. B!Second(y) => B!Second(x)
    BY <1>0, <2>3 DEF B!Second, B!Making
  <2>8. B!OverlapOnly => B!Meant(x) /\ B!Standing(x)
    BY <1>0, <2>5, <2>6, ResumeKnown DEF B!Sound, B!Overlapping
  <2>9. B!InTurn => /\ B!Meant(x) /\ ("killed" \notin odd => B!Second(x))
                    /\ \A d \in Caller \ {c} : resume[d].pc = "idle"
    BY <1>0, <2>5, <2>7, ResumeKnown DEF B!Sound, B!Alternating
  <2>10. given' = given \/ (x.pc = "ok" /\ B!Target(x.n) # None /\ given' = given \cup {B!Target(x.n)})
    BY <1>5, <2>1, <2>3
  <2> QED
    BY <1>2, <1>3, <2>2, <2>3, <2>4, <2>8, <2>9, <2>10, OddGrows, ResumeGoesOn
<1> QED
  BY <1>4, <1>5

(* Whatever ends a resume without touching a bridge.                       *)
LEMMA BridgeGivesUp ==
    ASSUME B!IInv, NEW c \in Caller,
           B!NewSessionFails(c) \/ B!RespawnFails(c) \/ B!Switch(c) \/ B!Crash(c)
    PROVE  B!IInv'
<1>0. B!TypeOK /\ {"failed"} \in SUBSET B!Oddity /\ {"cutOff"} \in SUBSET B!Oddity
  BY DEF B!IInv, B!Oddity
<1>1. B!Fails(c) /\ bridge' = bridge /\ given' = given
  BY DEF B!NewSessionFails, B!RespawnFails, B!Switch, B!Crash
<1>2. UNCHANGED B!happened \/ B!Troubled({"failed"}) \/ B!Troubled({"cutOff"})
  BY DEF B!NewSessionFails, B!RespawnFails, B!Switch, B!Crash, B!happened
<1>3. odd \subseteq odd' /\ odd' \subseteq B!Oddity /\ trouble' \in 0..MaxTrouble
  <2>1. CASE UNCHANGED B!happened
    BY <1>0, <2>1 DEF B!happened, B!TypeOK
  <2>2. CASE B!Troubled({"failed"}) \/ B!Troubled({"cutOff"})
    BY <1>0, <2>2, TroubleCounted
  <2> QED
    BY <1>2, <2>1, <2>2
<1> QED
  BY <1>1, <1>3, ResumeEnds

LEMMA BridgeSetOptionFails ==
    ASSUME B!IInv, NEW c \in Caller, B!SetOptionFails(c)
    PROVE  B!IInv'
<1> DEFINE y == resume[c]
           x == [y EXCEPT !.pc = "rollback"]
<1>0. y.pc \in {"remain", "origin", "id"}
  BY DEF B!SetOptionFails
<1>1. /\ y \in B!Call /\ y.s \in Session /\ y.n \in BridgeName /\ B!Named(y) /\ B!TypeOK
      /\ y.n \in {Primary[y.s], Alternate[y.s]}
  BY <1>0, ResumeKnown
<1>2. resume' = [resume EXCEPT ![c] = x] /\ bridge' = bridge /\ given' = given
  BY <1>1 DEF B!SetOptionFails, B!Goes, B!TypeOK
<1>3. /\ odd \subseteq odd' /\ odd' \subseteq B!Oddity /\ trouble' \in 0..MaxTrouble
      /\ B!Target(y.n) # None => "failed" \in odd'
  <2>1. CASE B!Target(y.n) = None
    BY <1>1, <2>1 DEF B!SetOptionFails, B!Missing, B!happened, B!TypeOK
  <2>2. CASE B!Target(y.n) # None
    <3>1. B!Troubled({"failed"}) /\ {"failed"} \in SUBSET B!Oddity
      BY <2>2 DEF B!SetOptionFails, B!Missing, B!Oddity
    <3> QED
      BY <1>1, <3>1, TroubleCounted
  <2> QED
    BY <2>1, <2>2
<1>4. x \in B!Call /\ x.pc = "rollback" /\ x.s = y.s /\ x.n = y.n
  BY <1>1 DEF B!Call, B!Creating
<1> HIDE DEF x
<1>5. B!Named(x) /\ B!UpToDate(x) /\ B!Meant(x) /\ x.pc \notin B!Making
  BY <1>0, <1>1, <1>4 DEF B!Named, B!UpToDate, B!Meant, B!Making
<1>6. B!HalfMade(y) => B!HalfMade(x)
  BY <1>0, <1>4 DEF B!HalfMade, B!Making
<1>7. B!Second(y) => B!Second(x)
  BY <1>0, <1>4 DEF B!Second, B!Making
<1>8. ~ B!OverlapOnly'
  <2> SUFFICES ASSUME B!OverlapOnly' PROVE FALSE
    OBVIOUS
  <2>1. B!OverlapOnly
    BY <1>3, OddGrows
  <2>2. bridge[y.n].up
    BY <1>0, <2>1, ResumeKnown DEF B!Overlapping, B!Standing
  <2>3. B!Target(y.n) # None
    BY <1>1, <2>2, TargetFound, BridgesAssumed
  <2> QED
    BY <1>3, <2>3 DEF B!OverlapOnly
<1>9. B!InTurn => /\ B!HalfMade(x) /\ ("killed" \notin odd => B!Second(x))
                  /\ \A d \in Caller \ {c} : resume[d].pc = "idle"
  BY <1>0, <1>6, <1>7, ResumeKnown DEF B!Sound, B!Alternating
<1> QED
  BY <1>2, <1>3, <1>4, <1>5, <1>8, <1>9, OddGrows, ResumeGoesOn

(* The end of a pane leaves a bridge that has been handed out or started.  *)
LEMMA BridgePaneExits ==
    ASSUME B!IInv, NEW n \in BridgeName, B!PaneExits(n)
    PROVE  B!IInv'
<1>0. /\ B!TypeOK /\ bridge[n] \in B!TmuxSession /\ resume' = resume /\ given' = given
      /\ UNCHANGED <<odd, trouble>> /\ \A d \in Caller : B!Named(resume[d])
  BY DEF B!IInv, B!TypeOK, B!PaneExits, B!happened
<1>1. PICK b \in B!TmuxSession :
         /\ bridge' = [bridge EXCEPT ![n] = b]
         /\ b = IF bridge[n].remain THEN [bridge[n] EXCEPT !.pane = "dead"] ELSE B!Down
  BY <1>0, BridgesTypes DEF B!PaneExits, B!TypeOK
<1>2. B!TypeOK' /\ \A d \in Caller : B!Named(resume[d])'
  BY <1>0, <1>1 DEF B!TypeOK, B!Named
<1>3. ASSUME B!Sound
      PROVE  \A m \in BridgeName :
                /\ bridge'[m].up = bridge[m].up /\ bridge'[m].remain = bridge[m].remain
                /\ bridge'[m].id = bridge[m].id /\ bridge'[m].origin = bridge[m].origin
                /\ bridge'[m].pane = "command" => bridge[m].pane = "command"
                /\ bridge'[m].pane # bridge[m].pane => bridge[m].id # None
  <2>1. bridge[n].up /\ bridge[n].id # None /\ bridge[n].remain
    BY <1>3 DEF B!Sound, B!Tagged, B!PaneExits
  <2>2. b = [bridge[n] EXCEPT !.pane = "dead"]
    BY <1>1, <2>1
  <2> QED
    BY <1>0, <1>1, <2>1, <2>2 DEF B!TypeOK, B!TmuxSession
<1>4. ASSUME B!Sound PROVE B!Sound'
  <2>1. \A d \in Caller : B!HalfMade(resume[d])' /\ B!Meant(resume[d])'
    BY <1>0, <1>3, <1>4, CallStands DEF B!Sound
  <2>2. ASSUME NEW m \in BridgeName PROVE B!Tagged(m)'
    BY <1>0, <1>3, <1>4 DEF B!Sound, B!Tagged
  <2> QED
    BY <2>1, <2>2 DEF B!Sound
<1>5. ASSUME B!Sound, B!Based PROVE B!Based'
  BY <1>3, <1>5, BridgesAssumed DEF B!Based
<1>6. ASSUME B!OverlapOnly' PROVE B!Sound' /\ B!Overlapping'
  <2>1. B!Sound /\ B!Overlapping
    BY <1>0, <1>6, OddGrows DEF B!IInv
  <2>2. \A d \in Caller : B!Standing(resume[d])'
    BY <1>0, <1>3, <2>1, CallStands DEF B!Overlapping
  <2> QED
    BY <1>0, <1>4, <1>5, <2>1, <2>2 DEF B!Overlapping, B!Making
<1>7. ASSUME B!InTurn' PROVE B!Sound' /\ B!Alternating'
  <2>1. B!Sound /\ B!Alternating
    BY <1>0, <1>7, OddGrows DEF B!IInv
  <2>2. \A d \in Caller : B!UpToDate(resume[d])' /\ (B!Second(resume[d]) => B!Second(resume[d])')
    BY <1>0, <1>3, <2>1, CallStands DEF B!Alternating
  <2>3. B!OnePerSession => B!OnePerSession'
    BY <1>3, <2>1 DEF B!OnePerSession
  <2> QED
    BY <1>0, <1>4, <1>5, <2>1, <2>2, <2>3 DEF B!Alternating
<1> QED
  BY <1>2, <1>6, <1>7 DEF B!IInv

LEMMA BridgeRespawn ==
    ASSUME B!IInv, NEW c \in Caller, B!Respawn(c)
    PROVE  B!IInv'
<1> DEFINE y == resume[c]
           t == B!Target(y.n)
           x == [y EXCEPT !.pc = "ok"]
<1>0. y.pc = "respawn" /\ t # None
  BY DEF B!Respawn, B!Missing
<1>1. /\ y \in B!Call /\ y.s \in Session /\ y.n \in BridgeName /\ B!Named(y) /\ B!TypeOK
      /\ y.n \in {Primary[y.s], Alternate[y.s]} /\ \A d \in Caller : B!Named(resume[d])
  BY <1>0, ResumeKnown DEF B!IInv
<1>2. t \in BridgeName /\ bridge[t].up /\ bridge[t] \in B!TmuxSession
  BY <1>0, <1>1, TargetFound DEF B!TypeOK
<1>3. /\ resume' = [resume EXCEPT ![c] = x] /\ UNCHANGED <<odd, trouble>>
      /\ given' = given \cup {t}
  BY <1>1 DEF B!Respawn, B!Goes, B!Hands, B!happened, B!TypeOK
<1>4. PICK b \in B!TmuxSession : bridge' = [bridge EXCEPT ![t] = b] /\ b = [bridge[t] EXCEPT !.pane = "command"]
  BY <1>1, <1>2, BridgesTypes DEF B!Respawn, B!TypeOK
<1>5. x \in B!Call /\ x.pc = "ok" /\ x.s = y.s /\ x.n = y.n
  BY <1>1 DEF B!Call
<1> HIDE DEF x
<1>6. resume'[c] = x /\ \A d \in Caller \ {c} : resume'[d] = resume[d]
  BY <1>1, <1>3 DEF B!TypeOK
<1>7. /\ B!Named(x) /\ B!HalfMade(x) /\ B!UpToDate(x) /\ x.pc \notin B!Making
      /\ (B!Meant(y) => B!Meant(x)) /\ (B!Standing(y) => B!Standing(x)) /\ (B!Second(y) => B!Second(x))
  BY <1>0, <1>1, <1>5 DEF B!Named, B!HalfMade, B!UpToDate, B!Making, B!Meant, B!Standing, B!Second
<1>8. \A d \in Caller : B!Named(resume'[d]) /\ B!Named(resume[d])'
  BY <1>1, <1>6, <1>7 DEF B!Named
<1>9. B!TypeOK'
  BY <1>1, <1>2, <1>3, <1>4, <1>5 DEF B!TypeOK
<1>10. \A m \in BridgeName :
          /\ bridge'[m].up = bridge[m].up /\ bridge'[m].remain = bridge[m].remain
          /\ bridge'[m].id = bridge[m].id /\ bridge'[m].origin = bridge[m].origin
          /\ m # t => bridge'[m] = bridge[m]
  BY <1>1, <1>2, <1>4 DEF B!TypeOK, B!TmuxSession
<1>11. ASSUME B!Sound PROVE B!Sound'
  <2>1. \A d \in Caller : B!HalfMade(resume[d])' /\ B!Meant(resume[d])'
    BY <1>6, <1>7, <1>8, <1>10, <1>11, CallStands DEF B!Sound
  <2>2. bridge[t].id # None
    BY <1>0, <1>1, <1>11, BridgesAssumed DEF B!Sound, B!Meant
  <2>3. ASSUME NEW m \in BridgeName PROVE B!Tagged(m)'
    BY <1>2, <1>3, <1>10, <1>11, <2>2 DEF B!Sound, B!Tagged
  <2> QED
    BY <2>1, <2>3 DEF B!Sound
<1>12. ASSUME B!Based PROVE B!Based'
  BY <1>10, <1>12, BridgesAssumed DEF B!Based
<1>13. ASSUME B!OverlapOnly' PROVE B!Sound' /\ B!Overlapping'
  <2>1. B!Sound /\ B!Overlapping
    BY <1>3, <1>13, OddGrows DEF B!IInv
  <2>2. \A d \in Caller : B!Standing(resume[d])'
    BY <1>6, <1>7, <1>8, <1>10, <2>1, CallStands DEF B!Overlapping
  <2>3. \A d, e \in Caller :
           resume'[d].pc \in B!Making /\ resume'[e].pc \in B!Making /\ resume'[d].n = resume'[e].n => d = e
    BY <1>6, <1>7, <2>1 DEF B!Overlapping
  <2> QED
    BY <1>11, <1>12, <2>1, <2>2, <2>3 DEF B!Overlapping, B!Making
<1>14. ASSUME B!InTurn' PROVE B!Sound' /\ B!Alternating'
  <2>1. B!Sound /\ B!Alternating
    BY <1>3, <1>14, OddGrows DEF B!IInv
  <2>2. \A d \in Caller \ {c} : resume'[d].pc = "idle"
    BY <1>0, <1>6, <2>1 DEF B!Alternating
  <2>3. \A d \in Caller : B!UpToDate(resume[d])'
    BY <1>5, <1>6, <2>2 DEF B!UpToDate
  <2>4. ASSUME "killed" \notin odd' PROVE B!Based' /\ B!OnePerSession' /\ \A d \in Caller : B!Second(resume[d])'
    <3>1. B!Based /\ B!OnePerSession /\ \A d \in Caller : B!Second(resume[d])
      BY <1>3, <2>1, <2>4 DEF B!Alternating
    <3>2. \A d \in Caller : B!Second(resume[d])'
      BY <1>6, <1>7, <1>8, <1>10, <3>1, CallStands
    <3> QED
      BY <1>10, <1>12, <3>1, <3>2 DEF B!OnePerSession
  <2> QED
    BY <1>11, <2>1, <2>2, <2>3, <2>4 DEF B!Alternating
<1> QED
  BY <1>8, <1>9, <1>13, <1>14 DEF B!IInv

(* The user takes away a bridge whose name begins no other.                *)
LEMMA BridgeUserKills ==
    ASSUME B!IInv, NEW n \in BridgeName, B!UserKills(n)
    PROVE  B!IInv'
<1> DEFINE kinds == {"killed"} \cup (IF B!Longer(n) = {} THEN {} ELSE {"begins"})
<1>0. /\ B!TypeOK /\ resume' = resume /\ given' = given \ {n} /\ B!Troubled(kinds)
      /\ bridge' = [bridge EXCEPT ![n] = B!Down] /\ \A d \in Caller : B!Named(resume[d])
  BY DEF B!IInv, B!UserKills
<1>1. /\ odd \subseteq odd' /\ odd' \subseteq B!Oddity /\ trouble' \in 0..MaxTrouble
      /\ kinds \subseteq odd'
  <2>1. kinds \in SUBSET B!Oddity
    BY DEF B!Oddity
  <2> HIDE DEF kinds
  <2> QED
    BY <1>0, <2>1, TroubleCounted
<1>2. ~ B!OverlapOnly' /\ "killed" \in odd' /\ (B!InTurn' => B!Longer(n) = {})
  BY <1>1 DEF B!OverlapOnly, B!InTurn
<1>3. B!TypeOK' /\ \A d \in Caller : B!Named(resume[d])'
  BY <1>0, <1>1, BridgesTypes DEF B!TypeOK, B!Named
<1>4. ~ bridge'[n].up /\ \A m \in BridgeName \ {n} : bridge'[m] = bridge[m]
  BY <1>0, BridgesTypes DEF B!TypeOK
<1>5. ASSUME B!InTurn' PROVE B!Sound' /\ B!Alternating'
  <2>1. B!Sound /\ B!Alternating
    BY <1>1, <1>5, OddGrows DEF B!IInv
  <2>2. ASSUME NEW m \in BridgeName PROVE B!Tagged(m)'
    BY <1>0, <1>4, <2>1 DEF B!Sound, B!Tagged
  <2>3. ASSUME NEW d \in Caller, NEW y, y = resume[d]
        PROVE  B!HalfMade(resume[d])' /\ B!Meant(resume[d])' /\ B!UpToDate(resume[d])'
    <3>1. /\ y.pc # "idle" => y.n \in BridgeName
          /\ B!HalfMade(y) /\ B!Meant(y) /\ B!UpToDate(y) /\ resume'[d] = y
      BY <1>0, <2>1, <2>3, BridgesAssumed DEF B!Sound, B!Alternating, B!Named
    <3>2. ASSUME y.pc \in B!Making \cup {"rollback"} PROVE B!HalfMade(resume[d])'
      <4>1. y.n \in BridgeName
        BY <3>1, <3>2 DEF B!Making
      <4>2. B!Longer(y.n)' \subseteq B!Longer(y.n)
        BY <1>4 DEF B!Longer
      <4>3. y.n = n => B!Longer(y.n) = {}
        BY <1>2, <1>5
      <4> QED
        BY <1>4, <3>1, <3>2, <4>1, <4>2, <4>3 DEF B!HalfMade
    <3>3. ASSUME y.pc \in {"readOrigin", "readId", "pane", "respawn", "ok"}
          PROVE  B!Meant(resume[d])' /\ B!UpToDate(resume[d])'
      <4>1. y.n \in BridgeName /\ (bridge[y.n].up \/ \E k \in BridgeName : B!Longer(y.n) \subseteq {k})
        BY <3>1, <3>3 DEF B!Meant
      <4>2. y.n = n => B!Longer(n) = {}
        BY <1>2, <1>5
      <4>3. /\ bridge'[y.n].up \/ \E k \in BridgeName : B!Longer(y.n)' \subseteq {k}
            /\ B!Target(y.n)' # None =>
                  /\ B!Target(y.n)' = B!Target(y.n) /\ B!Target(y.n) # n /\ B!Target(y.n) \in BridgeName
        BY <1>4, <4>1, <4>2, GoneTarget
      <4>4. B!Target(y.n)' # None => bridge'[B!Target(y.n)] = bridge[B!Target(y.n)] /\ B!Target(y.n) # None
        BY <1>4, <4>3
      <4>5. B!Meant(resume[d])'
        BY <3>1, <3>3, <4>3, <4>4 DEF B!Meant
      <4>6. B!UpToDate(resume[d])'
        BY <3>1, <3>3, <4>3, <4>4 DEF B!UpToDate
      <4> QED
        BY <4>5, <4>6
    <3> QED
      BY <3>1, <3>2, <3>3 DEF B!HalfMade, B!Meant, B!UpToDate, B!Making
  <2>4. B!Sound'
    BY <2>2, <2>3 DEF B!Sound
  <2>5. \A d \in Caller : B!UpToDate(resume[d])'
    BY <2>3
  <2> QED
    BY <1>0, <1>2, <2>1, <2>4, <2>5 DEF B!Alternating
<1> QED
  BY <1>2, <1>3, <1>5 DEF B!IInv

(* A resume takes back what it has made.                                   *)
LEMMA BridgeRollback ==
    ASSUME B!IInv, NEW c \in Caller, B!Rollback(c)
    PROVE  B!IInv'
<1> DEFINE y == resume[c]
           t == B!Target(y.n)
<1>0. y.pc = "rollback" /\ B!Fails(c) /\ given' = given /\ UNCHANGED <<odd, trouble>>
  BY DEF B!Rollback, B!happened
<1>1. /\ y \in B!Call /\ y.s \in Session /\ y.n \in BridgeName /\ B!Named(y) /\ B!TypeOK
      /\ y.n \in {Primary[y.s], Alternate[y.s]} /\ \A d \in Caller : B!Named(resume[d])
  BY <1>0, ResumeKnown DEF B!IInv
<1>2. CASE t = None
  <2>1. bridge' = bridge
    BY <1>2 DEF B!Rollback, B!Missing
  <2>2. odd \subseteq odd' /\ odd' \subseteq B!Oddity /\ trouble' \in 0..MaxTrouble
    BY <1>0, ResumeKnown
  <2> QED
    BY <1>0, <2>1, <2>2, ResumeEnds
<1>3. CASE t # None
  <2>1. t \in BridgeName /\ bridge[t].up /\ bridge' = [bridge EXCEPT ![t] = B!Down]
    BY <1>1, <1>3, TargetFound DEF B!Rollback, B!Missing
  <2>2. ~ bridge'[t].up /\ \A m \in BridgeName \ {t} : bridge'[m] = bridge[m]
    BY <1>1, <2>1, BridgesTypes DEF B!TypeOK
  <2>3. resume'[c].pc = "idle" /\ \A d \in Caller \ {c} : resume'[d] = resume[d]
    BY <1>0, <1>1, BridgesTypes DEF B!Fails, B!TypeOK
  <2>4. B!TypeOK' /\ \A d \in Caller : B!Named(resume[d])'
    BY <1>0, <1>1, <2>1, <2>3, BridgesTypes DEF B!TypeOK, B!Fails, B!Named
  <2>5. ~ B!OverlapOnly'
    BY <1>0, ResumeKnown DEF B!OverlapOnly, B!Overlapping, B!Standing
  <2>6. ASSUME B!InTurn' PROVE B!Sound' /\ B!Alternating'
    <3>1. B!Sound /\ B!Alternating
      BY <1>0, <2>6, OddGrows DEF B!IInv
    <3>2. \A d \in Caller : resume'[d].pc = "idle"
      BY <1>0, <2>3, <3>1 DEF B!Alternating
    <3>3. t = y.n /\ bridge[t].id = None /\ bridge[y.n].up
      BY <1>0, <1>1, <1>3, <3>1, TargetFound DEF B!Sound, B!HalfMade
    <3>4. ASSUME NEW m \in BridgeName PROVE B!Tagged(m)'
      BY <1>0, <2>1, <2>2, <3>1, <3>3 DEF B!Sound, B!Tagged
    <3>5. B!Sound'
      BY <3>2, <3>4 DEF B!Sound, B!HalfMade, B!Meant, B!Making
    <3>6. ASSUME "killed" \notin odd' PROVE B!Based' /\ B!OnePerSession'
      <4>1. B!Based /\ B!OnePerSession /\ B!Longer(y.n) = {}
        BY <1>0, <3>1, <3>6 DEF B!Alternating, B!Second
      <4>2. ASSUME NEW s \in Session, bridge'[Alternate[s]].up PROVE bridge'[Primary[s]].up
        <5>1. Alternate[s] \in BridgeName /\ Primary[s] \in BridgeName
          BY BridgesAssumed
        <5>2. Alternate[s] # t /\ bridge[Alternate[s]].up
          BY <2>2, <4>2, <5>1
        <5>3. bridge[Primary[s]].up
          BY <4>1, <5>2 DEF B!Based
        <5>4. Primary[s] # t
          BY <3>3, <4>1, <5>1, <5>2 DEF B!Longer
        <5> QED
          BY <2>2, <5>1, <5>3, <5>4
      <4>3. B!OnePerSession'
        BY <2>2, <4>1 DEF B!OnePerSession
      <4> QED
        BY <4>2, <4>3 DEF B!Based
    <3> QED
      BY <3>2, <3>5, <3>6 DEF B!Alternating, B!UpToDate, B!Second, B!Making
  <2> QED
    BY <2>4, <2>5, <2>6 DEF B!IInv
<1> QED
  BY <1>2, <1>3

LEMMA BridgeNewSession ==
    ASSUME B!IInv, NEW c \in Caller, B!NewSession(c)
    PROVE  B!IInv'
<1> DEFINE y == resume[c]
           x == [y EXCEPT !.pc = "remain"]
<1>0. y.pc = "new"
  BY DEF B!NewSession
<1>1. /\ y \in B!Call /\ y.s \in Session /\ y.n \in BridgeName /\ B!Named(y) /\ B!TypeOK
      /\ y.n \in {Primary[y.s], Alternate[y.s]} /\ \A d \in Caller : B!Named(resume[d])
  BY <1>0, ResumeKnown DEF B!IInv
<1>2. /\ resume' = [resume EXCEPT ![c] = x] /\ UNCHANGED <<odd, trouble>> /\ given' = given
      /\ ~ bridge[y.n].up /\ bridge' = [bridge EXCEPT ![y.n] = B!Fresh]
  BY <1>1 DEF B!NewSession, B!Goes, B!happened, B!TypeOK, B!NextOption
<1>3. x \in B!Call /\ x.pc = "remain" /\ x.s = y.s /\ x.n = y.n
  BY <1>1 DEF B!Call, B!Creating
<1> HIDE DEF x
<1>4. resume'[c] = x /\ \A d \in Caller \ {c} : resume'[d] = resume[d]
  BY <1>1, <1>2 DEF B!TypeOK
<1>5. /\ bridge'[y.n].up /\ bridge'[y.n].id = None /\ bridge'[y.n].pane = "shell"
      /\ \A m \in BridgeName \ {y.n} : bridge'[m] = bridge[m]
  BY <1>1, <1>2, BridgesTypes DEF B!TypeOK
<1>6. B!Named(x) /\ \A d \in Caller : B!Named(resume'[d]) /\ B!Named(resume[d])'
  BY <1>1, <1>3, <1>4 DEF B!Named
<1>7. B!TypeOK'
  BY <1>1, <1>2, <1>3, BridgesTypes DEF B!TypeOK
<1>8. ASSUME B!Sound PROVE \A m \in BridgeName : B!Tagged(m)'
  BY <1>1, <1>2, <1>5, <1>8 DEF B!Sound, B!Tagged
<1>9. B!HalfMade(resume[c])' /\ B!Meant(resume[c])' /\ B!UpToDate(resume[c])'
  BY <1>3, <1>4, <1>5 DEF B!HalfMade, B!Meant, B!UpToDate
<1>10. ASSUME B!Based, y.n = Alternate[y.s] => bridge[Primary[y.s]].up
       PROVE  B!Based'
  <2>1. ASSUME NEW s \in Session, bridge'[Alternate[s]].up PROVE bridge'[Primary[s]].up
    <3>1. Alternate[s] \in BridgeName /\ Primary[s] \in BridgeName
      BY BridgesAssumed
    <3>2. CASE Alternate[s] # y.n
      BY <1>5, <1>10, <2>1, <3>1, <3>2 DEF B!Based
    <3>3. CASE Alternate[s] = y.n
      BY <1>1, <1>5, <1>10, <3>1, <3>3, BridgesAssumed
    <3> QED
      BY <3>2, <3>3
  <2> QED
    BY <2>1 DEF B!Based
<1>11. ASSUME B!OverlapOnly' PROVE B!Sound' /\ B!Overlapping'
  <2>1. B!Sound /\ B!Overlapping
    BY <1>2, <1>11, OddGrows DEF B!IInv
  <2>2. ASSUME NEW d \in Caller, NEW z, z = resume[d], d # c
        PROVE  B!HalfMade(resume[d])' /\ B!Meant(resume[d])' /\ B!Standing(resume[d])'
    <3>1. /\ resume'[d] = z /\ B!HalfMade(z) /\ B!Meant(z) /\ B!Standing(z)
          /\ z.pc # "idle" => z.n \in BridgeName /\ Primary[z.s] \in BridgeName
      BY <1>1, <1>4, <2>1, <2>2, BridgesAssumed DEF B!Sound, B!Overlapping, B!Named
    <3>2. B!Standing(resume[d])'
      BY <1>5, <3>1 DEF B!Standing
    <3>3. z.pc \notin {"idle", "has", "new"} =>
            /\ bridge[z.n].up /\ z.n # y.n /\ bridge'[z.n] = bridge[z.n]
            /\ B!Target(z.n) = z.n /\ B!Target(z.n)' = z.n
      BY <1>2, <1>5, <3>1 DEF B!Standing, B!Target
    <3>4. B!HalfMade(resume[d])'
      BY <3>1, <3>3 DEF B!HalfMade, B!Making
    <3>5. B!Meant(resume[d])'
      BY <3>1, <3>3 DEF B!Meant
    <3> QED
      BY <3>2, <3>4, <3>5
  <2>3. y.n = Alternate[y.s] => bridge[Primary[y.s]].up
    BY <1>0, <2>1 DEF B!Overlapping, B!Standing
  <2>4. B!Standing(resume[c])'
    <3>1. Primary[y.s] \in BridgeName
      BY <1>1, BridgesAssumed
    <3> QED
      BY <1>3, <1>4, <1>5, <2>3, <3>1 DEF B!Standing
  <2>5. \A d \in Caller \ {c} : resume'[d].pc \in B!Making => resume'[d].n # y.n
    BY <1>2, <1>4, <2>1 DEF B!Overlapping, B!Standing, B!Making
  <2>6. \A d, e \in Caller :
           resume'[d].pc \in B!Making /\ resume'[e].pc \in B!Making /\ resume'[d].n = resume'[e].n => d = e
    BY <1>3, <1>4, <2>1, <2>5 DEF B!Overlapping
  <2>7. B!Sound'
    BY <1>8, <1>9, <2>1, <2>2 DEF B!Sound
  <2>8. \A d \in Caller : B!Standing(resume[d])'
    BY <2>2, <2>4
  <2> QED
    BY <1>10, <2>1, <2>3, <2>6, <2>7, <2>8 DEF B!Overlapping, B!Making
<1>12. ASSUME B!InTurn' PROVE B!Sound' /\ B!Alternating'
  <2>1. B!Sound /\ B!Alternating
    BY <1>2, <1>12, OddGrows DEF B!IInv
  <2>2. \A d \in Caller \ {c} : resume'[d].pc = "idle"
    BY <1>0, <1>4, <2>1 DEF B!Alternating
  <2>3. \A d \in Caller : B!HalfMade(resume[d])' /\ B!Meant(resume[d])' /\ B!UpToDate(resume[d])'
    BY <1>9, <2>2 DEF B!HalfMade, B!Meant, B!UpToDate, B!Making
  <2>4. B!Sound'
    BY <1>8, <2>1, <2>3 DEF B!Sound
  <2>5. ASSUME "killed" \notin odd' PROVE B!Based' /\ B!OnePerSession' /\ \A d \in Caller : B!Second(resume[d])'
    <3>1. B!Based /\ B!OnePerSession /\ B!Second(y)
      BY <1>2, <2>1, <2>5 DEF B!Alternating
    <3>2. y.n = Alternate[y.s] => bridge[Primary[y.s]].up /\ bridge[Primary[y.s]].id # y.s
      BY <1>0, <3>1 DEF B!Second
    <3>3. B!Longer(y.n) = {}
      BY <1>2, <3>1 DEF B!Longer, B!Based
    <3>4. B!Longer(y.n)' = {}
      <4>1. ASSUME NEW m \in BridgeName, bridge'[m].up, NEW s \in Session, Primary[s] = y.n, Alternate[s] = m
            PROVE  m \in B!Longer(y.n)
        <5>1. m # y.n
          BY <4>1, BridgesAssumed
        <5>2. bridge[m].up
          BY <1>5, <4>1, <5>1
        <5> QED
          BY <4>1, <5>2 DEF B!Longer
      <4>2. (y.n)' = y.n
        BY <1>3, <1>4
      <4> QED
        BY <3>3, <4>1, <4>2 DEF B!Longer
    <3>5. B!Second(resume[c])'
      <4>1. y.n = Alternate[y.s] => bridge'[Primary[y.s]] = bridge[Primary[y.s]]
        BY <1>1, <1>5, BridgesAssumed
      <4> QED
        BY <1>3, <1>4, <3>2, <3>4, <4>1 DEF B!Second
    <3>6. \A d \in Caller : B!Second(resume[d])'
      BY <2>2, <3>5 DEF B!Second, B!Making
    <3>7. B!OnePerSession'
      BY <1>5, <3>1 DEF B!OnePerSession
    <3> QED
      BY <1>10, <3>1, <3>2, <3>6, <3>7
  <2>6. \A d, e \in Caller : resume'[d].pc # "idle" /\ resume'[e].pc # "idle" => d = e
    BY <2>2
  <2> QED
    BY <2>3, <2>4, <2>5, <2>6 DEF B!Alternating
<1> QED
  BY <1>6, <1>7, <1>11, <1>12 DEF B!IInv

(* One more option of a bridge is set, the id last.                        *)
LEMMA OptionSet ==
    ASSUME B!TypeOK, NEW c \in Caller, B!SetOption(c), resume[c].s \in Session, resume[c].n \in BridgeName
    PROVE  LET y == resume[c] t == B!Target(y.n)
           IN  /\ t \in BridgeName /\ bridge[t].up
               /\ bridge'[t].up /\ bridge'[t].pane = bridge[t].pane
               /\ \A m \in BridgeName \ {t} : bridge'[m] = bridge[m]
               /\ y.pc = "remain" => bridge'[t].remain /\ bridge'[t].id = bridge[t].id
               /\ y.pc = "origin" => /\ bridge'[t].remain = bridge[t].remain
                                     /\ bridge'[t].origin = OriginOf[y.s] /\ bridge'[t].id = bridge[t].id
               /\ y.pc = "id" => /\ bridge'[t].remain = bridge[t].remain
                                 /\ bridge'[t].origin = bridge[t].origin /\ bridge'[t].id = y.s
               /\ bridge' \in [BridgeName -> B!TmuxSession]
<1> DEFINE y == resume[c]
           t == B!Target(y.n)
           b == B!WithOption(bridge[t], y.pc, y.s)
<1>1. /\ y.pc \in {"remain", "origin", "id"} /\ t # None /\ OriginOf[y.s] \in Origin
      /\ bridge' = [bridge EXCEPT ![t] = b]
  BY BridgesAssumed DEF B!SetOption, B!Missing
<1>2. t \in BridgeName /\ bridge[t].up /\ bridge[t] \in B!TmuxSession
  BY <1>1, TargetFound DEF B!TypeOK
<1>3. CASE y.pc = "remain"
  <2>1. b = [bridge[t] EXCEPT !.remain = TRUE]
    BY <1>3 DEF B!WithOption
  <2>2. b \in B!TmuxSession
    BY <1>2, <2>1, BridgesTypes
  <2>3. b.up = bridge[t].up /\ b.pane = bridge[t].pane /\ b.remain = TRUE /\ b.id = bridge[t].id
    BY <1>2, <2>1 DEF B!TmuxSession
  <2> HIDE DEF b
  <2> QED
    BY <1>1, <1>2, <1>3, <2>2, <2>3 DEF B!TypeOK
<1>4. CASE y.pc = "origin"
  <2>1. b = [bridge[t] EXCEPT !.origin = OriginOf[y.s]]
    BY <1>4 DEF B!WithOption
  <2>2. b \in B!TmuxSession
    BY <1>1, <1>2, <2>1, BridgesTypes
  <2>3. /\ b.up = bridge[t].up /\ b.pane = bridge[t].pane /\ b.remain = bridge[t].remain
        /\ b.origin = OriginOf[y.s] /\ b.id = bridge[t].id
    BY <1>2, <2>1 DEF B!TmuxSession
  <2> HIDE DEF b
  <2> QED
    BY <1>1, <1>2, <1>4, <2>2, <2>3 DEF B!TypeOK
<1>5. CASE y.pc = "id"
  <2>1. b = [bridge[t] EXCEPT !.id = y.s]
    BY <1>5 DEF B!WithOption
  <2>2. b \in B!TmuxSession
    BY <1>2, <2>1, BridgesTypes
  <2>3. /\ b.up = bridge[t].up /\ b.pane = bridge[t].pane /\ b.remain = bridge[t].remain
        /\ b.origin = bridge[t].origin /\ b.id = y.s
    BY <1>2, <2>1 DEF B!TmuxSession
  <2> HIDE DEF b
  <2> QED
    BY <1>1, <1>2, <1>5, <2>2, <2>3 DEF B!TypeOK
<1> QED
  BY <1>1, <1>3, <1>4, <1>5

LEMMA BridgeSetOption ==
    ASSUME B!IInv, NEW c \in Caller, B!SetOption(c)
    PROVE  B!IInv'
<1> DEFINE y == resume[c]
           t == B!Target(y.n)
<1>0. y.pc \in {"remain", "origin", "id"} /\ y.pc \in B!Making /\ y.pc # "idle"
  BY DEF B!SetOption, B!Making
<1>1. /\ y \in B!Call /\ y.s \in Session /\ y.n \in BridgeName /\ B!Named(y) /\ B!TypeOK
      /\ y.n \in {Primary[y.s], Alternate[y.s]} /\ \A d \in Caller : B!Named(resume[d])
  BY <1>0, ResumeKnown DEF B!IInv
<1>2. /\ t \in BridgeName /\ bridge[t].up /\ bridge'[t].up /\ bridge'[t].pane = bridge[t].pane
      /\ \A m \in BridgeName \ {t} : bridge'[m] = bridge[m]
      /\ y.pc = "remain" => bridge'[t].remain /\ bridge'[t].id = bridge[t].id
      /\ y.pc = "origin" => /\ bridge'[t].remain = bridge[t].remain
                            /\ bridge'[t].origin = OriginOf[y.s] /\ bridge'[t].id = bridge[t].id
      /\ y.pc = "id" => /\ bridge'[t].remain = bridge[t].remain
                        /\ bridge'[t].origin = bridge[t].origin /\ bridge'[t].id = y.s
      /\ bridge' \in [BridgeName -> B!TmuxSession]
  BY <1>1, OptionSet
<1>3. PICK pc \in {"origin", "id", "respawn"} :
         /\ B!Goes(c, pc)
         /\ pc = "origin" => y.pc = "remain"
         /\ pc = "id" => y.pc = "origin"
         /\ pc = "respawn" => y.pc = "id"
  BY DEF B!SetOption, B!NextOption
<1> DEFINE x == [y EXCEPT !.pc = pc]
<1>4. resume' = [resume EXCEPT ![c] = x] /\ UNCHANGED <<odd, trouble>> /\ given' = given
  BY <1>1, <1>3 DEF B!SetOption, B!Goes, B!happened, B!TypeOK
<1>5. x \in B!Call /\ x.pc = pc /\ x.s = y.s /\ x.n = y.n
  BY <1>1 DEF B!Call, B!Creating
<1> HIDE DEF x
<1>6. resume'[c] = x /\ \A d \in Caller \ {c} : resume'[d] = resume[d]
  BY <1>1, <1>4 DEF B!TypeOK
<1>7. B!Named(x) /\ \A d \in Caller : B!Named(resume'[d]) /\ B!Named(resume[d])'
  BY <1>1, <1>3, <1>5, <1>6 DEF B!Named
<1>8. B!TypeOK'
  BY <1>1, <1>2, <1>4, <1>5 DEF B!TypeOK
<1>9. \A m \in BridgeName :
         bridge'[m].up = bridge[m].up /\ B!Longer(m)' = B!Longer(m) /\ B!Target(m)' = B!Target(m)
  <2>1. bridge \in [BridgeName -> B!TmuxSession]
    BY <1>1 DEF B!TypeOK
  <2>2. bridge[t].up \in BOOLEAN /\ bridge'[t].up \in BOOLEAN
    BY <1>2, <2>1 DEF B!TmuxSession
  <2>3. \A m \in BridgeName : bridge'[m].up = bridge[m].up
    BY <1>2, <2>2
  <2> QED
    BY <2>3, SameUp
(* It sets it on the bridge it has made, which is not handed out.          *)
<1>10. ASSUME B!Sound
       PROVE  /\ t = y.n /\ bridge[t].id = None
              /\ y.pc \in {"origin", "id"} => bridge[t].remain
              /\ y.pc = "id" => bridge[t].origin = OriginOf[y.s]
  <2>1. B!HalfMade(y)
    BY <1>10 DEF B!Sound
  <2>2. bridge[y.n].up
    BY <1>0, <1>1, <1>2, <2>1, TargetFound, BridgesAssumed DEF B!HalfMade
  <2>3. t = y.n
    BY <1>1, <2>2, TargetFound
  <2> QED
    BY <1>0, <2>1, <2>2, <2>3 DEF B!HalfMade
<1>11. ASSUME B!Sound PROVE \A m \in BridgeName : B!Tagged(m)'
  <2>1. ASSUME NEW m \in BridgeName, m # t PROVE B!Tagged(m)'
    BY <1>2, <1>4, <1>11, <2>1 DEF B!Sound, B!Tagged
  <2>2. ASSUME NEW m \in BridgeName, m = t PROVE B!Tagged(m)'
    <3>1. bridge[t].pane = "shell" /\ t \notin given
      BY <1>2, <1>10, <1>11 DEF B!Sound, B!Tagged
    <3>2. bridge'[t].pane = "shell" /\ t \notin given'
      BY <1>2, <1>4, <3>1
    <3>3. bridge'[t].id # None =>
             /\ bridge'[t].remain /\ bridge'[t].origin = OriginOf[bridge'[t].id]
             /\ t \in {Primary[bridge'[t].id], Alternate[bridge'[t].id]}
      BY <1>0, <1>1, <1>2, <1>10, <1>11
    <3> QED
      BY <2>2, <3>2, <3>3 DEF B!Tagged
  <2> QED
    BY <2>1, <2>2
<1>12. ASSUME B!Sound PROVE B!HalfMade(resume[c])' /\ B!Meant(resume[c])' /\ B!UpToDate(resume[c])'
  <2>1. B!HalfMade(resume[c])'
    BY <1>2, <1>3, <1>5, <1>6, <1>10, <1>12 DEF B!HalfMade, B!Making
  <2>2. B!Target(y.n)' = t
    <3>1. (y.n)' = y.n
      BY <1>5, <1>6
    <3> QED
      BY <1>1, <1>9, <3>1
  <2>3. B!Meant(resume[c])'
    BY <1>2, <1>3, <1>5, <1>6, <1>10, <1>12, <2>2 DEF B!Meant
  <2>4. bridge[t].pane # "command"
    BY <1>2, <1>10, <1>12 DEF B!Sound, B!Tagged
  <2>5. B!UpToDate(resume[c])'
    BY <1>2, <1>3, <1>5, <1>6, <2>2, <2>4 DEF B!UpToDate
  <2> QED
    BY <2>1, <2>3, <2>5
<1>13. ASSUME B!Based PROVE B!Based'
  BY <1>9, <1>13, BridgesAssumed DEF B!Based
<1>14. ASSUME B!OverlapOnly' PROVE B!Sound' /\ B!Overlapping'
  <2>1. B!Sound /\ B!Overlapping
    BY <1>4, <1>14, OddGrows DEF B!IInv
  <2>2. ASSUME NEW d \in Caller, NEW z, z = resume[d], d # c
        PROVE  B!HalfMade(resume[d])' /\ B!Meant(resume[d])' /\ B!Standing(resume[d])'
    <3>1. /\ resume'[d] = z /\ B!HalfMade(z) /\ B!Meant(z) /\ B!Standing(z)
          /\ z.pc # "idle" => z.n \in BridgeName /\ z.s \in Session /\ Primary[z.s] \in BridgeName
      BY <1>1, <1>6, <2>1, <2>2, BridgesAssumed DEF B!Sound, B!Overlapping, B!Named
    <3>2. B!Standing(resume[d])'
      BY <1>9, <3>1 DEF B!Standing
    <3>3. B!HalfMade(resume[d])'
      <4>1. z.pc \in B!Making \cup {"rollback"} => z.n # t /\ bridge[z.n].up /\ z.n \in BridgeName
        BY <1>0, <1>10, <2>1, <2>2, <3>1 DEF B!Overlapping, B!Standing, B!Making
      <4> QED
        BY <1>2, <3>1, <4>1 DEF B!HalfMade
    <3>4. B!Meant(resume[d])'
      <4>1. z.pc \in {"readOrigin", "readId", "pane", "respawn", "ok"} =>
               B!Target(z.n) = z.n /\ B!Target(z.n)' = z.n /\ bridge[z.n].up /\ bridge'[z.n].up
        BY <1>9, <3>1, TargetFound DEF B!Standing
      <4>2. z.pc \in {"pane", "respawn", "ok"} => z.n # t /\ bridge[z.n].id = z.s /\ z.n \in BridgeName /\ z.n # None
        BY <1>10, <2>1, <3>1, <4>1, BridgesAssumed DEF B!Meant
      <4>3. z.pc \in {"pane", "respawn", "ok"} => bridge'[z.n].id = z.s
        BY <1>2, <4>2
      <4> QED
        BY <3>1, <4>1, <4>3 DEF B!Meant
    <3> QED
      BY <3>2, <3>3, <3>4
  <2>3. B!Standing(resume[c])'
    <3>1. B!Standing(y) /\ Primary[y.s] \in BridgeName
      BY <1>1, <2>1, BridgesAssumed DEF B!Overlapping
    <3> QED
      BY <1>0, <1>1, <1>3, <1>5, <1>6, <1>9, <3>1 DEF B!Standing
  <2>4. \A d, e \in Caller :
           resume'[d].pc \in B!Making /\ resume'[e].pc \in B!Making /\ resume'[d].n = resume'[e].n => d = e
    <3>1. \A d \in Caller : resume'[d].pc \in B!Making => resume[d].pc \in B!Making /\ resume'[d].n = resume[d].n
      BY <1>0, <1>5, <1>6
    <3> QED
      BY <2>1, <3>1 DEF B!Overlapping
  <2>5. B!Sound'
    BY <1>11, <1>12, <2>1, <2>2 DEF B!Sound
  <2>6. \A d \in Caller : B!Standing(resume[d])'
    BY <2>2, <2>3
  <2> QED
    BY <1>13, <2>1, <2>4, <2>5, <2>6 DEF B!Overlapping, B!Making
<1>15. ASSUME B!InTurn' PROVE B!Sound' /\ B!Alternating'
  <2>1. B!Sound /\ B!Alternating
    BY <1>4, <1>15, OddGrows DEF B!IInv
  <2>2. \A d \in Caller \ {c} : resume'[d].pc = "idle"
    BY <1>0, <1>6, <2>1 DEF B!Alternating
  <2>3. \A d \in Caller : B!HalfMade(resume[d])' /\ B!Meant(resume[d])' /\ B!UpToDate(resume[d])'
    BY <1>12, <2>1, <2>2 DEF B!HalfMade, B!Meant, B!UpToDate, B!Making
  <2>4. B!Sound'
    BY <1>11, <2>1, <2>3 DEF B!Sound
  <2>5. ASSUME "killed" \notin odd' PROVE B!Based' /\ B!OnePerSession' /\ \A d \in Caller : B!Second(resume[d])'
    <3>1. B!Based /\ B!OnePerSession /\ B!Second(y)
      BY <1>4, <2>1, <2>5 DEF B!Alternating
    <3>2. /\ y.n = Alternate[y.s] => bridge[Primary[y.s]].up /\ bridge[Primary[y.s]].id # y.s
          /\ B!Longer(y.n) = {}
      BY <1>0, <3>1 DEF B!Second
    <3>3. B!Second(resume[c])'
      <4>1. y.n = Alternate[y.s] => bridge'[Primary[y.s]] = bridge[Primary[y.s]]
        BY <1>1, <1>2, <1>10, <2>1, BridgesAssumed
      <4>2. (y.n)' = y.n
        BY <1>5, <1>6
      <4>3. B!Longer(y.n)' = {}
        BY <1>1, <1>9, <3>2, <4>2
      <4> QED
        BY <1>5, <1>6, <3>2, <4>1, <4>3 DEF B!Second
    <3>4. \A d \in Caller : B!Second(resume[d])'
      BY <2>2, <3>3 DEF B!Second, B!Making
    <3>5. ASSUME NEW m \in BridgeName, bridge[m].up, bridge[m].id = y.s PROVE m = t
      <4>1. m \in {Primary[y.s], Alternate[y.s]}
        BY <1>1, <2>1, <3>5, BridgesAssumed DEF B!Sound, B!Tagged
      <4>2. y.n = Primary[y.s] => m # Alternate[y.s]
        BY <1>1, <3>2, <3>5 DEF B!Longer
      <4>3. y.n = Alternate[y.s] => m # Primary[y.s]
        BY <3>2, <3>5
      <4> QED
        BY <1>1, <1>10, <2>1, <4>1, <4>2, <4>3
    <3>6. B!OnePerSession'
      <4>1. ASSUME NEW m \in BridgeName, NEW k \in BridgeName, bridge'[m].up, bridge'[k].up,
                   bridge'[m].id = bridge'[k].id, bridge'[m].id # None
            PROVE  m = k
        <5>1. bridge[m].up /\ bridge[k].up
          BY <1>9, <4>1
        <5>2. bridge'[t].id = bridge[t].id \/ bridge'[t].id = y.s
          BY <1>0, <1>2
        <5>3. bridge[t].id = None
          BY <1>10, <2>1
        <5>4. CASE m # t /\ k # t
          BY <1>2, <3>1, <4>1, <5>1, <5>4 DEF B!OnePerSession
        <5>5. CASE m = t /\ k # t
          BY <1>2, <3>5, <4>1, <5>1, <5>2, <5>3, <5>5
        <5>6. CASE m # t /\ k = t
          BY <1>2, <3>5, <4>1, <5>1, <5>2, <5>3, <5>6
        <5> QED
          BY <5>4, <5>5, <5>6
      <4> QED
        BY <4>1 DEF B!OnePerSession
    <3> QED
      BY <1>13, <3>1, <3>4, <3>6
  <2>6. \A d, e \in Caller : resume'[d].pc # "idle" /\ resume'[e].pc # "idle" => d = e
    BY <2>2
  <2> QED
    BY <2>3, <2>4, <2>5, <2>6 DEF B!Alternating
<1> QED
  BY <1>7, <1>8, <1>14, <1>15 DEF B!IInv

LEMMA BridgesKept == B!IInv /\ [B!Next]_B!vars => B!IInv'
<1> SUFFICES ASSUME B!IInv, [B!Next]_B!vars PROVE B!IInv'
  OBVIOUS
<1>1. ASSUME NEW c \in Caller, NEW s \in Session, B!Resume(c, s) PROVE B!IInv'
  BY <1>1, BridgeResume
<1>2. ASSUME NEW c \in Caller, B!HasSession(c) PROVE B!IInv'
  BY <1>2, BridgeHasSession
<1>3. ASSUME NEW c \in Caller, B!ReadOrigin(c) PROVE B!IInv'
  BY <1>3, BridgeReadOrigin
<1>4. ASSUME NEW c \in Caller, B!ReadId(c) PROVE B!IInv'
  BY <1>4, BridgeReadId
<1>5. ASSUME NEW c \in Caller, B!PaneState(c) PROVE B!IInv'
  BY <1>5, BridgePaneState
<1>6. ASSUME NEW c \in Caller, B!NewSession(c) PROVE B!IInv'
  BY <1>6, BridgeNewSession
<1>7. ASSUME NEW c \in Caller,
             B!NewSessionFails(c) \/ B!RespawnFails(c) \/ B!Switch(c) \/ B!Crash(c)
      PROVE  B!IInv'
  BY <1>7, BridgeGivesUp
<1>8. ASSUME NEW c \in Caller, B!SetOption(c) PROVE B!IInv'
  BY <1>8, BridgeSetOption
<1>9. ASSUME NEW c \in Caller, B!SetOptionFails(c) PROVE B!IInv'
  BY <1>9, BridgeSetOptionFails
<1>10. ASSUME NEW c \in Caller, B!Rollback(c) PROVE B!IInv'
  BY <1>10, BridgeRollback
<1>11. ASSUME NEW c \in Caller, B!Respawn(c) PROVE B!IInv'
  BY <1>11, BridgeRespawn
<1>12. ASSUME NEW n \in BridgeName, B!PaneExits(n) PROVE B!IInv'
  BY <1>12, BridgePaneExits
<1>13. ASSUME NEW n \in BridgeName, B!UserKills(n) PROVE B!IInv'
  BY <1>13, BridgeUserKills
<1>14. CASE UNCHANGED B!vars
  <2>1. bridge' = bridge /\ resume' = resume /\ given' = given /\ odd' = odd /\ trouble' = trouble
    BY <1>14 DEF B!vars, B!happened
  <2>2. \A d \in Caller : B!Named(resume[d])
    BY DEF B!IInv
  <2>3. \A d \in Caller : /\ B!Named(resume[d])'
                          /\ (B!HalfMade(resume[d]) => B!HalfMade(resume[d])')
                          /\ (B!Meant(resume[d]) => B!Meant(resume[d])')
                          /\ (B!Standing(resume[d]) => B!Standing(resume[d])')
                          /\ (B!UpToDate(resume[d]) => B!UpToDate(resume[d])')
                          /\ (B!Second(resume[d]) => B!Second(resume[d])')
    BY <2>1, <2>2, CallStands
  <2>4. B!Sound => B!Sound'
    BY <2>1, <2>3 DEF B!Sound, B!Tagged
  <2>5. B!Overlapping => B!Overlapping'
    BY <2>1, <2>3 DEF B!Overlapping, B!Based, B!Making
  <2>6. B!Alternating => B!Alternating'
    BY <2>1, <2>3 DEF B!Alternating, B!Based, B!OnePerSession
  <2> QED
    BY <2>1, <2>3, <2>4, <2>5, <2>6 DEF B!IInv, B!TypeOK, B!OverlapOnly, B!InTurn
<1> QED
  BY <1>1, <1>2, <1>3, <1>4, <1>5, <1>6, <1>7, <1>8, <1>9, <1>10, <1>11, <1>12, <1>13, <1>14 DEF B!Next

LEMMA BridgesInductive == B!Spec => []B!IInv
  BY BridgesInit, BridgesKept, PTL DEF B!Spec

(* Whatever resumes, in whatever order cut off: a resume is given a bridge *)
(* of its own session, which stays until the user kills it; and as long as *)
(* resumes take turns no session has two.                                  *)
THEOREM BridgeIsOwn == B!Spec => []GivenIsOwn
<1>1. B!IInv => GivenIsOwn
  <2> SUFFICES ASSUME B!IInv, B!OverlapOnly \/ B!InTurn PROVE GivenIsOwn
    BY DEF GivenIsOwn, B!GivenIsOwn
  <2>1. B!Sound
    BY DEF B!IInv
  <2>2. ASSUME NEW c \in Caller, resume[c].pc = "ok", B!Target(resume[c].n) # None
        PROVE  LET b == bridge[B!Target(resume[c].n)]
               IN  b.id = resume[c].s /\ b.origin = OriginOf[resume[c].s]
    <3>1. resume[c].n \in BridgeName /\ resume[c].s \in Session
      BY <2>2, ResumeKnown
    <3>2. bridge[B!Target(resume[c].n)].id = resume[c].s
      BY <2>1, <2>2 DEF B!Sound, B!Meant
    <3>3. B!Target(resume[c].n) \in BridgeName /\ bridge[B!Target(resume[c].n)].up
      BY <2>2, <3>1, TargetFound
    <3>4. bridge[B!Target(resume[c].n)].origin = OriginOf[resume[c].s]
      BY <2>1, <3>1, <3>2, <3>3, BridgesAssumed DEF B!Sound, B!Tagged
    <3> QED
      BY <3>2, <3>4
  <2>3. \A n \in given : bridge[n].up
    BY <2>1 DEF B!IInv, B!TypeOK, B!Sound, B!Tagged
  <2>4. B!InTurn /\ "killed" \notin odd => B!OnePerSession
    BY DEF B!IInv, B!Alternating
  <2> QED
    BY <2>2, <2>3, <2>4 DEF GivenIsOwn, B!GivenIsOwn, B!Missing
<1> QED
  BY <1>1, BridgesInductive, PTL

(* A bridge that is rolled back has no id: it is not one that runs.        *)
LEMMA RunningNotRolledBack ==
    ASSUME B!IInv, B!OverlapOnly \/ B!InTurn, NEW c \in Caller, resume[c].pc = "rollback",
           ~ B!Missing(c)
    PROVE  /\ B!Target(resume[c].n) \in BridgeName
           /\ bridge[B!Target(resume[c].n)].pane = "shell"
<1>1. resume[c].n \in BridgeName /\ B!Sound
  BY ResumeKnown
<1>2. bridge[resume[c].n].up
  <2>1. B!Longer(resume[c].n) = {} /\ ~ bridge[resume[c].n].up => B!Missing(c)
    BY <1>1, TargetFound DEF B!Missing
  <2> QED
    BY <1>1, <2>1 DEF B!Sound, B!HalfMade
<1>3. bridge[resume[c].n].id = None /\ B!Target(resume[c].n) = resume[c].n
  BY <1>1, <1>2, TargetFound DEF B!Sound, B!HalfMade
<1> QED
  BY <1>1, <1>2, <1>3 DEF B!Sound, B!Tagged

LEMMA RunningTakenDown ==
    ASSUME B!IInv, B!Next, B!OverlapOnly \/ B!InTurn,
           NEW n \in BridgeName, bridge[n].up, bridge[n].pane = "command", ~ bridge'[n].up
    PROVE  B!UserKills(n)
<1>0. B!TypeOK /\ B!Sound /\ \A m \in BridgeName : bridge[m] \in B!TmuxSession
  BY DEF B!IInv, B!TypeOK
<1>1. bridge'[n] # bridge[n]
  OBVIOUS
<1>2. ASSUME NEW c \in Caller, B!NewSession(c) PROVE FALSE
  BY <1>0, <1>2, BridgesTypes DEF B!NewSession, B!TypeOK
<1>3. ASSUME NEW c \in Caller, B!SetOption(c) PROVE FALSE
  <2> DEFINE t == B!Target(resume[c].n)
  <2>1. /\ t = n
        /\ bridge'[n] = B!WithOption(bridge[n], resume[c].pc, resume[c].s)
        /\ resume[c].pc \in {"remain", "origin", "id"}
    BY <1>0, <1>1, <1>3 DEF B!SetOption, B!TypeOK
  <2>2. B!WithOption(bridge[n], resume[c].pc, resume[c].s).up = bridge[n].up
    BY <1>0, <2>1 DEF B!WithOption, B!TmuxSession
  <2> QED
    BY <2>1, <2>2
<1>4. ASSUME NEW c \in Caller, B!Respawn(c) PROVE FALSE
  BY <1>0, <1>1, <1>4 DEF B!Respawn, B!TypeOK, B!TmuxSession
<1>5. ASSUME NEW c \in Caller, B!Rollback(c) PROVE FALSE
  <2>1. resume[c].pc = "rollback" /\ ~ B!Missing(c) /\ B!Target(resume[c].n) = n
    BY <1>0, <1>1, <1>5 DEF B!Rollback, B!TypeOK
  <2> QED
    BY <2>1, RunningNotRolledBack
<1>6. ASSUME NEW m \in BridgeName, B!PaneExits(m) PROVE FALSE
  <2>1. m = n /\ bridge[n].remain
    BY <1>0, <1>1, <1>6 DEF B!PaneExits, B!TypeOK, B!Sound, B!Tagged
  <2> QED
    BY <1>0, <1>6, <2>1 DEF B!PaneExits, B!TypeOK, B!TmuxSession
<1>7. ASSUME NEW m \in BridgeName, B!UserKills(m) PROVE m = n
  BY <1>0, <1>1, <1>7 DEF B!UserKills, B!TypeOK
<1>8. ASSUME NEW c \in Caller,
             \/ B!HasSession(c) \/ B!ReadOrigin(c) \/ B!ReadId(c) \/ B!PaneState(c)
             \/ B!NewSessionFails(c) \/ B!SetOptionFails(c) \/ B!RespawnFails(c)
             \/ B!Switch(c) \/ B!Crash(c)
      PROVE  bridge' = bridge
  BY <1>8, Zenon DEF B!HasSession, B!ReadOrigin, B!ReadId, B!PaneState, B!NewSessionFails,
                     B!SetOptionFails, B!RespawnFails, B!Switch, B!Crash
<1>9. ASSUME NEW c \in Caller, NEW s \in Session, B!Resume(c, s) PROVE bridge' = bridge
  BY <1>9, Zenon DEF B!Resume
<1> QED
  BY <1>1, <1>2, <1>3, <1>4, <1>5, <1>6, <1>7, <1>8, <1>9 DEF B!Next

(* Whatever resumes, with overlaps and interruptions or with failures and  *)
(* kills: no resume, not even one that rolls back, and no connection that  *)
(* ends takes a running bridge down; and one is started again only by an   *)
(* overlapping resume of its own session (bridge.go 44-126).               *)
THEOREM RunningBridgeSpared == B!Spec => AliveIsLeftAlone
<1>1. ASSUME B!IInv, B!Next, B!OverlapOnly \/ B!InTurn,
             NEW n \in BridgeName, bridge[n].up, bridge[n].pane = "command"
      PROVE  /\ ~ bridge'[n].up => B!UserKills(n)
             /\ \A c \in Caller : B!Respawn(c) /\ B!Target(resume[c].n) = n =>
                                     bridge[n].id = resume[c].s /\ ~ B!InTurn
  <2>1. ASSUME NEW c \in Caller, B!Respawn(c), B!Target(resume[c].n) = n
        PROVE  bridge[n].id = resume[c].s /\ ~ B!InTurn
    <3>1. resume[c].pc = "respawn" /\ B!Target(resume[c].n) # None
      BY <2>1 DEF B!Respawn, B!Missing
    <3>2. bridge[n].id = resume[c].s
      BY <1>1, <2>1, <3>1 DEF B!IInv, B!Sound, B!Meant
    <3>3. ~ B!InTurn
      BY <1>1, <2>1, <3>1 DEF B!IInv, B!Alternating, B!UpToDate
    <3> QED
      BY <3>2, <3>3
  <2> QED
    BY <1>1, <2>1, RunningTakenDown
<1>2. B!IInv /\ [B!Next]_B!vars =>
        [B!OverlapOnly \/ B!InTurn =>
            \A n \in BridgeName : bridge[n].up /\ bridge[n].pane = "command" =>
               /\ ~ bridge'[n].up => B!UserKills(n)
               /\ \A c \in Caller : B!Respawn(c) /\ B!Target(resume[c].n) = n =>
                                       bridge[n].id = resume[c].s /\ ~ B!InTurn]_B!vars
  BY <1>1
<1> QED
  BY <1>2, BridgesInductive, PTL DEF B!Spec, AliveIsLeftAlone, B!AliveIsLeftAlone

-----------------------------------------------------------------------------
(* A behaviour of the composition is one of each of its parts: what the    *)
(* theorems say of a part they say of what the runs check.                 *)
THEOREM CommandsAreTheirs == CommandsSpec => Spec /\ N!Spec /\ P!Spec /\ B!Spec
<1>1. CommandsInit => Init /\ N!Init /\ P!Init /\ B!Init
  BY DEF CommandsInit
<1>2. [CommandsNext]_commandVars => [Next]_vars /\ [N!Next]_N!vars /\ [P!Next]_P!vars /\ [B!Next]_B!vars
  <2> SUFFICES ASSUME [CommandsNext]_commandVars
               PROVE  [Next]_vars /\ [N!Next]_N!vars /\ [P!Next]_P!vars /\ [B!Next]_B!vars
    OBVIOUS
  <2> USE DEF bridgeVars, paneVars, nameVars, N!vars, P!vars, B!vars, B!happened
  <2> QED
    BY DEF CommandsNext, commandVars
<1> QED
  BY <1>1, <1>2, PTL DEF CommandsSpec, Spec, N!Spec, P!Spec, B!Spec

(* In whatever part: types are kept, and whoever is past the mutex of its  *)
(* process in Names is alone there.                                        *)
THEOREM TypesAreKept == CommandsSpec => []TypesHold
<1>1. Spec => []IInv
  BY Inductive
<1>2. CommandsInit => part \in Parts
  BY DEF CommandsInit
<1>3. part \in Parts /\ [CommandsNext]_commandVars => (part \in Parts)'
  BY DEF CommandsNext, commandVars
<1>4. IInv /\ N!IInv /\ P!IInv /\ B!IInv /\ part \in Parts => TypesHold
  BY PartsAssumption DEF IInv, N!IInv, P!IInv, B!IInv, TypesHold
<1> QED
  BY <1>1, <1>2, <1>3, <1>4, CommandsAreTheirs, NamesInductive, PanesInductive, BridgesInductive, PTL
     DEF CommandsSpec
=============================================================================
