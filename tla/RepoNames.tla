----------------------------- MODULE RepoNames ------------------------------
(***************************************************************************)
(* internal/reponames: the aliases of repositories, in                     *)
(* ~/.tsession/repo-names.json.  Set takes the process's mutex and then    *)
(* flock on repo-names.lock, loads the file, changes one alias, writes the *)
(* result to repo-names.json.tmp and renames that over the file.  Load,    *)
(* which every list and browse calls, takes no lock.  Callers are          *)
(* `tsession rename-repo` and the handlers of the web server.  A file is   *)
(* an inode: a name may be moved to it, or from it, while it is open.      *)
(***************************************************************************)
EXTENDS Naturals, FiniteSets

CONSTANTS Process,     (* tsession processes                                *)
          Writer,      (* goroutines that call Set                          *)
          ProcessOf,   (* the process of each writer                        *)
          Key,         (* repository identities, normalised and not empty   *)
          Alias,       (* aliases; None is the empty one, which deletes     *)
          Inode,       (* files that the two names may stand for            *)
          None,
          Torn,        (* a file that is empty, or cut off                  *)
          MayFail,     (* whether file operations may fail                  *)
          MayCrash     (* whether a process may die in the middle           *)

ASSUME RepoNamesAssumption ==
    /\ ProcessOf \in [Writer -> Process]
    /\ None \notin Writer \cup Key \cup Alias \cup Inode
    /\ Torn \notin [Key -> Alias \cup {None}]
    /\ MayFail \in BOOLEAN /\ MayCrash \in BOOLEAN

VARIABLES
    main,    (* the inode that is repo-names.json                           *)
    tmp,     (* the inode that is repo-names.json.tmp                       *)
    disk,    (* the content of each inode                                   *)
    mu,      (* which writer holds its process's mutex                      *)
    flock,   (* which writer holds the lock file                            *)
    call     (* where each writer is in Set, and what it holds              *)

vars == <<main, tmp, disk, mu, flock, call>>

-----------------------------------------------------------------------------
Names == [Key -> Alias \cup {None}]

NoNames == [k \in Key |-> None]

Outside == {"idle", "mu"}
Locked == {"load", "open", "fill", "rename", "remove", "unlock"}

Resting(answer) ==
    [pc |-> "idle", key |-> None, alias |-> None, m |-> NoNames, fd |-> None,
     answer |-> answer]

Call == [pc : Outside \cup {"flock"} \cup Locked,
         key : Key \cup {None}, alias : Alias \cup {None}, m : Names,
         fd : Inode \cup {None}, answer : {"none", "ok", "err"}]

TypeOK ==
    /\ main \in Inode \cup {None}
    /\ tmp \in Inode \cup {None}
    /\ disk \in [Inode -> Names \cup {Torn}]
    /\ mu \in [Process -> Writer \cup {None}]
    /\ flock \in Writer \cup {None}
    /\ call \in [Writer -> Call]

Init ==
    /\ main = None
    /\ tmp = None
    /\ disk = [i \in Inode |-> Torn]
    /\ mu = [p \in Process |-> None]
    /\ flock = None
    /\ call = [w \in Writer |-> Resting("none")]

(* What a missing, a malformed and a whole file say.                       *)
Parsed(content) == IF content = Torn THEN NoNames ELSE content

Stored == IF main = None THEN NoNames ELSE Parsed(disk[main])

At(w, pc) == call[w].pc = pc

-----------------------------------------------------------------------------
Begin(w, k, a) ==
    /\ At(w, "idle")
    /\ call' = [call EXCEPT ![w] = [Resting("none") EXCEPT !.pc = "mu", !.key = k, !.alias = a]]
    /\ UNCHANGED <<main, tmp, disk, mu, flock>>

TakeMu(w) ==
    /\ At(w, "mu")
    /\ mu[ProcessOf[w]] = None
    /\ mu' = [mu EXCEPT ![ProcessOf[w]] = w]
    /\ call' = [call EXCEPT ![w].pc = "flock"]
    /\ UNCHANGED <<main, tmp, disk, flock>>

LockFree_shared == TRUE

LockFree == flock = None

TakeFlock(w) ==
    /\ At(w, "flock")
    /\ LockFree
    /\ flock' = w
    /\ call' = [call EXCEPT ![w].pc = "load"]
    /\ UNCHANGED <<main, tmp, disk, mu>>

(* The deferred unlock and mu.Unlock, on every way out.                    *)
Released(w) == IF flock = w THEN None ELSE flock

Leave(w, answer) ==
    /\ call' = [call EXCEPT ![w] = Resting(answer)]
    /\ flock' = Released(w)
    /\ mu' = [mu EXCEPT ![ProcessOf[w]] = None]

LoadNames(w) ==
    /\ At(w, "load")
    /\ call' = [call EXCEPT ![w].pc = "open",
                            ![w].m = [Stored EXCEPT ![call[w].key] = call[w].alias]]
    /\ UNCHANGED <<main, tmp, disk, mu, flock>>

(* writeFile opens the temporary file, which it creates or truncates, ...  *)
Free(i) == i \notin {main, tmp} /\ \A w \in Writer : call[w].fd # i

OpenTmp(w) ==
    /\ At(w, "open")
    /\ \E i \in Inode :
          /\ IF tmp = None THEN Free(i) ELSE i = tmp
          /\ tmp' = i
          /\ disk' = [disk EXCEPT ![i] = Torn]
          /\ call' = [call EXCEPT ![w].pc = "fill", ![w].fd = i]
    /\ UNCHANGED <<main, mu, flock>>

(* ... and writes.                                                         *)
FillTmp(w) ==
    /\ At(w, "fill")
    /\ disk' = [disk EXCEPT ![call[w].fd] = call[w].m]
    /\ call' = [call EXCEPT ![w].pc = "rename", ![w].fd = None]
    /\ UNCHANGED <<main, tmp, mu, flock>>

RenameTmp(w) ==
    /\ At(w, "rename")
    /\ tmp # None
    /\ main' = tmp
    /\ tmp' = None
    /\ call' = [call EXCEPT ![w].pc = "unlock"]
    /\ UNCHANGED <<disk, mu, flock>>

RenameFails(w) ==
    /\ At(w, "rename")
    /\ MayFail \/ tmp = None
    /\ call' = [call EXCEPT ![w].pc = "remove"]
    /\ UNCHANGED <<main, tmp, disk, mu, flock>>

RemoveTmp(w) ==
    /\ At(w, "remove")
    /\ tmp' = None
    /\ Leave(w, "err")
    /\ UNCHANGED <<main, disk>>

(* Opening or taking the lock, loading, or writing fails; a temporary file *)
(* that could not be written stays.                                        *)
GivesUp(w) ==
    /\ MayFail
    /\ call[w].pc \in {"flock", "load", "open", "fill"}
    /\ Leave(w, "err")
    /\ UNCHANGED <<main, tmp, disk>>

Unlock(w) ==
    /\ At(w, "unlock")
    /\ Leave(w, "ok")
    /\ UNCHANGED <<main, tmp, disk>>

(* A process dies: the kernel closes its lock file.                        *)
Crash(p) ==
    /\ MayCrash
    /\ call' = [w \in Writer |-> IF ProcessOf[w] = p THEN Resting("none") ELSE call[w]]
    /\ mu' = [mu EXCEPT ![p] = None]
    /\ flock' = IF flock # None /\ ProcessOf[flock] = p THEN None ELSE flock
    /\ UNCHANGED <<main, tmp, disk>>

Proceeds(w) ==
    \/ LoadNames(w) \/ OpenTmp(w) \/ FillTmp(w) \/ RenameTmp(w) \/ RemoveTmp(w)
    \/ Unlock(w)

Next ==
    \/ \E w \in Writer :
          \/ \E k \in Key, a \in Alias \cup {None} : Begin(w, k, a)
          \/ TakeMu(w) \/ TakeFlock(w) \/ Proceeds(w) \/ GivesUp(w) \/ RenameFails(w)
    \/ \E p \in Process : Crash(p)

Spec == Init /\ [][Next]_vars

-----------------------------------------------------------------------------
(* Properties                                                              *)

(* What makes the store atomic: the flock holder is the only writer past   *)
(* the lock, the file is never the temporary one nor torn, and what the    *)
(* holder is about to put in its place is what is there now with its own   *)
(* alias changed.                                                          *)
Exclusive ==
    \A w \in Writer : call[w].pc \in Locked <=> flock = w

MutexHeld ==
    \A w \in Writer : call[w].pc \notin Outside <=> mu[ProcessOf[w]] = w

FileWhole ==
    /\ tmp # None => tmp # main
    /\ main # None => disk[main] # Torn

HolderReady(w) ==
    /\ call[w].pc # "idle" => call[w].key \in Key
    /\ call[w].pc \in {"open", "fill", "rename"} =>
          call[w].m = [Stored EXCEPT ![call[w].key] = call[w].alias]
    /\ IF At(w, "fill") THEN call[w].fd # None /\ call[w].fd = tmp
                        ELSE call[w].fd = None
    /\ At(w, "rename") => tmp # None /\ disk[tmp] = call[w].m

IInv ==
    /\ TypeOK
    /\ Exclusive
    /\ MutexHeld
    /\ FileWhole
    /\ \A w \in Writer : HolderReady(w)

(* Any Load, whenever it comes, reads what the promised store holds, and   *)
(* each Set that answers has changed its own alias in one step, or nothing.*)
askBar ==
    [w \in Writer |->
        [at |-> IF At(w, "idle") THEN "idle"
                ELSE IF At(w, "unlock") THEN "set" ELSE "asked",
         key |-> call[w].key, alias |-> call[w].alias, answer |-> call[w].answer]]

Store == INSTANCE NameStore WITH names <- Stored, ask <- askBar

ImplementsStore == Store!StoreSpec
=============================================================================
