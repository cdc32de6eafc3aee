------------------------------ MODULE Snapshot ------------------------------
(***************************************************************************)
(* The list of sessions in ~/.tsession/cache.json: cmd/watch.go's refresh, *)
(* in processes that may be two, which may die, and cmd/list.go's loadAll  *)
(* and loadAllWithRemotes in the commands and the web server.  What is     *)
(* kept of sessions is a version per source that counts its changes.       *)
(***************************************************************************)
EXTENDS Naturals, FiniteSets

CONSTANTS Watcher,   (* processes of `tsession watch`                       *)
          Reader,    (* commands, and loads of the web server               *)
          Remote,    (* configured remotes                                  *)
          Local, None,
          Tolerance, (* ticks until a file is stale: 2*interval, at least 5 s*)
          MaxChange  (* bound: how often the sessions of a source change    *)

(* Assumed where the module is instantiated.                               *)
SnapshotAssumption ==
    /\ Local \notin Remote /\ None \notin Remote \cup {Local}
    /\ Tolerance \in Nat /\ MaxChange \in Nat

VARIABLES
    sessions, (* the sessions of each source, as they are                   *)
    file,     (* cache.json: what it lists, and how old its UpdatedAt is    *)
    watch,    (* each watcher's refresh                                     *)
    reader    (* each load: what it is for, and what it has found           *)

vars == <<sessions, file, watch, reader>>

Source == {Local} \cup Remote
Version == 0..MaxChange
Entry == Source \X Version

Of(sources) == {<<s, sessions[s]>> : s \in sources}

(* Of a stamp only whether it is within the tolerance matters.             *)
Age == 0..Tolerance + 1
Older(age) == IF age > Tolerance THEN age ELSE age + 1

Absent == [list |-> {}, age |-> Tolerance + 1]
Waiting == [pc |-> "tick", list |-> {}, age |-> 0]
Resting == [pc |-> "idle", use |-> None, list |-> {}, remotes |-> {}]

File == [list : SUBSET Entry, age : Age]
Watch == [pc : {"tick", "remotes", "write"}, list : SUBSET Entry, age : Age]
Load == [pc : {"idle", "live", "remotes", "shown"}, use : {"list", "local", "find", None},
         list : SUBSET Entry, remotes : SUBSET Entry]

TypeOK ==
    /\ sessions \in [Source -> Version]
    /\ file \in File
    /\ watch \in [Watcher -> Watch]
    /\ reader \in [Reader -> Load]

Init ==
    /\ sessions = [s \in Source |-> 0]
    /\ file = Absent
    /\ watch = [w \in Watcher |-> Waiting]
    /\ reader = [r \in Reader |-> Resting]

Changes(s) ==
    /\ sessions[s] < MaxChange
    /\ sessions' = [sessions EXCEPT ![s] = @ + 1]
    /\ UNCHANGED <<file, watch, reader>>

Fresh == file.age <= Tolerance

Tick ==
    /\ file' = [file EXCEPT !.age = Older(@)]
    /\ watch' = [w \in Watcher |-> IF watch[w].pc # "write" THEN watch[w]
                                   ELSE [watch[w] EXCEPT !.age = Older(@)]]
    /\ UNCHANGED <<sessions, reader>>

-----------------------------------------------------------------------------
(* The watchers.  One that does not run is as one that waits for its tick. *)

(* loadAll would find the watcher's own file fresh, and stamp it again.    *)
LoadsLocal_cached == IF Fresh THEN {e \in file.list : e[1] = Local} ELSE Of({Local})

LoadsLocal == Of({Local})

Refresh(w) ==
    /\ watch[w].pc = "tick"
    /\ watch' = [watch EXCEPT ![w].pc = "remotes", ![w].list = LoadsLocal]
    /\ UNCHANGED <<sessions, file, reader>>

(* Each remote answers or not; UpdatedAt is the time when all has been     *)
(* loaded and notified of.                                                 *)
RefreshRemotes(w) ==
    /\ watch[w].pc = "remotes"
    /\ \E up \in SUBSET Remote :
          watch' = [watch EXCEPT ![w] = [pc |-> "write", list |-> @.list \cup Of(up), age |-> 0]]
    /\ UNCHANGED <<sessions, file, reader>>

(* Into a file of its own, renamed over the other.                         *)
Write(w) ==
    /\ watch[w].pc = "write"
    /\ file' = [list |-> watch[w].list, age |-> watch[w].age]
    /\ watch' = [watch EXCEPT ![w] = Waiting]
    /\ UNCHANGED <<sessions, reader>>

(* A load, the configuration or the write fails, or the process dies.      *)
RefreshFails(w) ==
    /\ watch[w].pc \in {"remotes", "write"}
    /\ watch' = [watch EXCEPT ![w] = Waiting]
    /\ UNCHANGED <<sessions, file, reader>>

-----------------------------------------------------------------------------
(* The readers                                                             *)

filterOrigin_none(list, use) == list

(* `list`, `browse` and the web server drop the remotes' sessions from the *)
(* file; who looks for one session (rename, resume, vscode) does not.      *)
filterOrigin(list, use) ==
    IF use = "find" THEN list ELSE {e \in list : e[1] = Local}

Found(r, use, list) ==
    reader' = [reader EXCEPT ![r] = [Resting EXCEPT !.pc = IF use = "list" THEN "remotes" ELSE "shown",
                                                    !.list = filterOrigin(list, use)]]

LoadAll(r, use, noCache) ==
    /\ reader[r].pc = "idle"
    /\ IF Fresh /\ ~ noCache THEN Found(r, use, file.list)
       ELSE reader' = [reader EXCEPT ![r].pc = "live", ![r].use = use]
    /\ UNCHANGED <<sessions, file, watch>>

loadAllLive(r) ==
    /\ reader[r].pc = "live"
    /\ Found(r, reader[r].use, Of({Local}))
    /\ UNCHANGED <<sessions, file, watch>>

(* The sessions or the configuration cannot be loaded.                     *)
LoadFails(r) ==
    /\ reader[r].pc \in {"live", "remotes"}
    /\ reader' = [reader EXCEPT ![r] = Resting]
    /\ UNCHANGED <<sessions, file, watch>>

(* loadAllWithRemotes, whatever the file said.                             *)
FetchRemotes(r) ==
    /\ reader[r].pc = "remotes"
    /\ \E up \in SUBSET Remote :
          reader' = [reader EXCEPT ![r].pc = "shown", ![r].remotes = Of(up)]
    /\ UNCHANGED <<sessions, file, watch>>

Shown(r) ==
    /\ reader[r].pc = "shown"
    /\ reader' = [reader EXCEPT ![r] = Resting]
    /\ UNCHANGED <<sessions, file, watch>>

Next ==
    \/ \E s \in Source : Changes(s)
    \/ Tick
    \/ \E w \in Watcher : Refresh(w) \/ RefreshRemotes(w) \/ Write(w) \/ RefreshFails(w)
    \/ \E r \in Reader : \/ \E use \in {"list", "local", "find"}, noCache \in BOOLEAN :
                               LoadAll(r, use, noCache)
                         \/ loadAllLive(r) \/ LoadFails(r) \/ FetchRemotes(r) \/ Shown(r)

Spec == Init /\ [][Next]_vars

(* Time passes, refreshes and loads get on or fail.                        *)
FairSpec ==
    /\ Spec /\ WF_vars(Tick)
    /\ \A w \in Watcher : WF_vars(RefreshRemotes(w)) /\ WF_vars(Write(w))
    /\ \A r \in Reader : WF_vars(loadAllLive(r)) /\ WF_vars(FetchRemotes(r)) /\ WF_vars(Shown(r))

-----------------------------------------------------------------------------
(* A list has each source once and always the local one, and of a remote   *)
(* only what it has just answered: the file's entries do not stand beside. *)
ListedOnce ==
    \A r \in Reader :
       reader[r].pc = "shown" =>
          LET shown == reader[r].list \cup reader[r].remotes
          IN  /\ \E e \in shown : e[1] = Local
              /\ \A d, e \in shown : d[1] = e[1] => d = e
              /\ \A d \in reader[r].list, e \in reader[r].remotes : d[1] # e[1]

(* However watchers come, go, fail and overwrite one another's file, and   *)
(* although a file's stamp is younger than what it lists: once the         *)
(* sessions change no more, every list comes to show them as they are.     *)
ListsSettle ==
    \A r \in Reader :
       <>[](\A e \in reader[r].list \cup reader[r].remotes : e[2] = sessions[e[1]])

(* Why: what a watcher has loaded, and so a file that is fresh, has each   *)
(* source once and the local one; a list that remotes will be added to has *)
(* no other.                                                               *)
Once(list) == \A d, e \in list : d[1] = e[1] => d = e

Complete(list) == Once(list) /\ \E e \in list : e[1] = Local

OnlyLocal(list) == \A e \in list : e[1] = Local

Watched(w) ==
    watch[w].pc # "tick" =>
       Complete(watch[w].list) /\ (watch[w].pc = "remotes" => OnlyLocal(watch[w].list))

Read(r) ==
    reader[r].pc \in {"remotes", "shown"} =>
       /\ Complete(reader[r].list) /\ Once(reader[r].remotes)
       /\ \A d \in reader[r].list, e \in reader[r].remotes : d[1] # e[1]
       /\ reader[r].pc = "remotes" => OnlyLocal(reader[r].list)

IInv ==
    /\ TypeOK
    /\ Fresh => Complete(file.list)
    /\ \A w \in Watcher : Watched(w)
    /\ \A r \in Reader : Read(r)
=============================================================================
