------------------------------- MODULE Stores -------------------------------
(***************************************************************************)
(* DoneState and Snapshot side by side: what processes keep of the         *)
(* sessions in files that they write without a lock.  A behaviour is one   *)
(* of either; the state of the other rests.                                *)
(***************************************************************************)
EXTENDS DoneState

-----------------------------------------------------------------------------
(* The list of sessions that watchers write.                               *)
CONSTANTS Watcher, Reader, Remote, Local, Tolerance, MaxChange

VARIABLES sessions, list, watch, reader

listVars == <<sessions, list, watch, reader>>

S == INSTANCE Snapshot WITH file <- list

ASSUME ListsAssumption == S!SnapshotAssumption

(* Snapshot.tla: a list has each source once, and remotes as they answer.  *)
ListedOnce == S!ListedOnce

(* Snapshot.tla: lists come to show the sessions as they are.              *)
ListsSettle == S!ListsSettle

-----------------------------------------------------------------------------
VARIABLE part

In(name, A) == part = name /\ A

(* While the lists change the done markers rest, and nobody lists.         *)
StoresInit ==
    /\ Init /\ S!Init
    /\ part \in {"done", "lists"} /\ (part # "done" => raw = NoStates)

StoresNext ==
    /\ \/ In("done", Next) /\ UNCHANGED listVars
       \/ In("lists", S!Next) /\ UNCHANGED vars
    /\ UNCHANGED part

(* The file comes to say what a session does, if anybody lists sessions.   *)
MarkersSettle == part = "done" => Settles

DoneFairness ==
    \A p \in Process : /\ SF_vars(In("done", Observe(p)))
                       /\ WF_vars(In("done", Merge(p)))
                       /\ WF_vars(In("done", Save(p)))
                       /\ WF_vars(In("done", ClearSave(p)))

ListFairness ==
    /\ WF_listVars(In("lists", S!Tick))
    /\ \A w \in Watcher : /\ WF_listVars(In("lists", S!RefreshRemotes(w)))
                          /\ WF_listVars(In("lists", S!Write(w)))
    /\ \A r \in Reader : /\ WF_listVars(In("lists", S!loadAllLive(r)))
                         /\ WF_listVars(In("lists", S!FetchRemotes(r)))
                         /\ WF_listVars(In("lists", S!Shown(r)))

StoresSpec ==
    /\ StoresInit
    /\ [][StoresNext]_<<vars, listVars, part>>
    /\ DoneFairness /\ ListFairness
=============================================================================
