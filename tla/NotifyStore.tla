---------------------------- MODULE NotifyStore -----------------------------
(***************************************************************************)
(* What internal/notify promises its callers: the snapshot of last         *)
(* notified states is one object, and comparing a batch of sessions with   *)
(* it, recording the batch in it and learning what to announce is one      *)
(* atomic step of one observer.  Notify implements this with a lock file   *)
(* and a file that is read and replaced.                                   *)
(***************************************************************************)
EXTENDS Naturals, FiniteSetsExt

CONSTANTS Session,    (* session ids                                        *)
          Observer,   (* daemons, list processes, SSE handlers              *)
          NSources    (* lists a batch is put together from                 *)

VARIABLES
    store,     (* the snapshot: "" | "done" | "question", "new" if absent   *)
    pending    (* how many events for a session an observer has to announce *)

storeVars == <<store, pending>>

State == {"absent", "working", "waiting", "done"}
Entry == {"new", "", "done", "question"}

(* A batch: per source what it says of each session, absent if nothing.    *)
Batch == [1..NSources -> [Session -> State]]

notifiableState(state) ==
    CASE state = "done" -> "done"
      [] state = "waiting" -> "question"
      [] OTHER -> ""

-----------------------------------------------------------------------------
Fires_firstSighting(entry, cur) == cur # entry /\ cur # ""

Fires_zeroValue(entry, cur) == entry \notin {"new", ""} /\ cur # entry /\ cur # ""

(* A first sighting is recorded silently, a state that stays does not      *)
(* fire again, and neither does one that is not notifiable.                *)
Fires(entry, cur) == entry # "new" /\ cur # entry /\ cur # ""

(* The loop over the batch meets session s once per source reporting it:   *)
(* what is recorded for s when it comes to source n,                       *)
Reporting(batch, s) == {n \in 1..NSources : batch[n][s] # "absent"}

Before(entry, batch, s, n) ==
    LET met == {m \in Reporting(batch, s) : m < n} IN
    IF met = {} THEN entry ELSE notifiableState(batch[Max(met)][s])

(* how many events it appends for s,                                       *)
Announced(snap, batch) ==
    [s \in Session |->
        Cardinality({n \in Reporting(batch, s) :
            Fires(Before(snap[s], batch, s, n), notifiableState(batch[n][s]))})]

(* and what it leaves recorded; sessions nobody reports are pruned.        *)
Recorded(snap, batch) ==
    [s \in Session |-> IF Reporting(batch, s) = {} THEN "new"
                       ELSE Before(snap[s], batch, s, NSources + 1)]

Nothing == [s \in Session |-> 0]

-----------------------------------------------------------------------------
StoreInit ==
    /\ store = [s \in Session |-> "new"]
    /\ pending = [o \in Observer |-> Nothing]

(* A batch is compared and recorded.                                       *)
Apply(o, batch) ==
    /\ pending[o] = Nothing
    /\ store' = Recorded(store, batch)
    /\ pending' = [pending EXCEPT ![o] = Announced(store, batch)]

(* It is compared but cannot be recorded.                                  *)
ApplyUnrecorded(o, batch) ==
    /\ pending[o] = Nothing
    /\ pending' = [pending EXCEPT ![o] = Announced(store, batch)]
    /\ UNCHANGED store

(* One event is announced; or the observer is gone with all it had.        *)
Announce(o, s) ==
    /\ pending[o][s] > 0
    /\ pending' = [pending EXCEPT ![o][s] = @ - 1]
    /\ UNCHANGED store

Lose(o) ==
    /\ pending' = [pending EXCEPT ![o] = Nothing]
    /\ UNCHANGED store

StoreNext ==
    \E o \in Observer :
        \/ \E batch \in Batch : Apply(o, batch) \/ ApplyUnrecorded(o, batch)
        \/ \E s \in Session : Announce(o, s)
        \/ Lose(o)

StoreSpec == StoreInit /\ [][StoreNext]_storeVars
=============================================================================
