------------------------------- MODULE Notify -------------------------------
(***************************************************************************)
(* internal/notify/notify.go under its callers: the watch daemon, the list *)
(* processes browse --watch keeps starting, and the /api/events handlers.  *)
(* Each repeatedly gathers the sessions, source after source, and hands    *)
(* the batch to diffAndUpdateStore, which under an flock reads the         *)
(* snapshot file, compares and replaces it; then the events are announced. *)
(*                                                                         *)
(* The observers of one run share one store: the desktop ones              *)
(* ~/.tsession/notify.json, the Web ones notify-web.json.  A snapshot file *)
(* is either absent, which reads as empty, or whole, because it is         *)
(* replaced by rename.  How often an observer polls is not modelled.       *)
(***************************************************************************)
EXTENDS NotifyStore

CONSTANTS Web,        (* the observers that are /api/events handlers        *)
          Flaky,      (* sources that may fail and report nothing           *)
          Lagging,    (* sources answering from a cache: watch's cache.json *)
                      (* or a remote daemon's                               *)
          MayVanish,  (* whether sessions may disappear from the list       *)
          MaxMoves,   (* bound: state changes, and deaths of observers      *)
          MayCrash,   (* whether observers may die                          *)
          MaySaveFail,(* whether saveSnapshot may fail                      *)
          None

ASSUME NotifyAssumption ==
       /\ Web \subseteq Observer /\ None \notin Observer
       /\ NSources \in Nat \ {0}
       /\ Flaky \subseteq 1..NSources /\ Lagging \subseteq 1..NSources
       /\ MaxMoves \in Nat
       /\ {MayVanish, MayCrash, MaySaveFail} \subseteq BOOLEAN

VARIABLES
    state,     (* what the sessions are doing                               *)
    moves,     (* how often they have changed, or an observer died          *)
    cached,    (* what the lagging sources have in their cache              *)
    lockedBy,  (* holder of the flock on notify.json.lock                   *)
    obs,       (* the observers: where they are, their batch, and their     *)
               (* in-memory snapshot                                        *)
    entered,   (* history: how often a session became done or waiting       *)
    fired,     (* history: how often that was announced                     *)
    overtaken, (* history: observers whose batch another's save has outdated *)
    flaws      (* history: whether anything happened that makes an          *)
               (* announcement be repeated, or be lost                      *)

world == <<state, moves, cached, entered>>
blame == <<overtaken, flaws>>
vars == <<world, store, pending, lockedBy, obs, fired, blame>>

Unread == [n \in 1..NSources |-> [s \in Session |-> "absent"]]

ObserversOK ==
    /\ store \in [Session -> Entry]
    /\ pending \in [Observer -> [Session -> Nat]]
    /\ state \in [Session -> State]
    /\ moves \in 0..MaxMoves
    /\ cached \in [Session -> State]
    /\ lockedBy \in Observer \cup {None}
    /\ obs \in [Observer -> [pc : {"gather", "lock", "load", "save", "unlock", "fire"},
                             source : 1..NSources, batch : Batch,
                             snap : [Session -> Entry]]]
    /\ entered \in [Session -> Nat]
    /\ fired \in [Session -> Nat]

BlameOK == overtaken \subseteq Observer /\ flaws \subseteq {"repeated", "lost"}

TypeOK == ObserversOK /\ BlameOK

Empty == [s \in Session |-> "new"]

Ready == [pc |-> "gather", source |-> 1, batch |-> Unread, snap |-> Empty]

Init ==
    /\ StoreInit
    /\ state \in [Session -> State \ {"absent"}]
    /\ moves = 0
    /\ cached = state
    /\ lockedBy = None
    /\ obs = [o \in Observer |-> Ready]
    /\ entered = Nothing
    /\ fired = Nothing
    /\ overtaken = {}
    /\ flaws = {}

-----------------------------------------------------------------------------
(* The agent of session s moves.                                           *)
SessionMoves(s, new) ==
    /\ moves < MaxMoves
    /\ new # state[s] /\ (new = "absent" => MayVanish)
    /\ state' = [state EXCEPT ![s] = new]
    /\ moves' = moves + 1
    /\ entered' = IF notifiableState(new) # "" THEN [entered EXCEPT ![s] = @ + 1]
                  ELSE entered
    /\ flaws' = IF new = "absent" THEN flaws \cup {"lost"} ELSE flaws
    /\ UNCHANGED <<cached, store, pending, lockedBy, obs, fired, overtaken>>

(* A cache is refreshed.                                                   *)
CacheRefreshed ==
    /\ Lagging # {}
    /\ cached' = state
    /\ UNCHANGED <<state, moves, entered, store, pending, lockedBy, obs, fired, blame>>

(* What source n answers, and what it may report: that, or nothing.        *)
Answer(n) == IF n \in Lagging THEN cached ELSE state

Reports(n) == {Answer(n)} \cup {Unread[m] : m \in Flaky \cap {n}}

(* A cached answer that the session has moved on from.                     *)
Outdated(seen) == \E s \in Session : seen[s] \notin {"absent", state[s]}

(* refresh, loadAllWithRemotes: one source after the other.                *)
Gather(o) ==
    /\ obs[o].pc = "gather"
    /\ \E seen \in Reports(obs[o].source) :
           /\ obs' = [obs EXCEPT
                   ![o].batch[obs[o].source] = seen,
                   ![o].source = IF @ < NSources THEN @ + 1 ELSE 1,
                   ![o].pc = IF obs[o].source < NSources THEN "gather" ELSE "lock"]
           /\ flaws' = flaws \cup (IF seen # Answer(obs[o].source) THEN {"lost"} ELSE {})
                             \cup (IF Outdated(seen) THEN {"repeated"} ELSE {})
    /\ UNCHANGED <<world, store, pending, lockedBy, fired, overtaken>>

Grants_shared(o) == TRUE

(* flock(LOCK_EX) blocks while another process holds the lock.             *)
Grants(o) == lockedBy = None

Lock(o) ==
    /\ obs[o].pc = "lock"
    /\ Grants(o)
    /\ lockedBy' = o
    /\ obs' = [obs EXCEPT ![o].pc = "load"]
    /\ UNCHANGED <<world, store, pending, fired, blame>>

Load(o) ==
    /\ obs[o].pc = "load"
    /\ obs' = [obs EXCEPT ![o].pc = "save", ![o].snap = store]
    /\ UNCHANGED <<world, store, pending, lockedBy, fired, blame>>

(* Observers that have begun to gather and not yet compared.               *)
Begun == {p \in Observer : obs[p].pc = "lock" \/ (obs[p].pc = "gather" /\ obs[p].source > 1)}

(* The comparison and saveSnapshot.  If that fails, the desktop observers  *)
(* still fire their events; emitEvents does not.  The batch and the loaded *)
(* snapshot are of no more use.                                            *)
Save(o) ==
    /\ obs[o].pc = "save"
    /\ obs' = [obs EXCEPT ![o] = [Ready EXCEPT !.pc = "unlock"]]
    /\ store' = Recorded(obs[o].snap, obs[o].batch)
    /\ pending' = [pending EXCEPT ![o] = Announced(obs[o].snap, obs[o].batch)]
    /\ overtaken' = (overtaken \ {o}) \cup Begun
    /\ flaws' = IF o \in overtaken THEN flaws \cup {"repeated"} ELSE flaws
    /\ UNCHANGED <<world, lockedBy, fired>>

SaveFails(o) ==
    /\ MaySaveFail
    /\ obs[o].pc = "save"
    /\ obs' = [obs EXCEPT ![o] = [Ready EXCEPT !.pc = "unlock"]]
    /\ pending' = IF o \in Web THEN pending
                  ELSE [pending EXCEPT ![o] = Announced(obs[o].snap, obs[o].batch)]
    /\ overtaken' = overtaken \ {o}
    /\ flaws' = IF o \in Web THEN flaws ELSE flaws \cup {"repeated"}
    /\ UNCHANGED <<world, store, lockedBy, fired>>

Unlock(o) ==
    /\ obs[o].pc = "unlock"
    /\ lockedBy' = None
    /\ obs' = [obs EXCEPT ![o].pc = "fire"]
    /\ UNCHANGED <<world, store, pending, fired, blame>>

(* fireFunc, or the write of an SSE event; more than MaxMoves announcements *)
(* of one session are one too many and counted no further.                 *)
Fire(o, s) ==
    /\ obs[o].pc = "fire"
    /\ Announce(o, s)
    /\ fired' = [fired EXCEPT ![s] = IF @ > MaxMoves THEN @ ELSE @ + 1]
    /\ UNCHANGED <<world, lockedBy, obs, blame>>

(* Until the next poll.                                                    *)
Done(o) ==
    /\ obs[o].pc = "fire"
    /\ pending[o] = Nothing
    /\ obs' = [obs EXCEPT ![o] = Ready]
    /\ UNCHANGED <<world, store, pending, lockedBy, fired, blame>>

(* The process is killed, or the browser disconnected: what was not        *)
(* announced is lost, the kernel drops the flock, another one starts.      *)
Crash(o) ==
    /\ MayCrash
    /\ moves < MaxMoves
    /\ moves' = moves + 1
    /\ obs' = [obs EXCEPT ![o] = Ready]
    /\ pending' = [pending EXCEPT ![o] = Nothing]
    /\ lockedBy' = IF lockedBy = o THEN None ELSE lockedBy
    /\ overtaken' = overtaken \ {o}
    /\ flaws' = IF pending[o] = Nothing THEN flaws ELSE flaws \cup {"lost"}
    /\ UNCHANGED <<state, cached, entered, store, fired>>

Poll(o) ==
    \/ Gather(o) \/ Lock(o) \/ Load(o) \/ Save(o) \/ Unlock(o) \/ Done(o)
    \/ \E s \in Session : Fire(o, s)

Next ==
    \/ \E s \in Session, new \in State : SessionMoves(s, new)
    \/ CacheRefreshed
    \/ \E o \in Observer : Poll(o) \/ SaveFails(o) \/ Crash(o)

Spec == Init /\ [][Next]_vars

(* A ticker drives every observer, the kernel hands a free flock to each   *)
(* waiter eventually, caches are refreshed, and no source fails for ever.  *)
Answered(o) ==
    Gather(o) /\ obs'[o].batch[obs[o].source] = Answer(obs[o].source)

FairSpec ==
    /\ Spec
    /\ \A o \in Observer :
           WF_vars(Poll(o)) /\ SF_vars(Lock(o)) /\ SF_vars(Answered(o))
    /\ WF_vars(CacheRefreshed)

-----------------------------------------------------------------------------
(* Read, compare and replace is atomic: whatever the observers interleave, *)
(* and whenever they die, the file and the events are those of one atomic  *)
(* step per batch.  Two that see the same transition cannot both claim it. *)
ImplementsStore == StoreSpec

(* Why: the lock is held throughout, so what was read is still the file.   *)
Critical(o) == obs[o].pc \in {"load", "save", "unlock"}

HolderReadsLast ==
    \A o \in Observer :
        /\ Critical(o) <=> lockedBy = o
        /\ obs[o].pc = "save" => obs[o].snap = store
        /\ obs[o].pc \in {"gather", "lock", "load", "save"} => pending[o] = Nothing

IInv == TypeOK /\ HolderReadsLast

(* notify.go: each transition fires "exactly once across the separate      *)
(* processes that observe sessions over time", "even when several          *)
(* observers [...] run concurrently or reconnect, and even when a session  *)
(* ID appears more than once in a single batch".  The at-most-once half.   *)
(* Two observers contradict it: one that gathered before the transition    *)
(* and compares after the other resets the snapshot, and the next poll     *)
(* fires again.                                                            *)
AtMostOnce == \A s \in Session : fired[s] <= entered[s]

(* What does hold, for any interleaving and with crashes: at most once as  *)
(* long as no observer has saved a batch gathered before another's save,   *)
(* no cache has reported a state the session had left, and no save of a    *)
(* desktop observer has failed.                                            *)
AtMostOnceInOrder == "repeated" \in flaws \/ AtMostOnce

(* Why: what observers have claimed of a session and not yet announced,    *)
Claims(s) == {c \in Observer \X (1..NSources) : c[2] <= pending[c[1]][s]}

(* and what comparing a batch, and after it the present, would announce,   *)
Coming(s, batch) ==
    Announced(store, batch)[s]
    + IF Fires(Before(store[s], batch, s, NSources + 1), notifiableState(state[s]))
      THEN 1 ELSE 0

(* have all happened: the batches that no save has outdated go on from     *)
(* what is stored.                                                         *)
Current == {Unread} \cup {obs[o].batch : o \in Observer \ overtaken}

Entitled ==
    "repeated" \notin flaws =>
        \A s \in Session, batch \in Current :
            fired[s] + Cardinality(Claims(s)) + Coming(s, batch) <= entered[s]

ClaimsFinite == \A s \in Session : IsFiniteSet(Claims(s))

(* Sources that have not been asked have said nothing.                     *)
ReadSoFar ==
    \A o \in Observer :
        /\ obs[o].pc = "gather" => \A n \in obs[o].source..NSources : obs[o].batch[n] = Unread[n]
        /\ obs[o].pc \in {"unlock", "fire"} => obs[o].batch = Unread

(* No observer holds more than a batch may announce.                       *)
FewClaims == \A o \in Observer, s \in Session : pending[o][s] <= NSources

InOrder == ReadSoFar /\ FewClaims /\ ClaimsFinite /\ Entitled

(* The at-least-once half: a session that was seen working and is done is  *)
(* announced, unless it moves on first, by whichever observer claims it,   *)
(* as long as no session has left the list and no source has failed (what  *)
(* is missing from a batch is pruned, and its next state recorded as a     *)
(* first sighting), and no observer has died between its save and its      *)
(* announcements.                                                          *)
DoneIsAnnounced ==
    \A s \in Session, n \in 0..MaxMoves :
        (fired[s] = n /\ store[s] = "" /\ state[s] = "done")
            ~> (fired[s] > n \/ state[s] # "done" \/ "lost" \in flaws)
=============================================================================
