---------------------------- MODULE SessionCache ----------------------------
(***************************************************************************)
(* internal/webui/sessioncache.go: the stale-while-revalidate cache every  *)
(* handler of the web UI reads the session list through, and the rename    *)
(* handler of mutations.go, which patches it.  c.mu is released while the  *)
(* provider runs and between the two critical sections of Get, so callers, *)
(* background refreshes and renames interleave.                            *)
(*                                                                         *)
(* The list is one session: its state, which only the outside world moves, *)
(* and its name, which renames store in names.json before they patch the   *)
(* cache.  Both are version numbers.  A provider call reads both at one    *)
(* moment and delivers them later; a failed call delivers no list.         *)
(***************************************************************************)
EXTENDS Naturals, FiniteSets

CONSTANTS Caller,     (* goroutines of HTTP handlers                        *)
          Refresher,  (* goroutines of backgroundRefresh                    *)
          TTL,        (* freshness window, in ticks                         *)
          MaxState,   (* bound: how often the session changes state         *)
          MaxName,    (* bound: how often it is renamed                     *)
          MayFail     (* whether provider calls may fail                    *)

ASSUME SessionCacheAssumption ==
       /\ TTL \in Nat /\ MaxState \in Nat /\ MaxName \in Nat
       /\ MayFail \in BOOLEAN

VARIABLES
    world,       (* what a provider call reads now                          *)
    have,        (* sessionCache.have                                       *)
    snapshot,    (* sessionCache.snapshot and err; who stored it            *)
    age,         (* now() - fetchedAt, up to TTL                            *)
    refreshing,  (* sessionCache.refreshing                                 *)
    caller,      (* handlers: where they are and what they hold             *)
    refresher    (* refreshes: where they are and what they hold            *)

cache == <<have, snapshot, age, refreshing>>
vars == <<world, cache, caller, refresher>>

-----------------------------------------------------------------------------
List == [ok : BOOLEAN, state : 0..MaxState, name : 0..MaxName]

NoList == [ok |-> FALSE, state |-> 0, name |-> 0]

(* The name in a rename handler's hands.                                   *)
Renaming(v) == [ok |-> FALSE, state |-> 0, name |-> v]

Stored(list, by) == [list |-> list, by |-> by]

TypeOK ==
    /\ world \in [state : 0..MaxState, name : 0..MaxName]
    /\ have \in BOOLEAN
    /\ snapshot \in [list : List, by : {"nobody", "load", "refresh"}]
    /\ age \in 0..TTL
    /\ refreshing \in BOOLEAN
    /\ caller \in [Caller -> [pc : {"idle", "get", "age", "load", "loaded", "patch"},
                              list : List]]
    /\ refresher \in [Refresher -> [pc : {"idle", "load", "loaded"}, list : List]]

Idle == [pc |-> "idle", list |-> NoList]

Init ==
    /\ world = [state |-> 0, name |-> 0]
    /\ have = FALSE
    /\ snapshot = Stored(NoList, "nobody")
    /\ age = TTL
    /\ refreshing = FALSE
    /\ caller = [c \in Caller |-> Idle]
    /\ refresher = [b \in Refresher |-> Idle]

-----------------------------------------------------------------------------
(* What fn() returns when it reads the world now.                          *)
Loaded(list) ==
    \/ list = [ok |-> TRUE, state |-> world.state, name |-> world.name]
    \/ MayFail /\ list = NoList

(* Get, first critical section.                                            *)
GetCheck(c) ==
    /\ caller[c].pc \in {"idle", "get"}
    /\ caller' = [caller EXCEPT
                  ![c].pc = IF TTL = 0 \/ ~ have THEN "load" ELSE "age"]
    /\ UNCHANGED <<world, cache, refresher>>

MayRefresh_always == TRUE

(* Concurrent stale callers coalesce into one refresh.                     *)
MayRefresh == ~ refreshing

(* Get, second critical section: the cached list is returned either way.   *)
GetFresh(c) ==
    /\ caller[c].pc = "age"
    /\ age < TTL
    /\ caller' = [caller EXCEPT ![c] = Idle]
    /\ UNCHANGED <<world, cache, refresher>>

GetStale(c) ==
    /\ caller[c].pc = "age"
    /\ age = TTL
    /\ caller' = [caller EXCEPT ![c] = Idle]
    /\ IF MayRefresh
       THEN \E b \in Refresher :
                /\ refresher[b].pc = "idle"
                /\ refresher' = [refresher EXCEPT ![b].pc = "load"]
                /\ refreshing' = TRUE
       ELSE UNCHANGED <<refresher, refreshing>>
    /\ UNCHANGED <<world, have, snapshot, age>>

(* load: fn(), unlocked, then the result is stored, whatever it is.        *)
LoadCall(c) ==
    /\ caller[c].pc = "load"
    /\ \E list \in List :
           /\ Loaded(list)
           /\ caller' = [caller EXCEPT ![c] = [pc |-> "loaded", list |-> list]]
    /\ UNCHANGED <<world, cache, refresher>>

LoadStore(c) ==
    /\ caller[c].pc = "loaded"
    /\ snapshot' = Stored(caller[c].list, "load")
    /\ have' = TRUE
    /\ age' = 0
    /\ caller' = [caller EXCEPT ![c] = Idle]
    /\ UNCHANGED <<world, refreshing, refresher>>

StillRefreshing_stuck == refreshing

(* backgroundRefresh clears the flag on success and on failure.            *)
StillRefreshing == FALSE

RefreshCall(b) ==
    /\ refresher[b].pc = "load"
    /\ \E list \in List :
           /\ Loaded(list)
           /\ refresher' = [refresher EXCEPT ![b] = [pc |-> "loaded", list |-> list]]
    /\ UNCHANGED <<world, cache, caller>>

RefreshStore(b) ==
    /\ refresher[b].pc = "loaded"
    /\ snapshot' = Stored(refresher[b].list, "refresh")
    /\ age' = 0
    /\ refreshing' = StillRefreshing
    /\ refresher' = [refresher EXCEPT ![b] = Idle]
    /\ UNCHANGED <<world, have, caller>>

-----------------------------------------------------------------------------
(* handleRenameSession: names.Set ...                                      *)
SetName(c) ==
    /\ caller[c].pc = "idle"
    /\ world.name < MaxName
    /\ world' = [world EXCEPT !.name = @ + 1]
    /\ caller' = [caller EXCEPT ![c] = [pc |-> "patch",
                                        list |-> Renaming(world.name + 1)]]
    /\ UNCHANGED <<cache, refresher>>

(* ... PatchName, in whatever list is cached by now, and then Get unless   *)
(* the name was cleared.                                                   *)
PatchName(c) ==
    /\ caller[c].pc = "patch"
    /\ snapshot' = IF snapshot.list.ok
                   THEN [snapshot EXCEPT !.list.name = caller[c].list.name]
                   ELSE snapshot
    /\ \E pc \in {"get", "idle"} : caller' = [caller EXCEPT ![c] = [Idle EXCEPT !.pc = pc]]
    /\ UNCHANGED <<world, have, age, refreshing, refresher>>

-----------------------------------------------------------------------------
(* The agent of the session changes state; time passes.                    *)
StateChanges ==
    /\ world.state < MaxState
    /\ world' = [world EXCEPT !.state = @ + 1]
    /\ UNCHANGED <<cache, caller, refresher>>

Tick ==
    /\ age < TTL
    /\ age' = age + 1
    /\ UNCHANGED <<world, have, snapshot, refreshing, caller, refresher>>

Get(c) == GetCheck(c) \/ GetFresh(c) \/ GetStale(c) \/ LoadCall(c) \/ LoadStore(c)

Refresh(b) == RefreshCall(b) \/ RefreshStore(b)

Next ==
    \/ \E c \in Caller : Get(c) \/ SetName(c) \/ PatchName(c)
    \/ \E b \in Refresher : Refresh(b)
    \/ StateChanges \/ Tick

Spec == Init /\ [][Next]_vars

(* An open page polls /api/sessions and /api/events, handlers and          *)
(* refreshes run, time passes; no state change or rename is forced.        *)
FairSpec ==
    /\ Spec
    /\ \A c \in Caller : WF_vars(Get(c)) /\ WF_vars(PatchName(c))
    /\ \A b \in Refresher : WF_vars(Refresh(b))
    /\ WF_vars(Tick)

-----------------------------------------------------------------------------
Refreshers == {b \in Refresher : refresher[b].pc # "idle"}

(* "Concurrent stale callers coalesce into that one refresh": the flag is  *)
(* set exactly while one background refresh runs, and never are there two, *)
(* so a slow remote is asked once at a time and the flag is never left set *)
(* with nobody to clear it.                                                *)
SingleFlight ==
    /\ refreshing <=> Refreshers # {}
    /\ \A b, d \in Refreshers : b = d

(* A background refresh never replaces what an earlier one stored with an  *)
(* older state of the session: callers of a warm cache, among them the     *)
(* notifier, do not see a finished session working again because two       *)
(* refreshes came back in the wrong order.                                 *)
RefreshesInOrder ==
    [][\A b \in Refresher :
          RefreshStore(b) /\ snapshot.by = "refresh"
          /\ snapshot.list.ok /\ snapshot'.list.ok
              => snapshot'.list.state >= snapshot.list.state]_vars

(* Why: the one refresh in flight was started after the last one stored    *)
(* its list, and no list is newer than the world.                          *)
RefreshReadsLater ==
    /\ snapshot.list.state <= world.state
    /\ \A c \in Caller : caller[c].list.state <= world.state
    /\ \A b \in Refresher :
           /\ refresher[b].list.state <= world.state
           /\ snapshot.by = "refresh" /\ refresher[b].pc = "loaded"
              /\ refresher[b].list.ok
                  => refresher[b].list.state >= snapshot.list.state

IInv == TypeOK /\ SingleFlight /\ RefreshReadsLater

(* While a page keeps polling, the cache ends up with the session's last   *)
(* state and name, unless provider calls fail for ever: a late cold load,  *)
(* a refresh that overlapped a rename, a failed load and patches applied   *)
(* out of order are all repaired by a later refresh.                       *)
CatchesUp ==
    <>[](snapshot.list.ok => /\ snapshot.list.state = world.state
                             /\ snapshot.list.name = world.name)
=============================================================================
