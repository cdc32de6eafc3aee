----------------------------- MODULE CodeServer -----------------------------
(***************************************************************************)
(* internal/codeserver: the registry of `code serve-web` child processes,  *)
(* one per (origin, session) key, and the life of each Instance.           *)
(*                                                                         *)
(* An instance is touched by four goroutines: its output reader (readLoop, *)
(* which resolves the port through Spec.PortReady with in.mu released),    *)
(* waitLoop, the start timer, and the single closer that Stop or Shutdown  *)
(* sends after taking the instance out of the map.  Each action below is   *)
(* one critical section of in.mu or r.mu, or one effect performed outside  *)
(* them.                                                                   *)
(*                                                                         *)
(* Instance is the pool of launches the model may perform: every launch    *)
(* takes an unused element, so its size bounds the number of launches.     *)
(***************************************************************************)
EXTENDS Naturals

CONSTANTS Key,         (* (origin, session id) pairs                        *)
          TunnelKey,   (* keys reached through RemoteTunnelDialer           *)
          Instance,    (* launches                                          *)
          None         (* no instance                                       *)

ASSUME CodeServerAssumption ==
       /\ TunnelKey \subseteq Key
       /\ None \notin Instance
       /\ None \notin Key

VARIABLES
    instances,    (* Registry.instances                                     *)
    keyOf,        (* Instance.key, None before the launch                   *)
    status,       (* Instance.status                                        *)
    child,        (* the process behind Instance.cmd                        *)
    timer,        (* Instance.timer                                         *)
    reader,       (* where readLoop is                                      *)
    established,  (* PortReady started a tunnel process for the instance    *)
    tears,        (* how often that tunnel's teardown was called            *)
    dialTeardown, (* Instance.dialTeardown # nil                            *)
    closer,       (* where the closer is                                    *)
    closerKills,  (* close's local stillRunning                             *)
    closerTears,  (* close's local dialTeardown # nil                       *)
    specTears     (* how often Spec.Teardown was called                     *)

readerVars == <<reader, established, dialTeardown>>
closerVars == <<closer, closerKills, closerTears, specTears>>
vars == <<instances, keyOf, status, child, timer, readerVars, tears, closerVars>>

-----------------------------------------------------------------------------
Status == {"unborn", "starting", "running", "failed", "stopped"}

isActive(i) == status[i] \in {"starting", "running"}

TunnelOpen(i) == established[i] /\ tears[i] = 0

TypeOK ==
    /\ instances \in [Key -> Instance \cup {None}]
    /\ keyOf \in [Instance -> Key \cup {None}]
    /\ status \in [Instance -> Status]
    /\ child \in [Instance -> {"none", "alive", "dead", "reaped"}]
    /\ timer \in [Instance -> {"off", "armed", "fired", "killing"}]
    /\ reader \in [Instance -> {"scan", "resolve", "resolved", "refused", "drain"}]
    /\ established \in [Instance -> BOOLEAN]
    /\ tears \in [Instance -> Nat]
    /\ dialTeardown \in [Instance -> BOOLEAN]
    /\ closer \in [Instance -> {"none", "queued", "marked", "killed", "closed"}]
    /\ closerKills \in [Instance -> BOOLEAN]
    /\ closerTears \in [Instance -> BOOLEAN]
    /\ specTears \in [Instance -> Nat]

Init ==
    /\ instances = [k \in Key |-> None]
    /\ keyOf = [i \in Instance |-> None]
    /\ status = [i \in Instance |-> "unborn"]
    /\ child = [i \in Instance |-> "none"]
    /\ timer = [i \in Instance |-> "off"]
    /\ reader = [i \in Instance |-> "scan"]
    /\ established = [i \in Instance |-> FALSE]
    /\ tears = [i \in Instance |-> 0]
    /\ dialTeardown = [i \in Instance |-> FALSE]
    /\ closer = [i \in Instance |-> "none"]
    /\ closerKills = [i \in Instance |-> FALSE]
    /\ closerTears = [i \in Instance |-> FALSE]
    /\ specTears = [i \in Instance |-> 0]

-----------------------------------------------------------------------------
(* Registry operations, each atomic under r.mu.                            *)

CanLaunch_always(k) == TRUE

CanLaunch(k) == instances[k] # None => ~ isActive(instances[k])

(* Registry.Start when the key has no active instance: newInstance spawns  *)
(* the process, arms the timer and starts the goroutines, then the map     *)
(* entry is replaced; an inactive instance that was there is dropped, not  *)
(* closed.  isActive never becomes true again once false, so the test and  *)
(* the replacement are one step although in.mu is released between them.   *)
(* With an active instance, or when the spawn fails, Start changes nothing.*)
Start(k, i) ==
    /\ CanLaunch(k)
    /\ status[i] = "unborn"
    /\ instances' = [instances EXCEPT ![k] = i]
    /\ keyOf' = [keyOf EXCEPT ![i] = k]
    /\ status' = [status EXCEPT ![i] = "starting"]
    /\ child' = [child EXCEPT ![i] = "alive"]
    /\ timer' = [timer EXCEPT ![i] = "armed"]
    /\ UNCHANGED <<readerVars, tears, closerVars>>

(* Registry.Stop up to the unlock: from here only this closer can reach    *)
(* the instance through the registry.                                      *)
Stop(k) ==
    /\ instances[k] # None
    /\ instances' = [instances EXCEPT ![k] = None]
    /\ closer' = [closer EXCEPT ![instances[k]] = "queued"]
    /\ UNCHANGED <<keyOf, status, child, timer, readerVars, tears, closerKills,
                   closerTears, specTears>>

(* Registry.Shutdown empties the map and closes what it held.  It closes   *)
(* one instance after another in map order; closing them independently     *)
(* allows every such order and more.                                       *)
Shutdown ==
    /\ \E k \in Key : instances[k] # None
    /\ instances' = [k \in Key |-> None]
    /\ closer' = [i \in Instance |-> IF \E k \in Key : instances[k] = i
                                     THEN "queued" ELSE closer[i]]
    /\ UNCHANGED <<keyOf, status, child, timer, readerVars, tears, closerKills,
                   closerTears, specTears>>

-----------------------------------------------------------------------------
(* The reader goroutine.                                                   *)

StillStarting_always(i) == TRUE

StillStarting(i) == status[i] = "starting"

(* A complete line carries the port marker: onPortFound's first critical   *)
(* section, which lets go of in.mu before calling PortReady.  Output may be *)
(* read after the child has died.                                          *)
onPortFound(i) ==
    /\ reader[i] = "scan"
    /\ status[i] = "starting"
    /\ reader' = [reader EXCEPT ![i] = "resolve"]
    /\ UNCHANGED <<instances, keyOf, status, child, timer, established, tears,
                   dialTeardown, closerVars>>

(* Spec.PortReady, with no lock held.  LocalDialer and DevcontainerDialer  *)
(* always succeed and need no teardown; RemoteTunnelDialer starts a tunnel *)
(* process or fails, in which case it has killed the tunnel itself.        *)
PortReady(i) ==
    /\ reader[i] = "resolve"
    /\ \/ /\ reader' = [reader EXCEPT ![i] = "resolved"]
          /\ established' = [established EXCEPT ![i] = keyOf[i] \in TunnelKey]
       \/ /\ keyOf[i] \in TunnelKey
          /\ reader' = [reader EXCEPT ![i] = "refused"]
          /\ UNCHANGED established
    /\ UNCHANGED <<instances, keyOf, status, child, timer, tears, dialTeardown,
                   closerVars>>

LateTeardown_none(i) == 0

(* The teardown PortReady returned, called because the instance left       *)
(* "starting" meanwhile.                                                   *)
LateTeardown(i) == IF established[i] THEN 1 ELSE 0

(* timer.Stop: a callback that is already waiting for in.mu still runs.    *)
Disarmed(i) == IF timer[i] = "armed" THEN "off" ELSE timer[i]

(* onPortFound's second critical section.                                  *)
PortResolved(i) ==
    /\ reader[i] \in {"resolved", "refused"}
    /\ reader' = [reader EXCEPT ![i] = "drain"]
    /\ \/ /\ ~ StillStarting(i)
          /\ tears' = [tears EXCEPT ![i] = @ + LateTeardown(i)]
          /\ UNCHANGED <<status, timer, dialTeardown>>
       \/ /\ StillStarting(i)
          /\ reader[i] = "refused"
          /\ status' = [status EXCEPT ![i] = "failed"]
          /\ timer' = [timer EXCEPT ![i] = Disarmed(i)]
          /\ UNCHANGED <<dialTeardown, tears>>
       \/ /\ StillStarting(i)
          /\ reader[i] = "resolved"
          /\ status' = [status EXCEPT ![i] = "running"]
          /\ timer' = [timer EXCEPT ![i] = Disarmed(i)]
          /\ dialTeardown' = [dialTeardown EXCEPT ![i] = established[i]]
          /\ UNCHANGED tears
    /\ UNCHANGED <<instances, keyOf, child, established, closerVars>>

-----------------------------------------------------------------------------
(* The start timer and the child process.                                  *)

TimesOut_notRunning(i) == isActive(i)

TimesOut_never(i) == FALSE

TimesOut(i) == status[i] = "starting"

(* The timer goes off; its callback is yet to acquire in.mu.               *)
TimerFires(i) ==
    /\ timer[i] = "armed"
    /\ timer' = [timer EXCEPT ![i] = "fired"]
    /\ UNCHANGED <<instances, keyOf, status, child, readerVars, tears, closerVars>>

(* onStartTimeout's critical section.                                      *)
onStartTimeout(i) ==
    /\ timer[i] = "fired"
    /\ \/ /\ TimesOut(i)
          /\ status' = [status EXCEPT ![i] = "failed"]
          /\ timer' = [timer EXCEPT ![i] = "killing"]
       \/ /\ ~ TimesOut(i)
          /\ timer' = [timer EXCEPT ![i] = "off"]
          /\ UNCHANGED status
    /\ UNCHANGED <<instances, keyOf, child, readerVars, tears, closerVars>>

Killed(i) == IF child[i] = "alive" THEN "dead" ELSE child[i]

(* onStartTimeout kills the child after releasing in.mu.                   *)
TimeoutKill(i) ==
    /\ timer[i] = "killing"
    /\ timer' = [timer EXCEPT ![i] = "off"]
    /\ child' = [child EXCEPT ![i] = Killed(i)]
    /\ UNCHANGED <<instances, keyOf, status, readerVars, tears, closerVars>>

(* The child exits by itself, in any state.                                *)
ChildExit(i) ==
    /\ child[i] = "alive"
    /\ child' = [child EXCEPT ![i] = "dead"]
    /\ UNCHANGED <<instances, keyOf, status, timer, readerVars, tears, closerVars>>

(* The status waitLoop leaves behind.                                      *)
Exited(i) == IF isActive(i) THEN "failed" ELSE status[i]

(* cmd.Wait returns: waitLoop's critical section.  It neither stops the    *)
(* timer nor tears down the tunnel of a running instance.                  *)
waitLoop(i) ==
    /\ child[i] = "dead"
    /\ child' = [child EXCEPT ![i] = "reaped"]
    /\ status' = [status EXCEPT ![i] = Exited(i)]
    /\ UNCHANGED <<instances, keyOf, timer, readerVars, tears, closerVars>>

-----------------------------------------------------------------------------
(* Instance.close, run once per instance: Stop and Shutdown take it out of *)
(* the map under r.mu first.                                               *)

Captured_early(i) == established[i]

(* close's copy of in.dialTeardown.                                        *)
Captured(i) == dialTeardown[i]

(* close up to the unlock.                                                 *)
CloseMark(i) ==
    /\ closer[i] = "queued"
    /\ status[i] # "stopped"
    /\ closer' = [closer EXCEPT ![i] = "marked"]
    /\ status' = [status EXCEPT ![i] = "stopped"]
    /\ closerKills' = [closerKills EXCEPT ![i] = isActive(i)]
    /\ closerTears' = [closerTears EXCEPT ![i] = Captured(i)]
    /\ UNCHANGED <<instances, keyOf, child, timer, readerVars, tears, specTears>>

CloseVictim_noKill(i) == child[i]

CloseVictim(i) == IF closerKills[i] THEN Killed(i) ELSE child[i]

(* timer.Stop; Process.Kill if the instance was active; ptmx.Close, which  *)
(* hangs up a child that was not killed: it may exit (ChildExit).          *)
CloseKill(i) ==
    /\ closer[i] = "marked"
    /\ closer' = [closer EXCEPT ![i] = "killed"]
    /\ timer' = [timer EXCEPT ![i] = Disarmed(i)]
    /\ child' = [child EXCEPT ![i] = CloseVictim(i)]
    /\ UNCHANGED <<instances, keyOf, status, readerVars, tears, closerKills,
                   closerTears, specTears>>

(* The captured dialTeardown, then Spec.Teardown.                          *)
CloseTear(i) ==
    /\ closer[i] = "killed"
    /\ closer' = [closer EXCEPT ![i] = "closed"]
    /\ tears' = [tears EXCEPT ![i] = @ + (IF closerTears[i] THEN 1 ELSE 0)]
    /\ specTears' = [specTears EXCEPT ![i] = @ + 1]
    /\ UNCHANGED <<instances, keyOf, status, child, timer, readerVars,
                   closerKills, closerTears>>

-----------------------------------------------------------------------------
Reader(i) == onPortFound(i) \/ PortReady(i) \/ PortResolved(i)
Timer(i)  == TimerFires(i) \/ onStartTimeout(i) \/ TimeoutKill(i)
Closer(i) == CloseMark(i) \/ CloseKill(i) \/ CloseTear(i)

InstanceStep(i) ==
    Reader(i) \/ Timer(i) \/ ChildExit(i) \/ waitLoop(i) \/ Closer(i)

Next ==
    \/ \E k \in Key : Stop(k) \/ \E i \in Instance : Start(k, i)
    \/ Shutdown
    \/ \E i \in Instance : InstanceStep(i)

Spec == Init /\ [][Next]_vars

(* PortReady "must not block indefinitely" (registry.go), the timer fires, *)
(* a dead child is waited for and a closer runs to its end.  Nothing makes *)
(* a child print its port or exit, or a user start or stop anything.       *)
Fairness ==
    \A i \in Instance :
        /\ WF_vars(PortReady(i))
        /\ WF_vars(PortResolved(i))
        /\ WF_vars(Timer(i))
        /\ WF_vars(waitLoop(i))
        /\ WF_vars(Closer(i))

FairSpec == Spec /\ Fairness

-----------------------------------------------------------------------------
(* Properties                                                              *)

(* Start's reuse test keeps at most one server per session: an instance    *)
(* that is starting or running is the one the map holds for its key, or    *)
(* has a closer on its way to it (Stop unlocks r.mu before it closes, so a *)
(* new server may already have been launched for the same key).            *)
ActiveReachable ==
    \A i \in Instance :
        isActive(i) => instances[keyOf[i]] = i \/ closer[i] = "queued"

(* Stop racing PortReady: whichever of the two comes last undoes the       *)
(* tunnel, so a fully closed instance whose reader is not between          *)
(* onPortFound's two critical sections has no tunnel process left.         *)
ClosedHasNoTunnel ==
    \A i \in Instance :
        closer[i] = "closed" /\ reader[i] \in {"scan", "drain"} => ~ TunnelOpen(i)

(* Nor do both undo it: the teardown waits for the tunnel process, which   *)
(* may be done only once.  Spec.Teardown too runs at most once.            *)
TeardownsOnce ==
    \A i \in Instance : tears[i] <= 1 /\ specTears[i] <= 1

(* cmd/serve.go:102-104: Shutdown "tears down every [...] code server      *)
(* instance".  When the map is empty and nothing is under way any more,    *)
(* that is so but for two leftovers of failed instances, which close is    *)
(* not called for or does not kill: the tunnel of a server that ran, died  *)
(* and was replaced by Start, and the process of one that printed its port *)
(* and got no tunnel.                                                      *)
Settled ==
    /\ \A k \in Key : instances[k] = None
    /\ \A i \in Instance : /\ reader[i] \in {"scan", "drain"}
                           /\ timer[i] \in {"off", "armed"}
                           /\ closer[i] \in {"none", "closed"}

Refused(i) == keyOf[i] \in TunnelKey /\ reader[i] = "drain" /\ ~ established[i]

LeftBehind ==
    Settled => \A i \in Instance :
        /\ TunnelOpen(i) => closer[i] = "none" /\ status[i] = "failed" /\ child[i] = "reaped"
        /\ child[i] = "alive" => Refused(i)

(* What makes those inductive: the map, the status, the closer and the     *)
(* reader of an instance agree, and a tunnel is either still in the        *)
(* reader's hands, or in.dialTeardown's and then close's to tear down, or  *)
(* was torn down by the reader itself.                                     *)
Closing(i) == closer[i] \in {"marked", "killed", "closed"}

MapAgrees ==
    \A k \in Key : instances[k] # None =>
        /\ keyOf[instances[k]] = k
        /\ closer[instances[k]] = "none"
        /\ status[instances[k]] # "unborn"

StatusAgrees ==
    \A i \in Instance :
        /\ status[i] = "unborn" => /\ reader[i] = "scan"
                                   /\ closer[i] = "none"
        /\ status[i] # "unborn" => keyOf[i] \in Key
        /\ status[i] = "starting" => reader[i] # "drain"
        /\ status[i] = "stopped" <=> Closing(i)

OneOwner ==
    \A i \in Instance :
        /\ established[i] => reader[i] \in {"resolved", "drain"}
        /\ dialTeardown[i] => established[i] /\ reader[i] = "drain"
        /\ closerTears[i] <=> dialTeardown[i] /\ Closing(i)
        /\ tears[i] = IF IF dialTeardown[i] THEN closer[i] = "closed"
                                            ELSE established[i] /\ reader[i] = "drain"
                      THEN 1 ELSE 0
        /\ specTears[i] = IF closer[i] = "closed" THEN 1 ELSE 0

(* Who fails or is stopped dies, unless his port came and no tunnel.       *)
Fates ==
    \A i \in Instance :
        /\ reader[i] = "refused" => keyOf[i] \in TunnelKey
        /\ dialTeardown[i] /\ status[i] = "failed" => child[i] = "reaped"
        /\ child[i] = "alive" /\ status[i] \in {"failed", "stopped"} =>
               timer[i] = "killing" \/ (closer[i] = "marked" /\ closerKills[i]) \/ Refused(i)
        /\ child[i] = "none" <=> status[i] = "unborn"

IInv == TypeOK /\ MapAgrees /\ StatusAgrees /\ OneOwner /\ Fates /\ ActiveReachable

(* The timer against a late port: a server that has been reported running  *)
(* becomes failed only because its own process has died.                   *)
RunningFailsByDeath ==
    [][\A i \in Instance :
          status[i] = "running" /\ status'[i] = "failed" => child[i] = "dead"]_vars

(* PortReady, the timer, the exit of the process and close all race for    *)
(* the status: none brings a failed or stopped instance back.              *)
NoResurrection ==
    [][\A i \in Instance :
          status[i] \in {"failed", "stopped"} => status'[i] \in {status[i], "stopped"}]_vars

(* The browser's "Starting VS Code..." placeholder does not stay for ever: *)
(* the timer bounds the time an instance spends starting, even while       *)
(* PortReady is waiting for a tunnel.                                      *)
StartResolves ==
    \A i \in Instance : status[i] = "starting" ~> status[i] # "starting"

(* Once Stop or Shutdown has taken an instance that had not failed by the  *)
(* time it was closed, its process and its tunnel go away for good.        *)
Released(i) == ~ TunnelOpen(i) /\ child[i] = "reaped"

StopReleases ==
    \A i \in Instance :
        closer[i] = "marked" /\ closerKills[i] ~> [] Released(i)

(* The registry as its callers see it.                                     *)
Slots == INSTANCE CodeSlots WITH
             slot <- instances, owner <- keyOf, phase <- status,
             leaving <- {i \in Instance : closer[i] = "queued"}

(* All of the races above stay inside the registry: callers see one slot   *)
(* per session and phases that only move forward.                          *)
ImplementsSlots == Slots!SlotSpec
=============================================================================
