---------------------------- MODULE WatchDaemon -----------------------------
(***************************************************************************)
(* cmd/watch.go: the background watcher, the pidfile ~/.tsession/watch.pid *)
(* that its processes leave for one another, `tsession watch --daemon`,    *)
(* `tsession watch` and `tsession stop-watch`.  What a watcher does at     *)
(* each tick is left out: only that a refresh may outlast a stop-watch.    *)
(***************************************************************************)
EXTENDS Naturals, FiniteSets

CONSTANTS Command,     (* shells that run the commands                      *)
          Pid, None,
          Torn         (* a pidfile just truncated, or written over another *)

(* Assumed where the module is instantiated.                               *)
WatchDaemonAssumption == None \notin Pid /\ Torn \notin Pid \cup {None}

VARIABLES
    pidfile,  (* what watch.pid says                                        *)
    opened,   (* which watchers hold the present pidfile open to write it   *)
    proc,     (* what runs under each pid                                   *)
    term,     (* whether a watcher has a SIGTERM waiting in its channel     *)
    cmd,      (* where each command is, and the pid it deals with           *)
    wanted,   (* history: a `watch --daemon` returned, no stop-watch since  *)
    denied,   (* history: a stop-watch found nothing while a watcher looped *)
    odd       (* history: what has happened that the commands do not expect *)

vars == <<pidfile, opened, proc, term, cmd, wanted, denied, odd>>

-----------------------------------------------------------------------------
Starting == {"new", "pid", "unsafe"}
Watching == {"loop", "leaving"}

Oddity == {"foreground",  (* `tsession watch` has been run without --daemon      *)
           "slowStart",   (* a child was not up 150 ms after it was spawned      *)
           "slowLeave",   (* a watcher had not left 3 s after its SIGTERM        *)
           "killed",      (* a watcher was killed outright                       *)
           "reused",      (* a pid was given to somebody else                    *)
           "overlap",     (* two shells were at it at once                       *)
           "crossed"}     (* and one of them at stop-watch                       *)

Resting == [pc |-> "idle", pid |-> None]

TypeOK ==
    /\ pidfile \in Pid \cup {None, Torn}
    /\ opened \subseteq Pid
    /\ proc \in [Pid -> {"free", "other"} \cup Starting \cup Watching]
    /\ term \in [Pid -> BOOLEAN]
    /\ cmd \in [Command -> [pc : {"idle", "spawn", "settle", "signal", "cleanup", "wait"},
                            pid : Pid \cup {None}]]
    /\ {wanted, denied} \subseteq BOOLEAN
    /\ odd \subseteq Oddity

Init ==
    /\ pidfile = None
    /\ opened = {}
    /\ proc = [p \in Pid |-> "free"]
    /\ term = [p \in Pid |-> FALSE]
    /\ cmd = [c \in Command |-> Resting]
    /\ wanted = FALSE /\ denied = FALSE /\ odd = {}

Watchers == {p \in Pid : proc[p] \in Starting \cup Watching}

removePid == pidfile' = None /\ opened' = {}

Gone(p) ==
    /\ proc' = [proc EXCEPT ![p] = "free"]
    /\ term' = [term EXCEPT ![p] = FALSE]

Goes(c, pc, p) == cmd' = [cmd EXCEPT ![c] = [pc |-> pc, pid |-> p]]

files == <<pidfile, opened>>
procs == <<proc, term>>
history == <<wanted, denied, odd>>

Notes(oddity) == odd' = odd \cup {oddity}

-----------------------------------------------------------------------------
(* The watcher process                                                     *)

Start(p) ==
    /\ proc[p] = "free"
    /\ proc' = [proc EXCEPT ![p] = "new"]
    /\ UNCHANGED term

RunWatch(p) ==
    /\ Start(p)
    /\ Notes("foreground")
    /\ UNCHANGED <<files, cmd, wanted, denied>>

OpenPid(p) ==
    /\ proc[p] = "new"
    /\ pidfile' = Torn
    /\ opened' = opened \cup {p}
    /\ proc' = [proc EXCEPT ![p] = "pid"]
    /\ UNCHANGED <<term, cmd, history>>

(* Into a pidfile that was removed meanwhile it writes for nobody, over    *)
(* another's pid perhaps something unreadable.                             *)
WritePid(p) ==
    /\ proc[p] = "pid"
    /\ pidfile' \in IF p \notin opened THEN {pidfile}
                    ELSE IF pidfile = Torn THEN {p} ELSE {p, Torn}
    /\ opened' = opened \ {p}
    /\ proc' = [proc EXCEPT ![p] = "unsafe"]
    /\ UNCHANGED <<term, cmd, history>>

(* Until signal.Notify a SIGTERM kills.                                    *)
Catches(p) ==
    /\ proc[p] = "unsafe"
    /\ proc' = [proc EXCEPT ![p] = "loop"]
    /\ UNCHANGED <<term, files, cmd, history>>

StopsLoop(p) ==
    /\ proc[p] = "loop"
    /\ term[p]
    /\ proc' = [proc EXCEPT ![p] = "leaving"]
    /\ UNCHANGED <<term, files, cmd, history>>

Leaves(p) ==
    /\ proc[p] = "leaving"
    /\ removePid
    /\ Gone(p)
    /\ UNCHANGED <<cmd, history>>

Crash(p) ==
    /\ p \in Watchers
    /\ Gone(p)
    /\ opened' = opened \ {p}
    /\ Notes("killed")
    /\ UNCHANGED <<pidfile, cmd, wanted, denied>>

Stranger(p) ==
    /\ proc[p] = "free"
    /\ proc' = [proc EXCEPT ![p] = "other"]
    /\ Notes("reused")
    /\ UNCHANGED <<term, files, cmd, wanted, denied>>

StrangerEnds(p) ==
    /\ proc[p] = "other"
    /\ Gone(p)
    /\ UNCHANGED <<files, cmd, history>>

-----------------------------------------------------------------------------
(* tsession watch --daemon                                                 *)

watcherAlive_never == FALSE

watcherAlive == pidfile \in Pid /\ proc[pidfile] # "free"

AtWork == {c \in Command : cmd[c].pc # "idle"}

Stopping == {c \in AtWork : cmd[c].pc \in {"signal", "cleanup", "wait"}}

NotesOverlap(crossed) ==
    odd' = odd \cup (IF AtWork = {} THEN {}
                     ELSE IF crossed THEN {"overlap", "crossed"} ELSE {"overlap"})

Launch(c) ==
    /\ cmd[c].pc = "idle"
    /\ NotesOverlap(Stopping # {})
    /\ IF watcherAlive THEN wanted' = TRUE /\ UNCHANGED cmd
       ELSE Goes(c, "spawn", None) /\ UNCHANGED wanted
    /\ UNCHANGED <<files, procs, denied>>

spawnDaemon(c) ==
    /\ cmd[c].pc = "spawn"
    /\ \E p \in Pid : Start(p) /\ Goes(c, "settle", p)
    /\ UNCHANGED <<files, history>>

SpawnFails(c) ==
    /\ cmd[c].pc = "spawn"
    /\ Goes(c, "idle", None)
    /\ UNCHANGED <<files, procs, history>>

(* It sleeps 150 ms, in which the child may come up or not.                *)
Settled(c) ==
    /\ cmd[c].pc = "settle"
    /\ Goes(c, "idle", None)
    /\ odd' = IF proc[cmd[c].pid] \in Starting THEN odd \cup {"slowStart"} ELSE odd
    /\ wanted' = TRUE
    /\ UNCHANGED <<files, procs, denied>>

-----------------------------------------------------------------------------
(* tsession stop-watch                                                     *)

StopWatch(c) ==
    /\ cmd[c].pc = "idle"
    /\ NotesOverlap(TRUE)
    /\ wanted' = FALSE
    /\ denied' = (denied \/ (pidfile = None /\ \E p \in Pid : proc[p] = "loop"))
    /\ IF pidfile \in Pid THEN Goes(c, "signal", pidfile) ELSE UNCHANGED cmd
    /\ UNCHANGED <<files, procs>>

(* A watcher in its loop gets a message, whoever else has the pid dies.    *)
Signalled(p) ==
    IF proc[p] \in Watching THEN term' = [term EXCEPT ![p] = TRUE] /\ UNCHANGED <<proc, opened>>
    ELSE Gone(p) /\ opened' = opened \ {p}

AfterSignal_atOnce(c) == Goes(c, "idle", None)

AfterSignal(c) == Goes(c, "wait", cmd[c].pid)

Signal(c) ==
    /\ cmd[c].pc = "signal"
    /\ proc[cmd[c].pid] # "free"
    /\ Signalled(cmd[c].pid)
    /\ AfterSignal(c)
    /\ UNCHANGED <<pidfile, history>>

SignalFails(c) ==
    /\ cmd[c].pc = "signal"
    /\ proc[cmd[c].pid] = "free"
    /\ Goes(c, "cleanup", None)
    /\ UNCHANGED <<files, procs, history>>

Cleanup(c) ==
    /\ cmd[c].pc = "cleanup"
    /\ removePid
    /\ Goes(c, "idle", None)
    /\ UNCHANGED <<procs, history>>

(* The pidfile is gone, or 3 s are over, enough for the watcher or not.    *)
StillLeaving(c) ==
    pidfile # None /\ proc[cmd[c].pid] \in Watching /\ term[cmd[c].pid]

Waited(c) ==
    /\ cmd[c].pc = "wait"
    /\ Goes(c, "idle", None)
    /\ odd' = IF StillLeaving(c) THEN odd \cup {"slowLeave"} ELSE odd
    /\ UNCHANGED <<files, procs, wanted, denied>>

Next ==
    \/ \E p \in Pid : RunWatch(p) \/ OpenPid(p) \/ WritePid(p) \/ Catches(p)
                      \/ StopsLoop(p) \/ Leaves(p) \/ Crash(p) \/ Stranger(p) \/ StrangerEnds(p)
    \/ \E c \in Command : Launch(c) \/ spawnDaemon(c) \/ SpawnFails(c) \/ Settled(c) \/ StopWatch(c)
                          \/ Signal(c) \/ SignalFails(c) \/ Cleanup(c) \/ Waited(c)

Spec == Init /\ [][Next]_vars

-----------------------------------------------------------------------------
(* Properties                                                              *)

(* `watch --daemon` does nothing while a watcher lives: there is one at a  *)
(* time, and stop-watch tells the truth when it prints "tsession watch is  *)
(* not running", even if watchers leave late, are killed and their pids    *)
(* reused, as long as shells take turns and give each child time to come   *)
(* up.  Two daemons launched at once would share a pidfile, and the first  *)
(* one stopped removes it.                                                 *)
OneWatcher ==
    odd \cap {"foreground", "slowStart", "overlap"} = {} =>
        (\A p, q \in Watchers : p = q) /\ ~ denied

(* A `watch --daemon` that has returned has ensured that a watcher runs,   *)
(* until the next stop-watch, as long as watchers leave in time, are not   *)
(* killed, pids not reused and shells take turns; it may otherwise find a  *)
(* watcher that is about to leave, or a stranger under its pid.            *)
WatcherEnsured ==
    wanted /\ odd \subseteq {"foreground", "slowStart"}
        => \E p \in Watchers : proc[p] \in Starting \/ ~ term[p]

(* README.md:420: a launch "Ensures `tsession watch --daemon` is running", *)
(* and watch.go:315-316 gives its child a moment "so a subsequent          *)
(* `tsession stop-watch` finds it": when a `watch --daemon` has returned   *)
(* since the last stop-watch, and every command has, then one watcher      *)
(* stays and the pidfile names it.  Either of two things stands against    *)
(* it: a watcher that leaves late, and two launches at once.               *)
DaemonEnsured ==
    /\ wanted /\ odd \subseteq {"slowLeave", "overlap"}
    /\ \A c \in Command : cmd[c].pc = "idle"
    => \E p \in Pid : pidfile = p /\ {q \in Watchers : ~ term[q]} = {p}

-----------------------------------------------------------------------------
(* Why: shells that take turns are never two at work; a watcher that comes *)
(* up has its shell waiting for it, and one that is up has its pid in the  *)
(* pidfile, so that who spawns one or cleans up has found none.            *)
OneAtWork == \A c, d \in Command : cmd[c].pc # "idle" /\ cmd[d].pc # "idle" => c = d

Known(p) ==
    /\ proc[p] \in Starting => \E c \in Command : cmd[c] = [pc |-> "settle", pid |-> p]
    /\ proc[p] = "pid" => pidfile = Torn /\ p \in opened
    /\ proc[p] \in Watching \cup {"unsafe"} => pidfile = p

NoneLeft(c) ==
    /\ cmd[c].pc \in {"spawn", "cleanup"} => Watchers = {}
    /\ cmd[c].pc = "signal" => Watchers \subseteq {cmd[c].pid}

InTurn ==
    odd \cap {"foreground", "slowStart", "overlap"} = {} =>
       /\ OneAtWork /\ ~ denied
       /\ \A p, q \in Watchers : p = q
       /\ \A p \in Pid : Known(p)
       /\ \A c \in Command : NoneLeft(c)

(* A watcher leaves for a SIGTERM only, which the shell that sent it sees  *)
(* through; until then the pid in the pidfile is of one that stays.        *)
Stays(p) == p \in Watchers /\ ~ term[p]

Sees(c) ==
    /\ cmd[c].pc = "settle" => Stays(cmd[c].pid)
    /\ cmd[c].pc \in {"signal", "cleanup", "wait"} => ~ wanted

Ensured ==
    odd \subseteq {"foreground", "slowStart"} =>
       /\ OneAtWork
       /\ \A p \in Pid : proc[p] # "other"
       /\ \A c \in Command : Sees(c)
       /\ \A p \in Pid : pidfile = p /\ term[p] =>
             \E c \in Command : cmd[c] = [pc |-> "wait", pid |-> p]
       /\ wanted => \E p \in Watchers : Stays(p)

Terminated ==
    \A p \in Pid : /\ term[p] => proc[p] \in Watching
                   /\ proc[p] = "leaving" => term[p]

IInv == TypeOK /\ Terminated /\ InTurn /\ Ensured
=============================================================================
