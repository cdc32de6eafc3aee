------------------------------ MODULE Servers -------------------------------
(***************************************************************************)
(* WebTerm, ServerLife and WatchDaemon side by side: the terminals of one  *)
(* server with their handlers, servers that start and stop beside one      *)
(* another, and the watchers.  The three have no state in common: a        *)
(* behaviour is one of one of them, the others rest.                       *)
(***************************************************************************)
EXTENDS WebTerm

CONSTANT Parts    (* the parts of which behaviours are considered           *)

-----------------------------------------------------------------------------
(* Servers and GUIs.                                                       *)
CONSTANTS Server, App, MaxStart

VARIABLES proc, reaping, warm, torn, scripts, sessions, orphans, others, starts

serverVars == <<proc, reaping, warm, torn, scripts, sessions, orphans, others, starts>>

L == INSTANCE ServerLife WITH Session <- Key, Local <- LocalKey, web <- sessions

ASSUME ServersAssumption == L!ServerLifeAssumption

(* ServerLife.tla: a server that runs alone owns every grouped session.    *)
SoleServerOwnsAll == L!SoleServerOwnsAll

(* ServerLife.tla: a server that starts kills no terminal that is in use.  *)
ReapSparesUsed == L!ReapSparesUsed

-----------------------------------------------------------------------------
(* Watchers, and the shells that start and stop them.                      *)
CONSTANTS Command, Pid, Torn

VARIABLES pidfile, opened, daemon, term, cmd, wanted, denied, odd

watchVars == <<pidfile, opened, daemon, term, cmd, wanted, denied, odd>>

W == INSTANCE WatchDaemon WITH proc <- daemon

ASSUME WatchersAssumption == W!WatchDaemonAssumption

(* WatchDaemon.tla: `watch --daemon` starts no second watcher, and         *)
(* stop-watch does not deny the one that runs.                             *)
OneWatcher == W!OneWatcher

(* WatchDaemon.tla: a `watch --daemon` that has returned left one running. *)
WatcherEnsured == W!WatcherEnsured

(* WatchDaemon.tla: one stays, which stop-watch finds, whatever happens.   *)
DaemonEnsured == W!DaemonEnsured

-----------------------------------------------------------------------------
VARIABLE part

ServersInit == Init /\ L!Init /\ W!Init /\ part \in Parts

ServersNext ==
    /\ \/ part = "registry" /\ Next /\ UNCHANGED <<serverVars, watchVars>>
       \/ part = "servers" /\ L!Next /\ UNCHANGED <<vars, watchVars>>
       \/ part = "watcher" /\ W!Next /\ UNCHANGED <<vars, serverVars>>
    /\ UNCHANGED part

ServersSpec == ServersInit /\ [][ServersNext]_<<vars, serverVars, watchVars, part>>

=============================================================================
