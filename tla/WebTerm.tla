------------------------------ MODULE WebTerm ------------------------------
(***************************************************************************)
(* The terminals of `tsession serve`: the registry of internal/webterm,    *)
(* the handlers of internal/webui that attach to it (terminal.go for       *)
(* sessions, localterm.go for the local shell), the tmux web session       *)
(* behind each key, and the shutdown of the server.                        *)
(*                                                                         *)
(* Locks are modelled where somebody can be made to wait: r.mu, which Live *)
(* and Attach hold while isClosed waits for t.mu; localTermMu; and t.mu,   *)
(* which broadcast holds while it writes to a client that does not read.   *)
(* What is broadcast is TermStream's subject.                              *)
(*                                                                         *)
(* Terminal is the pool of launches, so its size bounds their number.  A   *)
(* request that has ended may be made again.                               *)
(***************************************************************************)
CONSTANTS Key,       (* webterm.Key values                                  *)
          LocalKey,  (* the key of the dedicated local terminal             *)
          Terminal,  (* launches                                            *)
          Request,   (* WebSocket connections and their handlers            *)
          None

ASSUME WebTermAssumption ==
       /\ LocalKey \in Key
       /\ None \notin Key \cup Terminal \cup Request

VARIABLES
    terms,        (* Registry.terms                                         *)
    keyOf,        (* Terminal.key, None before the launch                   *)
    child,        (* the process on the PTY, as far as waitLoop is with it  *)
    closed,       (* the terminals whose closed is set                      *)
    stuck,        (* the terminals whose t.mu a blocked broadcast holds     *)
    web,          (* the keys whose tmux web session exists                 *)
    rmu,          (* the holder of Registry.mu, when it may wait            *)
    localTermMu,  (* the holder of Server.localTermMu                       *)
    req,          (* each handler: its key, where it is, its terminal       *)
    server        (* serve's main goroutine, and Shutdown's list            *)

launchVars == <<terms, keyOf>>
termVars == <<child, closed, stuck, web>>
lockVars == <<rmu, localTermMu>>
vars == <<launchVars, termVars, lockVars, req, server>>

(* The attach script of attachcmd ensures the web session, then attaches.  *)
Alive == {"ensure", "attach", "attached"}

Exited == {"exited", "announced"}

(* A handler is in Live or Attach and holds r.mu ("live", "attach"), or it *)
(* runs ensureLocalTerminal's Close ("mark", "kill", "tear"), or it serves *)
(* its connection ("bridged", "stalled" when the browser does not read).   *)
Closing == {"mark", "kill", "tear"}

Pc == {"idle", "mutex", "findLive", "live", "find", "check", "evict"} \cup Closing
      \cup {"findAttach", "attach", "subscribe", "bridged", "stalled", "leaving"}

TypeOK ==
    /\ terms \in [Key -> Terminal \cup {None}]
    /\ keyOf \in [Terminal -> Key \cup {None}]
    /\ child \in [Terminal -> {"none", "dead"} \cup Alive \cup Exited]
    /\ closed \in SUBSET Terminal
    /\ stuck \in SUBSET Terminal
    /\ web \in SUBSET Key
    /\ rmu \in Request \cup {None}
    /\ localTermMu \in Request \cup {None}
    /\ req \in [Request -> [key : Key, pc : Pc, term : Terminal \cup {None}]]
    /\ server \in [pc : {"serving", "draining", "next", "done"} \cup Closing,
                   todo : SUBSET Terminal, term : Terminal \cup {None}]

Init ==
    /\ terms = [k \in Key |-> None]
    /\ keyOf = [t \in Terminal |-> None]
    /\ child = [t \in Terminal |-> "none"]
    /\ closed = {}
    /\ stuck = {}
    /\ web = {}
    /\ rmu = None
    /\ localTermMu = None
    /\ req = [r \in Request |-> [key |-> LocalKey, pc |-> "idle", term |-> None]]
    /\ server = [pc |-> "serving", todo |-> {}, term |-> None]

-----------------------------------------------------------------------------
At(r, pc) == req[r].pc = pc

Handler(k, pc, t) == [key |-> k, pc |-> pc, term |-> t]

Goto(r, pc, t) == req' = [req EXCEPT ![r] = Handler(req[r].key, pc, t)]

IsLocal(r) == req[r].key = LocalKey

(* The request's terminal in the registry, when r.mu's holder can tell     *)
(* whether it is closed: isClosed waits for t.mu.                          *)
Registered(r) == terms[req[r].key]

CanAsk(r) == Registered(r) \notin stuck

Warm(r) == Registered(r) # None /\ Registered(r) \notin closed

(* What a handler does when it leaves ensureLocalTerminal.                 *)
Released_withHandler(r) == localTermMu

Released(r) == IF localTermMu = r THEN None ELSE localTermMu

-----------------------------------------------------------------------------
(* A browser asks for a terminal; http.Server.Shutdown takes no more.      *)
Connect(r, k) ==
    /\ At(r, "idle")
    /\ server.pc = "serving"
    /\ req' = [req EXCEPT ![r] =
                 Handler(k, IF k = LocalKey THEN "mutex" ELSE "findLive", None)]
    /\ UNCHANGED <<launchVars, termVars, lockVars, server>>

MutexFree_always == TRUE

MutexFree == localTermMu = None

(* ensureLocalTerminal's lock.                                             *)
LockLocal(r) ==
    /\ At(r, "mutex")
    /\ MutexFree
    /\ localTermMu' = r
    /\ Goto(r, "findLive", None)
    /\ UNCHANGED <<launchVars, termVars, rmu, server>>

(* Live takes r.mu, then asks t.isClosed.                                  *)
LiveLock(r) ==
    /\ At(r, "findLive")
    /\ rmu = None
    /\ rmu' = r
    /\ Goto(r, "live", None)
    /\ UNCHANGED <<launchVars, termVars, localTermMu, server>>

Live(r) ==
    /\ At(r, "live")
    /\ CanAsk(r)
    /\ rmu' = None
    /\ IF Warm(r)
       THEN Goto(r, IF IsLocal(r) THEN "check" ELSE "subscribe", Registered(r))
       ELSE Goto(r, IF IsLocal(r) THEN "findAttach" ELSE "find", None)
    /\ UNCHANGED <<launchVars, termVars, localTermMu, server>>

(* findSession, resolveRemote and attachcmd.Build: they take as long as    *)
(* the session list takes to load, and may fail.                           *)
Find(r) ==
    /\ At(r, "find")
    /\ Goto(r, "findAttach", None) \/ Goto(r, "idle", None)
    /\ UNCHANGED <<launchVars, termVars, lockVars, server>>

(* ensureLocalTerminal: Exited, under t.mu.                                *)
CheckExited(r) ==
    /\ At(r, "check")
    /\ req[r].term \notin stuck
    /\ IF child[req[r].term] \in Exited
       THEN Goto(r, "evict", None) /\ UNCHANGED localTermMu
       ELSE Goto(r, "subscribe", req[r].term) /\ localTermMu' = Released(r)
    /\ UNCHANGED <<launchVars, termVars, rmu, server>>

(* Registry.Close up to the unlock of r.mu.                                *)
Evict(r) ==
    /\ At(r, "evict")
    /\ rmu = None
    /\ terms' = [terms EXCEPT ![req[r].key] = None]
    /\ IF Registered(r) # None
       THEN Goto(r, "mark", Registered(r))
       ELSE Goto(r, "findAttach", None)
    /\ UNCHANGED <<keyOf, termVars, lockVars, server>>

AttachLock(r) ==
    /\ At(r, "findAttach")
    /\ rmu = None
    /\ rmu' = r
    /\ Goto(r, "attach", None)
    /\ UNCHANGED <<launchVars, termVars, localTermMu, server>>

Reusable_never(r) == FALSE

(* Attach asks again, as another request may have attached meanwhile.      *)
Reusable(r) == Warm(r)

AttachWarm(r) ==
    /\ At(r, "attach")
    /\ CanAsk(r)
    /\ Reusable(r)
    /\ rmu' = None
    /\ localTermMu' = Released(r)
    /\ Goto(r, "subscribe", Registered(r))
    /\ UNCHANGED <<launchVars, termVars, server>>

(* newTerminal, still under r.mu.                                          *)
AttachNew(r, t) ==
    /\ At(r, "attach")
    /\ CanAsk(r)
    /\ ~ Reusable(r)
    /\ child[t] = "none"
    /\ terms' = [terms EXCEPT ![req[r].key] = t]
    /\ keyOf' = [keyOf EXCEPT ![t] = req[r].key]
    /\ child' = [child EXCEPT ![t] = "ensure"]
    /\ rmu' = None
    /\ localTermMu' = Released(r)
    /\ Goto(r, "subscribe", t)
    /\ UNCHANGED <<closed, stuck, web, server>>

(* pty.StartWithSize fails.                                                *)
AttachFails(r) ==
    /\ At(r, "attach")
    /\ CanAsk(r)
    /\ ~ Reusable(r)
    /\ rmu' = None
    /\ localTermMu' = Released(r)
    /\ Goto(r, "idle", None)
    /\ UNCHANGED <<launchVars, termVars, server>>

(* bridgeTerminal: Subscribe joins under t.mu; the deferred unsubscribe    *)
(* takes it again once the connection has ended.                           *)
Subscribe(r) ==
    /\ At(r, "subscribe")
    /\ req[r].term \notin stuck
    /\ Goto(r, "bridged", req[r].term)
    /\ UNCHANGED <<launchVars, termVars, lockVars, server>>

Unsubscribe(r) ==
    /\ At(r, "leaving")
    /\ req[r].term \notin stuck
    /\ Goto(r, "idle", None)
    /\ UNCHANGED <<launchVars, termVars, lockVars, server>>

(* The browser: it may stop reading, read again, or go away.               *)
Stall(r) ==
    /\ At(r, "bridged")
    /\ Goto(r, "stalled", req[r].term)
    /\ UNCHANGED <<launchVars, termVars, lockVars, server>>

Resume(r) ==
    /\ At(r, "stalled")
    /\ Goto(r, "bridged", req[r].term)
    /\ UNCHANGED <<launchVars, termVars, lockVars, server>>

Disconnect(r) ==
    /\ req[r].pc \in {"bridged", "stalled"}
    /\ Goto(r, "leaving", req[r].term)
    /\ UNCHANGED <<launchVars, termVars, lockVars, server>>

-----------------------------------------------------------------------------
(* Terminal.close of t, step by step, by a handler or by Shutdown.         *)

Mark(t) ==
    /\ t \notin stuck
    /\ closed' = closed \cup {t}
    /\ UNCHANGED <<child, stuck, web>>

(* Process.Kill unless the process has exited; ptmx.Close.                 *)
Kill(t) ==
    /\ child' = [child EXCEPT ![t] = IF @ \in Alive THEN "dead" ELSE @]
    /\ UNCHANGED <<closed, stuck, web>>

(* The tmux session of key k goes, and the clients attached to it exit.    *)
EndWeb(k) ==
    /\ web' = web \ {k}
    /\ child' = [t \in Terminal |->
                   IF keyOf[t] = k /\ child[t] = "attached" THEN "dead" ELSE child[t]]
    /\ UNCHANGED <<closed, stuck>>

(* Registry.Close's part in ensureLocalTerminal.                           *)
CloseLocal(r) ==
    /\ \/ At(r, "mark") /\ Mark(req[r].term) /\ Goto(r, "kill", req[r].term)
       \/ At(r, "kill") /\ Kill(req[r].term) /\ Goto(r, "tear", req[r].term)
       \/ At(r, "tear") /\ EndWeb(keyOf[req[r].term]) /\ Goto(r, "findAttach", None)
    /\ UNCHANGED <<launchVars, lockVars, server>>

-----------------------------------------------------------------------------
(* A signal: http.Server.Shutdown stops taking requests.  It waits for     *)
(* handlers, but at most five seconds and not for WebSockets.              *)
StopServing ==
    /\ server.pc = "serving"
    /\ server' = [server EXCEPT !.pc = "draining"]
    /\ UNCHANGED <<launchVars, termVars, lockVars, req>>

(* Registry.Shutdown empties the map ...                                   *)
ShutdownTake ==
    /\ server.pc = "draining"
    /\ rmu = None
    /\ server' = [pc |-> "next", term |-> None,
                  todo |-> {t \in Terminal : \E k \in Key : terms[k] = t}]
    /\ terms' = [k \in Key |-> None]
    /\ UNCHANGED <<keyOf, termVars, lockVars, req>>

(* ... and closes what it held, one terminal after the other.              *)
ShutdownPick(t) ==
    /\ server.pc = "next"
    /\ t \in server.todo
    /\ server' = [server EXCEPT !.pc = "mark", !.term = t]
    /\ UNCHANGED <<launchVars, termVars, lockVars, req>>

ShutdownClose ==
    /\ \/ /\ server.pc = "mark"
          /\ Mark(server.term)
          /\ server' = [server EXCEPT !.pc = "kill"]
       \/ /\ server.pc = "kill"
          /\ Kill(server.term)
          /\ server' = [server EXCEPT !.pc = "tear"]
       \/ /\ server.pc = "tear"
          /\ EndWeb(keyOf[server.term])
          /\ server' = [pc |-> "next", term |-> None,
                        todo |-> server.todo \ {server.term}]
    /\ UNCHANGED <<launchVars, lockVars, req>>

(* Shutdown returns and the process ends, its handlers with it.            *)
ShutdownDone ==
    /\ server.pc = "next"
    /\ server.todo = {}
    /\ server' = [server EXCEPT !.pc = "done"]
    /\ UNCHANGED <<launchVars, termVars, lockVars, req>>

-----------------------------------------------------------------------------
(* The attach script: has-session || new-session, then attach-session.     *)
EnsureWeb(t) ==
    /\ child[t] = "ensure"
    /\ web' = web \cup {keyOf[t]}
    /\ child' = [child EXCEPT ![t] = "attach"]
    /\ UNCHANGED <<launchVars, closed, stuck, lockVars, req, server>>

AttachWeb(t) ==
    /\ child[t] = "attach"
    /\ child' = [child EXCEPT ![t] = IF keyOf[t] \in web THEN "attached" ELSE "dead"]
    /\ UNCHANGED <<launchVars, closed, stuck, web, lockVars, req, server>>

(* The user detaches, or ssh or the script fails; the web session stays.   *)
ChildExit(t) ==
    /\ child[t] \in Alive
    /\ child' = [child EXCEPT ![t] = "dead"]
    /\ UNCHANGED <<launchVars, closed, stuck, web, lockVars, req, server>>

(* The web session ends by itself: its shell or agent exits.               *)
WebExit(k) ==
    /\ k \in web
    /\ EndWeb(k)
    /\ UNCHANGED <<launchVars, lockVars, req, server>>

-----------------------------------------------------------------------------
(* readLoop and waitLoop.                                                  *)

StalledClient(t) == \E r \in Request : At(r, "stalled") /\ req[r].term = t

(* broadcast writes, under t.mu and with no deadline, to a client that     *)
(* does not read; it goes on when the client reads again or is gone.       *)
BroadcastBlocks(t) ==
    /\ child[t] \notin {"none", "announced"}
    /\ t \notin stuck
    /\ StalledClient(t)
    /\ stuck' = stuck \cup {t}
    /\ UNCHANGED <<launchVars, child, closed, web, lockVars, req, server>>

BroadcastResumes(t) ==
    /\ t \in stuck
    /\ ~ StalledClient(t)
    /\ stuck' = stuck \ {t}
    /\ UNCHANGED <<launchVars, child, closed, web, lockVars, req, server>>

(* waitLoop: Wait returns and exited is set under t.mu; then the marker is *)
(* broadcast.                                                              *)
WaitLoop(t) ==
    /\ t \notin stuck
    /\ \/ child[t] = "dead" /\ child' = [child EXCEPT ![t] = "exited"]
       \/ child[t] = "exited" /\ ~ StalledClient(t)
          /\ child' = [child EXCEPT ![t] = "announced"]
    /\ UNCHANGED <<launchVars, closed, stuck, web, lockVars, req, server>>

-----------------------------------------------------------------------------
(* The process that serves: nothing of it runs after Shutdown returned.    *)
Running(A) == server.pc # "done" /\ A

Attaching(r) ==
    AttachLock(r) \/ AttachWarm(r) \/ AttachFails(r) \/ \E t \in Terminal : AttachNew(r, t)

Serve(r) ==
    Running(\/ LockLocal(r) \/ LiveLock(r) \/ Live(r) \/ Find(r) \/ CheckExited(r)
            \/ Evict(r) \/ CloseLocal(r) \/ Attaching(r)
            \/ Subscribe(r) \/ Unsubscribe(r))

Browser(r) == Stall(r) \/ Resume(r) \/ Disconnect(r) \/ \E k \in Key : Connect(r, k)

Shutdown ==
    ShutdownTake \/ ShutdownClose \/ ShutdownDone \/ \E t \in Terminal : ShutdownPick(t)

Loops(t) == Running(BroadcastResumes(t) \/ WaitLoop(t))

Tmux(t) == EnsureWeb(t) \/ AttachWeb(t) \/ ChildExit(t)

Next ==
    \/ \E r \in Request : Serve(r) \/ Running(Browser(r))
    \/ StopServing \/ Shutdown
    \/ \E t \in Terminal : Loops(t) \/ Running(BroadcastBlocks(t) \/ Tmux(t))
    \/ \E k \in Key : Running(WebExit(k))

Spec == Init /\ [][Next]_vars

(* Handlers, loops and Shutdown are goroutines and take their steps, and   *)
(* Go's mutexes do not starve a waiter: hence SF where a lock may be taken *)
(* by others again and again, and where a write goes on whenever its       *)
(* browser reads.  Nothing obliges a browser to read, a user to act or a   *)
(* process to exit.                                                        *)
Fairness ==
    /\ \A r \in Request : SF_vars(Serve(r))
    /\ SF_vars(Shutdown)
    /\ \A t \in Terminal : SF_vars(Loops(t))

FairSpec == Spec /\ Fairness

(* The same where every browser reads on, or its connection breaks.        *)
Reading == \A r \in Request : WF_vars(Running(Resume(r) \/ Disconnect(r)))

ReadingSpec == FairSpec /\ Reading

-----------------------------------------------------------------------------
(* Properties                                                              *)

(* The terminals Shutdown or a handler has taken out of the map to close.  *)
Taken ==
    server.todo \cup {req[r].term : r \in {q \in Request : req[q].pc \in Closing}}

(* Attach: "click the same session twice" reattaches to the same PTY.  Two *)
(* requests may both have found none and load the session list meanwhile;  *)
(* still no terminal that is not closed or about to be is lost from the    *)
(* map, where nobody could attach to it or shut it down.                   *)
OpenIsRegistered ==
    \A t \in Terminal :
        child[t] # "none" => t \in closed \/ t \in Taken \/ terms[keyOf[t]] = t

(* Old and new terminals of a key share one tmux web session by name.      *)
(* ensureLocalTerminal's kill-session of the old one's never ends a new    *)
(* terminal that browsers reach: while it runs, there is none.             *)
TeardownSparesSuccessor ==
    \A r \in Request :
        req[r].pc \in Closing =>
            \A t \in Terminal :
                keyOf[t] = LocalKey /\ t # req[r].term /\ child[t] \in Alive
                => t \in server.todo

(* Why: the locks' holders, and what they may assume.                      *)
InEnsure == {"findLive", "live", "check", "evict", "findAttach", "attach"} \cup Closing

RegistryLock ==
    \A r \in Request : rmu = r <=> req[r].pc \in {"live", "attach"}

LocalLock ==
    \A r \in Request : localTermMu = r <=> IsLocal(r) /\ req[r].pc \in InEnsure

HandlersKnow ==
    \A r \in Request :
        /\ req[r].pc \in {"mutex", "check", "evict"} \cup Closing => IsLocal(r)
        /\ req[r].pc = "find" => ~ IsLocal(r)
        /\ req[r].pc \in {"check", "subscribe", "bridged", "stalled", "leaving"}
                         \cup Closing => req[r].term \in Terminal

LocksHeld == RegistryLock /\ LocalLock /\ HandlersKnow

MapAgrees ==
    \A k \in Key : terms[k] # None =>
        keyOf[terms[k]] = k /\ terms[k] \notin closed /\ terms[k] \notin Taken

TerminalsAgree ==
    \A t \in Terminal :
        /\ child[t] = "none" <=> keyOf[t] = None
        /\ t \in closed \cup Taken => keyOf[t] \in Key
        /\ t \in closed => t \in Taken \/ child[t] \notin Alive

ShutdownTook ==
    /\ server.pc \in Closing <=> server.term \in Terminal
    /\ server.pc \in Closing => server.term \in server.todo
    /\ server.todo # {} => server.pc \in {"next"} \cup Closing

HandlerTook ==
    \A r \in Request : req[r].pc \in Closing =>
        /\ keyOf[req[r].term] = LocalKey
        /\ terms[LocalKey] = None
        /\ req[r].term \notin server.todo

Launched == MapAgrees /\ TerminalsAgree /\ ShutdownTook /\ HandlerTook

(* close marks before it kills, and kills before it tears down.            *)
ClosedInOrder ==
    /\ \A r \in Request :
           /\ req[r].pc \in {"kill", "tear"} => req[r].term \in closed
           /\ req[r].pc = "tear" => child[req[r].term] \notin Alive
    /\ server.pc \in {"kill", "tear"} => server.term \in closed
    /\ server.pc = "tear" => child[server.term] \notin Alive

IInv == TypeOK /\ LocksHeld /\ Launched /\ ClosedInOrder /\ OpenIsRegistered

(* Neither the locks nor a slow session list leave a browser waiting: it   *)
(* gets its terminal or an error, and a handler whose connection has ended *)
(* ends, unless the process does.                                          *)
Waiting == Pc \ {"idle", "bridged", "stalled"}

RequestsServed ==
    \A r \in Request :
        req[r].pc \in Waiting ~> req[r].pc \notin Waiting \/ server.pc = "done"
=============================================================================
