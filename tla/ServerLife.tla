----------------------------- MODULE ServerLife -----------------------------
(***************************************************************************)
(* Starting and stopping the servers of one user: `tsession serve`, and    *)
(* the one embedded in the GUI, which attaches to a running server if that *)
(* answers at once.  They share the local tmux server and its grouped      *)
(* sessions, named after the sessions they show; WebTerm has the terminals *)
(* of one server in detail.                                                *)
(***************************************************************************)
EXTENDS Naturals, FiniteSets

CONSTANTS Server,   (* processes of `tsession serve`                        *)
          App,      (* GUI processes                                        *)
          Session,  (* what browser terminals show: local sessions          *)
          Local,    (* and the dedicated local terminal                     *)
          MaxStart  (* bound: processes started                             *)

(* Assumed where the module is instantiated.                               *)
ServerLifeAssumption == Server \cap App = {} /\ Local \in Session /\ MaxStart \in Nat

Process == Server \cup App

VARIABLES
    proc,    (* where each process is, and the port it listens on           *)
    reaping, (* the names it has listed and not killed yet                  *)
    warm,    (* the terminals in its registry                               *)
    torn,    (* those taken out whose grouped session is yet to be killed   *)
    scripts, (* whose terminals' scripts have yet to ensure which session   *)
    web,     (* the grouped tmux sessions that exist                        *)
    orphans, (* history: those tmux did not list or kill, or that a script  *)
             (* made when its terminal was gone                             *)
    others,  (* history: processes that another one has run beside          *)
    starts   (* history: how many processes were started                    *)

tmux == <<reaping, warm, torn, scripts, web, orphans>>

vars == <<proc, tmux, others, starts>>

Off == [pc |-> "off", port |-> "none"]

Place == [pc : {"off", "probe", "list", "kill", "listen", "ready", "up", "closed", "teardown",
               "external"},
          port : {"none", "preferred", "ephemeral"}]

TypeOK ==
    /\ proc \in [Process -> Place]
    /\ {reaping, warm, torn} \subseteq [Process -> SUBSET Session]
    /\ web \subseteq Session /\ orphans \subseteq Session /\ others \subseteq Process
    /\ scripts \subseteq Process \X Session
    /\ starts \in 0..MaxStart

Init ==
    /\ proc = [p \in Process |-> Off]
    /\ reaping = [p \in Process |-> {}]
    /\ warm = [p \in Process |-> {}] /\ torn = [p \in Process |-> {}] /\ scripts = {}
    /\ web = {} /\ orphans = {} /\ others = {}
    /\ starts = 0

Running == {p \in Process : proc[p].pc # "off"}

Serving(p) == proc[p].pc \in {"ready", "up"}

(* While it is shut down, handlers of earlier requests still run.          *)
Handling(p) == Serving(p) \/ proc[p].pc \in {"closed", "teardown"}

PortTaken == \E p \in Process : proc[p].port = "preferred"

Goes(p, pc) == proc' = [proc EXCEPT ![p].pc = pc]

(* A grouped session ends; its terminals stay in their registries, as      *)
(* waitLoop takes none out.                                                *)
Ends(s) ==
    /\ web' = web \ {s}
    /\ orphans' = orphans \ {s}

Survives(s) ==
    /\ orphans' = orphans \cup ({s} \cap web)
    /\ UNCHANGED web

-----------------------------------------------------------------------------
Start(p) ==
    /\ proc[p].pc = "off" /\ starts < MaxStart
    /\ Goes(p, IF p \in App THEN "probe" ELSE "list")
    /\ starts' = starts + 1
    /\ others' = IF Running = {} THEN others \ {p} ELSE others \cup Running \cup {p}
    /\ UNCHANGED tmux

(* isExistingServerRunning: a session list within 300 ms, which a server   *)
(* that is up may take longer for.                                         *)
ProbeAnswered(p) ==
    /\ proc[p].pc = "probe" /\ \E q \in Process : Serving(q) /\ proc[q].port = "preferred"
    /\ Goes(p, "external")
    /\ UNCHANGED <<tmux, others, starts>>

(* listenWithFallback: the GUI listens before it builds the server.        *)
AppListens(p) ==
    /\ proc[p].pc = "probe"
    /\ proc' = [proc EXCEPT ![p] = [pc |-> "list", port |-> IF PortTaken THEN "ephemeral"
                                                            ELSE "preferred"]]
    /\ UNCHANGED <<tmux, others, starts>>

(* ReapOrphanedLocal.  When listing fails nothing is killed.               *)
ListWebSessionNames_none == {}

ListWebSessionNames == web

Lists(p) ==
    /\ proc[p].pc = "list"
    /\ Goes(p, "kill")
    /\ \/ reaping' = [reaping EXCEPT ![p] = ListWebSessionNames] /\ UNCHANGED orphans
       \/ orphans' = orphans \cup web /\ UNCHANGED reaping
    /\ UNCHANGED <<warm, torn, scripts, web, others, starts>>

KillSession(p, s) ==
    /\ proc[p].pc = "kill" /\ s \in reaping[p]
    /\ reaping' = [reaping EXCEPT ![p] = @ \ {s}]
    /\ Ends(s) \/ Survives(s)
    /\ UNCHANGED <<proc, warm, torn, scripts, others, starts>>

Built(p) ==
    /\ proc[p].pc = "kill" /\ reaping[p] = {}
    /\ Goes(p, IF p \in App THEN "ready" ELSE "listen")
    /\ UNCHANGED <<tmux, others, starts>>

(* `serve` listens last; another port than its own it does not try.        *)
ServeListens(p) ==
    /\ proc[p].pc = "listen"
    /\ proc' = [proc EXCEPT ![p] = IF PortTaken THEN Off ELSE [pc |-> "up", port |-> "preferred"]]
    /\ UNCHANGED <<tmux, others, starts>>

Ready(p) ==
    /\ proc[p].pc = "ready"
    /\ Goes(p, "up")
    /\ UNCHANGED <<tmux, others, starts>>

-----------------------------------------------------------------------------
(* The web UI; two servers that show one session share its grouped tmux    *)
(* session.  The terminal is in the registry before its script, which may  *)
(* fail, ensures the session.  A terminal being torn down while the server *)
(* serves is the local one, under localTermMu.                             *)
Attach(p, s) ==
    /\ Handling(p) /\ s \notin warm[p]
    /\ Serving(p) => s \notin torn[p]
    /\ warm' = [warm EXCEPT ![p] = @ \cup {s}]
    /\ scripts' = scripts \cup {<<p, s>>}
    /\ UNCHANGED <<proc, reaping, torn, web, orphans, others, starts>>

(* Killing a script leaves the tmux command it has sent.                   *)
EnsureWeb(p, s) ==
    /\ <<p, s>> \in scripts
    /\ scripts' = scripts \ {<<p, s>>}
    /\ \/ /\ web' = web \cup {s}
          /\ orphans' = IF s \in warm[p] \cup web THEN orphans ELSE orphans \cup {s}
       \/ UNCHANGED <<web, orphans>>
    /\ UNCHANGED <<proc, reaping, warm, torn, others, starts>>

(* The user kills the grouped session, or what runs in it ends.            *)
WebExit(s) ==
    /\ s \in web
    /\ Ends(s)
    /\ UNCHANGED <<proc, reaping, warm, torn, scripts, others, starts>>

(* ensureLocalTerminal: the child, and so the script, has exited.          *)
Close(p) ==
    /\ Handling(p) /\ Local \in warm[p] /\ <<p, Local>> \notin scripts
    /\ warm' = [warm EXCEPT ![p] = @ \ {Local}]
    /\ torn' = [torn EXCEPT ![p] = @ \cup {Local}]
    /\ UNCHANGED <<proc, reaping, scripts, web, orphans, others, starts>>

(* Teardown, whose failure nobody hears of.                                *)
Teardown(p, s) ==
    /\ s \in torn[p]
    /\ torn' = [torn EXCEPT ![p] = @ \ {s}]
    /\ Ends(s) \/ Survives(s)
    /\ UNCHANGED <<proc, reaping, warm, scripts, others, starts>>

(* A signal, the window closed, or the app that was never ready: no more   *)
(* requests; then every terminal in the registry is torn down.             *)
Stop(p) ==
    /\ Serving(p)
    /\ proc' = [proc EXCEPT ![p] = [pc |-> "closed", port |-> "none"]]
    /\ UNCHANGED <<tmux, others, starts>>

Shutdown(p) ==
    /\ proc[p].pc = "closed"
    /\ Goes(p, "teardown")
    /\ torn' = [torn EXCEPT ![p] = @ \cup warm[p]]
    /\ warm' = [warm EXCEPT ![p] = {}]
    /\ UNCHANGED <<reaping, scripts, web, orphans, others, starts>>

Exits(p) ==
    /\ proc' = [proc EXCEPT ![p] = Off]
    /\ warm' = [warm EXCEPT ![p] = {}]
    /\ torn' = [torn EXCEPT ![p] = {}] /\ reaping' = [reaping EXCEPT ![p] = {}]
    /\ UNCHANGED <<scripts, web, orphans, others, starts>>

ShutDown(p) == proc[p].pc = "teardown" /\ torn[p] = {} /\ Exits(p)

(* Serve returns an error, which `serve` passes on at once, or the process *)
(* dies; or it only showed another's UI.                                   *)
Die(p) == proc[p].pc # "off" /\ Exits(p)

-----------------------------------------------------------------------------
Next ==
    \/ \E p \in Process :
          \/ Start(p) \/ ProbeAnswered(p) \/ (p \in App /\ AppListens(p)) \/ Lists(p) \/ Built(p)
          \/ ServeListens(p) \/ Ready(p) \/ Close(p) \/ Stop(p) \/ Shutdown(p) \/ ShutDown(p) \/ Die(p)
          \/ \E s \in Session : \/ KillSession(p, s) \/ Attach(p, s)
                               \/ EnsureWeb(p, s) \/ Teardown(p, s)
    \/ \E s \in Session : WebExit(s)

Spec == Init /\ [][Next]_vars

-----------------------------------------------------------------------------
(* A server that has run alone from its start has every grouped session    *)
(* that exists in its registry, or is about to kill it: those of a server  *)
(* that crashed, failed or was killed are gone, whatever had not ended of  *)
(* it, and its own shutdown leaves none but those whose terminals were     *)
(* attached too late.  Except for what tmux could not list or kill, and    *)
(* for what the script of a terminal that is gone has made since.          *)
SoleServerOwnsAll ==
    \A p \in Process :
       Handling(p) /\ p \notin others => web \subseteq warm[p] \cup torn[p] \cup orphans

(* reap.go:7-9: at the start of a server "no grouped session can          *)
(* legitimately still be in use": what it kills as left over is no         *)
(* terminal of a server that is running.                                   *)
ReapSparesUsed ==
    [][\A p, q \in Process : \A s \in web :
          KillSession(p, s) /\ Serving(q) /\ s \in warm[q] => s \in web']_vars

-----------------------------------------------------------------------------
(* Why a server that has run alone owns them all: nothing but what it has  *)
(* listed and not killed yet, and later what it shows, is left of others;  *)
(* and who does not reap or serve holds nothing.                           *)
Alone(p) ==
    proc[p].pc # "off" /\ p \notin others =>
       /\ Running = {p}
       /\ proc[p].pc = "kill" => web \subseteq reaping[p] \cup orphans
       /\ proc[p].pc = "listen" => web \subseteq orphans
       /\ Handling(p) => web \subseteq warm[p] \cup torn[p] \cup orphans

Holds(p) ==
    /\ proc[p].pc # "kill" => reaping[p] = {}
    /\ ~ Handling(p) => warm[p] = {} /\ torn[p] = {}

IInv == TypeOK /\ \A p \in Process : Alone(p) /\ Holds(p)
=============================================================================
