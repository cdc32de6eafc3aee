------------------------------ MODULE EventLog ------------------------------
(***************************************************************************)
(* How the state of one local session is found out: loadAllLive with       *)
(* LoadRecent, DiscoverLiveSessions and LoadStateDirsForIDs, file by file, *)
(* while the agent that writes the files goes on.  The agent (Copilot CLI) *)
(* is external: it runs turns, in a turn tools side by side, some of which *)
(* ask the user, and it logs what it does; it may be killed and resumed.   *)
(***************************************************************************)
EXTENDS Naturals, SequencesExt

CONSTANTS MaxSeen,   (* bound: events in the window at the end of the log   *)
          MaxOpen    (* bound: tools, questions and permissions open at once *)

(* Assumed where the module is instantiated.                               *)
EventLogAssumption == MaxSeen \in Nat /\ MaxOpen \in Nat

VARIABLES
    tail,    (* the complete events in the last 64K of events.jsonl         *)
    agent,   (* what the agent is at                                        *)
    files,   (* its database row, its inuse.<pid>.lock, its open session.db *)
    load,    (* one load of the session list                                *)
    been     (* history: what the session has been since that load began    *)

vars == <<tail, agent, files, load, been>>

-----------------------------------------------------------------------------
(* Times: a turn may start in the very instant the previous one ended.     *)
Event == [type : {"turn_start", "turn_end", "complete", "requested", "completed",
                  "user_requested", "shutdown"}, mark : {"none"}]
         \cup [type : {"start"}, mark : {"prompting", "other"}]
         \cup [type : {"turn_start"}, mark : {"tied"}]

Logged(type) == [type |-> type, mark |-> "none"]

Down == [up |-> FALSE, turn |-> FALSE, asks |-> 0, tools |-> 0, perms |-> 0, demand |-> FALSE,
         killed |-> FALSE]

Resting == [pc |-> "idle", listed |-> FALSE, pid |-> FALSE, state |-> "none", sound |-> FALSE]

State == {"exited", "inactive", "active", "working", "waiting"}

TypeOK ==
    /\ tail \in Seq(Event) /\ Len(tail) <= MaxSeen
    /\ agent \in [up : BOOLEAN, turn : BOOLEAN, asks : 0..MaxOpen, tools : 0..MaxOpen,
                  perms : 0..MaxOpen, demand : BOOLEAN, killed : BOOLEAN]
    /\ files \in [row : BOOLEAN, lock : BOOLEAN, db : BOOLEAN]
    /\ load \in [pc : {"idle", "discover", "pid", "events", "lsof", "done"}, listed : BOOLEAN,
                 pid : BOOLEAN, state : State \cup {"none", "unknown"}, sound : BOOLEAN]
    /\ been \subseteq State

Init ==
    /\ tail = <<>>
    /\ agent = Down
    /\ files = [row |-> FALSE, lock |-> FALSE, db |-> FALSE]
    /\ load = Resting
    /\ been = {}

-----------------------------------------------------------------------------
(* tailRecentEvents: lines are of any length, so a new one moves any number*)
(* of old ones out of the last 64K; the output of a tool may fill it alone.*)
Windows_whole(log, e) == {Append(log, e)}

Windows(log, e) ==
    {w \in Suffixes(Append(log, e)) : Len(w) <= MaxSeen /\ (w = <<>> => e.type = "complete")}

(* Reading the last events backwards: how many completions are still to be *)
(* matched, the open questions, and whether the answer is known already.   *)
Reading == [completed : Nat, permCompleted : Nat, prompting : Nat, over : BOOLEAN, waiting : BOOLEAN]

Unread == [completed |-> 0, permCompleted |-> 0, prompting |-> 0, over |-> FALSE, waiting |-> FALSE]

WalkBack_completionsFirst(e, w) ==
    IF w.over THEN w
    ELSE CASE e.type = "turn_end" -> [w EXCEPT !.over = TRUE]
           [] e.type = "complete" -> [w EXCEPT !.completed = @ + 1]
           [] e.type = "completed" -> [w EXCEPT !.permCompleted = @ + 1]
           [] e.type = "requested" /\ w.permCompleted > 0 -> [w EXCEPT !.permCompleted = @ - 1]
           [] \/ e.type = "requested" /\ w.permCompleted = 0
              \/ e.type = "user_requested" -> [w EXCEPT !.over = TRUE, !.waiting = TRUE]
           [] e.type = "start" /\ w.completed > 0 -> [w EXCEPT !.completed = @ - 1]
           [] e.type = "start" /\ w.completed = 0 /\ e.mark = "prompting" -> [w EXCEPT !.prompting = @ + 1]
           [] OTHER -> w

WalkBack(e, w) ==
    IF w.over THEN w
    ELSE CASE e.type = "turn_end" -> [w EXCEPT !.over = TRUE]
           [] e.type = "complete" -> [w EXCEPT !.completed = @ + 1]
           [] e.type = "completed" -> [w EXCEPT !.permCompleted = @ + 1]
           [] e.type = "requested" /\ w.permCompleted > 0 -> [w EXCEPT !.permCompleted = @ - 1]
           [] \/ e.type = "requested" /\ w.permCompleted = 0
              \/ e.type = "user_requested" -> [w EXCEPT !.over = TRUE, !.waiting = TRUE]
           [] e.type = "start" /\ e.mark = "prompting" -> [w EXCEPT !.prompting = @ + 1]
           [] e.type = "start" /\ e.mark # "prompting" /\ w.completed > 0 -> [w EXCEPT !.completed = @ - 1]
           [] OTHER -> w

(* What was made of the events after the nth.                              *)
Walk(evs) ==
    LET walk[n \in 0..Len(evs)] ==
            IF n = Len(evs) THEN Unread ELSE WalkBack(evs[n + 1], walk[n + 1])
    IN  walk

Waiting(evs) == LET w == Walk(evs)[0] IN w.waiting \/ w.completed < w.prompting

Latest(evs, type) == Max({0} \cup {n \in 1..Len(evs) : evs[n].type = type})

(* lastStart.After(lastEnd), of the stamps of the latest of each.          *)
MidTurn(evs) ==
    LET start == Latest(evs, "turn_start")
        end == Latest(evs, "turn_end")
    IN  start > end /\ (end = 0 \/ evs[start].mark # "tied")

classifyFromEvents(evs) ==
    IF Latest(evs, "shutdown") > 0 THEN "exited"
    ELSE IF Waiting(evs) THEN "waiting"
    ELSE IF MidTurn(evs) THEN "working"
    ELSE "unknown"
-----------------------------------------------------------------------------
(* What the session really is.                                             *)
Asking(a) == a.asks > 0 \/ a.perms > 0 \/ a.demand

Truth(a, evs) ==
    IF ~ a.up THEN IF Latest(evs, "shutdown") > 0 THEN "exited" ELSE "inactive"
    ELSE IF Asking(a) THEN "waiting"
    ELSE IF a.turn THEN "working" ELSE "active"

(* The events of this turn.                                                *)
ThisTurn(evs) == SubSeq(evs, Latest(evs, "turn_end") + 1, Len(evs))

(* The log can tell what a running agent is at: it was not shut down and   *)
(* resumed within the window, nor killed since a turn last ended, and the  *)
(* window reaches back to the start of this turn.                          *)
Tells(a, evs) ==
    /\ Latest(evs, "shutdown") = 0
    /\ ~ a.killed
    /\ a.turn => Latest(ThisTurn(evs), "turn_start") > 0

(* A question that was asked in this turn, with another tool still running.*)
Blurred(a, evs) ==
    a.tools > 0 /\ \E i \in DOMAIN ThisTurn(evs) : ThisTurn(evs)[i].mark = "prompting"

Tied(evs) == \E i \in DOMAIN ThisTurn(evs) : ThisTurn(evs)[i].mark = "tied"

(* After a kill the log and the lock stay as they were until a turn ends.  *)
Sound(a, evs) == ~ a.killed /\ (a.up => Tells(a, evs) /\ ~ Blurred(a, evs) /\ ~ Tied(evs))

Observed == been' = IF load.pc = "idle" THEN {} ELSE been \cup {Truth(agent', tail')}

Logs(e) == \E w \in Windows(tail, e) : tail' = w

-----------------------------------------------------------------------------
(* The agent, started anew or by `copilot --resume`.                       *)
Launch ==
    /\ ~ agent.up
    /\ agent' = [Down EXCEPT !.up = TRUE, !.killed = agent.killed]
    /\ files' = [files EXCEPT !.lock = TRUE]
    /\ UNCHANGED <<tail, load>> /\ Observed

TurnStart ==
    /\ agent.up /\ ~ agent.turn
    /\ agent' = [agent EXCEPT !.turn = TRUE]
    /\ files' = [files EXCEPT !.row = TRUE, !.db = TRUE]
    /\ \E mark \in {"none", "tied"} : Logs([type |-> "turn_start", mark |-> mark])
    /\ UNCHANGED load /\ Observed

(* Something begins or ends within a turn.                                 *)
InTurn(field, more, e) ==
    /\ agent.turn
    /\ IF more THEN agent.asks + agent.tools + agent.perms < MaxOpen ELSE agent[field] > 0
    /\ agent' = [agent EXCEPT ![field] = IF more THEN @ + 1 ELSE @ - 1]
    /\ Logs(e)
    /\ UNCHANGED <<files, load>> /\ Observed

ToolStart == InTurn("tools", TRUE, [type |-> "start", mark |-> "other"])
ToolComplete == InTurn("tools", FALSE, Logged("complete"))
AskStart == InTurn("asks", TRUE, [type |-> "start", mark |-> "prompting"])
AskComplete == InTurn("asks", FALSE, Logged("complete"))
PermissionRequested == InTurn("perms", TRUE, Logged("requested"))
PermissionCompleted == InTurn("perms", FALSE, Logged("completed"))

(* tool.user_requested: the user is wanted until the turn ends.            *)
UserRequested ==
    /\ agent.turn /\ ~ agent.demand
    /\ agent' = [agent EXCEPT !.demand = TRUE]
    /\ Logs(Logged("user_requested"))
    /\ UNCHANGED <<files, load>> /\ Observed

TurnEnd ==
    /\ agent.turn /\ agent.asks + agent.tools + agent.perms = 0
    /\ agent' = [Down EXCEPT !.up = TRUE]
    /\ Logs(Logged("turn_end"))
    /\ UNCHANGED <<files, load>> /\ Observed

(* The user quits, between turns or in the middle of one.                  *)
Shutdown ==
    /\ agent.up
    /\ agent' = Down
    /\ files' = [files EXCEPT !.lock = FALSE, !.db = FALSE]
    /\ Logs(Logged("shutdown"))
    /\ UNCHANGED load /\ Observed

(* Killed: nothing is logged, and the lock file stays.                     *)
Die ==
    /\ agent.up
    /\ agent' = [Down EXCEPT !.killed = TRUE]
    /\ files' = [files EXCEPT !.db = FALSE]
    /\ UNCHANGED <<tail, load>> /\ Observed

-----------------------------------------------------------------------------
LoadRecent ==
    /\ load.pc = "idle"
    /\ load' = [load EXCEPT !.pc = "discover", !.listed = files.row]
    /\ been' = {Truth(agent, tail)}
    /\ UNCHANGED <<tail, agent, files>>

(* Sessions in use that the database does not have yet.                    *)
DiscoverLiveSessions ==
    /\ load.pc = "discover"
    /\ load' = IF load.listed \/ files.lock THEN [load EXCEPT !.pc = "pid", !.listed = TRUE]
               ELSE [load EXCEPT !.pc = "done"]
    /\ UNCHANGED <<tail, agent, files, been>>

readInusePID ==
    /\ load.pc = "pid"
    /\ load' = [load EXCEPT !.pc = "events", !.pid = files.lock]
    /\ UNCHANGED <<tail, agent, files, been>>

ReadEvents ==
    /\ load.pc = "events"
    /\ LET s == classifyFromEvents(tail)
       IN  load' = [load EXCEPT !.pc = IF s = "unknown" THEN "lsof" ELSE "done",
                                !.state = s, !.sound = Sound(agent, tail)]
    /\ UNCHANGED <<tail, agent, files, been>>

IdleState_dbOnly(pid, locked) == IF locked THEN "active" ELSE "inactive"

IdleState(pid, locked) == IF locked \/ pid THEN "active" ELSE "inactive"

(* One lsof for all; when it fails, no database counts as open.            *)
LockedSet ==
    /\ load.pc = "lsof"
    /\ \E locked \in {files.db, FALSE} :
         load' = [load EXCEPT !.pc = "done", !.state = IdleState(load.pid, locked)]
    /\ UNCHANGED <<tail, agent, files, been>>

(* The list is shown; a later load starts afresh.                          *)
Shown ==
    /\ load.pc = "done"
    /\ load' = Resting
    /\ been' = {}
    /\ UNCHANGED <<tail, agent, files>>

Next ==
    \/ Launch \/ TurnStart \/ ToolStart \/ ToolComplete \/ AskStart \/ AskComplete
    \/ PermissionRequested \/ PermissionCompleted \/ UserRequested \/ TurnEnd \/ Shutdown \/ Die
    \/ LoadRecent \/ DiscoverLiveSessions \/ readInusePID \/ ReadEvents \/ LockedSet \/ Shown

Spec == Init /\ [][Next]_vars

-----------------------------------------------------------------------------
(* As long as the log can tell what a running agent is at, it does.  While *)
(* the agent waits for the user, whatever else it runs, it is shown to     *)
(* wait; while it works without a question it is neither taken for idle,   *)
(* which would make it done, nor for waiting: only a turn that started the *)
(* moment the last one ended, and a question answered while another tool   *)
(* runs, are taken for something else.                                     *)
LogTells ==
    agent.turn /\ Tells(agent, tail) =>
       IF Asking(agent) THEN classifyFromEvents(tail) = "waiting"
       ELSE \/ classifyFromEvents(tail) = "working"
            \/ classifyFromEvents(tail) = "waiting" /\ Blurred(agent, tail)
            \/ Tied(tail)

(* A load reports something the session has been since it began, although  *)
(* it reads row, lock, events and database one after the other (one that   *)
(* was shut down in between may count as merely inactive); and it lists a  *)
(* session that was running all along.  What it reports is exempt where    *)
(* the log it reads is not sound: the agent was killed and no turn has     *)
(* ended since, it was resumed with its shutdown still in the window, the  *)
(* turn's start has left the window, or it is one of LogTells' two cases.  *)
ReportIsTrue ==
    load.pc = "done" =>
       /\ load.listed \/ "inactive" \in been \/ "exited" \in been
       /\ load.listed /\ load.sound =>
             (load.state \in been \/ (load.state = "inactive" /\ "exited" \in been))
=============================================================================
