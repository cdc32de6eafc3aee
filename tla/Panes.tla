------------------------------- MODULE Panes --------------------------------
(***************************************************************************)
(* Local sessions and the tmux sessions they run in: what a load traces    *)
(* (ResolveTmuxByPID) or guesses (Merge), what resume and rename do with   *)
(* it, and where `tsession new` opens a session, while the user opens,     *)
(* closes and renames tmux sessions and starts and stops agents.  A tmux   *)
(* session has one pane here.  Those of web terminals are filtered out of  *)
(* every list and left out.  Names do not begin one another.               *)
(***************************************************************************)
EXTENDS Naturals

CONSTANTS Agent,    (* sessions of an agent                                 *)
          Name,     (* names of tmux sessions                               *)
          Dir,      (* directories                                          *)
          CwdOf,    (* where each agent works                               *)
          BaseOf,   (* the name a directory gives a tmux session            *)
          Suffixed, (* names with -2, -3 and so on after each               *)
          None,
          Climb,    (* bound of the code: how far up a process is traced    *)
          MaxPane,  (* bound: panes opened                                  *)
          MaxPid    (* bound: agents started                                *)

(* Assumed where the module is instantiated.                               *)
PanesAssumption ==
    /\ CwdOf \in [Agent -> Dir]
    /\ BaseOf \in [Dir -> Name] /\ Suffixed \in [Name -> SUBSET Name]
    /\ None \notin Agent \cup Name \cup Dir
    /\ Climb \in Nat /\ MaxPane \in Nat /\ MaxPid \in Nat

VARIABLES
    tmux,    (* the pane and the path of the tmux session of each name      *)
    agent,   (* each agent's process, its pane and depth, and its lock file *)
    load,    (* one load of the session list                                *)
    new,     (* one `tsession new`                                          *)
    act,     (* history: a resume, rename or new just done, the pane it hit,*)
             (* and whether its target had stayed the pane it was meant for *)
    born     (* history: panes and agents so far                            *)

vars == <<tmux, agent, load, new, act, born>>

-----------------------------------------------------------------------------
Closed == [pane |-> 0, path |-> None]

Off == [pid |-> 0, pane |-> 0, depth |-> 0, lock |-> 0]

Resting == [pc |-> "idle", pid |-> [a \in Agent |-> 0], listed |-> [n \in Name |-> Closed],
            panes |-> [n \in Name |-> 0], name |-> [a \in Agent |-> None],
            target |-> [a \in Agent |-> None]]

Idle == [pc |-> "idle", dir |-> None, name |-> None, pane |-> 0]

Nothing == [what |-> "none", by |-> None, pane |-> 0, kept |-> TRUE]

TmuxSession == [pane : 0..MaxPane, path : Dir \cup {None}]

Running == [pid : 0..MaxPid, pane : 0..MaxPane, depth : 0..Climb, lock : 0..MaxPid]

Load == [pc : {"idle", "sessions", "panes", "merge", "done"}, pid : [Agent -> 0..MaxPid],
         listed : [Name -> TmuxSession], panes : [Name -> 0..MaxPane],
         name : [Agent -> Name \cup {None}], target : [Agent -> Name \cup {None}]]

New == [pc : {"idle", "list", "create", "switch"}, dir : Dir \cup {None}, name : Name \cup {None},
        pane : 0..MaxPane]

TypeOK ==
    /\ tmux \in [Name -> TmuxSession]
    /\ agent \in [Agent -> Running]
    /\ load \in Load
    /\ new \in New
    /\ act \in [what : {"none", "resume", "rename", "new"}, by : Agent \cup Dir \cup {None},
                pane : 0..MaxPane, kept : BOOLEAN]
    /\ born \in [panes : 0..MaxPane, pids : 0..MaxPid]

Init ==
    /\ tmux = [n \in Name |-> Closed]
    /\ agent = [a \in Agent |-> Off]
    /\ load = Resting /\ new = Idle /\ act = Nothing
    /\ born = [panes |-> 0, pids |-> 0]

Up(n) == tmux[n].pane > 0

-----------------------------------------------------------------------------
(* The user and the agents.                                                *)
Opened(n, d) ==
    /\ ~ Up(n) /\ born.panes < MaxPane
    /\ tmux' = [tmux EXCEPT ![n] = [pane |-> born.panes + 1, path |-> d]]
    /\ born' = [born EXCEPT !.panes = @ + 1]

Open(n, d) == Opened(n, d) /\ UNCHANGED <<agent, load, new>> /\ act' = Nothing

(* What ran in the pane goes down with it, without tidying up.             *)
Close(n) ==
    /\ Up(n)
    /\ tmux' = [tmux EXCEPT ![n] = Closed]
    /\ agent' = [a \in Agent |-> IF agent[a].pane = tmux[n].pane
                                 THEN [Off EXCEPT !.lock = agent[a].lock] ELSE agent[a]]
    /\ UNCHANGED <<load, new, born>> /\ act' = Nothing

Launch(a, n, depth) ==
    /\ agent[a].pid = 0 /\ Up(n) /\ born.pids < MaxPid
    /\ agent' = [agent EXCEPT ![a] = [pid |-> born.pids + 1, pane |-> tmux[n].pane,
                                      depth |-> depth, lock |-> born.pids + 1]]
    /\ born' = [born EXCEPT !.pids = @ + 1]
    /\ UNCHANGED <<tmux, load, new>> /\ act' = Nothing

Quit(a) ==
    /\ agent[a].pid > 0
    /\ agent' = [agent EXCEPT ![a] = Off]
    /\ UNCHANGED <<tmux, load, new, born>> /\ act' = Nothing

Renamed(m, n) ==
    IF ~ Up(m) \/ (Up(n) /\ m # n) THEN tmux' = tmux
    ELSE tmux' = [k \in Name |-> IF k = n THEN tmux[m] ELSE IF k = m THEN Closed ELSE tmux[k]]

-----------------------------------------------------------------------------
(* One load: the pids of the lock files, the tmux sessions, the panes, ps. *)
readInusePID ==
    /\ load.pc = "idle"
    /\ load' = [load EXCEPT !.pc = "sessions", !.pid = [a \in Agent |-> agent[a].lock]]
    /\ act' = Nothing
    /\ UNCHANGED <<tmux, agent, new, born>>

ListSessions ==
    /\ load.pc = "sessions"
    /\ load' = [load EXCEPT !.pc = "panes", !.listed = tmux]
    /\ UNCHANGED <<tmux, agent, new, born>> /\ act' = Nothing

(* A failure leaves every session without a target.                        *)
ListPanes ==
    /\ load.pc = "panes"
    /\ \E ok \in BOOLEAN :
         load' = [load EXCEPT !.pc = "merge",
                              !.panes = [n \in Name |-> IF ok THEN tmux[n].pane ELSE 0]]
    /\ UNCHANGED <<tmux, agent, new, born>> /\ act' = Nothing

(* Merge: by path, of several the one listed last, or by name.             *)
ByCwd(a) ==
    LET rooted == {n \in Name : load.listed[n].pane > 0 /\ load.listed[n].path = CwdOf[a]}
        base == BaseOf[CwdOf[a]]
    IN  IF rooted # {} THEN rooted
        ELSE IF load.listed[base].pane > 0 THEN {base} ELSE {None}

(* The listed pane of which the process of that pid is a descendant now.   *)
walkToPane(a) ==
    IF load.pid[a] = 0 \/ agent[a].pid # load.pid[a] \/ agent[a].depth >= Climb THEN {None}
    ELSE LET traced == {n \in Name : load.panes[n] = agent[a].pane}
         IN  IF traced = {} THEN {None} ELSE traced

Merge ==
    /\ load.pc = "merge"
    /\ \E guess, target \in [Agent -> Name \cup {None}] :
         /\ \A a \in Agent : guess[a] \in ByCwd(a) /\ target[a] \in walkToPane(a)
         /\ load' = [load EXCEPT !.pc = "done", !.target = target, !.listed = Resting.listed,
                       !.name = [a \in Agent |-> IF guess[a] = None THEN target[a] ELSE guess[a]]]
    /\ UNCHANGED <<tmux, agent, new, born>> /\ act' = Nothing

Loaded == load.pc = "done" /\ load' = Resting /\ act' = Nothing /\ UNCHANGED <<tmux, agent, new, born>>

-----------------------------------------------------------------------------
SwitchTarget_nameFirst(a) == IF load.name[a] # None THEN load.name[a] ELSE load.target[a]

SwitchTarget(a) == IF load.target[a] # None THEN load.target[a] ELSE load.name[a]

(* switch-client fails for a session that is gone.                         *)
Resume(a) ==
    /\ load.pc = "done" /\ SwitchTarget(a) # None
    /\ LET n == SwitchTarget(a)
       IN  act' = IF Up(n) THEN [what |-> "resume", by |-> a, pane |-> tmux[n].pane,
                                  kept |-> tmux[n].pane = load.panes[n]] ELSE Nothing
    /\ UNCHANGED <<tmux, agent, load, new, born>>

(* `tsession rename` and the web UI's rename, which carries the tmux       *)
(* session along; a name that is taken is refused.                         *)
Rename(a, n) ==
    /\ load.pc = "done" /\ load.name[a] # None
    /\ Renamed(load.name[a], n)
    /\ act' = [what |-> "rename", by |-> a, pane |-> tmux[load.name[a]].pane, kept |-> TRUE]
    /\ UNCHANGED <<agent, load, new, born>>

-----------------------------------------------------------------------------
NewIn(d) ==
    /\ new.pc = "idle"
    /\ new' = [Idle EXCEPT !.pc = "list", !.dir = d]
    /\ act' = Nothing
    /\ UNCHANGED <<tmux, agent, load, born>>

(* The session that is to be resumed, or a free name to create one under:  *)
(* the desired one if that is free.                                        *)
ResolveSessionName_byName(d) ==
    {[name |-> BaseOf[d], start |-> ~ Up(BaseOf[d])]}

ResolveSessionName(d) ==
    LET rooted == {n \in Name : Up(n) /\ tmux[n].path = d}
        free == {n \in {BaseOf[d]} \cup Suffixed[BaseOf[d]] : ~ Up(n)}
    IN  IF rooted # {} THEN [name : rooted, start : {FALSE}]
        ELSE [name : IF BaseOf[d] \in free THEN {BaseOf[d]} ELSE free, start : {TRUE}]

(* When the sessions cannot be listed, none counts as there.               *)
ListForNew ==
    /\ new.pc = "list"
    /\ \E r \in ResolveSessionName(new.dir) \cup {[name |-> BaseOf[new.dir], start |-> TRUE]} :
         new' = [new EXCEPT !.pc = IF r.start THEN "create" ELSE "switch",
                            !.name = r.name, !.pane = tmux[r.name].pane]
    /\ UNCHANGED <<tmux, agent, load, born>> /\ act' = Nothing

(* new-session refuses a name that has been taken since.                   *)
NewSession ==
    /\ new.pc = "create"
    /\ IF Up(new.name) THEN new' = Idle /\ UNCHANGED <<tmux, born>>
       ELSE Opened(new.name, new.dir) /\ new' = [new EXCEPT !.pc = "switch", !.pane = born'.panes]
    /\ UNCHANGED <<agent, load>> /\ act' = Nothing

SwitchToNew ==
    /\ new.pc = "switch"
    /\ act' = IF Up(new.name) THEN [what |-> "new", by |-> new.dir, pane |-> tmux[new.name].pane,
                                    kept |-> tmux[new.name].pane = new.pane] ELSE Nothing
    /\ new' = Idle
    /\ UNCHANGED <<tmux, agent, load, born>>
-----------------------------------------------------------------------------
Next ==
    \/ \E n \in Name : Close(n) \/ \E d \in Dir : Open(n, d)
    \/ \E a \in Agent : Quit(a) \/ Resume(a)
    \/ \E a \in Agent, n \in Name : Rename(a, n) \/ \E depth \in 0..Climb : Launch(a, n, depth)
    \/ readInusePID \/ ListSessions \/ ListPanes \/ Merge \/ Loaded
    \/ (\E d \in Dir : NewIn(d)) \/ ListForNew \/ NewSession \/ SwitchToNew

Spec == Init /\ [][Next]_vars

-----------------------------------------------------------------------------
(* The agent of a session whose process was traced, and still runs.        *)
Traced(a) == load.target[a] # None /\ agent[a].pid = load.pid[a] /\ agent[a].pid > 0

(* Resuming a session that was traced shows the pane its agent runs in,    *)
(* even if other tmux sessions have its directory or its name, as long as  *)
(* the traced one has not been closed or renamed since the panes were      *)
(* listed.                                                                 *)
ResumeReachesAgent ==
    act.what = "resume" /\ act.kept /\ Traced(act.by) => act.pane = agent[act.by].pane

(* `tsession new` ends up in a tmux session of the directory it was called *)
(* for, whatever has that directory's name, unless the user closed or      *)
(* renamed the session it had chosen.                                      *)
NewLandsInPlace ==
    act.what = "new" /\ act.kept => \A n \in Name : tmux[n].pane = act.pane => tmux[n].path = act.by

(* README.md:485: "When a matching local tmux session exists, it is renamed*)
(* too", and by README.md:168 the match is the pane the agent's pid is     *)
(* traced to, a directory only a fallback: renaming a session that was     *)
(* traced renames no tmux session but the one its agent runs in.           *)
RenamesOwn ==
    act.what = "rename" /\ act.pane > 0 /\ Traced(act.by) => act.pane = agent[act.by].pane

-----------------------------------------------------------------------------
(* Why the first two hold: no pane and no process is ever numbered as an   *)
(* earlier one, so that the pane a process was traced to stays its own,    *)
(* and the pane `tsession new` chose keeps its directory.                  *)
PanesNumbered ==
    /\ \A m, n \in Name : Up(m) /\ tmux[m].pane = tmux[n].pane => m = n
    /\ \A n \in Name : tmux[n].pane <= born.panes
    /\ new.pane <= born.panes

PidsNumbered == \A a \in Agent : agent[a].lock <= born.pids /\ load.pid[a] <= born.pids

TracedToPane ==
    load.pc = "done" =>
       \A a \in Agent : Traced(a) => load.panes[load.target[a]] = agent[a].pane

InPlace(pane, d) == \A n \in Name : tmux[n].pane = pane => tmux[n].path = d

NewChosen ==
    /\ new.pc # "idle" => new.dir \in Dir
    /\ new.pc \in {"create", "switch"} => new.name \in Name
    /\ new.pc = "switch" => new.pane > 0 /\ InPlace(new.pane, new.dir)

IInv ==
    /\ TypeOK /\ PanesNumbered /\ PidsNumbered /\ TracedToPane /\ NewChosen
    /\ ResumeReachesAgent /\ NewLandsInPlace
=============================================================================
