------------------------------ MODULE Commands ------------------------------
(***************************************************************************)
(* RepoNames, Bridge, Panes and Names side by side: what commands in       *)
(* processes of their own share.  The four have no state in common: a      *)
(* behaviour is one of one of them, the others rest.                       *)
(***************************************************************************)
EXTENDS RepoNames

CONSTANT Parts    (* the parts of which behaviours are considered           *)

ASSUME PartsAssumption == Parts \subseteq {"aliases", "bridges", "panes", "names"}

-----------------------------------------------------------------------------
(* Resumes of remote sessions.                                             *)
CONSTANTS Caller, Session, Origin, OriginOf, BridgeName, Primary, Alternate, MaxTrouble

VARIABLES bridge, resume, given, odd, trouble

bridgeVars == <<bridge, resume, given, odd, trouble>>

B == INSTANCE Bridge WITH Name <- BridgeName, call <- resume

ASSUME BridgesAssumption == B!BridgeAssumption

(* Bridge.tla: whoever is given a bridge is given one of its own session.  *)
GivenIsOwn == B!GivenIsOwn

(* Bridge.tla: no resume takes a live bridge down, or restarts another's.  *)
AliveIsLeftAlone == B!AliveIsLeftAlone

-----------------------------------------------------------------------------
(* Agents and the tmux sessions they run in.                               *)
CONSTANTS Agent, TmuxName, Dir, CwdOf, BaseOf, Suffixed, Climb, MaxPane, MaxPid

VARIABLES tmux, runs, tracing, new, act, born

paneVars == <<tmux, runs, tracing, new, act, born>>

P == INSTANCE Panes WITH Name <- TmuxName, agent <- runs, load <- tracing

ASSUME TracingAssumption == P!PanesAssumption

(* Panes.tla: resuming a traced session shows the pane of its agent.       *)
ResumeReachesAgent == P!ResumeReachesAgent

(* Panes.tla: `tsession new` ends up in its directory.                     *)
NewLandsInPlace == P!NewLandsInPlace

(* Panes.tla: renaming a traced session renames the tmux session it is in. *)
RenamesOwn == P!RenamesOwn

-----------------------------------------------------------------------------
(* The display names of sessions.                                          *)
CONSTANTS Setter, SetterOf, Display, Empty

VARIABLES file, setMu, setter, stored, harm

nameVars == <<file, setMu, setter, stored, harm>>

N == INSTANCE Names WITH
         Writer <- Setter, ProcessOf <- SetterOf, Key <- Session, Name <- Display,
         mu <- setMu, call <- setter

ASSUME SettersAssumption == N!NamesAssumption

(* Names.tla: while nobody is in Set, the file has the names last set, and *)
(* a Set about to return has its own in it.                                *)
NamesPersist == N!NamesPersist

-----------------------------------------------------------------------------
VARIABLE part

commandVars == <<vars, bridgeVars, paneVars, nameVars, part>>

CommandsInit == Init /\ B!Init /\ P!Init /\ N!Init /\ part \in Parts

CommandsNext ==
    /\ \/ part = "aliases" /\ Next /\ UNCHANGED <<bridgeVars, paneVars, nameVars>>
       \/ part = "bridges" /\ B!Next /\ UNCHANGED <<vars, paneVars, nameVars>>
       \/ part = "panes" /\ P!Next /\ UNCHANGED <<vars, bridgeVars, nameVars>>
       \/ part = "names" /\ N!Next /\ UNCHANGED <<vars, bridgeVars, paneVars>>
    /\ UNCHANGED part

CommandsSpec == CommandsInit /\ [][CommandsNext]_commandVars

(* The types of the part that runs, and: whoever is past a process's mutex *)
(* in Names is alone there.                                                *)
TypesHold ==
    CASE part = "aliases" -> TypeOK
      [] part = "bridges" -> B!TypeOK
      [] part = "panes" -> P!TypeOK
      [] part = "names" -> N!Serialised
=============================================================================
