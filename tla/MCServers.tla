----------------------------- MODULE MCServers ------------------------------
(***************************************************************************)
(* Model-checking instance of Servers, and of CodeProxy beside it: the     *)
(* editors that the handlers of a server start, poll, stop and proxy to.   *)
(***************************************************************************)
EXTENDS Servers, TLC

CONSTANTS EditorKey, Instance

VARIABLES slot, owner, phase, leaving, codeKeys, codeTransports, proxied

editorVars == <<slot, owner, phase, leaving, codeKeys, codeTransports, proxied>>

C == INSTANCE CodeProxy WITH Key <- EditorKey, req <- proxied

ASSUME EditorsAssumption == C!CodeProxyAssumption

(* CodeProxy.tla: a proxied request dials its own session's server only.   *)
DialsOwnServer == C!DialsOwnServer

-----------------------------------------------------------------------------
MCInit == ServersInit /\ C!Init

MCNext ==
    \/ ServersNext /\ UNCHANGED editorVars
    \/ /\ part = "editors" /\ C!Next
       /\ UNCHANGED <<vars, serverVars, watchVars, part>>

MCSpec == MCInit /\ [][MCNext]_<<vars, serverVars, watchVars, part, editorVars>>

-----------------------------------------------------------------------------
(* Launches are interchangeable, and so are requests and servers.          *)
Symmetry ==
    Permutations(Terminal) \cup Permutations(Request) \cup Permutations(Server)
=============================================================================
