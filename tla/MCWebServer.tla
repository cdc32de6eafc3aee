---------------------------- MODULE MCWebServer -----------------------------
(***************************************************************************)
(* Model-checking instance of SessionCache and WebTerm for what the web    *)
(* server promises to do in the end: the list of sessions catches up, and  *)
(* requests for a terminal are served.  A behaviour is one of either; the  *)
(* state of the other rests.                                               *)
(***************************************************************************)
EXTENDS SessionCache

CONSTANTS Key, LocalKey, Terminal, Request, None

VARIABLES terms, keyOf, child, closed, stuck, web, rmu, localTermMu, req, server

termVars == <<terms, keyOf, child, closed, stuck, web, rmu, localTermMu, req, server>>

W == INSTANCE WebTerm

(* WebTerm.tla: whoever asks for a terminal is answered.                   *)
RequestsServed == W!RequestsServed

-----------------------------------------------------------------------------
VARIABLE part

In(name, A) == part = name /\ A

MCInit == Init /\ W!Init /\ part \in {"cache", "terminals"}

MCNext ==
    /\ \/ In("cache", Next) /\ UNCHANGED termVars
       \/ In("terminals", W!Next) /\ UNCHANGED vars
    /\ UNCHANGED part

(* Nothing of WebTerm that is fair can happen before a browser connects.   *)
CacheFairness ==
    /\ \A c \in Caller : WF_vars(In("cache", Get(c))) /\ WF_vars(In("cache", PatchName(c)))
    /\ \A b \in Refresher : WF_vars(In("cache", Refresh(b)))
    /\ WF_vars(In("cache", Tick))

MCSpec ==
    /\ MCInit
    /\ [][MCNext]_<<vars, termVars, part>>
    /\ CacheFairness /\ W!Fairness /\ W!Reading
=============================================================================
