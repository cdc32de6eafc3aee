----------------------------- MODULE Discovery ------------------------------
(***************************************************************************)
(* TermStream, EventLog, RemotePanes and Remotes side by side: what is     *)
(* read piece by piece while it goes on, the output of a terminal, the log *)
(* of an agent, the panes that show remotes, and the remotes.  They have   *)
(* no state in common: a behaviour is one of one of them, the others rest. *)
(***************************************************************************)
EXTENDS TermStream

CONSTANTS Parts,   (* the parts of which behaviours are considered           *)
          None

ASSUME PartsAssumption == Parts \subseteq {"stream", "log", "panes", "remotes"}

-----------------------------------------------------------------------------
(* One session of one agent.                                               *)
CONSTANTS MaxSeen, MaxOpen

VARIABLES tail, agent, files, load, been

logVars == <<tail, agent, files, load, been>>

E == INSTANCE EventLog

ASSUME LogAssumption == E!EventLogAssumption

(* EventLog.tla: the log of an agent tells what it is at.                  *)
LogTells == E!LogTells

(* EventLog.tla: a load reports something the session has been meanwhile,  *)
(* unless the log it reads cannot tell, as after a kill or a resumption.   *)
ReportIsTrue == E!ReportIsTrue

-----------------------------------------------------------------------------
(* Sessions of remotes, and the local panes that may show them.            *)
CONSTANTS Home, RSession, HomeOf, Matches, Alike, Panes

VARIABLES pane, find

paneVars == <<pane, find>>

Q == INSTANCE RemotePanes WITH Remote <- Home

ASSUME PanesAssumption == Q!RemotePanesAssumption

(* RemotePanes.tla: no pane is given to two sessions.                      *)
RemotePanesAreOwn == Q!RemotePanesAreOwn

-----------------------------------------------------------------------------
(* Processes that fetch from the remotes.                                  *)
CONSTANTS Fetcher, Remote, InPath, MaxCheck

VARIABLES call, result, record, script, host, answered, overlap, checks

fetchVars == <<call, result, record, script, host, answered, overlap, checks>>

F == INSTANCE Remotes

ASSUME FetchAssumption == F!RemotesAssumption

(* Remotes.tla: every remote is listed or warned about.                    *)
EveryRemoteAccounted == F!EveryRemoteAccounted

(* Remotes.tla: what runs on a remote is a whole binary.                   *)
RunsWholeBinary == F!RunsWholeBinary

-----------------------------------------------------------------------------
VARIABLE part

DiscoveryInit ==
    /\ Init /\ E!Init /\ Q!Init /\ F!Init
    /\ part \in Parts

DiscoveryNext ==
    /\ \/ part = "stream" /\ Next /\ UNCHANGED <<logVars, paneVars, fetchVars>>
       \/ part = "log" /\ E!Next /\ UNCHANGED <<vars, paneVars, fetchVars>>
       \/ part = "panes" /\ Q!Next /\ UNCHANGED <<vars, logVars, fetchVars>>
       \/ part = "remotes" /\ F!Next /\ UNCHANGED <<vars, logVars, paneVars>>
    /\ UNCHANGED part

DiscoverySpec == DiscoveryInit /\ [][DiscoveryNext]_<<vars, logVars, paneVars, fetchVars, part>>

(* The types of the part that runs.                                        *)
TypesHold ==
    CASE part = "stream" -> TypeOK
      [] part = "log" -> E!TypeOK
      [] part = "panes" -> Q!TypeOK
      [] part = "remotes" -> F!TypeOK
=============================================================================
