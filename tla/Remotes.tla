------------------------------ MODULE Remotes -------------------------------
(***************************************************************************)
(* Fetching the sessions of all remotes: FetchAll, EnsureDaemonAndSnapshot *)
(* and EnsureRemoteBinary, in processes that share the update records in   *)
(* ~/.tsession/remote-update and each remote's installed binary, but no    *)
(* lock.  The installation is a shell script that runs on the remote: it   *)
(* goes on when the client that started it has given up.                   *)
(***************************************************************************)
EXTENDS Naturals

CONSTANTS Fetcher,  (* processes that fetch: watch, serve, list, resume     *)
          Remote,   (* configured remotes                                   *)
          InPath,   (* those with a tsession in their PATH                  *)
          None,
          MaxCheck  (* bound: how often a record gets older than a day      *)

(* Assumed where the module is instantiated.                               *)
RemotesAssumption == InPath \subseteq Remote /\ None \notin Fetcher /\ MaxCheck \in Nat

VARIABLES
    call,     (* where each fetch is with each remote                       *)
    result,   (* what FetchAll has gathered: the map and the warnings       *)
    record,   (* the update record of each remote, a local file             *)
    script,   (* the installation each fetch started on each remote         *)
    host,     (* the tarball and the binary there, and who unpacks it       *)
    answered, (* history: remotes whose list arrived in time                *)
    overlap,  (* history: remotes where an installation met another one, or *)
              (* a fetch that used what another one had installed           *)
    checks    (* history: how many records grew old                         *)

installed == <<script, host, overlap>>
vars == <<call, result, record, script, host, answered, overlap, checks>>

Bare == [tar |-> "none", bin |-> "none", by |-> None]

Phase == {"idle", "find", "load", "exists", "detect", "resolve", "install", "truncate", "write",
          "list", "ended"}

Result == [pc : {"idle", "fetching", "returned"}, out : SUBSET Remote, warned : SUBSET Remote]

TypeOK ==
    /\ call \in [Fetcher -> [Remote -> Phase]]
    /\ result \in [Fetcher -> Result]
    /\ record \in [Remote -> {"none", "fresh", "old", "torn"}]
    /\ script \in [Fetcher -> [Remote -> {"none", "curl", "tar", "unpack", "rm"}]]
    /\ host \in [Remote -> [tar : {"none", "partial", "whole"}, bin : {"none", "partial", "whole"},
                            by : Fetcher \cup {None}]]
    /\ answered \in [Fetcher -> SUBSET Remote]
    /\ overlap \subseteq Remote
    /\ checks \in 0..MaxCheck

Empty == [pc |-> "idle", out |-> {}, warned |-> {}]

Init ==
    /\ call = [f \in Fetcher |-> [r \in Remote |-> "idle"]]
    /\ result = [f \in Fetcher |-> Empty]
    /\ record = [r \in Remote |-> "none"]
    /\ script = [f \in Fetcher |-> [r \in Remote |-> "none"]]
    /\ host = [r \in Remote |-> Bare]
    /\ answered = [f \in Fetcher |-> {}]
    /\ overlap = {}
    /\ checks = 0

-----------------------------------------------------------------------------
(* A process that is done, or was stopped, may fetch again later; it is    *)
(* another process for as long as a script of its own still runs.          *)
FetchAll(f) ==
    /\ result[f].pc = "idle" /\ \A r \in Remote : script[f][r] = "none"
    /\ result' = [result EXCEPT ![f].pc = "fetching"]
    /\ call' = [call EXCEPT ![f] = [r \in Remote |-> "find"]]
    /\ answered' = [answered EXCEPT ![f] = {}]
    /\ UNCHANGED <<record, installed, checks>>

Ended_some(f) == \E r \in Remote : call[f][r] = "ended"

Ended(f) == \A r \in Remote : call[f][r] = "ended"

(* wg.Wait.                                                                *)
Return(f) ==
    /\ result[f].pc = "fetching" /\ Ended(f)
    /\ result' = [result EXCEPT ![f].pc = "returned"]
    /\ UNCHANGED <<call, record, installed, answered, checks>>

(* The caller goes on; or the process is stopped at any point.             *)
Leave(f) ==
    /\ result[f].pc # "idle"
    /\ result' = [result EXCEPT ![f] = Empty]
    /\ call' = [call EXCEPT ![f] = [r \in Remote |-> "idle"]]
    /\ UNCHANGED <<record, installed, answered, checks>>

Goes(f, r, pc) == call' = [call EXCEPT ![f][r] = pc]

Warned(f, r) ==
    /\ Goes(f, r, "ended")
    /\ result' = [result EXCEPT ![f].warned = @ \cup {r}]

(* Anything may fail, or take until the ten seconds of this remote are up. *)
Fails(f, r) ==
    /\ call[f][r] \notin {"idle", "ended"}
    /\ Warned(f, r)
    /\ UNCHANGED <<record, installed, answered, checks>>

-----------------------------------------------------------------------------
remoteBinaryInPath(f, r) ==
    /\ call[f][r] = "find"
    /\ Goes(f, r, IF r \in InPath THEN "list" ELSE "load")
    /\ UNCHANGED <<result, record, installed, answered, checks>>

(* A file that was left empty cannot be parsed, now or later.              *)
LoadUpdateState(f, r) ==
    /\ call[f][r] = "load"
    /\ IF record[r] = "torn" THEN Warned(f, r)
       ELSE Goes(f, r, IF record[r] = "fresh" THEN "exists" ELSE "detect") /\ UNCHANGED result
    /\ UNCHANGED <<record, installed, answered, checks>>

(* test -x holds of a binary that is still being unpacked, too.            *)
remoteBinaryExists(f, r) ==
    /\ call[f][r] = "exists"
    /\ Goes(f, r, IF host[r].bin = "none" THEN "detect" ELSE "list")
    /\ UNCHANGED <<result, record, installed, answered, checks>>

(* A remote of no supported runtime is warned about.                       *)
DetectRuntime(f, r) ==
    /\ call[f][r] = "detect"
    /\ (Goes(f, r, "resolve") /\ UNCHANGED result) \/ Warned(f, r)
    /\ UNCHANGED <<record, installed, answered, checks>>

(* The latest release: no caller names a tag.  It may have no asset for    *)
(* the runtime, or not be found.                                           *)
ResolveRelease(f, r) ==
    /\ call[f][r] = "resolve"
    /\ (Goes(f, r, "install") /\ UNCHANGED result) \/ Warned(f, r)
    /\ UNCHANGED <<record, installed, answered, checks>>

Uses(f, r) == call[f][r] \in {"exists", "install", "truncate", "write", "list"} \/ script[f][r] # "none"

InstallRemoteBinary(f, r) ==
    /\ call[f][r] = "install" /\ script[f][r] = "none"
    /\ script' = [script EXCEPT ![f][r] = "curl"]
    /\ host' = [host EXCEPT ![r].tar = "partial"]
    /\ overlap' = IF record[r] = "fresh" \/ \E g \in Fetcher \ {f} : Uses(g, r)
                  THEN overlap \cup {r} ELSE overlap
    /\ UNCHANGED <<call, result, record, answered, checks>>

(* SaveUpdateState: os.WriteFile empties the file, then writes it.         *)
Truncate(f, r) ==
    /\ call[f][r] = "truncate"
    /\ Goes(f, r, "write")
    /\ record' = [record EXCEPT ![r] = "torn"]
    /\ UNCHANGED <<result, installed, answered, checks>>

Write(f, r) ==
    /\ call[f][r] = "write"
    /\ Goes(f, r, "list")
    /\ record' = [record EXCEPT ![r] = "fresh"]
    /\ UNCHANGED <<result, installed, answered, checks>>

(* watch --daemon && list: a binary that is not whole fails.               *)
ListRemote(f, r) ==
    /\ call[f][r] = "list"
    /\ IF r \in InPath \/ host[r].bin = "whole"
       THEN /\ Goes(f, r, "ended")
            /\ result' = [result EXCEPT ![f].out = @ \cup {r}]
            /\ answered' = [answered EXCEPT ![f] = @ \cup {r}]
       ELSE Warned(f, r) /\ UNCHANGED answered
    /\ UNCHANGED <<record, installed, checks>>

GrowsOld(r) ==
    /\ record[r] = "fresh" /\ checks < MaxCheck
    /\ record' = [record EXCEPT ![r] = "old"]
    /\ checks' = checks + 1
    /\ UNCHANGED <<call, result, installed, answered>>

-----------------------------------------------------------------------------
(* installScript, under set -e, on the remote.                             *)
Step(f, r, from, to) == script[f][r] = from /\ script' = [script EXCEPT ![f][r] = to]

Others(f, r, pc) == \E g \in Fetcher \ {f} : script[g][r] = pc

(* The tarball has a hole as long as another curl writes it; it may have   *)
(* been removed meanwhile.                                                 *)
CurlEnds(f, r) ==
    /\ Step(f, r, "curl", "tar")
    /\ host' = [host EXCEPT ![r].tar = IF @ = "none" \/ Others(f, r, "curl") THEN @ ELSE "whole"]
    /\ UNCHANGED <<call, result, record, answered, overlap, checks>>

(* tar replaces the binary by a new file, which it then fills.             *)
TarBegins(f, r) ==
    /\ host[r].tar # "none"
    /\ Step(f, r, "tar", "unpack")
    /\ host' = [host EXCEPT ![r].bin = "partial", ![r].by = f]
    /\ UNCHANGED <<call, result, record, answered, overlap, checks>>

TarEnds(f, r) ==
    /\ host[r].tar # "partial"
    /\ Step(f, r, "unpack", "rm")
    /\ host' = [host EXCEPT ![r].bin = IF host[r].by = f THEN "whole" ELSE @,
                            ![r].by = IF @ = f THEN None ELSE @]
    /\ UNCHANGED <<call, result, record, answered, overlap, checks>>

(* rm and chmod; the client, if it is still there, goes on.                *)
ScriptEnds(f, r) ==
    /\ Step(f, r, "rm", "none")
    /\ host' = [host EXCEPT ![r].tar = "none"]
    /\ IF call[f][r] = "install" THEN Goes(f, r, "truncate") ELSE UNCHANGED call
    /\ UNCHANGED <<result, record, answered, overlap, checks>>

InstallFails_unnoticed(f, r) == Goes(f, r, "truncate") /\ UNCHANGED result

InstallFails(f, r) == Warned(f, r)

(* A failed curl or tar ends the script there, and the client.             *)
ScriptFails(f, r) ==
    /\ script[f][r] \in {"curl", "tar", "unpack"}
    /\ script' = [script EXCEPT ![f][r] = "none"]
    /\ host' = [host EXCEPT ![r].by = IF @ = f THEN None ELSE @]
    /\ IF call[f][r] = "install" THEN InstallFails(f, r) ELSE UNCHANGED <<call, result>>
    /\ UNCHANGED <<record, answered, overlap, checks>>

-----------------------------------------------------------------------------
Next ==
    \/ \E f \in Fetcher : FetchAll(f) \/ Return(f) \/ Leave(f)
    \/ \E f \in Fetcher, r \in Remote :
          \/ Fails(f, r) \/ remoteBinaryInPath(f, r) \/ LoadUpdateState(f, r)
          \/ remoteBinaryExists(f, r) \/ DetectRuntime(f, r) \/ ResolveRelease(f, r)
          \/ InstallRemoteBinary(f, r)
          \/ Truncate(f, r) \/ Write(f, r) \/ ListRemote(f, r)
          \/ CurlEnds(f, r) \/ TarBegins(f, r) \/ TarEnds(f, r)
          \/ ScriptEnds(f, r) \/ ScriptFails(f, r)
    \/ \E r \in Remote : GrowsOld(r)

Spec == Init /\ [][Next]_vars

-----------------------------------------------------------------------------
(* When FetchAll returns, every remote is either listed or warned about,   *)
(* and those are listed whose answer came before their own deadline:       *)
(* another remote's failure or timeout neither loses an answer nor passes  *)
(* off a remote as one without sessions.                                   *)
EveryRemoteAccounted ==
    \A f \in Fetcher :
       result[f].pc = "returned" =>
          result[f].out = answered[f] /\ result[f].warned = Remote \ answered[f]

(* A fetch that takes the recorded version for installed, or has just      *)
(* installed it, runs a whole binary, whatever failed, was given up or     *)
(* stopped before; only an installation that met another one, or a fetch   *)
(* that was using the binary, may leave it otherwise.                      *)
RunsWholeBinary ==
    \A f \in Fetcher, r \in Remote \ InPath :
       call[f][r] = "list" /\ r \notin overlap => host[r].bin = "whole"

(* Why: a fetch's result says of each remote what its goroutine has come   *)
(* to, from the start of the fetch on.                                     *)
Accounted ==
    \A f \in Fetcher :
       IF result[f].pc = "idle" THEN result[f] = Empty /\ \A r \in Remote : call[f][r] = "idle"
       ELSE /\ result[f].out = answered[f]
            /\ result[f].warned = {r \in Remote : call[f][r] = "ended"} \ answered[f]
            /\ \A r \in answered[f] : call[f][r] = "ended"
            /\ result[f].pc = "returned" => Ended(f)

(* Where no installation met another one or a user, one script at most     *)
(* runs, alone, and it has come to what it has done; a binary that is used *)
(* or recorded is whole and nobody works on it.                            *)
Trusted(r) ==
    \/ record[r] = "fresh"
    \/ \E f \in Fetcher : call[f][r] \in {"exists", "truncate", "write", "list"}

ScriptsApart ==
    \A r \in Remote \ (InPath \cup overlap) :
       /\ \A f, g \in Fetcher : script[f][r] # "none" /\ script[g][r] # "none" => f = g
       /\ \A f \in Fetcher : /\ script[f][r] = "unpack" => host[r].by = f
                             /\ script[f][r] = "rm" => host[r].bin = "whole"
       /\ Trusted(r) => host[r].bin = "whole" /\ \A f \in Fetcher : script[f][r] = "none"

IInv == TypeOK /\ Accounted /\ ScriptsApart
=============================================================================
