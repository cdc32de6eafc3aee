----------------------------- MODULE CodeProxy ------------------------------
(***************************************************************************)
(* internal/webui/code.go over the code server registry: the handlers that *)
(* start, poll, stop and proxy to a session's VS Code server.  They share  *)
(* the registry with two maps under codeKeysMu: which URL keys are known,  *)
(* and the http.Transport cached for each, whose dial function captured    *)
(* the instance it was created for.  Handlers run concurrently, and each   *)
(* takes the two locks one after the other, never together.                *)
(*                                                                         *)
(* A session and the URL key codecmd.Key hashes it to are one value here.  *)
(* A request that cannot be resolved to a session, has no configuration or *)
(* no launch command changes nothing and is left out.                      *)
(***************************************************************************)
EXTENDS CodeSlots

CONSTANTS Request    (* concurrent HTTP requests                            *)

(* Assumed where the module is instantiated.                               *)
CodeProxyAssumption == None \notin Key /\ None \notin Instance

VARIABLES
    codeKeys,        (* domain of Server.codeKeys                           *)
    codeTransports,  (* Server.codeTransports: the instance each one dials  *)
    req              (* the requests being handled                          *)

proxyVars == <<slotVars, codeKeys, codeTransports, req>>

Op == {"start", "status", "stop", "proxy"}
Pc == {"idle", "registry", "register", "closing", "unregister", "get",
       "transport", "dial"}

TypeOK ==
    /\ SlotTypeOK
    /\ codeKeys \in SUBSET Key
    /\ codeTransports \in [Key -> Instance \cup {None}]
    /\ req \in [Request -> [op : Op, pc : Pc, key : Key \cup {None},
                            inst : Instance \cup {None}]]

Idle == [op |-> "status", pc |-> "idle", key |-> None, inst |-> None]

Init ==
    /\ SlotInit
    /\ codeKeys = {}
    /\ codeTransports = [k \in Key |-> None]
    /\ req = [r \in Request |-> Idle]

-----------------------------------------------------------------------------
At(r, op, pc) == req[r].op = op /\ req[r].pc = pc

Goto(r, pc, i) == req' = [req EXCEPT ![r].pc = pc, ![r].inst = i]

Answer(r) == req' = [req EXCEPT ![r] = Idle]

(* A request for session k comes in.                                       *)
Arrive(r, op, k) ==
    /\ req[r].pc = "idle"
    /\ req' = [req EXCEPT ![r] = [op |-> op, pc |-> "registry", key |-> k,
                                  inst |-> None]]
    /\ UNCHANGED <<slotVars, codeKeys, codeTransports>>

(* handleCodeServerStart: Registry.Start launches or reuses.               *)
StartLaunch(r, i) ==
    /\ At(r, "start", "registry")
    /\ Launch(req[r].key, i)
    /\ Goto(r, "register", i)
    /\ UNCHANGED <<codeKeys, codeTransports>>

(* The process cannot be spawned: the map keeps what it has, status 500.   *)
StartFails(r) ==
    /\ At(r, "start", "registry")
    /\ Vacant(req[r].key)
    /\ Answer(r)
    /\ UNCHANGED <<slotVars, codeKeys, codeTransports>>

StartReuse(r) ==
    /\ At(r, "start", "registry")
    /\ ~ Vacant(req[r].key)
    /\ Goto(r, "register", slot[req[r].key])
    /\ UNCHANGED <<slotVars, codeKeys, codeTransports>>

(* handleCodeServerStatus: Registry.Get.                                   *)
StatusGet(r) ==
    /\ At(r, "status", "registry")
    /\ IF slot[req[r].key] = None
       THEN Answer(r)
       ELSE Goto(r, "register", slot[req[r].key])
    /\ UNCHANGED <<slotVars, codeKeys, codeTransports>>

(* registerCodeKey, called by start and status, and the answer.            *)
Register(r) ==
    /\ req[r].pc = "register"
    /\ codeKeys' = codeKeys \cup {req[r].key}
    /\ Answer(r)
    /\ UNCHANGED <<slotVars, codeTransports>>

(* handleCodeServerStop: Registry.Stop takes the instance out ...          *)
StopTakeOut(r) ==
    /\ At(r, "stop", "registry")
    /\ \/ /\ TakeOut(req[r].key)
          /\ Goto(r, "closing", slot[req[r].key])
       \/ /\ slot[req[r].key] = None
          /\ Goto(r, "unregister", None)
          /\ UNCHANGED slotVars
    /\ UNCHANGED <<codeKeys, codeTransports>>

(* ... waits for close, which takes at least until it is marked stopped,   *)
StopClosed(i) == phase[i] = "stopped"

StopWait(r) ==
    /\ req[r].pc = "closing"
    /\ StopClosed(req[r].inst)
    /\ Goto(r, "unregister", None)
    /\ UNCHANGED <<slotVars, codeKeys, codeTransports>>

(* ... and only then forgets the key and its transport.                    *)
Unregister(r) ==
    /\ req[r].pc = "unregister"
    /\ codeKeys' = codeKeys \ {req[r].key}
    /\ codeTransports' = [codeTransports EXCEPT ![req[r].key] = None]
    /\ Answer(r)
    /\ UNCHANGED slotVars

(* handleCodeProxy: the key, under codeKeysMu.                             *)
ProxyLookup(r) ==
    /\ At(r, "proxy", "registry")
    /\ IF req[r].key \in codeKeys THEN Goto(r, "get", None) ELSE Answer(r)
    /\ UNCHANGED <<slotVars, codeKeys, codeTransports>>

(* Its instance, under r.mu.                                               *)
ProxyGet(r) ==
    /\ req[r].pc = "get"
    /\ IF slot[req[r].key] = None
       THEN Answer(r)
       ELSE Goto(r, "transport", slot[req[r].key])
    /\ UNCHANGED <<slotVars, codeKeys, codeTransports>>

CachedUnder_host(k) ==
    IF \E j \in Key : codeTransports[j] # None
    THEN codeTransports[CHOOSE j \in Key : codeTransports[j] # None]
    ELSE None

(* The transport codeTransportFor finds under key k.                       *)
CachedUnder(k) == codeTransports[k]

(* codeTransportFor, under codeKeysMu again: a cached transport keeps      *)
(* dialing the instance it was made for, whatever was just looked up.      *)
ProxyTransport(r) ==
    /\ req[r].pc = "transport"
    /\ LET k == req[r].key IN
       \/ /\ CachedUnder(k) # None
          /\ Goto(r, "dial", CachedUnder(k))
          /\ UNCHANGED codeTransports
       \/ /\ CachedUnder(k) = None
          /\ codeTransports' = [codeTransports EXCEPT ![k] = req[r].inst]
          /\ Goto(r, "dial", req[r].inst)
    /\ UNCHANGED <<slotVars, codeKeys>>

(* Instance.Dial fails unless the instance is running; either way the      *)
(* request is answered.                                                    *)
ProxyDial(r) ==
    /\ req[r].pc = "dial"
    /\ Answer(r)
    /\ UNCHANGED <<slotVars, codeKeys, codeTransports>>

-----------------------------------------------------------------------------
Handle(r) ==
    \/ \E i \in Instance : StartLaunch(r, i)
    \/ StartFails(r) \/ StartReuse(r) \/ StatusGet(r) \/ Register(r)
    \/ StopTakeOut(r) \/ StopWait(r) \/ Unregister(r)
    \/ ProxyLookup(r) \/ ProxyGet(r) \/ ProxyTransport(r) \/ ProxyDial(r)

(* What instances do by themselves, and the server's final Shutdown.       *)
RegistryStep ==
    /\ TakeOutAll \/ \E i \in Instance : Settle(i) \/ Retire(i)
    /\ UNCHANGED <<codeKeys, codeTransports, req>>

Next ==
    \/ \E r \in Request, op \in Op, k \in Key : Arrive(r, op, k)
    \/ \E r \in Request : Handle(r)
    \/ RegistryStep

Spec == Init /\ [][Next]_proxyVars

-----------------------------------------------------------------------------
(* A stale transport can only fail: if the instance a proxied request      *)
(* dials is running, then it belongs to the request's session and is the   *)
(* one registered for it, or is about to be stopped.  No interleaving of   *)
(* handlers sends a browser to another session's editor or to a            *)
(* predecessor that lives on beside the registered one.                    *)
DialsOwnServer ==
    \A r \in Request :
        LET i == req[r].inst IN
        req[r].pc = "dial" /\ phase[i] = "running" =>
            /\ owner[i] = req[r].key
            /\ slot[req[r].key] = i \/ i \in leaving

(* Why: what is running is in its slot or on its way out, and whatever a   *)
(* handler or a cached transport holds for a session was launched for it.  *)
SlotsAgree ==
    /\ \A i \in Instance : phase[i] = "unborn" <=> owner[i] = None
    /\ \A k \in Key : slot[k] # None => owner[slot[k]] = k
    /\ \A i \in leaving : owner[i] # None
    /\ \A i \in Instance : Live(i) => slot[owner[i]] = i \/ i \in leaving

HoldersAgree ==
    /\ \A k \in Key : codeTransports[k] # None => owner[codeTransports[k]] = k
    /\ \A r \in Request :
           /\ req[r].pc # "idle" => req[r].key \in Key
           /\ req[r].pc \in {"transport", "dial"} =>
                  req[r].inst \in Instance /\ owner[req[r].inst] = req[r].key

IInv == TypeOK /\ SlotsAgree /\ HoldersAgree

(* registerCodeKey, code.go: "Also drops any cached proxy Transport for    *)
(* key so a restarted instance gets a fresh connection pool rather than    *)
(* reusing one dialing a now-dead process."  Contradicted: only            *)
(* unregisterCodeKey drops it, so after an instance fails and is started   *)
(* again every proxied request dials the dead one.                         *)
RegisterDropsStaleTransport ==
    [][\A r \in Request :
          Register(r) => codeTransports'[req[r].key] \in {None, req[r].inst}]_proxyVars
=============================================================================
