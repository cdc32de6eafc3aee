------------------------------- MODULE Bridge -------------------------------
(***************************************************************************)
(* Local bridges to remote sessions: ensureRemoteBridge and EnsureBridge,  *)
(* which `tsession resume` runs, against the one local tmux server.  Each  *)
(* tmux command is one step of the server; nothing holds several together, *)
(* so resumes from two clients, the panes and the user interleave.         *)
(***************************************************************************)
EXTENDS Naturals

CONSTANTS Caller,      (* resume processes                                  *)
          Session,     (* remote sessions                                   *)
          Origin,      (* remotes                                           *)
          OriginOf,    (* the remote of each session                        *)
          Name,        (* tmux session names                                *)
          Primary,     (* remoteBridgeName of each session                  *)
          Alternate,   (* remoteBridgeAlternateName                         *)
          None,
          MaxTrouble   (* bound: how often something of Oddity happens      *)

(* Assumed where the module is instantiated.                               *)
BridgeAssumption ==
    /\ OriginOf \in [Session -> Origin]
    /\ Primary \in [Session -> Name] /\ Alternate \in [Session -> Name]
    /\ \A s, t \in Session : /\ Primary[s] # Alternate[t]
                             /\ Alternate[s] = Alternate[t] => Primary[s] = Primary[t]
    /\ None \notin Session \cup Origin \cup Name
    /\ MaxTrouble \in Nat

VARIABLES
    bridge,  (* tmux sessions of these names: options and pane              *)
    call,    (* where each resume is, for which session, by which name      *)
    given,   (* history: names handed to a resume, not killed by the user   *)
    odd,     (* history: what has happened that resumes do not provide for  *)
    trouble  (* history: how much of it                                     *)

happened == <<odd, trouble>>
vars == <<bridge, call, given, happened>>

-----------------------------------------------------------------------------
Down == [up |-> FALSE, remain |-> FALSE, origin |-> None, id |-> None, pane |-> "dead"]

Fresh == [Down EXCEPT !.up = TRUE, !.pane = "shell"]

Resting == [pc |-> "idle", s |-> None, n |-> None, seen |-> None]

Creating == {"new", "remain", "origin", "id", "rollback"}
Reusing == {"has", "readOrigin", "readId", "pane"}

Oddity == {"overlap",  (* two resumes were at it at once                     *)
           "failed",   (* a tmux command failed                              *)
           "cutOff",   (* a resume was interrupted                           *)
           "killed",   (* the user killed a bridge                           *)
           "begins"}   (* one whose name begins that of another              *)

TmuxSession == [up : BOOLEAN, remain : BOOLEAN, origin : Origin \cup {None},
                id : Session \cup {None}, pane : {"shell", "command", "dead"}]

Call == [pc : {"idle", "respawn", "ok"} \cup Creating \cup Reusing, s : Session \cup {None},
         n : Name \cup {None}, seen : Origin \cup {None}]

TypeOK ==
    /\ bridge \in [Name -> TmuxSession]
    /\ call \in [Caller -> Call]
    /\ given \subseteq Name
    /\ odd \subseteq Oddity
    /\ trouble \in 0..MaxTrouble

Init ==
    /\ bridge = [n \in Name |-> Down]
    /\ call = [c \in Caller |-> Resting]
    /\ given = {}
    /\ odd = {}
    /\ trouble = 0

(* tmux takes -t for a name or, failing that, for the beginning of one: an *)
(* alternate name is the primary one with a suffix.                        *)
Longer(n) ==
    {m \in Name : bridge[m].up /\ \E s \in Session : Primary[s] = n /\ Alternate[s] = m}

Target(n) ==
    IF bridge[n].up THEN n
    ELSE IF \E m \in Name : Longer(n) = {m} THEN CHOOSE m \in Name : Longer(n) = {m} ELSE None

Missing(c) == Target(call[c].n) = None

Goes(c, pc) == call' = [call EXCEPT ![c].pc = pc]

Troubled(kinds) ==
    /\ trouble < MaxTrouble
    /\ trouble' = trouble + 1
    /\ odd' = odd \cup kinds

(* The resume reports an error and ends.                                   *)
Fails(c) == call' = [call EXCEPT ![c] = Resting]

-----------------------------------------------------------------------------
Resume(c, s) ==
    /\ call[c].pc = "idle"
    /\ call' = [call EXCEPT ![c] = [Resting EXCEPT !.pc = "has", !.s = s, !.n = Primary[s]]]
    /\ IF \A d \in Caller : call[d].pc = "idle" THEN UNCHANGED happened ELSE Troubled({"overlap"})
    /\ UNCHANGED <<bridge, given>>

HasSession(c) ==
    /\ call[c].pc = "has"
    /\ Goes(c, IF Missing(c) THEN "new" ELSE "readOrigin")
    /\ UNCHANGED <<bridge, given, happened>>

ReadOrigin(c) ==
    /\ call[c].pc = "readOrigin"
    /\ IF Missing(c) THEN Fails(c)
       ELSE call' = [call EXCEPT ![c].pc = "readId", ![c].seen = bridge[Target(call[c].n)].origin]
    /\ UNCHANGED <<bridge, given, happened>>

Mine_originOnly(s, origin, b) == origin = OriginOf[s]

Mine(s, origin, b) == origin = OriginOf[s] /\ b.id = s

(* A bridge of somebody else's: try the alternate name, then give up.      *)
Collides(c) ==
    IF call[c].n = Primary[call[c].s]
    THEN call' = [call EXCEPT ![c].pc = "has", ![c].n = Alternate[call[c].s], ![c].seen = None]
    ELSE Fails(c)

ReadId(c) ==
    /\ call[c].pc = "readId"
    /\ IF Missing(c) THEN Fails(c)
       ELSE IF Mine(call[c].s, call[c].seen, bridge[Target(call[c].n)]) THEN Goes(c, "pane")
       ELSE Collides(c)
    /\ UNCHANGED <<bridge, given, happened>>

Hands(c) == given' = given \cup {Target(call[c].n)}

PaneDead_always(b) == TRUE

PaneDead(b) == b.pane = "dead"

PaneState(c) ==
    /\ call[c].pc = "pane"
    /\ IF Missing(c) THEN Fails(c) /\ UNCHANGED given
       ELSE IF PaneDead(bridge[Target(call[c].n)]) THEN Goes(c, "respawn") /\ UNCHANGED given
       ELSE Goes(c, "ok") /\ Hands(c)
    /\ UNCHANGED <<bridge, happened>>

(* remain-on-exit, @tsession-origin, @tsession-session-id, then the start. *)
NextOption == [new |-> "remain", remain |-> "origin", origin |-> "id", id |-> "respawn"]

NewSession(c) ==
    /\ call[c].pc = "new"
    /\ ~ bridge[call[c].n].up
    /\ bridge' = [bridge EXCEPT ![call[c].n] = Fresh]
    /\ Goes(c, NextOption["new"])
    /\ UNCHANGED <<given, happened>>

(* new-session refuses a duplicate name, and may fail otherwise.           *)
NewSessionFails(c) ==
    /\ call[c].pc = "new"
    /\ Fails(c)
    /\ IF bridge[call[c].n].up THEN UNCHANGED happened ELSE Troubled({"failed"})
    /\ UNCHANGED <<bridge, given>>

WithOption_swapped(b, pc, s) ==
    CASE pc = "remain" -> [b EXCEPT !.remain = TRUE]
      [] pc = "origin" -> [b EXCEPT !.origin = s]
      [] pc = "id" -> [b EXCEPT !.id = OriginOf[s]]

WithOption(b, pc, s) ==
    CASE pc = "remain" -> [b EXCEPT !.remain = TRUE]
      [] pc = "origin" -> [b EXCEPT !.origin = OriginOf[s]]
      [] pc = "id" -> [b EXCEPT !.id = s]

SetOption(c) ==
    /\ call[c].pc \in {"remain", "origin", "id"}
    /\ ~ Missing(c)
    /\ bridge' = [bridge EXCEPT ![Target(call[c].n)] = WithOption(@, call[c].pc, call[c].s)]
    /\ Goes(c, NextOption[call[c].pc])
    /\ UNCHANGED <<given, happened>>

SetOptionFails(c) ==
    /\ call[c].pc \in {"remain", "origin", "id"}
    /\ Goes(c, "rollback")
    /\ IF Missing(c) THEN UNCHANGED happened ELSE Troubled({"failed"})
    /\ UNCHANGED <<bridge, given>>

Rollback(c) ==
    /\ call[c].pc = "rollback"
    /\ bridge' = IF Missing(c) THEN bridge ELSE [bridge EXCEPT ![Target(call[c].n)] = Down]
    /\ Fails(c)
    /\ UNCHANGED <<given, happened>>

(* respawn-pane -k, to start a new bridge or to reconnect a dead one.      *)
Respawn(c) ==
    /\ call[c].pc = "respawn"
    /\ ~ Missing(c)
    /\ bridge' = [bridge EXCEPT ![Target(call[c].n)].pane = "command"]
    /\ Goes(c, "ok")
    /\ Hands(c)
    /\ UNCHANGED happened

RespawnFails(c) ==
    /\ call[c].pc = "respawn"
    /\ Fails(c)
    /\ IF Missing(c) THEN UNCHANGED happened ELSE Troubled({"failed"})
    /\ UNCHANGED <<bridge, given>>

(* The client is switched to the bridge, or cannot be; resume ends.        *)
Switch(c) ==
    /\ call[c].pc = "ok"
    /\ Fails(c)
    /\ UNCHANGED <<bridge, given, happened>>

Crash(c) ==
    /\ call[c].pc # "idle"
    /\ Fails(c)
    /\ Troubled({"cutOff"})
    /\ UNCHANGED <<bridge, given>>

(* The connection ends, or a shell that a client was switched to: tmux     *)
(* keeps the pane, or the session goes with it.                            *)
PaneExits(n) ==
    /\ bridge[n].up
    /\ bridge[n].pane = "command" \/ (bridge[n].pane = "shell" /\ n \in given)
    /\ bridge' = [bridge EXCEPT ![n] = IF @.remain THEN [@ EXCEPT !.pane = "dead"] ELSE Down]
    /\ UNCHANGED <<call, given, happened>>

UserKills(n) ==
    /\ bridge[n].up
    /\ bridge' = [bridge EXCEPT ![n] = Down]
    /\ given' = given \ {n}
    /\ Troubled({"killed"} \cup (IF Longer(n) = {} THEN {} ELSE {"begins"}))
    /\ UNCHANGED call

Next ==
    \/ \E c \in Caller :
          \/ \E s \in Session : Resume(c, s)
          \/ HasSession(c) \/ ReadOrigin(c) \/ ReadId(c) \/ PaneState(c)
          \/ NewSession(c) \/ NewSessionFails(c) \/ SetOption(c) \/ SetOptionFails(c)
          \/ Rollback(c) \/ Respawn(c) \/ RespawnFails(c) \/ Switch(c) \/ Crash(c)
    \/ \E n \in Name : PaneExits(n) \/ UserKills(n)

Spec == Init /\ [][Next]_vars

-----------------------------------------------------------------------------
(* Properties                                                              *)

(* Resumes overlap and are cut off, but nothing else goes wrong; or they   *)
(* take turns, while commands fail and the user kills bridges, though none *)
(* whose name tmux would then take for the beginning of another's.         *)
OverlapOnly == odd \subseteq {"overlap", "cutOff"}

InTurn == odd \subseteq {"failed", "cutOff", "killed"}

OnePerSession ==
    \A m, n \in Name : bridge[m].up /\ bridge[n].up /\ bridge[m].id = bridge[n].id
                          => m = n \/ bridge[m].id = None

(* In both cases, however many sessions' names collide and wherever a      *)
(* resume is cut off: the bridge a resume is about to switch to is tagged  *)
(* with its own session; and a bridge that has been handed to a resume     *)
(* stays until the user kills it ("Retain the bridge pane and its output"):*)
(* neither the end of its connection nor another resume, even one that     *)
(* rolls back, takes it away.  "Use one deterministic local bridge tmux    *)
(* session per remote session": as long as resumes take turns and the user *)
(* kills none, no session has two, also after a failure or a collision.    *)
GivenIsOwn ==
    OverlapOnly \/ InTurn =>
        /\ \A c \in Caller :
              call[c].pc = "ok" /\ ~ Missing(c) =>
                  LET b == bridge[Target(call[c].n)]
                  IN  b.id = call[c].s /\ b.origin = OriginOf[call[c].s]
        /\ \A n \in given : bridge[n].up
        /\ InTurn /\ "killed" \notin odd => OnePerSession

(* A bridge whose connection runs is taken down by the user alone: neither *)
(* a resume whose command failed, and that rolls back, nor the end of the  *)
(* connection does it.  And no resume starts the connection again under    *)
(* those who use it, unless two resumes of that very session overlap.      *)
AliveIsLeftAlone ==
    [][OverlapOnly \/ InTurn =>
          \A n \in Name : bridge[n].up /\ bridge[n].pane = "command" =>
             /\ ~ bridge'[n].up => UserKills(n)
             /\ \A c \in Caller : Respawn(c) /\ Target(call[c].n) = n =>
                                     bridge[n].id = call[c].s /\ ~ InTurn]_vars

-----------------------------------------------------------------------------
(* Why they hold.  Of a resume x:                                          *)
Named(x) == x.pc # "idle" => x.s \in Session /\ x.n \in {Primary[x.s], Alternate[x.s]}

Making == {"remain", "origin", "id"}

(* What it makes has no id yet, or was killed and leaves no longer name.   *)
HalfMade(x) ==
    x.pc \in Making \cup {"rollback"} =>
        IF bridge[x.n].up
        THEN /\ bridge[x.n].id = None
             /\ x.pc \in {"origin", "id"} => bridge[x.n].remain
             /\ x.pc = "id" => bridge[x.n].origin = OriginOf[x.s]
        ELSE Longer(x.n) = {}

(* What it has found, it goes on finding, or finds nothing.                *)
Meant(x) ==
    x.pc \in {"readOrigin", "readId", "pane", "respawn", "ok"} =>
        /\ bridge[x.n].up \/ \E m \in Name : Longer(x.n) \subseteq {m}
        /\ x.pc \in {"pane", "respawn", "ok"} /\ Target(x.n) # None => bridge[Target(x.n)].id = x.s

(* A bridge has its id last, and runs or is handed out after that.         *)
Tagged(n) ==
    /\ bridge[n].up /\ bridge[n].id # None =>
          /\ bridge[n].remain /\ bridge[n].origin = OriginOf[bridge[n].id]
          /\ n \in {Primary[bridge[n].id], Alternate[bridge[n].id]}
    /\ bridge[n].up /\ bridge[n].pane # "shell" => bridge[n].id # None
    /\ n \in given => bridge[n].up /\ bridge[n].id # None

Sound == (\A n \in Name : Tagged(n)) /\ \A c \in Caller : HalfMade(call[c]) /\ Meant(call[c])

(* No alternate name is taken before the primary one.                      *)
Based == \A s \in Session : bridge[Alternate[s]].up => bridge[Primary[s]].up

(* While resumes overlap, what one has found or made stays.                *)
Standing(x) ==
    /\ x.pc # "idle" /\ x.n = Alternate[x.s] => bridge[Primary[x.s]].up
    /\ x.pc \notin {"idle", "has", "new"} => bridge[x.n].up /\ x.pc # "rollback"

Overlapping ==
    /\ Based /\ \A c \in Caller : Standing(call[c])
    /\ \A c, d \in Caller : call[c].pc \in Making /\ call[d].pc \in Making /\ call[c].n = call[d].n
                            => c = d

(* While they take turns, what one has read is so, or is gone; unless the  *)
(* user kills bridges, the alternate name is for a second session.         *)
UpToDate(x) ==
    x.pc \in {"respawn", "readId"} /\ Target(x.n) # None =>
        IF x.pc = "respawn" THEN bridge[Target(x.n)].pane # "command"
        ELSE x.seen = bridge[Target(x.n)].origin

Second(x) ==
    /\ x.pc # "idle" /\ x.n = Alternate[x.s] => /\ bridge[Primary[x.s]].up
                                               /\ bridge[Primary[x.s]].id # x.s
    /\ x.pc \in Making \cup {"rollback"} => Longer(x.n) = {}

Alternating ==
    /\ \A c, d \in Caller : call[c].pc # "idle" /\ call[d].pc # "idle" => c = d
    /\ \A c \in Caller : UpToDate(call[c])
    /\ "killed" \notin odd => Based /\ OnePerSession /\ \A c \in Caller : Second(call[c])

IInv ==
    /\ TypeOK /\ \A c \in Caller : Named(call[c])
    /\ OverlapOnly => Sound /\ Overlapping
    /\ InTurn => Sound /\ Alternating
=============================================================================
