----------------------------- MODULE DoneState ------------------------------
(***************************************************************************)
(* internal/donestate and its two users: sessions.Merge, which every       *)
(* process that lists sessions runs, and Clear, which resume runs once the *)
(* session's pane has been selected.  Both load ~/.tsession/runtime.json,  *)
(* compute and save the whole file; the mutex in Save is one process's own *)
(* and is not held from Load to Save, so processes (and goroutines of the  *)
(* web server) overlap.  Save renames a temporary file: loads see whole    *)
(* files.  DoneSince is a flag: only whether it is zero matters here.      *)
(***************************************************************************)
EXTENDS Naturals

CONSTANTS Process,    (* processes and goroutines that list or resume       *)
          Session,    (* session ids                                        *)
          None,       (* no session                                         *)
          MaxMoves,   (* bound: state changes, deaths and failures          *)
          MayCrash    (* whether a process may die, or fail to load or save *)

ASSUME DoneStateAssumption == MaxMoves \in Nat /\ MayCrash \in BOOLEAN

VARIABLES
    raw,     (* what the state directories say of each session now          *)
    moves,   (* how often that has changed or a process died                *)
    file,    (* runtime.json: donestate.File.Entries                        *)
    proc,    (* where each process is, what it has read                     *)
    earned,  (* history: a turn of the session ended, no Clear saved since  *)
    overlap, (* history: two processes have been at it at once              *)
    late     (* history: those about to save what another has saved over    *)

vars == <<raw, moves, file, proc, earned, overlap, late>>

-----------------------------------------------------------------------------
IdleState == {"active", "inactive"}
State == {"working", "question"} \cup IdleState

Entry == [last : State \cup {""}, done : BOOLEAN]

File == [Session -> Entry]

NoEntries == [s \in Session |-> [last |-> "", done |-> FALSE]]

NoStates == [s \in Session |-> "inactive"]

Resting == [pc |-> "idle", id |-> None, seen |-> NoStates, rt |-> NoEntries,
            blind |-> FALSE]

Held == [pc : {"idle", "load", "save", "clear"}, id : Session \cup {None},
         seen : [Session -> State], rt : File, blind : BOOLEAN]

TypeOK ==
    /\ raw \in [Session -> State]
    /\ moves \in 0..MaxMoves
    /\ file \in File
    /\ proc \in [Process -> Held]
    /\ earned \in [Session -> BOOLEAN]
    /\ overlap \in BOOLEAN
    /\ late \subseteq Process

Init ==
    /\ raw \in [Session -> State]
    /\ moves = 0
    /\ file = NoEntries
    /\ proc = [p \in Process |-> Resting]
    /\ earned = [s \in Session |-> FALSE]
    /\ overlap = FALSE
    /\ late = {}

Busy(p) == proc[p].pc # "idle"

Others == {q \in Process : Busy(q)}

NotesOverlap == overlap' = (overlap \/ Others # {})

(* Those who hold the contents of the file, to save them.                  *)
Holding == {q \in Process : proc[q].pc \in {"save", "clear"}}

Rests(p) == proc' = [proc EXCEPT ![p] = Resting]

Saves(p) ==
    /\ file' = proc[p].rt
    /\ late' = (late \cup Holding) \ {p}
    /\ Rests(p)

Troubled ==
    /\ moves < MaxMoves
    /\ moves' = moves + 1

-----------------------------------------------------------------------------
(* An agent starts or ends a turn, asks, or its process comes or goes.     *)
AgentMoves(s, new) ==
    /\ Troubled
    /\ raw[s] # new
    /\ raw' = [raw EXCEPT ![s] = new]
    /\ earned' = [earned EXCEPT ![s] = @ \/ raw[s] = "working"]
    /\ UNCHANGED <<file, proc, overlap, late>>

(* loadAllLive reads the state directories before it calls Merge.          *)
Observe(p) ==
    /\ proc[p].pc = "idle"
    /\ proc' = [proc EXCEPT ![p].pc = "load", ![p].seen = raw]
    /\ NotesOverlap
    /\ UNCHANGED <<raw, moves, file, earned, late>>

EndsTurn_always(entry) == TRUE

EndsTurn_afterQuestion(entry) == entry.last = "question"

(* What turns an idle session into a done one.                             *)
EndsTurn(entry) == entry.last = "working"

KeepsDone(entry, now) == entry.done /\ now \in IdleState

Merged(entry, now) ==
    [last |-> now,
     done |-> KeepsDone(entry, now) \/ (now \in IdleState /\ EndsTurn(entry))]

Dirty_doneOnly(old, new) == \E s \in Session : old[s].done # new[s].done

Dirty(old, new) == old # new

(* Merge: load, compute, and go on to save only what has changed.          *)
MergeInto(p, held, blind) ==
    LET new == [s \in Session |-> Merged(held[s], proc[p].seen[s])]
    IN  /\ proc[p].pc = "load"
        /\ IF Dirty(held, new)
           THEN proc' = [proc EXCEPT ![p].pc = "save", ![p].rt = new, ![p].blind = blind]
           ELSE Rests(p)
        /\ UNCHANGED <<raw, file, earned, overlap, late>>

Merge(p) == MergeInto(p, file, FALSE) /\ UNCHANGED moves

(* When the file cannot be read, or does not parse, Merge goes on as if    *)
(* there were none, and saves over all of it.                              *)
MergeBlind(p) == MayCrash /\ MergeInto(p, NoEntries, TRUE) /\ Troubled

Save(p) ==
    /\ proc[p].pc = "save"
    /\ Saves(p)
    /\ UNCHANGED <<raw, moves, earned, overlap>>

(* Clear, after resume has switched to the session's pane.  One that       *)
(* cannot read the file changes nothing.                                   *)
ClearLoad(p, s) ==
    /\ proc[p].pc = "idle"
    /\ file[s].done
    /\ proc' = [proc EXCEPT ![p].pc = "clear", ![p].id = s,
                            ![p].rt = [file EXCEPT ![s].done = FALSE]]
    /\ NotesOverlap
    /\ UNCHANGED <<raw, moves, file, earned, late>>

ClearSave(p) ==
    /\ proc[p].pc = "clear"
    /\ Saves(p)
    /\ earned' = [earned EXCEPT ![proc[p].id] = FALSE]
    /\ UNCHANGED <<raw, moves, overlap>>

(* A process dies, or Save fails, which Merge and resume ignore.           *)
Crash(p) ==
    /\ MayCrash
    /\ Busy(p)
    /\ Troubled
    /\ Rests(p)
    /\ late' = late \ {p}
    /\ UNCHANGED <<raw, file, earned, overlap>>

List(p) == Observe(p) \/ Merge(p) \/ MergeBlind(p) \/ Save(p)

Resume(p) == ClearSave(p) \/ \E s \in Session : ClearLoad(p, s)

Next ==
    \/ \E s \in Session, new \in State : AgentMoves(s, new)
    \/ \E p \in Process : List(p) \/ Resume(p) \/ Crash(p)

Spec == Init /\ [][Next]_vars

(* The watch daemon and the web UI list again and again; a process that    *)
(* resumes finishes Clear.                                                 *)
FairSpec ==
    Spec /\ \A p \in Process : /\ SF_vars(Observe(p))
                               /\ WF_vars(Merge(p))
                               /\ WF_vars(Save(p))
                               /\ WF_vars(ClearSave(p))

-----------------------------------------------------------------------------
(* Properties                                                              *)

(* README: done means that "the agent has just finished" and is "cleared   *)
(* when the pane is selected": an entry marked done is one whose turn has  *)
(* ended since the last Clear was saved.  Holds until two processes        *)
(* overlap: then a Merge that loaded before a Clear brings the mark back.  *)
DoneIsEarned == overlap \/ \A s \in Session : file[s].done => earned[s]

(* What makes that inductive while processes take turns: whatever one has  *)
(* seen working, in the file, in its hands or about to be saved, is        *)
(* working still or has ended its turn since, and is not marked done.      *)
Sound(entries) ==
    \A s \in Session :
        /\ entries[s].done => earned[s]
        /\ entries[s].last = "working" =>
              ~ entries[s].done /\ (raw[s] = "working" \/ earned[s])

SeenInTime(p) ==
    \A s \in Session :
        /\ proc[p].seen[s] = "working" => raw[s] = "working" \/ earned[s]
        /\ proc[p].seen[s] # "working" /\ file[s].last = "working" => earned[s]

ClearsOne(p) ==
    /\ proc[p].id \in Session
    /\ file[proc[p].id].done
    /\ proc[p].rt = [file EXCEPT ![proc[p].id].done = FALSE]

HoldsSound(p) ==
    /\ proc[p].pc = "load"  => SeenInTime(p)
    /\ proc[p].pc = "save"  => Sound(proc[p].rt)
    /\ proc[p].pc = "clear" => ClearsOne(p)

TakeTurns ==
    /\ \A p, q \in Process : Busy(p) /\ Busy(q) => p = q
    /\ Sound(file)
    /\ \A p \in Process : HoldsSound(p)

IInv == TypeOK /\ (overlap \/ TakeTurns)

(* A session that is known to have been working and rests is marked done,  *)
(* unless it goes on or was seen asking before it rested.  Two things take *)
(* the "working" back so that the end of the turn goes unnoticed: a save   *)
(* of what was loaded before another's save, and a Merge that could not    *)
(* read the file, which forgets every session's.                           *)
Forgetting(p) == p \in late \/ proc[p].blind

FinishedIsMarked ==
    \A s \in Session :
        file[s].last = "working" /\ raw[s] \in IdleState
            ~> \/ file[s].done \/ file[s].last = "question" \/ raw[s] \notin IdleState
               \/ \E p \in Process : Forgetting(p)

(* However Merges and Clears overlap, once a session moves no more the     *)
(* file comes to say what the session does, and keeps saying it; and one   *)
(* that works again or asks is left without the mark.                      *)
Settles ==
    \A s \in Session :
        <>[](file[s].last = raw[s] /\ (raw[s] \notin IdleState => ~ file[s].done))
=============================================================================
