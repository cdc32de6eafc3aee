------------------------------- MODULE Names --------------------------------
(***************************************************************************)
(* internal/names: the display names of sessions, in ~/.tsession/names.json*)
(* Unlike RepoNames, Set is serialised within a process only, overwrites   *)
(* the file in place, and takes a file it cannot read for an empty one.    *)
(* Load takes no lock.  Callers of Set are `tsession rename` and the web   *)
(* server; sessions.Merge loads the names for every list.                  *)
(***************************************************************************)
EXTENDS Naturals

CONSTANTS Process,     (* tsession processes                                *)
          Writer,      (* goroutines that call Set                          *)
          ProcessOf,   (* the process of each writer                        *)
          Key,         (* session ids                                       *)
          Name,        (* names; None is the empty one, which deletes       *)
          None,
          Empty,       (* a file just truncated                             *)
          Torn         (* a file that is not JSON                           *)

(* Assumed where the module is instantiated.                               *)
NamesAssumption ==
    /\ ProcessOf \in [Writer -> Process]
    /\ None \notin Writer \cup Key \cup Name
    /\ Empty # Torn /\ {Empty, Torn} \cap [Key -> Name \cup {None}] = {}

VARIABLES
    file,    (* names.json                                                  *)
    mu,      (* which writer holds its process's mutex                      *)
    call,    (* where each writer is in Set, and what it holds              *)
    stored,  (* history: what the last Set that wrote each name wrote       *)
    harm     (* history: what has happened that Set does not provide for    *)

vars == <<file, mu, call, stored, harm>>

-----------------------------------------------------------------------------
NameMap == [Key -> Name \cup {None}]

NoNames == [k \in Key |-> None]

Resting == [pc |-> "idle", key |-> None, name |-> None, m |-> NoNames]

Call == [pc : {"idle", "mu", "load", "open", "fill", "return"},
         key : Key \cup {None}, name : Name \cup {None}, m : NameMap]

Harm == {"unread",     (* the file was there and could not be read             *)
         "unwritten",  (* it was truncated and then not written                *)
         "overlap"}    (* two processes were past their mutexes at once        *)

TypeOK ==
    /\ file \in NameMap \cup {Empty, Torn}
    /\ mu \in [Process -> Writer \cup {None}]
    /\ call \in [Writer -> Call]
    /\ stored \in NameMap
    /\ harm \subseteq Harm

Init ==
    /\ file = NoNames
    /\ mu = [p \in Process |-> None]
    /\ call = [w \in Writer |-> Resting]
    /\ stored = NoNames
    /\ harm = {}

(* Load takes a malformed file for an empty one.                           *)
Load == IF file \in {Empty, Torn} THEN NoNames ELSE file

At(w, pc) == call[w].pc = pc

-----------------------------------------------------------------------------
Begin(w, k, n) ==
    /\ At(w, "idle")
    /\ call' = [call EXCEPT ![w] = [Resting EXCEPT !.pc = "mu", !.key = k, !.name = n]]
    /\ UNCHANGED <<file, mu, stored, harm>>

MuFree_none(w) == TRUE

MuFree(w) == mu[ProcessOf[w]] = None

TakeMu(w) ==
    /\ At(w, "mu")
    /\ MuFree(w)
    /\ mu' = [mu EXCEPT ![ProcessOf[w]] = w]
    /\ call' = [call EXCEPT ![w].pc = "load"]
    /\ UNCHANGED <<file, stored, harm>>

Overlapping(w) ==
    \E v \in Writer : /\ ProcessOf[v] # ProcessOf[w]
                      /\ call[v].pc \in {"open", "fill", "return"}

(* A file that cannot be read is an empty one to Set.                      *)
LoadNames(w) ==
    /\ At(w, "load")
    /\ \E readable \in BOOLEAN :
          LET m == IF readable THEN Load ELSE NoNames
          IN  /\ call' = [call EXCEPT ![w].pc = "open",
                                      ![w].m = [m EXCEPT ![call[w].key] = call[w].name]]
              /\ harm' = harm \cup (IF readable THEN {} ELSE {"unread"})
                             \cup (IF Overlapping(w) THEN {"overlap"} ELSE {})
    /\ UNCHANGED <<file, mu, stored>>

(* os.WriteFile truncates the file ...                                     *)
OpenFile(w) ==
    /\ At(w, "open")
    /\ file' = Empty
    /\ call' = [call EXCEPT ![w].pc = "fill"]
    /\ UNCHANGED <<mu, stored, harm>>

(* ... and writes from its start; over what another process has written    *)
(* since, which may be longer.                                             *)
Overwritten(m) == IF file = Empty THEN {m} ELSE {m, Torn}

FillFile(w) ==
    /\ At(w, "fill")
    /\ file' \in Overwritten(call[w].m)
    /\ stored' = [stored EXCEPT ![call[w].key] = call[w].name]
    /\ call' = [call EXCEPT ![w].pc = "return"]
    /\ UNCHANGED <<mu, harm>>

Leave(w) ==
    /\ call' = [call EXCEPT ![w] = Resting]
    /\ mu' = [mu EXCEPT ![ProcessOf[w]] = None]

Return(w) ==
    /\ At(w, "return")
    /\ Leave(w)
    /\ UNCHANGED <<file, stored, harm>>

Harms(truncated) == harm' = IF truncated THEN harm \cup {"unwritten"} ELSE harm

WriteFails(w) ==
    /\ call[w].pc \in {"open", "fill"}
    /\ Leave(w)
    /\ Harms(At(w, "fill"))
    /\ UNCHANGED <<file, stored>>

(* The process dies, wherever its goroutines are.                          *)
Crash(p) ==
    /\ call' = [w \in Writer |-> IF ProcessOf[w] = p THEN Resting ELSE call[w]]
    /\ mu' = [mu EXCEPT ![p] = None]
    /\ Harms(\E w \in Writer : ProcessOf[w] = p /\ At(w, "fill"))
    /\ UNCHANGED <<file, stored>>

Next ==
    \/ \E w \in Writer :
          \/ \E k \in Key, n \in Name \cup {None} : Begin(w, k, n)
          \/ TakeMu(w) \/ LoadNames(w) \/ OpenFile(w) \/ FillFile(w)
          \/ Return(w) \/ WriteFails(w)
    \/ \E p \in Process : Crash(p)

Spec == Init /\ [][Next]_vars

-----------------------------------------------------------------------------
(* Properties                                                              *)

(* Types, and: within a process whoever is past the mutex is alone there.  *)
Serialised ==
    /\ TypeOK
    /\ \A w \in Writer : call[w].pc \notin {"idle", "mu"} <=> mu[ProcessOf[w]] = w

(* Package names "persists user-defined session display names": whenever   *)
(* nobody is in Set, the file says of each session what was last set for   *)
(* it, however many goroutines and processes set names and whatever fails, *)
(* except for the three things Set does not provide for; and a Set about   *)
(* to return without an error has its own name in the file, even if it     *)
(* could not read it or found it truncated, as long as processes take      *)
(* turns.                                                                  *)
NamesPersist ==
    /\ harm = {} /\ (\A w \in Writer : At(w, "idle")) => Load = stored
    /\ "overlap" \notin harm =>
          \A w \in Writer : At(w, "return") => Load[call[w].key] = call[w].name

-----------------------------------------------------------------------------
(* Why: while processes take turns one writer at most is between reading   *)
(* the file and returning, and what it has read is still what is stored;   *)
(* so the file is truncated for it alone, and then has what it wrote.      *)
Writing(w) == call[w].pc \in {"open", "fill", "return"}

SetsName(w) ==
    /\ call[w].pc # "idle" => call[w].key \in Key
    /\ Writing(w) => call[w].m[call[w].key] = call[w].name

InTurn ==
    /\ \A v, w \in Writer : Writing(v) /\ Writing(w) => v = w
    /\ \A w \in Writer : /\ At(w, "fill") => file = Empty
                         /\ At(w, "return") => file = call[w].m

Unharmed ==
    /\ \A w \in Writer : call[w].pc \in {"open", "fill"} =>
                             call[w].m = [stored EXCEPT ![call[w].key] = call[w].name]
    /\ (\A w \in Writer : ~ At(w, "fill")) => file = stored

IInv ==
    /\ Serialised
    /\ \A w \in Writer : SetsName(w)
    /\ "overlap" \notin harm => InTurn
    /\ harm = {} => Unharmed
=============================================================================
