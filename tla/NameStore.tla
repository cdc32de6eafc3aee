----------------------------- MODULE NameStore ------------------------------
(***************************************************************************)
(* What a store of user-given names promises to those that set one: the    *)
(* whole store is one value; a call that answers "ok" has put its name     *)
(* into it in one step between question and answer, and touched no other   *)
(* name; a call that answers "err" has changed nothing; one whose process  *)
(* dies has done either, once.                                             *)
(***************************************************************************)
CONSTANTS Writer, Key, Alias, None

VARIABLES
    names,   (* the name of each key, None for none                         *)
    ask      (* what each writer is asking, and how its last call ended     *)

storeVars == <<names, ask>>

Quiet(answer) == [at |-> "idle", key |-> None, alias |-> None, answer |-> answer]

StoreInit ==
    /\ names = [k \in Key |-> None]
    /\ ask = [w \in Writer |-> Quiet("none")]

Ask(w, k, a) ==
    /\ ask[w].at = "idle"
    /\ ask' = [ask EXCEPT ![w] = [at |-> "asked", key |-> k, alias |-> a, answer |-> "none"]]
    /\ UNCHANGED names

Assign(w) ==
    /\ ask[w].at = "asked"
    /\ names' = [names EXCEPT ![ask[w].key] = ask[w].alias]
    /\ ask' = [ask EXCEPT ![w].at = "set"]

Accept(w) ==
    /\ ask[w].at = "set"
    /\ ask' = [ask EXCEPT ![w] = Quiet("ok")]
    /\ UNCHANGED names

Refuse(w) ==
    /\ ask[w].at = "asked"
    /\ ask' = [ask EXCEPT ![w] = Quiet("err")]
    /\ UNCHANGED names

(* The process of these writers dies.                                      *)
Die(W) ==
    /\ ask' = [w \in Writer |-> IF w \in W THEN Quiet("none") ELSE ask[w]]
    /\ UNCHANGED names

StoreNext ==
    \/ \E W \in SUBSET Writer : Die(W)
    \/ \E w \in Writer :
          \/ \E k \in Key, a \in Alias \cup {None} : Ask(w, k, a)
          \/ Assign(w) \/ Accept(w) \/ Refuse(w)

StoreSpec == StoreInit /\ [][StoreNext]_storeVars
=============================================================================
