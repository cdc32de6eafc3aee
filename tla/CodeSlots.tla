----------------------------- MODULE CodeSlots ------------------------------
(***************************************************************************)
(* What internal/codeserver promises its callers: per session one slot,    *)
(* whose instance goes starting -> running -> failed -> stopped, possibly  *)
(* skipping phases and never back, and which is taken out of its slot      *)
(* before it is stopped.  CodeServer implements this; CodeProxy is written *)
(* on top of it.                                                           *)
(***************************************************************************)
CONSTANTS Key, Instance, None

VARIABLES
    slot,     (* the instance Registry.Get returns for a key                *)
    owner,    (* the key an instance was launched for                       *)
    phase,    (* what Instance.Status reports                               *)
    leaving   (* taken out of their slot, not yet stopped                   *)

slotVars == <<slot, owner, phase, leaving>>

Phase == {"unborn", "starting", "running", "failed", "stopped"}

Live(i) == phase[i] \in {"starting", "running"}

SlotTypeOK ==
    /\ slot \in [Key -> Instance \cup {None}]
    /\ owner \in [Instance -> Key \cup {None}]
    /\ phase \in [Instance -> Phase]
    /\ leaving \in SUBSET Instance

SlotInit ==
    /\ slot = [k \in Key |-> None]
    /\ owner = [i \in Instance |-> None]
    /\ phase = [i \in Instance |-> "unborn"]
    /\ leaving = {}

-----------------------------------------------------------------------------
(* Registry.Start launches only where nothing is starting or running.      *)
Vacant(k) == slot[k] # None => ~ Live(slot[k])

Launch(k, i) ==
    /\ Vacant(k)
    /\ phase[i] = "unborn"
    /\ slot' = [slot EXCEPT ![k] = i]
    /\ owner' = [owner EXCEPT ![i] = k]
    /\ phase' = [phase EXCEPT ![i] = "starting"]
    /\ UNCHANGED leaving

(* The port is resolved, or it is not, or the start times out, or the      *)
(* process exits.                                                          *)
Settle(i) ==
    /\ \/ /\ phase[i] = "starting"
          /\ phase' = [phase EXCEPT ![i] = "running"]
       \/ /\ Live(i)
          /\ phase' = [phase EXCEPT ![i] = "failed"]
    /\ UNCHANGED <<slot, owner, leaving>>

(* Registry.Stop unlocks r.mu.                                             *)
TakeOut(k) ==
    /\ slot[k] # None
    /\ slot' = [slot EXCEPT ![k] = None]
    /\ leaving' = leaving \cup {slot[k]}
    /\ UNCHANGED <<owner, phase>>

(* Registry.Shutdown unlocks r.mu.                                         *)
TakeOutAll ==
    /\ slot' = [k \in Key |-> None]
    /\ leaving' = leaving \cup {i \in Instance : \E k \in Key : slot[k] = i}
    /\ UNCHANGED <<owner, phase>>

(* Instance.close marks it.                                                *)
Retire(i) ==
    /\ i \in leaving
    /\ leaving' = leaving \ {i}
    /\ phase' = [phase EXCEPT ![i] = "stopped"]
    /\ UNCHANGED <<slot, owner>>

SlotNext ==
    \/ \E k \in Key : TakeOut(k) \/ \E i \in Instance : Launch(k, i)
    \/ TakeOutAll
    \/ \E i \in Instance : Settle(i) \/ Retire(i)

SlotSpec == SlotInit /\ [][SlotNext]_slotVars
=============================================================================
