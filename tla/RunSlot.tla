------------------------------ MODULE RunSlot ------------------------------
(***************************************************************************)
(* What the collection pipeline promises about its single "running" slot:  *)
(* one run owns the slot at a time; the process executing that run is the  *)
(* only one that may settle it, unless the process is dead; and a settled  *)
(* outcome is final.                                                       *)
(***************************************************************************)
CONSTANTS
  Proc,      \* processes that can execute a collection
  RunId,     \* collection runs
  NoRun,     \* not a run: the slot is free
  NoProc     \* not a process: whoever executed the run is gone

VARIABLES
  slot,      \* the run holding the slot, or NoRun
  owner,     \* the process executing it, or NoProc
  outcome    \* per run, how it ended ("none" while it has not)

slotVars == <<slot, owner, outcome>>

Outcome == {"success", "failed"}

SlotInit ==
  /\ slot = NoRun
  /\ owner = NoProc
  /\ outcome = [r \in RunId |-> "none"]

Take(p, r) ==
  /\ slot = NoRun
  /\ slot' = r
  /\ owner' = p
  /\ outcome' = [outcome EXCEPT ![r] = "none"]

\* The owner ends its own run.
Settle(o) ==
  /\ owner # NoProc
  /\ slot' = NoRun
  /\ owner' = NoProc
  /\ outcome' = [outcome EXCEPT ![slot] = o]

\* The owner goes away and leaves the slot taken.
Abandon ==
  /\ owner # NoProc
  /\ owner' = NoProc
  /\ UNCHANGED <<slot, outcome>>

\* Somebody frees the slot of a run that nobody executes any more.
Expire ==
  /\ slot # NoRun
  /\ owner = NoProc
  /\ slot' = NoRun
  /\ outcome' = [outcome EXCEPT ![slot] = "failed"]
  /\ UNCHANGED owner

SlotNext ==
  \/ \E p \in Proc, r \in RunId : Take(p, r)
  \/ \E o \in Outcome : Settle(o)
  \/ Abandon
  \/ Expire

SlotSpec == SlotInit /\ [][SlotNext]_slotVars

=============================================================================
