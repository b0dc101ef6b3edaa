------------------------------ MODULE SolverSlot ------------------------------
(***************************************************************************)
(* The solver slot of each process (core/services/job_runtime.py): one     *)
(* semaphore, and the name of its holder for whoever is turned away.  A    *)
(* user of solver_slot takes the semaphore, shows its name, solves, clears *)
(* the name and releases the semaphore; each is a step of its own.         *)
(***************************************************************************)
EXTENDS Integers

CONSTANT Procs  \* processes, each with a slot of its own

ASSUME ProcsAssumption == Procs # {}

VARIABLES
  sem,    \* permits left in _SOLVER of each process
  shown   \* _holder of each process

slotVars == <<sem, shown>>

Holders == {"nobody", "exam_job", "other"}

InitSlot ==
  /\ sem   = [p \in Procs |-> 1]
  /\ shown = [p \in Procs |-> "nobody"]

Free(p) == sem[p] > 0

TakeSlot(p) ==
  /\ Free(p)
  /\ sem' = [sem EXCEPT ![p] = @ - 1]
  /\ UNCHANGED shown

ShowHolder(p, who) ==
  /\ shown' = [shown EXCEPT ![p] = who]
  /\ UNCHANGED sem

ClearHolder(p) == ShowHolder(p, "nobody")

ReleaseSlot(p) ==
  /\ sem' = [sem EXCEPT ![p] = @ + 1]
  /\ UNCHANGED shown

(* A process that ends takes its slot with it; the next one has a new one. *)
ResetSlot(p) ==
  /\ sem'   = [sem EXCEPT ![p] = 1]
  /\ shown' = [shown EXCEPT ![p] = "nobody"]
=============================================================================
