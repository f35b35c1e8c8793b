--------------------------- MODULE ServiceFaults ---------------------------
(***************************************************************************)
(* The stores of the services (runs, execution records) are interfaces     *)
(* whose calls return an error. Writes that fail are counted, and so are   *)
(* other faults a caller sees, so that a check can bound them.             *)
(***************************************************************************)
EXTENDS Naturals

CONSTANT MaxFaults   \* bound: faults in a behaviour

VARIABLE faults

FaultsInit == faults = 0
NoFault    == UNCHANGED faults
Fault      == faults < MaxFaults /\ faults' = faults + 1
=============================================================================
