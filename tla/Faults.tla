------------------------------- MODULE Faults -------------------------------
(***************************************************************************)
(* The faults a behaviour may still have: lost acknowledgements, outages,  *)
(* failing operations, cancellations and crashes, whatever the module that *)
(* extends this one takes for a fault.                                     *)
(***************************************************************************)
EXTENDS Naturals

CONSTANT MaxFaults  \* bound on the faults of a behaviour

ASSUME FaultsAssumption == MaxFaults \in Nat

VARIABLE faults  \* faults so far

Fault == faults < MaxFaults /\ faults' = faults + 1
=============================================================================
