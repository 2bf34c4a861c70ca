----------------------- MODULE MCSystemOperationLock -----------------------
(***************************************************************************)
(* SystemOperationLock for TLC.  Operations are interchangeable.           *)
(***************************************************************************)
EXTENDS SystemOperationLock, TLC

OperationSymmetry == Permutations(Operations)
============================================================================
