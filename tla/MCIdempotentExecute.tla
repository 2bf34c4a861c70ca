------------------------ MODULE MCIdempotentExecute ------------------------
(***************************************************************************)
(* IdempotentExecute for TLC: several requests repeat each other, one has  *)
(* another payload under the same key.                                     *)
(***************************************************************************)
EXTENDS IdempotentExecute, TLC

CONSTANTS r1, r2, r3

MCPayload == [r \in Requests |-> IF r = r3 THEN "other" ELSE "same"]

\* Requests with equal payloads are interchangeable.
RequestSymmetry == Permutations(Requests \ (Oversized \cup {r3}))
============================================================================
