------------------------ MODULE MCPaymentFulfillment ------------------------
(***************************************************************************)
(* PaymentFulfillment on small instances.                                  *)
(***************************************************************************)
EXTENDS PaymentFulfillment, TLC

\* Workers are interchangeable in every safety property.
WorkerSymmetry == Permutations(Workers)

\* Orders do not interact: one at a time is studied, of either kind.
OneOrder == \A o, p \in Orders : status[o] # "NONE" /\ status[p] # "NONE" => o = p
=============================================================================
