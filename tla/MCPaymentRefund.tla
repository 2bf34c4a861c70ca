--------------------------- MODULE MCPaymentRefund ---------------------------
(***************************************************************************)
(* PaymentRefund for TLC.  Requests are interchangeable.                   *)
(***************************************************************************)
EXTENDS PaymentRefund, TLC

AdminSymmetry == Permutations(Admins)
==============================================================================
