---------------------------- MODULE RefundPromise ----------------------------
(***************************************************************************)
(* What a refund promises, without statuses, plans, audit rows or failed   *)
(* calls: the user is charged once at a time, the provider is asked for    *)
(* money only while the order does not count as refunded, and it counts as *)
(* refunded, for good, only after the provider returned that amount.  Each *)
(* request may be paid, so a refund that was asked for twice may be paid   *)
(* twice.  PaymentRefund implements this for providers that cannot be      *)
(* queried, if the audit log works.                                        *)
(***************************************************************************)
EXTENDS Integers

CONSTANT Total    \* what the order credited

VARIABLES out,    \* what the user was charged and not given back
          open,   \* how many requests for each amount the provider works on
          paid,   \* how many it has paid
          said    \* the amount that counts as refunded, 0 if none does

refundVars == <<out, open, paid, said>>

RefundInit ==
    /\ out = 0
    /\ open = [a \in 1 .. Total |-> 0]
    /\ paid = [a \in 1 .. Total |-> 0]
    /\ said = 0

\* The user is charged for the refund, never on top of an earlier charge.
Charge ==
    /\ said = 0
    /\ out = 0
    /\ out' \in 1 .. Total
    /\ UNCHANGED <<open, paid, said>>

\* The charge is given back, since the money was not returned.
GiveBack ==
    /\ said = 0
    /\ out' = 0
    /\ UNCHANGED <<open, paid, said>>

\* The provider is asked for an amount and pays it at once or later.
Ask(a) ==
    /\ said = 0
    /\ \/ open' = [open EXCEPT ![a] = @ + 1] /\ UNCHANGED paid
       \/ paid' = [paid EXCEPT ![a] = @ + 1] /\ UNCHANGED open
    /\ UNCHANGED <<out, said>>

\* It pays what it was asked for, or does not.
Settle(a) ==
    /\ open[a] > 0
    /\ open' = [open EXCEPT ![a] = @ - 1]
    /\ paid' \in {paid, [paid EXCEPT ![a] = @ + 1]}
    /\ UNCHANGED <<out, said>>

\* The order counts as refunded.
Confirm(a) ==
    /\ said = 0
    /\ paid[a] > 0
    /\ said' = a
    /\ UNCHANGED <<out, open, paid>>

RefundNext ==
    \/ Charge \/ GiveBack
    \/ \E a \in 1 .. Total : Ask(a) \/ Settle(a) \/ Confirm(a)

RefundSpec == RefundInit /\ [][RefundNext]_refundVars
==============================================================================
