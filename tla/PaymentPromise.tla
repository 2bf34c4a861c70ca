--------------------------- MODULE PaymentPromise ---------------------------
(***************************************************************************)
(* What the payment system promises, without statuses, leases, callbacks   *)
(* or failures: an order is paid, what was bought is delivered once, the   *)
(* inviter's rebate is decided once, and only then is the order closed.    *)
(* PaymentFulfillment implements it.                                       *)
(***************************************************************************)
CONSTANT Orders

VARIABLES stage,    \* "open", "paid", "delivered"
          decided,  \* the inviter's rebate was credited or ruled out
          closed    \* the books of the order are closed

promiseVars == <<stage, decided, closed>>

PromiseInit ==
    /\ stage = [o \in Orders |-> "open"]
    /\ decided = [o \in Orders |-> FALSE]
    /\ closed = [o \in Orders |-> FALSE]

Charge(o) ==
    /\ stage[o] = "open"
    /\ stage' = [stage EXCEPT ![o] = "paid"]
    /\ UNCHANGED <<decided, closed>>

Deliver(o) ==
    /\ stage[o] = "paid"
    /\ stage' = [stage EXCEPT ![o] = "delivered"]
    /\ UNCHANGED <<decided, closed>>

DecideRebate(o) ==
    /\ stage[o] = "delivered"
    /\ ~decided[o]
    /\ decided' = [decided EXCEPT ![o] = TRUE]
    /\ UNCHANGED <<stage, closed>>

Close(o) ==
    /\ decided[o]
    /\ ~closed[o]
    /\ closed' = [closed EXCEPT ![o] = TRUE]
    /\ UNCHANGED <<stage, decided>>

PromiseNext ==
    \E o \in Orders : Charge(o) \/ Deliver(o) \/ DecideRebate(o) \/ Close(o)

PromiseSpec == PromiseInit /\ [][PromiseNext]_promiseVars
=============================================================================
