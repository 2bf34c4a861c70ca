-------------------------- MODULE BatchImageBilling --------------------------
(***************************************************************************)
(* The money of one batch image job:                                       *)
(* backend/internal/service/batch_image_billing_hold.go and the hold       *)
(* operations of backend/internal/repository/usage_billing_repo.go.        *)
(*                                                                         *)
(* Each operation is one SQL transaction that inserts its request id into  *)
(* usage_billing_dedup and moves money between users.balance and           *)
(* users.frozen_balance, or does neither.  The request ids of a job are    *)
(* "hold", "capture" and "release"; the fingerprint under an id is the     *)
(* same at every caller.  frozen_balance is one number for all jobs of the *)
(* user: OtherFrozen of it belongs to the others.                          *)
(***************************************************************************)
EXTENDS Naturals

CONSTANTS
    HoldAmount,    \* what the job reserves
    OtherFrozen    \* what the user's other jobs have reserved

ASSUME HoldAssumption ==
    /\ HoldAmount \in Nat \ {0}
    /\ OtherFrozen \in Nat

VARIABLES
    balance,   \* users.balance
    frozen,    \* users.frozen_balance
    claims,    \* request ids of the job in usage_billing_dedup
    moves,     \* those whose transaction moved money (history)
    charge     \* what the capture left with the operator (history)

billingVars == <<balance, frozen, claims, moves, charge>>

Requests == {"hold", "capture", "release"}

\* claimUsageBillingRequest finds the id: nothing is applied and no error.
Repeated(r) == r \in claims /\ UNCHANGED billingVars

\* The id is inserted and the money moved.
Move(r, b, f) ==
    /\ r \notin claims
    /\ claims' = claims \cup {r}
    /\ moves' = moves \cup {r}
    /\ balance' = b
    /\ frozen' = f

\* Mutant: the balance may be less than what is held.
ReserveUnchecked ==
    \/ Repeated("hold")
    \/ /\ Move("hold", balance - HoldAmount, frozen + HoldAmount)
       /\ UNCHANGED charge

\* reserveUsageBillingBatchImageBalance.
ReserveBalance ==
    \/ Repeated("hold")
    \/ /\ balance \geq HoldAmount
       /\ Move("hold", balance - HoldAmount, frozen + HoldAmount)
       /\ UNCHANGED charge

ReserveRefused == "hold" \notin claims /\ balance < HoldAmount

\* Mutant: the charge is the amount held, not the price of the images.
CaptureAll(cost) ==
    \/ Repeated("capture")
    \/ /\ frozen \geq HoldAmount
       /\ Move("capture", balance, frozen - HoldAmount)
       /\ charge' = HoldAmount

\* captureUsageBillingBatchImageBalance: the cost stays with the operator and
\* the rest of the hold goes back.
CaptureBalance(cost) ==
    \/ Repeated("capture")
    \/ /\ cost \leq HoldAmount
       /\ frozen \geq HoldAmount
       /\ Move("capture", balance + HoldAmount - cost, frozen - HoldAmount)
       /\ charge' = cost

CaptureRefused(cost) ==
    "capture" \notin claims /\ (cost > HoldAmount \/ frozen < HoldAmount)

\* A release of what was never held is skipped, but its claim is committed.
SkipRelease ==
    /\ "release" \notin claims
    /\ "hold" \notin claims
    /\ claims' = claims \cup {"release"}
    /\ UNCHANGED <<balance, frozen, moves, charge>>

\* releaseUsageBillingBatchImageBalance.
ReleaseBalance ==
    \/ Repeated("release")
    \/ SkipRelease
    \/ /\ "hold" \in claims
       /\ frozen \geq HoldAmount
       /\ Move("release", balance + HoldAmount, frozen - HoldAmount)
       /\ UNCHANGED charge

ReleaseRefused ==
    "release" \notin claims /\ "hold" \in claims /\ frozen < HoldAmount

BillingInit ==
    /\ balance \in 0 .. HoldAmount
    /\ frozen = OtherFrozen
    /\ claims = {}
    /\ moves = {}
    /\ charge = 0

BillingTypeOK ==
    /\ balance \in Nat
    /\ frozen \in Nat
    /\ claims \subseteq Requests
    /\ moves \subseteq claims
    /\ charge \in Nat

\* The user's money is held for the job and neither charged nor given back.
Outstanding == "hold" \in moves /\ "capture" \notin moves /\ "release" \notin moves
==============================================================================
