---------------------------- MODULE PaymentPromise ----------------------------
(***************************************************************************)
(* What the escrow promises its users, with no contract, limit, fee        *)
(* schedule or clock in sight: a payment is taken once, is held, and is    *)
(* then either collected or returned to whoever paid it, at most less one  *)
(* of the announced cancellation fees.  EVMAIAgentEscrow implements it.    *)
(***************************************************************************)
EXTENDS Integers

CONSTANTS
  Payers,            \* who pays
  Nobody,            \* the payer of a payment not made yet
  PaymentIds,        \* names of payments
  Prices,            \* what a held payment may cost
  Charges,           \* what may be charged directly, and never returned
  ReturnFees,        \* what may be kept of a returned payment
  OpeningPurse       \* what each payer starts with

VARIABLES
  payment,   \* the state of every payment
  purse,     \* what each payer has
  vault      \* what is held

States == {"none", "held", "collected", "returned"}
NoPayment == [state |-> "none", payer |-> Nobody, amount |-> 0]

PromiseInit ==
  /\ payment = [i \in PaymentIds |-> NoPayment]
  /\ purse = [p \in Payers |-> OpeningPurse]
  /\ vault = 0

Pay(i, p, price) ==
  /\ payment[i].state = "none"
  /\ price <= purse[p]
  /\ payment' = [payment EXCEPT ![i] =
                   [state |-> "held", payer |-> p, amount |-> price]]
  /\ purse' = [purse EXCEPT ![p] = @ - price]
  /\ vault' = vault + price

Collect(i) ==
  /\ payment[i].state = "held"
  /\ payment' = [payment EXCEPT ![i].state = "collected"]
  /\ vault' = vault - payment[i].amount
  /\ UNCHANGED purse

Return(i, fee) ==
  /\ payment[i].state = "held"
  /\ payment' = [payment EXCEPT ![i].state = "returned"]
  /\ vault' = vault - payment[i].amount
  /\ purse' = [purse EXCEPT ![payment[i].payer] = @ + payment[i].amount - fee]

Charge(p, fee) ==
  /\ fee <= purse[p]
  /\ purse' = [purse EXCEPT ![p] = @ - fee]
  /\ UNCHANGED <<payment, vault>>

PromiseNext ==
  \/ \E i \in PaymentIds, p \in Payers, price \in Prices : Pay(i, p, price)
  \/ \E i \in PaymentIds : Collect(i)
  \/ \E i \in PaymentIds, fee \in ReturnFees : Return(i, fee)
  \/ \E p \in Payers, fee \in Charges : Charge(p, fee)

PromiseSpec == PromiseInit /\ [][PromiseNext]_<<payment, purse, vault>>

===============================================================================
