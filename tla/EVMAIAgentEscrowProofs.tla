------------------------ MODULE EVMAIAgentEscrowProofs ------------------------
(***************************************************************************)
(* Theorems of EVMAIAgentEscrow, for any number of users, IDs, fees and    *)
(* timestamps.                                                             *)
(***************************************************************************)
EXTENDS EVMAIAgentEscrow, FiniteSetTheorems, TLAPS

-------------------------------------------------------------------------------
(* Types.                                                                  *)

LEMMA InitTypeOK == Init => TypeOK
  BY BoundsAssumption, EscrowAssumption
  DEF Init, AgentInit, TypeOK, AgentTypeOK, ConversationIds, MessageIds,
      TriggerIds, JobIds, EscrowIds, Owners, Accounts, NoLimit, NoEscrow,
      SpendingLimit, Escrow, Statuses

LEMMA TransferType ==
  ASSUME balance \in [Accounts -> Nat],
         NEW from \in Accounts, NEW to \in Accounts, from # to,
         NEW amount \in Nat, amount <= balance[from]
  PROVE  Transferred(from, to, amount) \in [Accounts -> Nat]
  BY DEF Transferred

LEMMA SpentType ==
  ASSUME TypeOK, NEW u \in Users, NEW spent \in Nat
  PROVE  [spendingLimits EXCEPT ![u].spentAmount = spent]
           \in [Users -> SpendingLimit]
  BY DEF TypeOK, SpendingLimit

LEMMA MaySpendType ==
  ASSUME TypeOK, NEW u \in Users, NEW fee \in Nat, MaySpend(u, fee)
  PROVE  /\ spendingLimits[u].spentAmount + fee \in Nat
         /\ u \in Accounts
         /\ treasury \in Accounts
         /\ EscrowAccount \in Accounts
         /\ u # treasury
         /\ u # EscrowAccount
         /\ fee <= balance[u]
  BY EscrowAssumption DEF MaySpend, TypeOK, SpendingLimit, Accounts

LEMMA EscrowPaymentType ==
  ASSUME TypeOK, NEW u \in Users, NEW fee \in Nat, ProcessEscrowPayment(u, fee)
  PROVE  /\ spendingLimits' \in [Users -> SpendingLimit]
         /\ pendingEscrowCount' \in [Users -> Nat]
         /\ balance' \in [Accounts -> Nat]
<1>1. MaySpend(u, fee)
  BY DEF ProcessEscrowPayment
<1>2. spendingLimits' \in [Users -> SpendingLimit]
  BY <1>1, MaySpendType, SpentType DEF ProcessEscrowPayment
<1>3. balance' \in [Accounts -> Nat]
  BY <1>1, MaySpendType, TransferType DEF ProcessEscrowPayment, TypeOK
<1> QED
  BY <1>2, <1>3 DEF ProcessEscrowPayment, TypeOK

LEMMA DirectPaymentType ==
  ASSUME TypeOK, NEW u \in Users, NEW fee \in Nat, ProcessDirectPayment(u, fee)
  PROVE  /\ spendingLimits' \in [Users -> SpendingLimit]
         /\ balance' \in [Accounts -> Nat]
<1>1. MaySpend(u, fee)
  BY DEF ProcessDirectPayment
<1>2. spendingLimits' \in [Users -> SpendingLimit]
  BY <1>1, MaySpendType, SpentType DEF ProcessDirectPayment
<1>3. balance' \in [Accounts -> Nat]
  BY <1>1, MaySpendType, TransferType DEF ProcessDirectPayment, TypeOK
<1> QED
  BY <1>2, <1>3

LEMMA CreateEscrowType ==
  ASSUME TypeOK, NEW e \in EscrowIds, NEW u \in Users, CreateEscrow(e, u)
  PROVE  escrows' \in [EscrowIds -> Escrow]
  BY EscrowAssumption DEF CreateEscrow, TypeOK, Escrow, Owners, Statuses

LEMMA SettleType ==
  ASSUME TypeOK, NEW e \in EscrowIds, escrows[e].user \in Users,
         NEW status \in Statuses, Settle(e, status)
  PROVE  /\ escrows' \in [EscrowIds -> Escrow]
         /\ pendingEscrowCount' \in [Users -> Nat]
         /\ escrows[e].amount \in Nat
         /\ escrows[e].amount <= balance[EscrowAccount]
<1>1. escrows[e] \in Escrow
  BY DEF TypeOK
<1>2. [escrows[e] EXCEPT !.status = status] \in Escrow
  BY <1>1 DEF Escrow
<1>3. escrows' \in [EscrowIds -> Escrow]
  BY <1>2 DEF Settle, TypeOK
<1> QED
  BY <1>1, <1>3 DEF Settle, TypeOK, Escrow

LEMMA NextTypeOK == TypeOK /\ [Next]_vars => TypeOK'
<1> SUFFICES ASSUME TypeOK, [Next]_vars PROVE TypeOK'
  OBVIOUS
<1>0. /\ promptFee \in Nat /\ cancellationFee \in Nat
      /\ metadataUpdateFee \in Nat /\ branchFee \in Nat
  BY EscrowAssumption DEF TypeOK
<1>1. ASSUME NEW u \in Users, NEW a \in Allowances, NEW t \in Expiries,
             SetSpendingLimit(u, a, t)
      PROVE  TypeOK'
  BY <1>1, EscrowAssumption DEF SetSpendingLimit, ResetLimit, TypeOK,
       AgentTypeOK, agentVars, counters, owned, SpendingLimit, Accounts
<1>2. ASSUME NEW u \in Users, CancelSpendingLimit(u)
      PROVE  TypeOK'
  BY <1>2 DEF CancelSpendingLimit, ResetLimit, NoLimit, TypeOK, AgentTypeOK,
       agentVars, counters, owned, SpendingLimit, Accounts
<1>3. ASSUME NEW u \in Users, NEW c \in ConversationIds, InitiatePrompt(u, c)
      PROVE  TypeOK'
  <2>1. /\ messageIdCounter \in MessageIds
        /\ messageIdCounter + 1 \in MessageIds
        /\ messageIdCounter + 1 \in EscrowIds
        /\ messageIdCounter' \in 0 .. MaxMessages
    BY <1>3, BoundsAssumption DEF InitiatePrompt, ReserveMessageIds, TypeOK,
         AgentTypeOK, MessageIds, EscrowIds
  <2>2. AgentTypeOK'
    <3>1. conversationIdCounter' \in 1 .. (MaxConversations + 1)
      BY <1>3, BoundsAssumption DEF InitiatePrompt, ReserveConversationId,
           TypeOK, AgentTypeOK
    <3>2. PICK t \in ConversationIds :
            SubmitPrompt(u, t, messageIdCounter)
      BY <1>3, BoundsAssumption DEF InitiatePrompt, ReserveConversationId,
           TypeOK, AgentTypeOK, ConversationIds
    <3> QED
      BY <1>3, <2>1, <3>1, <3>2 DEF InitiatePrompt, SubmitPrompt, TypeOK,
           AgentTypeOK, jobVars, Owners
  <2>3. requests' \subseteq Request
    BY <1>3, <2>1 DEF InitiatePrompt, TypeOK, Request
  <2> QED
    BY <1>0, <1>3, <2>1, <2>2, <2>3, EscrowPaymentType, CreateEscrowType
    DEF InitiatePrompt, TypeOK, owned
<1>4. ASSUME NEW u \in Users, NEW c \in ConversationIds, NEW p \in MessageIds,
             InitiateRegeneration(u, c, p)
      PROVE  TypeOK'
  <2>1. /\ messageIdCounter \in MessageIds
        /\ messageIdCounter \in EscrowIds
        /\ messageIdCounter' \in 0 .. MaxMessages
    BY <1>4, BoundsAssumption DEF InitiateRegeneration, ReserveMessageIds,
         TypeOK, AgentTypeOK, MessageIds, EscrowIds
  <2>2. AgentTypeOK'
    BY <1>4, <2>1 DEF InitiateRegeneration, SubmitRegenerationRequest, TypeOK,
         AgentTypeOK, jobVars
  <2>3. requests' \subseteq Request
    BY <1>4, <2>1 DEF InitiateRegeneration, TypeOK, Request
  <2> QED
    BY <1>0, <1>4, <2>1, <2>2, <2>3, EscrowPaymentType, CreateEscrowType
    DEF InitiateRegeneration, TypeOK, owned
<1>5. ASSUME NEW u \in Users, NEW j \in JobIds, InitiateAgentJob(u, j)
      PROVE  TypeOK'
  <2>1. /\ triggerIdCounter \in TriggerIds
        /\ triggerIdCounter \in EscrowIds
        /\ triggerIdCounter' \in 0 .. MaxTriggers
    BY <1>5, BoundsAssumption DEF InitiateAgentJob, ReserveTriggerId, TypeOK,
         AgentTypeOK, TriggerIds, EscrowIds
  <2>2. AgentTypeOK'
    <3>1. jobIdCounter' \in 1 .. (MaxTriggers + 1)
      BY <1>5, BoundsAssumption DEF InitiateAgentJob, ReserveJobId, TypeOK,
           AgentTypeOK
    <3>2. PICK t \in JobIds : SubmitAgentJob(u, t, triggerIdCounter)
      BY <1>5, BoundsAssumption DEF InitiateAgentJob, ReserveJobId, TypeOK,
           AgentTypeOK, JobIds
    <3> QED
      BY <1>5, <2>1, <3>1, <3>2 DEF InitiateAgentJob, SubmitAgentJob, TypeOK,
           AgentTypeOK, Owners
  <2> QED
    BY <1>0, <1>5, <2>1, <2>2, EscrowPaymentType, CreateEscrowType
    DEF InitiateAgentJob, TypeOK, owned
<1>6. ASSUME NEW u \in Users, NEW c \in ConversationIds, InitiateBranch(u, c)
      PROVE  TypeOK'
  <2>1. AgentTypeOK'
    BY <1>6, BoundsAssumption DEF InitiateBranch, ReserveConversationId,
         SubmitBranchRequest, TypeOK, AgentTypeOK, jobVars, Owners,
         ConversationIds
  <2> QED
    BY <1>0, <1>6, <2>1, DirectPaymentType DEF InitiateBranch, TypeOK, owned
<1>7. ASSUME NEW u \in Users, NEW c \in ConversationIds,
             InitiateMetadataUpdate(u, c)
      PROVE  TypeOK'
  BY <1>0, <1>7, DirectPaymentType DEF InitiateMetadataUpdate, TypeOK,
       AgentTypeOK, agentVars, counters, owned
<1>8. ASSUME NEW u \in Users, NEW e \in EscrowIds, CancelPrompt(u, e)
      PROVE  TypeOK'
  <2>1. /\ escrows' \in [EscrowIds -> Escrow]
        /\ pendingEscrowCount' \in [Users -> Nat]
        /\ escrows[e].amount \in Nat
        /\ escrows[e].amount <= balance[EscrowAccount]
    BY <1>8, SettleType DEF CancelPrompt, Statuses
  <2>2. spendingLimits' \in [Users -> SpendingLimit]
    <3>1. spendingLimits[u].spentAmount - escrows[e].amount + cancellationFee
            \in Nat
      BY <1>0, <1>8, <2>1 DEF CancelPrompt, TypeOK, SpendingLimit
    <3> QED
      BY <1>8, <3>1, SpentType DEF CancelPrompt
  <2>3. balance' \in [Accounts -> Nat]
    BY <1>0, <1>8, <2>1, EscrowAssumption DEF CancelPrompt, TypeOK, Accounts
  <2>4. AgentTypeOK'
    BY <1>8 DEF CancelPrompt, RecordCancellation, TypeOK, AgentTypeOK, counters
  <2> QED
    BY <1>8, <2>1, <2>2, <2>3, <2>4 DEF CancelPrompt, TypeOK, owned
<1>9. ASSUME NEW r \in requests, AnswerRequest(r)
      PROVE  TypeOK'
  <2>1. /\ r.answer \in MessageIds /\ r.prompt \in MessageIds
        /\ r.answer \in EscrowIds
        /\ escrows[r.answer].user \in Users
    BY <1>9 DEF AnswerRequest, TypeOK, Request, EscrowIds, Escrow, Owners
  <2>2. /\ escrows' \in [EscrowIds -> Escrow]
        /\ pendingEscrowCount' \in [Users -> Nat]
        /\ escrows[r.answer].amount \in Nat
        /\ escrows[r.answer].amount <= balance[EscrowAccount]
    BY <1>9, <2>1, SettleType DEF AnswerRequest, Statuses
  <2>3. balance' \in [Accounts -> Nat]
    BY <1>9, <2>2, TransferType, EscrowAssumption
    DEF AnswerRequest, TypeOK, Accounts
  <2>4. AgentTypeOK'
    BY <1>9, <2>1 DEF AnswerRequest, SubmitAnswer, TypeOK, AgentTypeOK, counters
  <2> QED
    BY <1>9, <2>2, <2>3, <2>4 DEF AnswerRequest, TypeOK, owned
<1>10. ASSUME NEW e \in EscrowIds, ProcessRefund(e)
       PROVE  TypeOK'
  <2>1. escrows[e].user \in Users
    BY <1>10 DEF ProcessRefund, TypeOK, Escrow, Owners
  <2>2. /\ escrows' \in [EscrowIds -> Escrow]
        /\ pendingEscrowCount' \in [Users -> Nat]
        /\ escrows[e].amount \in Nat
        /\ escrows[e].amount <= balance[EscrowAccount]
    BY <1>10, <2>1, SettleType DEF ProcessRefund, Statuses
  <2>3. spendingLimits' \in [Users -> SpendingLimit]
    <3>1. spendingLimits[escrows[e].user].spentAmount - escrows[e].amount \in Nat
      BY <1>10, <2>1, <2>2 DEF ProcessRefund, TypeOK, SpendingLimit
    <3> QED
      BY <1>10, <2>1, <3>1, SpentType DEF ProcessRefund
  <2>4. balance' \in [Accounts -> Nat]
    BY <1>10, <2>1, <2>2, TransferType, EscrowAssumption
    DEF ProcessRefund, TypeOK, Accounts
  <2> QED
    BY <1>10, <2>2, <2>3, <2>4 DEF ProcessRefund, TypeOK, AgentTypeOK,
         agentVars, counters, owned
<1>11. CASE OwnerStep
  BY <1>11 DEF OwnerStep, SetPromptFee, SetCancellationFee,
       SetMetadataUpdateFee, SetBranchFee, SetTreasury, OwnerUnchanged,
       TypeOK, AgentTypeOK, agentVars, counters
<1>12. CASE Tick
  BY <1>12, EscrowAssumption DEF Tick, TypeOK, AgentTypeOK, agentVars, counters, owned
<1>13. CASE UNCHANGED vars
  BY <1>13 DEF vars, TypeOK, AgentTypeOK, agentVars, counters, owned
<1> QED
  BY <1>1, <1>2, <1>3, <1>4, <1>5, <1>6, <1>7, <1>8, <1>9, <1>10, <1>11,
     <1>12, <1>13
  DEF Next, UserStep, OracleStep

\* Every variable of the two contracts, the token and the log keeps its type:
\* in particular no checked subtraction of the escrow goes below zero.
THEOREM TypeCorrect == Spec => []TypeOK
  BY InitTypeOK, NextTypeOK, PTL DEF Spec

-------------------------------------------------------------------------------
(* What a step can do to money.  Every step is one of five kinds, so an     *)
(* invariant about payments is proved by these and not by twelve actions.   *)

\* A limit is set or cancelled.
ResetKind(u) ==
  /\ pendingEscrowCount[u] = 0
  /\ \E limit \in SpendingLimit :
       /\ limit.spentAmount = 0
       /\ spendingLimits' = [spendingLimits EXCEPT ![u] = limit]
  /\ openingBalance' = [openingBalance EXCEPT ![u] = balance[u]]
  /\ UNCHANGED <<pendingEscrowCount, escrows, balance, messageIdCounter>>

\* A prompt, regeneration or job is paid into escrow e.
PayKind(u, e) ==
  /\ MaxTriggers = 0 => e >= messageIdCounter /\ e < messageIdCounter'
  /\ messageIdCounter' >= messageIdCounter
  /\ ProcessEscrowPayment(u, promptFee)
  /\ CreateEscrow(e, u)
  /\ UNCHANGED openingBalance

\* A branch or a metadata update is paid for.
ChargeKind(u, fee) ==
  /\ fee \in MetadataUpdateFees \cup BranchFees
  /\ ProcessDirectPayment(u, fee)
  /\ UNCHANGED <<pendingEscrowCount, escrows, openingBalance, messageIdCounter>>

\* Escrow e is paid to the treasury.
CollectKind(e) ==
  /\ escrows[e].user \in Users
  /\ Settle(e, "COMPLETE")
  /\ balance' = Transferred(EscrowAccount, treasury, escrows[e].amount)
  /\ UNCHANGED <<spendingLimits, openingBalance, messageIdCounter>>

\* Escrow e is paid back, for a fee that its user's limit has room for.
ReturnKind(e, fee) ==
  LET user   == escrows[e].user
      amount == escrows[e].amount
      spent  == spendingLimits[user].spentAmount
  IN  /\ user \in Users
      /\ fee \in CancellationFees \cup {0}
      /\ Settle(e, "REFUNDED")
      /\ amount <= spent
      /\ fee = 0 \/ spent - amount + fee <= spendingLimits[user].allowance
      /\ spendingLimits'[user] =
           [spendingLimits[user] EXCEPT !.spentAmount = spent - amount + fee]
      /\ balance'[user] = balance[user] - fee + amount
      /\ balance'[EscrowAccount] = balance[EscrowAccount] - amount
      /\ \A u \in Users \ {user} : /\ spendingLimits'[u] = spendingLimits[u]
                                    /\ balance'[u] = balance[u]
      /\ UNCHANGED <<openingBalance, messageIdCounter>>

OtherKind == UNCHANGED <<spendingLimits, pendingEscrowCount, escrows, balance,
                         openingBalance, messageIdCounter>>

LEMMA MoneySteps ==
  ASSUME TypeOK, [Next]_vars
  PROVE  \/ \E u \in Users : ResetKind(u)
         \/ \E u \in Users, e \in EscrowIds : PayKind(u, e)
         \/ \E u \in Users, fee \in Nat : ChargeKind(u, fee)
         \/ \E e \in EscrowIds : CollectKind(e)
         \/ \E e \in EscrowIds, fee \in Nat : ReturnKind(e, fee)
         \/ OtherKind
<1> DEFINE Goal == \/ \E u \in Users : ResetKind(u)
                   \/ \E u \in Users, e \in EscrowIds : PayKind(u, e)
                   \/ \E u \in Users, fee \in Nat : ChargeKind(u, fee)
                   \/ \E e \in EscrowIds : CollectKind(e)
                   \/ \E e \in EscrowIds, fee \in Nat : ReturnKind(e, fee)
                   \/ OtherKind
<1>1. ASSUME NEW u \in Users, NEW a \in Allowances, NEW t \in Expiries,
             SetSpendingLimit(u, a, t)
      PROVE  Goal
  <2>1. [allowance |-> a, spentAmount |-> 0, expiresAt |-> t] \in SpendingLimit
    BY EscrowAssumption DEF SpendingLimit
  <2> QED
    BY <1>1, <2>1 DEF SetSpendingLimit, ResetLimit, ResetKind, agentVars, counters
<1>2. ASSUME NEW u \in Users, CancelSpendingLimit(u)
      PROVE  Goal
  <2>1. NoLimit \in SpendingLimit /\ NoLimit.spentAmount = 0
    BY DEF NoLimit, SpendingLimit
  <2> QED
    BY <1>2, <2>1 DEF CancelSpendingLimit, ResetLimit, ResetKind, agentVars,
         counters
<1>3. ASSUME NEW u \in Users, NEW c \in ConversationIds, InitiatePrompt(u, c)
      PROVE  Goal
  <2>1. /\ messageIdCounter + 1 \in EscrowIds
        /\ messageIdCounter + 1 >= messageIdCounter
        /\ messageIdCounter + 1 < messageIdCounter'
        /\ messageIdCounter' >= messageIdCounter
    BY <1>3, BoundsAssumption DEF InitiatePrompt, ReserveMessageIds, TypeOK,
         AgentTypeOK, MessageIds, EscrowIds
  <2> QED
    BY <1>3, <2>1 DEF InitiatePrompt, PayKind, TypeOK, AgentTypeOK
<1>4. ASSUME NEW u \in Users, NEW c \in ConversationIds, NEW p \in MessageIds,
             InitiateRegeneration(u, c, p)
      PROVE  Goal
  <2>1. /\ messageIdCounter \in EscrowIds
        /\ messageIdCounter >= messageIdCounter
        /\ messageIdCounter < messageIdCounter'
        /\ messageIdCounter' >= messageIdCounter
    BY <1>4, BoundsAssumption DEF InitiateRegeneration, ReserveMessageIds,
         TypeOK, AgentTypeOK, MessageIds, EscrowIds
  <2> QED
    BY <1>4, <2>1 DEF InitiateRegeneration, PayKind, TypeOK, AgentTypeOK
<1>5. ASSUME NEW u \in Users, NEW j \in JobIds, InitiateAgentJob(u, j)
      PROVE  Goal
  <2>1. triggerIdCounter \in EscrowIds /\ MaxTriggers # 0
    BY <1>5, BoundsAssumption DEF InitiateAgentJob, ReserveTriggerId, TypeOK,
         AgentTypeOK, TriggerIds, EscrowIds
  <2> QED
    BY <1>5, <2>1 DEF InitiateAgentJob, PayKind, TypeOK, AgentTypeOK
<1>6. ASSUME NEW u \in Users, NEW c \in ConversationIds, InitiateBranch(u, c)
      PROVE  Goal
  BY <1>6, EscrowAssumption DEF InitiateBranch, ChargeKind, TypeOK
<1>7. ASSUME NEW u \in Users, NEW c \in ConversationIds,
             InitiateMetadataUpdate(u, c)
      PROVE  Goal
  BY <1>7, EscrowAssumption DEF InitiateMetadataUpdate, ChargeKind, TypeOK,
       agentVars, counters
<1>8. ASSUME NEW u \in Users, NEW e \in EscrowIds, CancelPrompt(u, e)
      PROVE  Goal
  <2>1. cancellationFee \in Nat /\ escrows[e] \in Escrow
        /\ spendingLimits[u] \in SpendingLimit
    BY EscrowAssumption DEF TypeOK
  <2>2. ReturnKind(e, cancellationFee)
    BY <1>8, <2>1, EscrowAssumption
    DEF CancelPrompt, ReturnKind, Escrow, SpendingLimit, TypeOK, Accounts,
        counters
  <2> QED
    BY <2>1, <2>2
<1>9. ASSUME NEW r \in requests, AnswerRequest(r)
      PROVE  Goal
  <2>1. r.answer \in EscrowIds /\ escrows[r.answer].user \in Users
    BY <1>9 DEF AnswerRequest, TypeOK, Request, EscrowIds, Escrow, Owners
  <2> QED
    BY <1>9, <2>1 DEF AnswerRequest, CollectKind, counters
<1>10. ASSUME NEW e \in EscrowIds, ProcessRefund(e)
       PROVE  Goal
  <2> DEFINE u == escrows[e].user
             amount == escrows[e].amount
  <2>1. /\ u \in Users /\ amount \in Nat
        /\ spendingLimits[u].spentAmount \in Nat
        /\ amount <= spendingLimits[u].spentAmount
    BY <1>10 DEF ProcessRefund, TypeOK, Escrow, Owners, SpendingLimit
  <2>2. /\ balance'[u] = balance[u] - 0 + amount
        /\ balance'[EscrowAccount] = balance[EscrowAccount] - amount
        /\ \A v \in Users \ {u} : balance'[v] = balance[v]
    BY <1>10, <2>1, EscrowAssumption
    DEF ProcessRefund, Transferred, TypeOK, Accounts
  <2>3. /\ spendingLimits'[u] =
             [spendingLimits[u] EXCEPT !.spentAmount =
                spendingLimits[u].spentAmount - amount + 0]
        /\ \A v \in Users \ {u} : spendingLimits'[v] = spendingLimits[v]
    BY <1>10, <2>1 DEF ProcessRefund, TypeOK, SpendingLimit
  <2>4. ReturnKind(e, 0)
    BY <1>10, <2>1, <2>2, <2>3 DEF ProcessRefund, ReturnKind, agentVars,
         counters
  <2> QED
    BY <2>4
<1>11. CASE OwnerStep
  BY <1>11 DEF OwnerStep, SetPromptFee, SetCancellationFee,
       SetMetadataUpdateFee, SetBranchFee, SetTreasury, OwnerUnchanged, OtherKind,
       agentVars, counters
<1>12. CASE Tick
  BY <1>12 DEF Tick, OtherKind, agentVars, counters
<1>13. CASE UNCHANGED vars
  BY <1>13 DEF vars, OtherKind, agentVars, counters
<1> QED
  BY <1>1, <1>2, <1>3, <1>4, <1>5, <1>6, <1>7, <1>8, <1>9, <1>10, <1>11,
     <1>12, <1>13
  DEF Next, UserStep, OracleStep

-------------------------------------------------------------------------------
(* The spending limit and the token's ledger.                              *)

LEMMA NextSpentIsNetOutlay ==
  ASSUME TypeOK, [Next]_vars, SpentIsNetOutlay
  PROVE  SpentIsNetOutlay'
<1> USE EscrowAssumption
<1>0. promptFee \in Nat
  BY DEF TypeOK
<1>1. ASSUME NEW u \in Users, ResetKind(u)
      PROVE  SpentIsNetOutlay'
  BY <1>1 DEF ResetKind, SpentIsNetOutlay, TypeOK, SpendingLimit, Accounts
<1>2. ASSUME NEW u \in Users, NEW e \in EscrowIds, PayKind(u, e)
      PROVE  SpentIsNetOutlay'
  BY <1>0, <1>2 DEF PayKind, ProcessEscrowPayment, MaySpend, Transferred,
       SpentIsNetOutlay, TypeOK, SpendingLimit, Accounts
<1>3. ASSUME NEW u \in Users, NEW fee \in Nat, ChargeKind(u, fee)
      PROVE  SpentIsNetOutlay'
  BY <1>3 DEF ChargeKind, ProcessDirectPayment, MaySpend, Transferred,
       SpentIsNetOutlay, TypeOK, SpendingLimit, Accounts
<1>4. ASSUME NEW e \in EscrowIds, CollectKind(e)
      PROVE  SpentIsNetOutlay'
  BY <1>4 DEF CollectKind, Transferred, SpentIsNetOutlay, TypeOK, Accounts
<1>5. ASSUME NEW e \in EscrowIds, NEW fee \in Nat, ReturnKind(e, fee)
      PROVE  SpentIsNetOutlay'
  BY <1>5 DEF ReturnKind, SpentIsNetOutlay, TypeOK, SpendingLimit, Accounts,
       Escrow
<1>6. CASE OtherKind
  BY <1>6 DEF OtherKind, SpentIsNetOutlay
<1> QED
  BY <1>1, <1>2, <1>3, <1>4, <1>5, <1>6, MoneySteps

\* What the contract records as spent is what left the user's token balance
\* since the limit was set, to the last token, and within the allowance: no
\* sequence of payments, fee changes, cancellations and refunds makes the two
\* ledgers differ.
THEOREM SpendingAccounted == Spec => []SpentIsNetOutlay
<1>1. Init => SpentIsNetOutlay
  BY EscrowAssumption DEF Init, SpentIsNetOutlay, NoLimit, Accounts
<1>2. TypeOK /\ SpentIsNetOutlay /\ [Next]_vars => SpentIsNetOutlay'
  BY NextSpentIsNetOutlay
<1> QED
  BY <1>1, <1>2, TypeCorrect, PTL DEF Spec

-------------------------------------------------------------------------------
(* Sums of amounts, as sizes of sets of tokens.                            *)

LEMMA EscrowIdsFinite == IsFiniteSet(EscrowIds)
<1>1. IsFiniteSet(0 .. (MaxMessages - 1)) /\ IsFiniteSet(0 .. (MaxTriggers - 1))
  BY FS_Interval, BoundsAssumption
<1> QED
  BY <1>1, FS_Union DEF EscrowIds, MessageIds, TriggerIds

LEMMA OneEscrowTokens ==
  ASSUME NEW e, NEW n \in Nat
  PROVE  /\ IsFiniteSet({e} \X (1 .. n))
         /\ Cardinality({e} \X (1 .. n)) = n
<1>1. IsFiniteSet(1 .. n) /\ Cardinality(1 .. n) = n
  BY FS_Interval
<1>2. IsFiniteSet({e}) /\ Cardinality({e}) = 1
  BY FS_Singleton
<1> QED
  BY <1>1, <1>2, FS_Product

LEMMA NoTokens == ASSUME NEW records PROVE Tokens(records, {}) = {}
  BY DEF Tokens

\* Tokens depend on the amounts of the set's own escrows only.
LEMMA TokensSame ==
  ASSUME NEW f, NEW g, NEW S, \A x \in S : f[x].amount = g[x].amount
  PROVE  Tokens(f, S) = Tokens(g, S)
  BY DEF Tokens

LEMMA TokensSubset ==
  ASSUME NEW f, NEW T, NEW S \in SUBSET T, IsFiniteSet(Tokens(f, T))
  PROVE  /\ IsFiniteSet(Tokens(f, S))
         /\ Cardinality(Tokens(f, S)) <= Cardinality(Tokens(f, T))
<1>1. Tokens(f, S) \in SUBSET Tokens(f, T)
  BY DEF Tokens
<1> QED
  BY <1>1, FS_Subset

\* Adding an escrow to a set adds its amount to the sum.
LEMMA TokensAdd ==
  ASSUME NEW f, NEW S, NEW e, e \notin S, f[e].amount \in Nat,
         IsFiniteSet(Tokens(f, S))
  PROVE  /\ IsFiniteSet(Tokens(f, S \cup {e}))
         /\ Cardinality(Tokens(f, S \cup {e}))
              = Cardinality(Tokens(f, S)) + f[e].amount
<1> DEFINE Own == {e} \X (1 .. f[e].amount)
<1>1. Tokens(f, S \cup {e}) = Tokens(f, S) \cup Own
  BY DEF Tokens
<1>2. Tokens(f, S) \cap Own = {}
  BY DEF Tokens
<1>3. IsFiniteSet(Own) /\ Cardinality(Own) = f[e].amount
  BY OneEscrowTokens
<1>4. Cardinality({}) = 0 /\ Cardinality(Tokens(f, S)) \in Nat
  BY FS_EmptySet, FS_CardinalityType
<1> HIDE DEF Own
<1>5. /\ IsFiniteSet(Tokens(f, S) \cup Own)
      /\ Cardinality(Tokens(f, S) \cup Own)
           = Cardinality(Tokens(f, S)) + Cardinality(Own)
               - Cardinality(Tokens(f, S) \cap Own)
  BY <1>3, FS_Union
<1>6. Cardinality(Tokens(f, S) \cup Own)
        = Cardinality(Tokens(f, S)) + f[e].amount - 0
  BY <1>2, <1>3, <1>4, <1>5, Zenon
<1>7. IsFiniteSet(Tokens(f, S \cup {e}))
  BY <1>1, <1>5, Zenon
<1>8. Cardinality(Tokens(f, S \cup {e}))
        = Cardinality(Tokens(f, S)) + f[e].amount - 0
  BY <1>1, <1>6, Zenon
<1> QED
  BY <1>4, <1>7, <1>8

\* Removing an escrow from a set takes its amount from the sum.
LEMMA TokensRemove ==
  ASSUME NEW f, NEW S, NEW e \in S, f[e].amount \in Nat,
         IsFiniteSet(Tokens(f, S))
  PROVE  /\ IsFiniteSet(Tokens(f, S \ {e}))
         /\ Cardinality(Tokens(f, S))
              = Cardinality(Tokens(f, S \ {e})) + f[e].amount
<1>1. IsFiniteSet(Tokens(f, S \ {e}))
  BY TokensSubset
<1>2. S = (S \ {e}) \cup {e}
  OBVIOUS
<1>3. e \notin S \ {e}
  OBVIOUS
<1>4. Cardinality(Tokens(f, (S \ {e}) \cup {e}))
        = Cardinality(Tokens(f, S \ {e})) + f[e].amount
  BY <1>1, <1>3, TokensAdd
<1> QED
  BY <1>1, <1>2, <1>4

-------------------------------------------------------------------------------
(* What creating and settling an escrow does to the sets of pending ones.  *)

LEMMA PendingAfterCreate ==
  ASSUME TypeOK, NEW u \in Users, NEW e \in EscrowIds, CreateEscrow(e, u)
  PROVE  /\ Pending' = (Pending \ {e}) \cup {e}
         /\ PendingOf(u)' = (PendingOf(u) \ {e}) \cup {e}
         /\ \A v \in Users \ {u} : PendingOf(v)' = PendingOf(v) \ {e}
         /\ escrows'[e].amount = promptFee
         /\ \A x \in EscrowIds \ {e} : escrows'[x] = escrows[x]
  BY BoundsAssumption DEF CreateEscrow, TypeOK, Pending, PendingOf

LEMMA PendingAfterSettle ==
  ASSUME TypeOK, NEW e \in EscrowIds, escrows[e].user \in Users,
         NEW status \in {"COMPLETE", "REFUNDED"}, Settle(e, status)
  PROVE  /\ e \in Pending
         /\ e \in PendingOf(escrows[e].user)
         /\ Pending' = Pending \ {e}
         /\ \A v \in Users : PendingOf(v)' = PendingOf(v) \ {e}
         /\ \A x \in EscrowIds : /\ escrows'[x].amount = escrows[x].amount
                                /\ escrows'[x].user = escrows[x].user
  BY BoundsAssumption DEF Settle, TypeOK, Escrow, Pending, PendingOf

LEMMA PendingFinite ==
  ASSUME NEW u
  PROVE  /\ IsFiniteSet(PendingOf(u))
         /\ Cardinality(PendingOf(u)) \in Nat
         /\ PendingOf(u) \subseteq Pending
         /\ Pending \subseteq EscrowIds
<1>1. PendingOf(u) \in SUBSET EscrowIds
  BY DEF PendingOf, Pending
<1>2. IsFiniteSet(PendingOf(u))
  BY <1>1, EscrowIdsFinite, FS_Subset
<1> QED
  BY <1>2, FS_CardinalityType DEF PendingOf, Pending

-------------------------------------------------------------------------------
(* The counter of pending escrows.                                         *)

\* Without agent jobs, an ID that is not reserved yet has no escrow: a payment
\* never falls on a pending one.
FreshIds ==
  MaxTriggers = 0 =>
    \A e \in EscrowIds : e >= messageIdCounter => escrows[e].user = NoUser

LEMMA NextFreshIds ==
  ASSUME TypeOK, [Next]_vars, FreshIds
  PROVE  FreshIds'
<1> USE DEF FreshIds
<1>0. /\ EscrowIds \subseteq Int /\ messageIdCounter \in Int
      /\ messageIdCounter' \in Int
  BY NextTypeOK DEF TypeOK, AgentTypeOK, EscrowIds, MessageIds, TriggerIds
<1>1. ASSUME NEW u \in Users, ResetKind(u) PROVE FreshIds'
  BY <1>1 DEF ResetKind
<1>2. ASSUME NEW u \in Users, NEW e \in EscrowIds, PayKind(u, e)
      PROVE  FreshIds'
  <2> SUFFICES ASSUME MaxTriggers = 0, NEW x \in EscrowIds,
                      x >= messageIdCounter'
               PROVE  escrows'[x].user = NoUser
    OBVIOUS
  <2>1. /\ x >= messageIdCounter
        /\ x # e
    BY <1>0, <1>2 DEF PayKind
  <2>2. escrows'[x] = escrows[x]
    BY <1>2, <2>1, PendingAfterCreate DEF PayKind
  <2> QED
    BY <2>1, <2>2
<1>3. ASSUME NEW u \in Users, NEW fee \in Nat, ChargeKind(u, fee)
      PROVE  FreshIds'
  BY <1>3 DEF ChargeKind
<1>4. ASSUME NEW e \in EscrowIds, CollectKind(e) PROVE FreshIds'
  BY <1>4, PendingAfterSettle DEF CollectKind
<1>5. ASSUME NEW e \in EscrowIds, NEW fee \in Nat, ReturnKind(e, fee)
      PROVE  FreshIds'
  BY <1>5, PendingAfterSettle DEF ReturnKind
<1>6. CASE OtherKind
  BY <1>6 DEF OtherKind
<1> QED
  BY <1>1, <1>2, <1>3, <1>4, <1>5, <1>6, MoneySteps

LEMMA NextPendingCounted ==
  ASSUME TypeOK, [Next]_vars, FreshIds, PendingCounted
  PROVE  PendingCounted'
<1>0. pendingEscrowCount \in [Users -> Nat]
  BY DEF TypeOK
<1>1. ASSUME UNCHANGED <<pendingEscrowCount, escrows>>
      PROVE  PendingCounted'
  BY <1>1 DEF PendingCounted, PendingOf, Pending
<1>2. ASSUME NEW u \in Users, NEW e \in EscrowIds, PayKind(u, e)
      PROVE  PendingCounted'
  <2>1. MaxTriggers = 0 => e \notin Pending
    BY <1>2 DEF PayKind, FreshIds, Pending
  <2> SUFFICES ASSUME NEW v \in Users
               PROVE  /\ Cardinality(PendingOf(v)') <= pendingEscrowCount'[v]
                      /\ MaxTriggers = 0 =>
                           pendingEscrowCount'[v] = Cardinality(PendingOf(v)')
    BY DEF PendingCounted
  <2>2. /\ Cardinality(PendingOf(v)) <= pendingEscrowCount[v]
        /\ MaxTriggers = 0 => pendingEscrowCount[v] = Cardinality(PendingOf(v))
    BY DEF PendingCounted
  <2> DEFINE Rest == PendingOf(v) \ {e}
  <2>3. /\ IsFiniteSet(Rest) /\ Cardinality(Rest) \in Nat
        /\ Cardinality(Rest) <= Cardinality(PendingOf(v))
        /\ e \notin PendingOf(v) => Rest = PendingOf(v)
    <3>1. IsFiniteSet(PendingOf(v)) /\ Rest \in SUBSET PendingOf(v)
      BY PendingFinite
    <3> QED
      BY <3>1, FS_Subset, FS_CardinalityType
  <2>4. Cardinality(PendingOf(v)) \in Nat /\ PendingOf(v) \subseteq Pending
    BY PendingFinite
  <2>5. CASE v = u
    <3>1. PendingOf(v)' = Rest \cup {e}
      BY <1>2, <2>5, PendingAfterCreate DEF PayKind
    <3>2. Cardinality(Rest \cup {e}) = Cardinality(Rest) + 1
      BY <2>3, FS_AddElement
    <3>3. pendingEscrowCount'[v] = pendingEscrowCount[v] + 1
      BY <1>0, <1>2, <2>5 DEF PayKind, ProcessEscrowPayment
    <3> HIDE DEF Rest
    <3> QED
      BY <1>0, <2>1, <2>2, <2>3, <2>4, <3>1, <3>2, <3>3
  <2>6. CASE v # u
    <3>1. PendingOf(v)' = Rest
      BY <1>2, <2>6, PendingAfterCreate DEF PayKind
    <3>2. pendingEscrowCount'[v] = pendingEscrowCount[v]
      BY <1>0, <1>2, <2>6 DEF PayKind, ProcessEscrowPayment
    <3> HIDE DEF Rest
    <3> QED
      BY <1>0, <2>1, <2>2, <2>3, <2>4, <3>1, <3>2
  <2> QED
    BY <2>5, <2>6
<1>3. ASSUME NEW e \in EscrowIds, escrows[e].user \in Users,
             NEW status \in {"COMPLETE", "REFUNDED"}, Settle(e, status)
      PROVE  PendingCounted'
  <2> SUFFICES ASSUME NEW v \in Users
               PROVE  /\ Cardinality(PendingOf(v)') <= pendingEscrowCount'[v]
                      /\ MaxTriggers = 0 =>
                           pendingEscrowCount'[v] = Cardinality(PendingOf(v)')
    BY DEF PendingCounted
  <2>1. /\ Cardinality(PendingOf(v)) <= pendingEscrowCount[v]
        /\ MaxTriggers = 0 => pendingEscrowCount[v] = Cardinality(PendingOf(v))
    BY DEF PendingCounted
  <2>2. PendingOf(v)' = PendingOf(v) \ {e}
    BY <1>3, PendingAfterSettle
  <2>3. Cardinality(PendingOf(v)) \in Nat
    BY PendingFinite
  <2>4. CASE v = escrows[e].user
    <3>1. e \in PendingOf(v)
      BY <1>3, <2>4, PendingAfterSettle
    <3>2. Cardinality(PendingOf(v) \ {e}) = Cardinality(PendingOf(v)) - 1
      BY <3>1, PendingFinite, FS_RemoveElement
    <3>3. pendingEscrowCount'[v] = pendingEscrowCount[v] - 1
      BY <1>0, <1>3, <2>4 DEF Settle
    <3> QED
      BY <1>0, <2>1, <2>2, <2>3, <3>2, <3>3
  <2>5. CASE v # escrows[e].user
    <3>1. PendingOf(v) \ {e} = PendingOf(v)
      BY <2>5 DEF PendingOf
    <3>2. pendingEscrowCount'[v] = pendingEscrowCount[v]
      BY <1>0, <1>3, <2>5 DEF Settle
    <3> QED
      BY <2>1, <2>2, <3>1, <3>2
  <2> QED
    BY <2>4, <2>5
<1>4. ASSUME NEW e \in EscrowIds, CollectKind(e) PROVE PendingCounted'
  BY <1>3, <1>4 DEF CollectKind
<1>5. ASSUME NEW e \in EscrowIds, NEW fee \in Nat, ReturnKind(e, fee)
      PROVE  PendingCounted'
  BY <1>3, <1>5 DEF ReturnKind
<1>6. ASSUME NEW u \in Users, ResetKind(u) PROVE PendingCounted'
  BY <1>1, <1>6 DEF ResetKind
<1>7. ASSUME NEW u \in Users, NEW fee \in Nat, ChargeKind(u, fee)
      PROVE  PendingCounted'
  BY <1>1, <1>7 DEF ChargeKind
<1>8. CASE OtherKind
  BY <1>1, <1>8 DEF OtherKind
<1> QED
  BY <1>2, <1>4, <1>5, <1>6, <1>7, <1>8, MoneySteps


LEMMA InitPending ==
  ASSUME Init
  PROVE  Pending = {} /\ \A u \in Users : PendingOf(u) = {}
  BY DEF Init, NoEscrow, Pending, PendingOf

\* The counter that setSpendingLimit trusts never undercounts a user's pending
\* escrows, and without agent jobs it is exact.
THEOREM PendingIsCounted == Spec => []PendingCounted
<1>1. Init => FreshIds
  BY DEF Init, NoEscrow, FreshIds
<1>2. Init => PendingCounted
  <2> SUFFICES ASSUME Init PROVE PendingCounted
    OBVIOUS
  <2>1. Cardinality({}) = 0
    BY FS_EmptySet
  <2> QED
    BY <2>1, InitPending DEF PendingCounted, Init
<1>3. TypeOK /\ FreshIds /\ [Next]_vars => FreshIds'
  BY NextFreshIds
<1>4. TypeOK /\ FreshIds /\ PendingCounted /\ [Next]_vars => PendingCounted'
  BY NextPendingCounted
<1> QED
  BY <1>1, <1>2, <1>3, <1>4, TypeCorrect, PTL DEF Spec

LEMMA FreshIdsHold == Spec => []FreshIds
<1>1. Init => FreshIds
  BY DEF Init, NoEscrow, FreshIds
<1>2. TypeOK /\ FreshIds /\ [Next]_vars => FreshIds'
  BY NextFreshIds
<1> QED
  BY <1>1, <1>2, TypeCorrect, PTL DEF Spec

-------------------------------------------------------------------------------
(* The contract's holdings.                                                *)

\* What is owed after escrow e was created over the records f.
LEMMA TokensAfterCreate ==
  ASSUME NEW f, NEW g, NEW S, NEW e, IsFiniteSet(Tokens(f, S)),
         \A x \in S \ {e} : g[x].amount = f[x].amount, g[e].amount \in Nat
  PROVE  /\ IsFiniteSet(Tokens(g, (S \ {e}) \cup {e}))
         /\ Cardinality(Tokens(g, (S \ {e}) \cup {e}))
              <= Cardinality(Tokens(f, S)) + g[e].amount
         /\ e \notin S => Cardinality(Tokens(g, (S \ {e}) \cup {e}))
                            = Cardinality(Tokens(f, S)) + g[e].amount
<1> DEFINE R == S \ {e}
<1>1. R \in SUBSET S /\ e \notin R /\ (e \notin S => R = S)
  OBVIOUS
<1>2. Tokens(g, R) = Tokens(f, R)
  BY TokensSame
<1> HIDE DEF R
<1>3. /\ IsFiniteSet(Tokens(f, R))
      /\ Cardinality(Tokens(f, R)) <= Cardinality(Tokens(f, S))
  BY <1>1, TokensSubset
<1>4. IsFiniteSet(Tokens(g, R))
  BY <1>2, <1>3, Zenon
<1>5. /\ IsFiniteSet(Tokens(g, R \cup {e}))
      /\ Cardinality(Tokens(g, R \cup {e}))
           = Cardinality(Tokens(g, R)) + g[e].amount
  BY <1>1, <1>4, TokensAdd
<1>6. Cardinality(Tokens(g, R)) = Cardinality(Tokens(f, R))
  BY <1>2, Zenon
<1>7. e \notin S => Cardinality(Tokens(f, R)) = Cardinality(Tokens(f, S))
  BY <1>1, Zenon
<1>8. /\ Cardinality(Tokens(f, R)) \in Nat
      /\ Cardinality(Tokens(f, S)) \in Nat
  BY <1>3, FS_CardinalityType
<1>9. /\ IsFiniteSet(Tokens(g, R \cup {e}))
      /\ Cardinality(Tokens(g, R \cup {e}))
           <= Cardinality(Tokens(f, S)) + g[e].amount
      /\ e \notin S => Cardinality(Tokens(g, R \cup {e}))
                         = Cardinality(Tokens(f, S)) + g[e].amount
  BY <1>3, <1>5, <1>6, <1>7, <1>8
<1> QED
  BY <1>9 DEF R

\* What is owed after escrow e of the records f was settled.
LEMMA TokensAfterSettle ==
  ASSUME NEW f, NEW g, NEW S, NEW e, IsFiniteSet(Tokens(f, S)),
         \A x \in S : g[x].amount = f[x].amount,
         NEW amount \in Nat, f[e].amount = amount
  PROVE  /\ IsFiniteSet(Tokens(g, S \ {e}))
         /\ e \in S => Cardinality(Tokens(f, S))
                         = Cardinality(Tokens(g, S \ {e})) + amount
         /\ e \notin S => Tokens(g, S \ {e}) = Tokens(f, S)
<1>1. Tokens(g, S \ {e}) = Tokens(f, S \ {e})
  BY TokensSame
<1>2. CASE e \in S
  <2>1. /\ IsFiniteSet(Tokens(f, S \ {e}))
        /\ Cardinality(Tokens(f, S))
             = Cardinality(Tokens(f, S \ {e})) + amount
    BY <1>2, TokensRemove
  <2> QED
    BY <1>1, <1>2, <2>1, Zenon
<1>3. CASE e \notin S
  <2>1. S \ {e} = S
    BY <1>3
  <2> QED
    BY <1>1, <1>3, <2>1, Zenon
<1> QED
  BY <1>2, <1>3

\* The inductive strengthening of the three money invariants: a cardinality
\* says something about finite sets only.
MoneyInv ==
  /\ IsFiniteSet(Owed)
  /\ Solvent
  /\ NothingStranded
  /\ RefundsCovered

LEMMA OwedFinite ==
  ASSUME IsFiniteSet(Owed), NEW u
  PROVE  /\ IsFiniteSet(OwedTo(u))
         /\ Cardinality(OwedTo(u)) \in Nat
         /\ Cardinality(Owed) \in Nat
<1>1. PendingOf(u) \in SUBSET Pending
  BY DEF PendingOf
<1>2. IsFiniteSet(OwedTo(u))
  BY <1>1, TokensSubset DEF Owed, OwedTo
<1> QED
  BY <1>2, FS_CardinalityType

LEMMA InitMoneyInv == Init => MoneyInv
<1> SUFFICES ASSUME Init PROVE MoneyInv
  OBVIOUS
<1>1. Owed = {} /\ \A u \in Users : OwedTo(u) = {}
  BY InitPending, NoTokens DEF Owed, OwedTo
<1>2. IsFiniteSet({}) /\ Cardinality({}) = 0
  BY FS_EmptySet
<1>3. balance[EscrowAccount] = 0 /\ \A u \in Users : spendingLimits[u].spentAmount = 0
  BY EscrowAssumption DEF Init, Accounts, NoLimit
<1> QED
  BY <1>1, <1>2, <1>3 DEF MoneyInv, Solvent, NothingStranded, RefundsCovered

LEMMA PayMoneyInv ==
  ASSUME TypeOK, FreshIds, MoneyInv,
         NEW u \in Users, NEW e \in EscrowIds, PayKind(u, e)
  PROVE  MoneyInv'
<1>0. promptFee \in Nat /\ CreateEscrow(e, u) /\ escrows'[e].amount = promptFee
  BY EscrowAssumption, PendingAfterCreate DEF TypeOK, PayKind
<1>1. /\ IsFiniteSet(Owed')
      /\ Cardinality(Owed') <= Cardinality(Owed) + promptFee
      /\ e \notin Pending => Cardinality(Owed') = Cardinality(Owed) + promptFee
  BY <1>0, PendingAfterCreate, TokensAfterCreate, PendingFinite
  DEF Owed, MoneyInv
<1>2. /\ balance'[EscrowAccount] = balance[EscrowAccount] + promptFee
      /\ balance[EscrowAccount] \in Nat
  BY <1>0, EscrowAssumption
  DEF PayKind, ProcessEscrowPayment, Transferred, TypeOK, Accounts
<1>3. Cardinality(Owed) \in Nat /\ Cardinality(Owed') \in Nat
  BY <1>1, FS_CardinalityType DEF MoneyInv
<1>4. Solvent'
  BY <1>0, <1>1, <1>2, <1>3 DEF MoneyInv, Solvent
<1>5. NothingStranded'
  <2>1. MaxTriggers = 0 => e \notin Pending
    BY DEF PayKind, FreshIds, Pending
  <2> QED
    BY <1>1, <1>2, <2>1 DEF MoneyInv, NothingStranded
<1>6. RefundsCovered'
  <2> SUFFICES ASSUME NEW v \in Users
               PROVE  Cardinality(OwedTo(v)') <= spendingLimits'[v].spentAmount
    BY DEF RefundsCovered
  <2>1. /\ Cardinality(OwedTo(v)) <= spendingLimits[v].spentAmount
        /\ spendingLimits[v].spentAmount \in Nat
    BY DEF MoneyInv, RefundsCovered, TypeOK, SpendingLimit
  <2>2. IsFiniteSet(OwedTo(v)) /\ Cardinality(OwedTo(v)) \in Nat
    BY OwedFinite DEF MoneyInv
  <2>3. CASE v = u
    <3>1. /\ IsFiniteSet(OwedTo(v)')
          /\ Cardinality(OwedTo(v)') <= Cardinality(OwedTo(v)) + promptFee
      BY <1>0, <2>2, <2>3, PendingAfterCreate, TokensAfterCreate, PendingFinite
      DEF OwedTo
    <3>2. spendingLimits'[v].spentAmount = spendingLimits[v].spentAmount + promptFee
      BY <2>3 DEF PayKind, ProcessEscrowPayment, TypeOK, SpendingLimit
    <3>3. Cardinality(OwedTo(v)') \in Nat
      BY <3>1, FS_CardinalityType
    <3> QED
      BY <1>0, <2>1, <2>2, <3>1, <3>2, <3>3
  <2>4. CASE v # u
    <3>1. PendingOf(v)' = PendingOf(v) \ {e}
      BY <1>0, <2>4, PendingAfterCreate
    <3>2. \A x \in PendingOf(v) \ {e} : escrows'[x].amount = escrows[x].amount
      BY <1>0, PendingAfterCreate, PendingFinite
    <3>3. OwedTo(v)' = Tokens(escrows, PendingOf(v) \ {e})
      BY <3>1, <3>2, TokensSame DEF OwedTo
    <3>4. /\ IsFiniteSet(OwedTo(v)')
          /\ Cardinality(OwedTo(v)') <= Cardinality(OwedTo(v))
      BY <2>2, <3>3, TokensSubset DEF OwedTo
    <3>5. spendingLimits'[v] = spendingLimits[v]
      BY <2>4 DEF PayKind, ProcessEscrowPayment, TypeOK
    <3>6. Cardinality(OwedTo(v)') \in Nat
      BY <3>4, FS_CardinalityType
    <3> QED
      BY <2>1, <2>2, <3>4, <3>5, <3>6
  <2> QED
    BY <2>3, <2>4
<1> QED
  BY <1>1, <1>4, <1>5, <1>6 DEF MoneyInv

\* A settlement of either kind takes the escrow's amount out of the contract.
\* It takes at most that amount off its user's spentAmount.
LEMMA SettleMoneyInv ==
  ASSUME TypeOK, MoneyInv,
         NEW e \in EscrowIds, escrows[e].user \in Users,
         NEW status \in {"COMPLETE", "REFUNDED"}, Settle(e, status),
         balance'[EscrowAccount] = balance[EscrowAccount] - escrows[e].amount,
         \A v \in Users :
           /\ spendingLimits'[v].spentAmount \in Nat
           /\ v # escrows[e].user =>
                spendingLimits'[v].spentAmount = spendingLimits[v].spentAmount
           /\ spendingLimits'[v].spentAmount
                >= spendingLimits[v].spentAmount - escrows[e].amount
  PROVE  MoneyInv'
<1> DEFINE amount == escrows[e].amount
<1>0. /\ amount \in Nat
      /\ balance[EscrowAccount] \in Nat
  BY DEF TypeOK, Escrow, Accounts
<1>00. escrows[e].amount = amount
  OBVIOUS
<1>1. /\ e \in Pending
      /\ Pending' = Pending \ {e}
      /\ \A x \in EscrowIds : escrows'[x].amount = escrows[x].amount
  BY PendingAfterSettle
<1>2. /\ IsFiniteSet(Owed')
      /\ Cardinality(Owed) = Cardinality(Owed') + amount
  <2>1. \A x \in Pending : escrows'[x].amount = escrows[x].amount
    BY <1>1, PendingFinite
  <2>2. IsFiniteSet(Tokens(escrows, Pending))
    BY DEF Owed, MoneyInv
  <2>3. /\ IsFiniteSet(Tokens(escrows', Pending \ {e}))
        /\ Cardinality(Tokens(escrows, Pending))
             = Cardinality(Tokens(escrows', Pending \ {e})) + amount
    <3> HIDE DEF amount
    <3> QED
      BY <1>0, <1>00, <1>1, <2>1, <2>2, TokensAfterSettle
  <2> QED
    BY <1>1, <2>3, Zenon DEF Owed
<1>3. Cardinality(Owed) \in Nat /\ Cardinality(Owed') \in Nat
  BY <1>2, FS_CardinalityType DEF MoneyInv
<1>4. Solvent' /\ NothingStranded'
  BY <1>0, <1>2, <1>3 DEF MoneyInv, Solvent, NothingStranded
<1>5. RefundsCovered'
  <2> SUFFICES ASSUME NEW v \in Users
               PROVE  Cardinality(OwedTo(v)') <= spendingLimits'[v].spentAmount
    BY DEF RefundsCovered
  <2>1. /\ Cardinality(OwedTo(v)) <= spendingLimits[v].spentAmount
        /\ spendingLimits[v].spentAmount \in Nat
    BY DEF MoneyInv, RefundsCovered, TypeOK, SpendingLimit
  <2>2. IsFiniteSet(OwedTo(v)) /\ Cardinality(OwedTo(v)) \in Nat
    BY OwedFinite DEF MoneyInv
  <2>3. PendingOf(v)' = PendingOf(v) \ {e}
    BY PendingAfterSettle
  <2>4. /\ IsFiniteSet(OwedTo(v)')
        /\ e \in PendingOf(v) =>
             Cardinality(OwedTo(v)) = Cardinality(OwedTo(v)') + amount
        /\ e \notin PendingOf(v) => OwedTo(v)' = OwedTo(v)
    <3>1. \A x \in PendingOf(v) : escrows'[x].amount = escrows[x].amount
      BY <1>1, PendingFinite
    <3>2. IsFiniteSet(Tokens(escrows, PendingOf(v)))
      BY <2>2 DEF OwedTo
    <3>3. /\ IsFiniteSet(Tokens(escrows', PendingOf(v) \ {e}))
          /\ e \in PendingOf(v) =>
               Cardinality(Tokens(escrows, PendingOf(v)))
                 = Cardinality(Tokens(escrows', PendingOf(v) \ {e}))
                     + amount
          /\ e \notin PendingOf(v) =>
               Tokens(escrows', PendingOf(v) \ {e}) = Tokens(escrows, PendingOf(v))
      <4> HIDE DEF amount
      <4> QED
        BY <1>0, <1>00, <3>1, <3>2, TokensAfterSettle
    <3> QED
      BY <2>3, <3>3, Zenon DEF OwedTo
  <2>5. Cardinality(OwedTo(v)') \in Nat
    BY <2>4, FS_CardinalityType
  <2>6. CASE v = escrows[e].user
    <3>1. e \in PendingOf(v)
      BY <2>6, PendingAfterSettle
    <3> QED
      BY <1>0, <2>1, <2>2, <2>4, <2>5, <3>1
  <2>7. CASE v # escrows[e].user
    <3>1. e \notin PendingOf(v)
      BY <2>7 DEF PendingOf
    <3>2. Cardinality(OwedTo(v)') = Cardinality(OwedTo(v))
      BY <2>4, <3>1, Zenon
    <3> QED
      BY <2>1, <2>7, <3>2
  <2> QED
    BY <2>6, <2>7
<1> QED
  BY <1>2, <1>4, <1>5 DEF MoneyInv

LEMMA NextMoneyInv ==
  ASSUME TypeOK, [Next]_vars, FreshIds, PendingCounted, MoneyInv
  PROVE  MoneyInv'
<1>1. ASSUME UNCHANGED escrows, balance'[EscrowAccount] = balance[EscrowAccount],
             \A v \in Users : \/ spendingLimits'[v].spentAmount
                                   >= spendingLimits[v].spentAmount
                              \/ PendingOf(v) = {} /\ spendingLimits'[v].spentAmount = 0,
             \A v \in Users : spendingLimits'[v].spentAmount \in Nat
      PROVE  MoneyInv'
  <2>1. Owed' = Owed /\ \A v \in Users : OwedTo(v)' = OwedTo(v)
    BY <1>1 DEF Owed, OwedTo, Pending, PendingOf
  <2>2. Solvent' /\ NothingStranded' /\ IsFiniteSet(Owed')
    BY <1>1, <2>1 DEF MoneyInv, Solvent, NothingStranded
  <2>3. RefundsCovered'
    <3> SUFFICES ASSUME NEW v \in Users
                 PROVE  Cardinality(OwedTo(v)') <= spendingLimits'[v].spentAmount
      BY DEF RefundsCovered
    <3>1. Cardinality(OwedTo(v)') = Cardinality(OwedTo(v))
      BY <2>1, Zenon
    <3>2. /\ Cardinality(OwedTo(v)) <= spendingLimits[v].spentAmount
          /\ spendingLimits[v].spentAmount \in Nat
          /\ Cardinality(OwedTo(v)) \in Nat
      BY OwedFinite DEF MoneyInv, RefundsCovered, TypeOK, SpendingLimit
    <3>3. PendingOf(v) = {} => Cardinality(OwedTo(v)) = 0
      BY NoTokens, FS_EmptySet DEF OwedTo
    <3> QED
      BY <1>1, <3>1, <3>2, <3>3
  <2> QED
    BY <2>2, <2>3 DEF MoneyInv
<1>2. ASSUME NEW u \in Users, ResetKind(u) PROVE MoneyInv'
  <2>1. PendingOf(u) = {}
    <3>1. Cardinality(PendingOf(u)) <= 0
      BY <1>2 DEF ResetKind, PendingCounted
    <3>2. Cardinality(PendingOf(u)) = 0
      BY <3>1, PendingFinite
    <3> QED
      BY <3>2, PendingFinite, FS_EmptySet
  <2>2. \A v \in Users : /\ spendingLimits'[v].spentAmount \in Nat
                         /\ v # u => spendingLimits'[v] = spendingLimits[v]
                         /\ v = u => spendingLimits'[v].spentAmount = 0
    BY <1>2 DEF ResetKind, TypeOK, SpendingLimit
  <2>3. \A v \in Users : spendingLimits[v].spentAmount \in Nat
    BY DEF TypeOK, SpendingLimit
  <2> QED
    BY <1>1, <1>2, <2>1, <2>2, <2>3 DEF ResetKind
<1>3. ASSUME NEW u \in Users, NEW fee \in Nat, ChargeKind(u, fee) PROVE MoneyInv'
  <2>1. \A v \in Users : /\ spendingLimits'[v].spentAmount \in Nat
                         /\ spendingLimits'[v].spentAmount
                              >= spendingLimits[v].spentAmount
    BY <1>3 DEF ChargeKind, ProcessDirectPayment, TypeOK, SpendingLimit
  <2>2. balance'[EscrowAccount] = balance[EscrowAccount]
    BY <1>3, EscrowAssumption
    DEF ChargeKind, ProcessDirectPayment, Transferred, TypeOK, Accounts
  <2> QED
    BY <1>1, <1>3, <2>1, <2>2 DEF ChargeKind
<1>4. ASSUME NEW e \in EscrowIds, CollectKind(e) PROVE MoneyInv'
  <2>1. balance'[EscrowAccount] = balance[EscrowAccount] - escrows[e].amount
    BY <1>4, EscrowAssumption DEF CollectKind, Transferred, TypeOK, Accounts, Escrow
  <2>2. \A v \in Users : /\ spendingLimits'[v].spentAmount \in Nat
                         /\ spendingLimits'[v].spentAmount
                              = spendingLimits[v].spentAmount
                         /\ escrows[e].amount \in Nat
    BY <1>4 DEF CollectKind, TypeOK, SpendingLimit, Escrow
  <2> QED
    BY <1>4, <2>1, <2>2, SettleMoneyInv DEF CollectKind
<1>5. ASSUME NEW e \in EscrowIds, NEW fee \in Nat, ReturnKind(e, fee)
      PROVE  MoneyInv'
  <2>1. \A v \in Users : /\ spendingLimits'[v].spentAmount \in Nat
                         /\ v # escrows[e].user =>
                              spendingLimits'[v].spentAmount
                                = spendingLimits[v].spentAmount
                         /\ spendingLimits'[v].spentAmount
                              >= spendingLimits[v].spentAmount - escrows[e].amount
    BY <1>5 DEF ReturnKind, TypeOK, SpendingLimit, Escrow
  <2> QED
    BY <1>5, <2>1, SettleMoneyInv DEF ReturnKind
<1>6. CASE OtherKind
  <2>1. \A v \in Users : /\ spendingLimits'[v].spentAmount \in Nat
                         /\ spendingLimits'[v].spentAmount
                              >= spendingLimits[v].spentAmount
    BY <1>6 DEF OtherKind, TypeOK, SpendingLimit
  <2> QED
    BY <1>1, <1>6, <2>1 DEF OtherKind
<1> QED
  BY <1>2, <1>3, <1>4, <1>5, <1>6, PayMoneyInv, MoneySteps

LEMMA MoneyInvHolds == Spec => []MoneyInv
<1>1. TypeOK /\ FreshIds /\ PendingCounted /\ MoneyInv /\ [Next]_vars => MoneyInv'
  BY NextMoneyInv
<1> QED
  BY <1>1, InitMoneyInv, TypeCorrect, FreshIdsHold, PendingIsCounted, PTL DEF Spec

\* The contract can pay out every pending escrow, whatever was answered,
\* cancelled or refunded before and however the fees have changed.
THEOREM AlwaysSolvent == Spec => []Solvent
<1>1. MoneyInv => Solvent
  BY DEF MoneyInv
<1> QED
  BY <1>1, MoneyInvHolds, PTL

\* No token is ever left in the contract without an escrow that accounts for it,
\* as long as no agent job takes an answer's ID.
THEOREM NothingLeftBehind == Spec => []NothingStranded
<1>1. MoneyInv => NothingStranded
  BY DEF MoneyInv
<1> QED
  BY <1>1, MoneyInvHolds, PTL

\* No user's spentAmount is ever too small for the refunds the user may be owed:
\* the checked subtraction of cancelPrompt and processRefund never reverts.
THEOREM RefundsAlwaysCovered == Spec => []RefundsCovered
<1>1. MoneyInv => RefundsCovered
  BY DEF MoneyInv
<1> QED
  BY <1>1, MoneyInvHolds, PTL

-------------------------------------------------------------------------------
(* Settlement is final.                                                    *)

\* However many answers, cancellations and refunds race for an escrow, the
\* first that commits is the last that moves its tokens.
THEOREM SettlementIsFinal == Spec => SettledForGood
<1> DEFINE Final == MaxTriggers = 0 =>
                      \A e \in EscrowIds :
                        escrows[e].user # NoUser /\ escrows[e].status # "PENDING"
                          => escrows'[e] = escrows[e]
<1>1. ASSUME TypeOK, FreshIds, [Next]_vars PROVE [Final]_vars
  <2> SUFFICES ASSUME MaxTriggers = 0, NEW x \in EscrowIds,
                      escrows[x].user # NoUser, escrows[x].status # "PENDING"
               PROVE  escrows'[x] = escrows[x]
    OBVIOUS
  <2>1. ASSUME NEW u \in Users, NEW e \in EscrowIds, PayKind(u, e)
        PROVE  escrows'[x] = escrows[x]
    <3>1. x # e
      BY <1>1, <2>1 DEF PayKind, FreshIds
    <3> QED
      BY <1>1, <2>1, <3>1, PendingAfterCreate DEF PayKind
  <2>2. ASSUME NEW e \in EscrowIds, NEW status, Settle(e, status)
        PROVE  escrows'[x] = escrows[x]
    BY <2>2 DEF Settle, TypeOK
  <2> QED
    BY <1>1, <2>1, <2>2, MoneySteps
    DEF ResetKind, ChargeKind, CollectKind, ReturnKind, OtherKind
<1>2. SettledForGood <=> [][Final]_vars
  BY DEF SettledForGood
<1> QED
  BY <1>1, <1>2, TypeCorrect, FreshIdsHold, PTL DEF Spec

-------------------------------------------------------------------------------
(* The contracts implement PaymentPromise.                                 *)

Payments == [e \in EscrowIds |-> PaymentOf(e)]
Purses   == [u \in Users |-> balance[u]]

LEMMA PromiseInit ==
  ASSUME Init
  PROVE  Promise!PromiseInit
<1>1. \A e \in EscrowIds : PaymentOf(e) = Promise!NoPayment
  <2> SUFFICES ASSUME NEW e \in EscrowIds PROVE PaymentOf(e) = Promise!NoPayment
    OBVIOUS
  <2>1. escrows[e].user = NoUser /\ escrows[e].amount = 0
    BY DEF Init, NoEscrow
  <2> QED
    BY <2>1 DEF PaymentOf, Promise!NoPayment
<1>2. Purses = [u \in Users |-> InitialBalance] /\ balance[EscrowAccount] = 0
  BY EscrowAssumption DEF Init, Accounts, Purses
<1> QED
  BY <1>1, <1>2 DEF Promise!PromiseInit, Purses

\* What the three ways to write an escrow do to its payment.
LEMMA PaymentCreated ==
  ASSUME TypeOK, NEW e \in EscrowIds, NEW u \in Users, CreateEscrow(e, u)
  PROVE  Payments' = [Payments EXCEPT ![e] =
           [state |-> "held", payer |-> u, amount |-> promptFee]]
<1>1. PaymentOf(e)' = [state |-> "held", payer |-> u, amount |-> promptFee]
  BY BoundsAssumption DEF CreateEscrow, PaymentOf, TypeOK
<1>2. \A x \in EscrowIds \ {e} : PaymentOf(x)' = PaymentOf(x)
  BY DEF CreateEscrow, PaymentOf, TypeOK
<1> QED
  BY <1>1, <1>2 DEF Payments

LEMMA PaymentSettled ==
  ASSUME TypeOK, NEW e \in EscrowIds, escrows[e].user \in Users,
         NEW status \in {"COMPLETE", "REFUNDED"}, Settle(e, status)
  PROVE  /\ PaymentOf(e).state = "held"
         /\ Payments' = [Payments EXCEPT ![e].state =
              IF status = "COMPLETE" THEN "collected" ELSE "returned"]
<1>1. /\ escrows'[e] = [escrows[e] EXCEPT !.status = status]
      /\ \A x \in EscrowIds \ {e} : escrows'[x] = escrows[x]
      /\ escrows[e] \in Escrow
      /\ escrows[e].status = "PENDING"
  BY DEF Settle, TypeOK
<1>2. PaymentOf(e).state = "held"
  BY <1>1, BoundsAssumption DEF PaymentOf
<1>3. PaymentOf(e)' = [PaymentOf(e) EXCEPT !.state =
        IF status = "COMPLETE" THEN "collected" ELSE "returned"]
  BY <1>1, BoundsAssumption DEF PaymentOf, Escrow
<1>4. \A x \in EscrowIds \ {e} : PaymentOf(x)' = PaymentOf(x)
  BY <1>1 DEF PaymentOf
<1> QED
  BY <1>2, <1>3, <1>4 DEF Payments

PromiseState == <<Payments, Purses, balance[EscrowAccount]>>

LEMMA PromiseStep ==
  ASSUME MaxTriggers = 0, TypeOK, FreshIds, [Next]_vars
  PROVE  Promise!PromiseNext \/ UNCHANGED PromiseState
<1> DEFINE Goal == Promise!PromiseNext \/ UNCHANGED PromiseState
<1>0. /\ EscrowAccount \notin Users /\ treasury \notin Users
      /\ EscrowAccount # treasury /\ Users \subseteq Accounts
      /\ EscrowAccount \in Accounts /\ treasury \in Accounts
      /\ balance \in [Accounts -> Nat] /\ NoUser \notin Users
  BY EscrowAssumption, BoundsAssumption DEF TypeOK, Accounts
<1>1. ASSUME UNCHANGED <<escrows, balance>> PROVE Goal
  BY <1>1 DEF PromiseState, Payments, Purses, PaymentOf
<1>2. ASSUME NEW u \in Users, NEW e \in EscrowIds, PayKind(u, e) PROVE Goal
  <2>1. Payments[e].state = "none"
    <3>1. escrows[e].user = NoUser
      BY <1>2 DEF PayKind, FreshIds
    <3> QED
      BY <3>1 DEF Payments, PaymentOf
  <2>2. Payments' = [Payments EXCEPT ![e] =
          [state |-> "held", payer |-> u, amount |-> promptFee]]
    BY <1>2, PaymentCreated DEF PayKind
  <2>3. PICK price \in PromptFees : price = promptFee /\ price <= Purses[u]
    BY <1>2 DEF PayKind, ProcessEscrowPayment, MaySpend, TypeOK, Purses
  <2>4. /\ Purses' = [Purses EXCEPT ![u] = @ - promptFee]
        /\ balance'[EscrowAccount] = balance[EscrowAccount] + promptFee
    BY <1>0, <1>2 DEF PayKind, ProcessEscrowPayment, Transferred, Purses
  <2>5. Promise!Pay(e, u, price)
    BY <2>1, <2>2, <2>3, <2>4 DEF Promise!Pay, Payments, Purses
  <2> QED
    BY <2>5 DEF Promise!PromiseNext
<1>3. ASSUME NEW u \in Users, NEW fee \in Nat, ChargeKind(u, fee) PROVE Goal
  <2>1. Payments' = Payments
    BY <1>3 DEF ChargeKind, Payments, PaymentOf
  <2>2. fee <= Purses[u]
    BY <1>3 DEF ChargeKind, ProcessDirectPayment, MaySpend, Purses
  <2>3. /\ Purses' = [Purses EXCEPT ![u] = @ - fee]
        /\ balance'[EscrowAccount] = balance[EscrowAccount]
    BY <1>0, <1>3 DEF ChargeKind, ProcessDirectPayment, Transferred, Purses
  <2>4. Promise!Charge(u, fee)
    BY <2>1, <2>2, <2>3 DEF Promise!Charge, Payments, Purses
  <2> QED
    BY <1>3, <2>4 DEF ChargeKind, Promise!PromiseNext
<1>4. ASSUME NEW e \in EscrowIds, CollectKind(e) PROVE Goal
  <2>1. /\ PaymentOf(e).state = "held"
        /\ Payments' = [Payments EXCEPT ![e].state = "collected"]
    BY <1>4, PaymentSettled DEF CollectKind
  <2>2. Payments[e] = PaymentOf(e) /\ Payments[e].amount = escrows[e].amount
    BY DEF Payments, PaymentOf
  <2>3. /\ Purses' = Purses
        /\ balance'[EscrowAccount] = balance[EscrowAccount] - escrows[e].amount
    BY <1>0, <1>4 DEF CollectKind, Transferred, Purses
  <2>4. Promise!Collect(e)
    BY <2>1, <2>2, <2>3 DEF Promise!Collect, Payments, Purses
  <2> QED
    BY <2>4 DEF Promise!PromiseNext
<1>5. ASSUME NEW e \in EscrowIds, NEW fee \in Nat, ReturnKind(e, fee) PROVE Goal
  <2>1. /\ PaymentOf(e).state = "held"
        /\ Payments' = [Payments EXCEPT ![e].state = "returned"]
    BY <1>5, PaymentSettled DEF ReturnKind
  <2>2. /\ Payments[e] = PaymentOf(e) /\ Payments[e].amount = escrows[e].amount
        /\ Payments[e].payer = escrows[e].user
    BY DEF Payments, PaymentOf
  <2>3. escrows[e].amount \in Nat
    BY DEF TypeOK, Escrow
  <2>4. Purses' = [Purses EXCEPT ![escrows[e].user] = @ + escrows[e].amount - fee]
    BY <1>0, <1>5, <2>3 DEF ReturnKind, Purses
  <2>5. balance'[EscrowAccount] = balance[EscrowAccount] - escrows[e].amount
    BY <1>5 DEF ReturnKind
  <2>6. Promise!Return(e, fee)
    BY <2>1, <2>2, <2>4, <2>5 DEF Promise!Return, Payments, Purses
  <2> QED
    BY <1>5, <2>6 DEF ReturnKind, Promise!PromiseNext
<1> QED
  BY <1>1, <1>2, <1>3, <1>4, <1>5, MoneySteps DEF ResetKind, OtherKind

\* Without agent jobs, whose IDs may be those of answers, the contracts implement
\* the abstract promise: a payment is taken once, and collected once or returned
\* once to its payer, whatever fees, limits and clock do.
THEOREM PromiseKept == MaxTriggers = 0 => (Spec => KeepsPromise)
<1> SUFFICES ASSUME MaxTriggers = 0 PROVE Spec => KeepsPromise
  OBVIOUS
<1>1. Init => Promise!PromiseInit
  BY PromiseInit
<1>2. TypeOK /\ FreshIds /\ [Next]_vars
        => Promise!PromiseNext \/ UNCHANGED PromiseState
  BY PromiseStep
<1> QED
  BY <1>1, <1>2, TypeCorrect, FreshIdsHold, PTL
  DEF Spec, KeepsPromise, Promise!PromiseSpec, PromiseState, Payments, Purses

===============================================================================
