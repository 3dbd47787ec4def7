---------------------------- MODULE EVMAIAgentEscrow ----------------------------
(***************************************************************************)
(* The payment escrow (contracts/EVMAIAgentEscrow.sol) composed with the   *)
(* registry it calls (EVMAIAgent) and the ERC20 token it is paid in.       *)
(*                                                                         *)
(* One action is one transaction.  A transaction that reverts changes      *)
(* nothing, so the reverts of a function and of everything it calls are    *)
(* the guard of its action.  The token is an OpenZeppelin ERC20: a         *)
(* transfer of more than the balance reverts.  A user may approve the      *)
(* contract for any amount at any time and approvals are read by nothing   *)
(* else, so they are projected away.                                       *)
(***************************************************************************)
EXTENDS EVMAIAgent

CONSTANTS
  EscrowAccount,         \* the escrow contract's address
  Treasuries,            \* the addresses the owner may collect fees at
  InitialBalance,        \* what each user holds at deployment
  PromptFees,            \* the values the owner gives each fee
  CancellationFees,
  MetadataUpdateFees,
  BranchFees,
  Allowances,            \* the spending limits users ask for
  Expiries,              \* and the times they expire at
  CANCELLATION_TIMEOUT,
  REFUND_TIMEOUT,
  MaxTime                \* bound: the last block timestamp

ASSUME EscrowAssumption ==
  /\ EscrowAccount \notin Users \cup Treasuries
  /\ Users \cap Treasuries = {}
  /\ InitialBalance \in Nat
  /\ PromptFees \subseteq Nat
  /\ CancellationFees \subseteq Nat
  /\ MetadataUpdateFees \subseteq Nat
  /\ BranchFees \subseteq Nat
  /\ Allowances \subseteq Nat
  /\ Expiries \subseteq Nat
  /\ CANCELLATION_TIMEOUT \in Nat
  /\ REFUND_TIMEOUT \in Nat
  /\ CANCELLATION_TIMEOUT < REFUND_TIMEOUT
  /\ MaxTime \in Nat

VARIABLES
  spendingLimits,
  pendingEscrowCount,
  escrows,
  promptFee,
  cancellationFee,
  metadataUpdateFee,
  branchFee,
  treasury,
  balance,         \* the token's ledger
  now,             \* block.timestamp
  requests,        \* the log of PromptSubmitted and RegenerationRequested
  openingBalance   \* history: a user's balance when the limit was last reset

owned   == <<promptFee, cancellationFee, metadataUpdateFee, branchFee, treasury>>
vars    == <<agentVars, spendingLimits, pendingEscrowCount, escrows, owned,
             balance, now, requests, openingBalance>>

Accounts == Users \cup Treasuries \cup {EscrowAccount}
Statuses == {"PENDING", "COMPLETE", "REFUNDED"}

SpendingLimit == [allowance: Nat, spentAmount: Nat, expiresAt: Nat]
Escrow  == [user: Owners, amount: Nat, createdAt: Nat, status: Statuses]
Request == [kind: {"prompt", "regeneration"}, user: Users,
            prompt: MessageIds, answer: MessageIds]

\* The zero values of the two structs: PENDING is the enum's first member.
NoLimit  == [allowance |-> 0, spentAmount |-> 0, expiresAt |-> 0]
NoEscrow == [user |-> NoUser, amount |-> 0, createdAt |-> 0, status |-> "PENDING"]

Init ==
  /\ AgentInit
  /\ spendingLimits = [u \in Users |-> NoLimit]
  /\ pendingEscrowCount = [u \in Users |-> 0]
  /\ escrows = [e \in EscrowIds |-> NoEscrow]
  /\ promptFee \in PromptFees
  /\ cancellationFee \in CancellationFees
  /\ metadataUpdateFee \in MetadataUpdateFees
  /\ branchFee \in BranchFees
  /\ treasury \in Treasuries
  /\ balance = [a \in Accounts |-> IF a \in Users THEN InitialBalance ELSE 0]
  /\ now = 0
  /\ requests = {}
  /\ openingBalance = [u \in Users |-> InitialBalance]

-------------------------------------------------------------------------------
(* The token and the payment helpers.                                      *)

\* transfer and transferFrom; no caller moves tokens to their own account.
Transferred(from, to, amount) ==
  [balance EXCEPT ![from] = @ - amount, ![to] = @ + amount]

\* Mutation of MaySpend: the token does not check the payer's balance.
MaySpendOverdrawn(user, fee) ==
  /\ spendingLimits[user].expiresAt # 0
  /\ now < spendingLimits[user].expiresAt
  /\ spendingLimits[user].spentAmount + fee <= spendingLimits[user].allowance

\* The checks that _processEscrowPayment and _processDirectPayment share.
MaySpend(user, fee) ==
  /\ spendingLimits[user].expiresAt # 0
  /\ now < spendingLimits[user].expiresAt
  /\ spendingLimits[user].spentAmount + fee <= spendingLimits[user].allowance
  /\ fee <= balance[user]

\* Mutation of ProcessEscrowPayment: the payment is not counted when another
\* of the user's is pending.
ProcessEscrowPaymentUncounted(user, fee) ==
  /\ MaySpend(user, fee)
  /\ spendingLimits' = [spendingLimits EXCEPT ![user].spentAmount = @ + fee]
  /\ pendingEscrowCount' = [pendingEscrowCount EXCEPT ![user] = 1]
  /\ balance' = Transferred(user, EscrowAccount, fee)

ProcessEscrowPayment(user, fee) ==
  /\ MaySpend(user, fee)
  /\ spendingLimits' = [spendingLimits EXCEPT ![user].spentAmount = @ + fee]
  /\ pendingEscrowCount' = [pendingEscrowCount EXCEPT ![user] = @ + 1]
  /\ balance' = Transferred(user, EscrowAccount, fee)

ProcessDirectPayment(user, fee) ==
  /\ MaySpend(user, fee)
  /\ spendingLimits' = [spendingLimits EXCEPT ![user].spentAmount = @ + fee]
  /\ balance' = Transferred(user, treasury, fee)

\* The escrow record a payment creates, over whatever was stored at its ID.
CreateEscrow(e, payer) ==
  /\ now + REFUND_TIMEOUT <= MaxTime   \* bound: the deadline falls in the run
  /\ escrows' = [escrows EXCEPT ![e] =
       [user |-> payer, amount |-> promptFee, createdAt |-> now,
        status |-> "PENDING"]]

\* Mutation of Settle: without the check that the escrow is pending.
SettleAgain(e, status) ==
  /\ pendingEscrowCount[escrows[e].user] > 0
  /\ escrows[e].amount <= balance[EscrowAccount]
  /\ pendingEscrowCount' = [pendingEscrowCount EXCEPT ![escrows[e].user] = @ - 1]
  /\ escrows' = [escrows EXCEPT ![e].status = status]

\* Mutation of Settle: the count stays as it was.
SettleUncounted(e, status) ==
  /\ escrows[e].status = "PENDING"
  /\ escrows[e].amount <= balance[EscrowAccount]
  /\ escrows' = [escrows EXCEPT ![e].status = status]
  /\ UNCHANGED pendingEscrowCount

\* Checked arithmetic: a settlement that would take a counter, the spent
\* amount or the contract's balance below zero reverts.
Settle(e, status) ==
  /\ escrows[e].status = "PENDING"
  /\ pendingEscrowCount[escrows[e].user] > 0
  /\ escrows[e].amount <= balance[EscrowAccount]
  /\ pendingEscrowCount' = [pendingEscrowCount EXCEPT ![escrows[e].user] = @ - 1]
  /\ escrows' = [escrows EXCEPT ![e].status = status]

-------------------------------------------------------------------------------
(* Spending limits.                                                        *)

\* Mutation of ResetLimit: without the check that nothing is pending.
ResetLimitWhilePending(user, limit) ==
  /\ spendingLimits' = [spendingLimits EXCEPT ![user] = limit]
  /\ openingBalance' = [openingBalance EXCEPT ![user] = balance[user]]
  /\ UNCHANGED <<agentVars, pendingEscrowCount, escrows, owned, balance, now,
                 requests>>

ResetLimit(user, limit) ==
  /\ pendingEscrowCount[user] = 0
  /\ spendingLimits' = [spendingLimits EXCEPT ![user] = limit]
  /\ openingBalance' = [openingBalance EXCEPT ![user] = balance[user]]
  /\ UNCHANGED <<agentVars, pendingEscrowCount, escrows, owned, balance, now,
                 requests>>

SetSpendingLimit(user, allowance, expiresAt) ==
  /\ allowance > 0
  /\ expiresAt > now
  /\ ResetLimit(user, [allowance |-> allowance, spentAmount |-> 0,
                       expiresAt |-> expiresAt])

CancelSpendingLimit(user) == ResetLimit(user, NoLimit)

-------------------------------------------------------------------------------
(* Paid requests.                                                          *)

InitiatePrompt(user, conversation) ==
  LET prompt == messageIdCounter
      answer == messageIdCounter + 1
      target == IF conversation = 0 THEN conversationIdCounter ELSE conversation
  IN  /\ ProcessEscrowPayment(user, promptFee)
      /\ IF conversation = 0 THEN ReserveConversationId
                             ELSE UNCHANGED conversationIdCounter
      /\ ReserveMessageIds(2)
      /\ CreateEscrow(answer, user)
      /\ SubmitPrompt(user, target, prompt)
      /\ requests' = requests \cup
           {[kind |-> "prompt", user |-> user, prompt |-> prompt,
             answer |-> answer]}
      /\ UNCHANGED <<jobVars, isJobFinalized, isRegenerationPending, owned, now,
                     openingBalance>>

InitiateRegeneration(user, conversation, prompt) ==
  LET answer == messageIdCounter
  IN  /\ ProcessEscrowPayment(user, promptFee)
      /\ ReserveMessageIds(1)
      /\ CreateEscrow(answer, user)
      /\ SubmitRegenerationRequest(user, conversation, prompt)
      /\ requests' = requests \cup
           {[kind |-> "regeneration", user |-> user, prompt |-> prompt,
             answer |-> answer]}
      /\ UNCHANGED <<jobVars, conversationIdCounter, conversationToOwner,
                     messageToConversation, isJobFinalized, owned, now,
                     openingBalance>>

InitiateAgentJob(user, job) ==
  LET target == IF job = 0 THEN jobIdCounter ELSE job
  IN  /\ ProcessEscrowPayment(user, promptFee)
      /\ IF job = 0 THEN ReserveJobId ELSE UNCHANGED jobIdCounter
      /\ ReserveTriggerId
      /\ CreateEscrow(triggerIdCounter, user)
      /\ SubmitAgentJob(user, target, triggerIdCounter)
      /\ UNCHANGED <<conversationIdCounter, messageIdCounter,
                     conversationToOwner, messageToConversation,
                     isJobFinalized, isRegenerationPending, owned, now,
                     requests, openingBalance>>

InitiateBranch(user, conversation) ==
  /\ ProcessDirectPayment(user, branchFee)
  /\ ReserveConversationId
  /\ SubmitBranchRequest(user, conversation, conversationIdCounter)
  /\ UNCHANGED <<jobVars, messageIdCounter, messageToConversation,
                 isJobFinalized, isRegenerationPending, pendingEscrowCount,
                 escrows, owned, now, requests, openingBalance>>

InitiateMetadataUpdate(user, conversation) ==
  /\ ProcessDirectPayment(user, metadataUpdateFee)
  /\ SubmitMetadataUpdate(user, conversation)
  /\ UNCHANGED <<agentVars, pendingEscrowCount, escrows, owned, now, requests,
                 openingBalance>>

-------------------------------------------------------------------------------
(* Settling a request: answered, cancelled by its user, or timed out.      *)

\* Mutation of AnswerRequest: finalizePayment returns instead of reverting when
\* the escrow is not pending any more.
AnswerUnlessSettled(r) ==
  LET e == r.answer
  IN  /\ SubmitAnswer(r.prompt, e, r.kind = "prompt")
      /\ escrows[e].user # NoUser
      /\ \/ /\ Settle(e, "COMPLETE")
            /\ balance' = Transferred(EscrowAccount, treasury, escrows[e].amount)
         \/ /\ escrows[e].status # "PENDING"
            /\ UNCHANGED <<escrows, pendingEscrowCount, balance>>
      /\ UNCHANGED <<counters, conversationToOwner, jobToOwner, triggerToJob,
                     spendingLimits, owned, now, requests, openingBalance>>

\* The oracle's transaction: submitAnswer, and finalizePayment inside it.
AnswerRequest(r) ==
  LET e == r.answer
  IN  /\ SubmitAnswer(r.prompt, e, r.kind = "prompt")
      /\ escrows[e].user # NoUser
      /\ Settle(e, "COMPLETE")
      /\ balance' = Transferred(EscrowAccount, treasury, escrows[e].amount)
      /\ UNCHANGED <<counters, conversationToOwner, jobToOwner, triggerToJob,
                     spendingLimits, owned, now, requests, openingBalance>>

\* Mutation of CancelPrompt: the cancellation fee is not recorded as spent.
CancelPromptFeeUnrecorded(user, e) ==
  LET amount    == escrows[e].amount
      remaining == spendingLimits[user].spentAmount - amount
  IN  /\ escrows[e].user = user
      /\ now >= escrows[e].createdAt + CANCELLATION_TIMEOUT
      /\ remaining >= 0
      /\ cancellationFee <= balance[user]
      /\ Settle(e, "REFUNDED")
      /\ RecordCancellation(e)
      /\ spendingLimits' = [spendingLimits EXCEPT ![user].spentAmount = remaining]
      /\ balance' = [balance EXCEPT
                       ![user]          = @ - cancellationFee + amount,
                       ![treasury]      = @ + cancellationFee,
                       ![EscrowAccount] = @ - amount]
      /\ UNCHANGED <<counters, conversationToOwner, jobToOwner,
                     messageToConversation, triggerToJob,
                     isRegenerationPending, owned, now, requests,
                     openingBalance>>

\* The fee is collected from the user's own balance before the refund is paid.
CancelPrompt(user, e) ==
  LET amount    == escrows[e].amount
      limit     == spendingLimits[user]
      remaining == limit.spentAmount - amount
  IN  /\ escrows[e].user = user
      /\ now >= escrows[e].createdAt + CANCELLATION_TIMEOUT
      /\ remaining >= 0
      /\ limit.allowance >= remaining + cancellationFee
      /\ cancellationFee <= balance[user]
      /\ Settle(e, "REFUNDED")
      /\ RecordCancellation(e)
      /\ spendingLimits' = [spendingLimits EXCEPT
                              ![user].spentAmount = remaining + cancellationFee]
      /\ balance' = [balance EXCEPT
                       ![user]          = @ - cancellationFee + amount,
                       ![treasury]      = @ + cancellationFee,
                       ![EscrowAccount] = @ - amount]
      /\ UNCHANGED <<counters, conversationToOwner, jobToOwner,
                     messageToConversation, triggerToJob,
                     isRegenerationPending, owned, now, requests,
                     openingBalance>>

\* Mutation of ProcessRefund: it pays back the fee of the day and not what was
\* paid in.
ProcessRefundAtTodaysFee(e) ==
  LET user == escrows[e].user
  IN  /\ user # NoUser
      /\ now >= escrows[e].createdAt + REFUND_TIMEOUT
      /\ promptFee <= spendingLimits[user].spentAmount
      /\ promptFee <= balance[EscrowAccount]
      /\ Settle(e, "REFUNDED")
      /\ spendingLimits' = [spendingLimits EXCEPT ![user].spentAmount = @ - promptFee]
      /\ balance' = Transferred(EscrowAccount, user, promptFee)
      /\ UNCHANGED <<agentVars, owned, now, requests, openingBalance>>

\* Anyone may call it.  It does not tell the registry: the answer's ID stays
\* unfinalized there, and so does the lock of a regeneration.
ProcessRefund(e) ==
  LET user   == escrows[e].user
      amount == escrows[e].amount
  IN  /\ user # NoUser
      /\ now >= escrows[e].createdAt + REFUND_TIMEOUT
      /\ amount <= spendingLimits[user].spentAmount
      /\ Settle(e, "REFUNDED")
      /\ spendingLimits' = [spendingLimits EXCEPT ![user].spentAmount = @ - amount]
      /\ balance' = Transferred(EscrowAccount, user, amount)
      /\ UNCHANGED <<agentVars, owned, now, requests, openingBalance>>

-------------------------------------------------------------------------------
(* The contract's owner, and time.                                         *)

OwnerUnchanged == <<agentVars, spendingLimits, pendingEscrowCount, escrows,
                    balance, now, requests, openingBalance>>

SetPromptFee(fee) ==
  /\ promptFee' = fee
  /\ UNCHANGED <<OwnerUnchanged, cancellationFee, metadataUpdateFee, branchFee,
                 treasury>>

SetCancellationFee(fee) ==
  /\ cancellationFee' = fee
  /\ UNCHANGED <<OwnerUnchanged, promptFee, metadataUpdateFee, branchFee, treasury>>

SetMetadataUpdateFee(fee) ==
  /\ metadataUpdateFee' = fee
  /\ UNCHANGED <<OwnerUnchanged, promptFee, cancellationFee, branchFee, treasury>>

SetBranchFee(fee) ==
  /\ branchFee' = fee
  /\ UNCHANGED <<OwnerUnchanged, promptFee, cancellationFee, metadataUpdateFee,
                 treasury>>

SetTreasury(t) ==
  /\ treasury' = t
  /\ UNCHANGED <<OwnerUnchanged, promptFee, cancellationFee, metadataUpdateFee,
                 branchFee>>

\* External: a block with a later timestamp.
Tick ==
  /\ now < MaxTime
  /\ now' = now + 1
  /\ UNCHANGED <<agentVars, spendingLimits, pendingEscrowCount, escrows, owned,
                 balance, requests, openingBalance>>

-------------------------------------------------------------------------------
OwnerStep ==
  \/ \E fee \in PromptFees : SetPromptFee(fee)
  \/ \E fee \in CancellationFees : SetCancellationFee(fee)
  \/ \E fee \in MetadataUpdateFees : SetMetadataUpdateFee(fee)
  \/ \E fee \in BranchFees : SetBranchFee(fee)
  \/ \E t \in Treasuries : SetTreasury(t)

UserStep(u) ==
  \/ \E a \in Allowances, t \in Expiries : SetSpendingLimit(u, a, t)
  \/ CancelSpendingLimit(u)
  \/ \E c \in ConversationIds : InitiatePrompt(u, c)
  \/ \E c \in ConversationIds, p \in MessageIds : InitiateRegeneration(u, c, p)
  \/ \E c \in ConversationIds : InitiateBranch(u, c)
  \/ \E c \in ConversationIds : InitiateMetadataUpdate(u, c)
  \/ \E e \in EscrowIds : CancelPrompt(u, e)

\* The oracle answers the requests of the log and starts agent jobs.
OracleStep ==
  \/ \E r \in requests : AnswerRequest(r)
  \/ \E u \in Users, j \in JobIds : InitiateAgentJob(u, j)

Next ==
  \/ \E u \in Users : UserStep(u)
  \/ OracleStep
  \/ \E e \in EscrowIds : ProcessRefund(e)
  \/ OwnerStep
  \/ Tick

Spec == Init /\ [][Next]_vars

\* Time passes and the keeper that contracts/EVMAIAgentEscrow.sol:577 speaks of
\* calls processRefund on every escrow it may refund.
Fairness ==
  /\ WF_vars(Tick)
  /\ \A e \in EscrowIds : WF_vars(ProcessRefund(e))

FairSpec == Spec /\ Fairness

-------------------------------------------------------------------------------
(* Properties.                                                             *)

Pending == {e \in EscrowIds : /\ escrows[e].user # NoUser
                              /\ escrows[e].status = "PENDING"}

PendingOf(u) == {e \in Pending : escrows[e].user = u}

\* The tokens owed on the escrows in S, one element per token, so that its size
\* is the sum of their amounts.
Tokens(records, S) == UNION {{e} \X (1 .. records[e].amount) : e \in S}

\* All that is owed, and what is owed to one user.
Owed      == Tokens(escrows, Pending)
OwedTo(u) == Tokens(escrows, PendingOf(u))

\* The types of the composed state, for every variable of both contracts.
TypeOK ==
  /\ AgentTypeOK
  /\ spendingLimits \in [Users -> SpendingLimit]
  /\ pendingEscrowCount \in [Users -> Nat]
  /\ escrows \in [EscrowIds -> Escrow]
  /\ promptFee \in PromptFees
  /\ cancellationFee \in CancellationFees
  /\ metadataUpdateFee \in MetadataUpdateFees
  /\ branchFee \in BranchFees
  /\ treasury \in Treasuries
  /\ balance \in [Accounts -> Nat]
  /\ now \in 0 .. MaxTime
  /\ requests \subseteq Request
  /\ openingBalance \in [Users -> Nat]

\* The contract always holds enough tokens to settle every pending escrow, in
\* any order and by any mix of answers, cancellations and refunds, whatever
\* happened to the fees since they were paid in.
Solvent == Cardinality(Owed) <= balance[EscrowAccount]

\* Without agent jobs it holds nothing else: no token stays behind in the
\* contract that no escrow accounts for.
NothingStranded ==
  MaxTriggers = 0 => balance[EscrowAccount] = Cardinality(Owed)

\* A user's spentAmount covers all that user's pending escrows.  cancelPrompt
\* and processRefund subtract an escrow's amount with checked arithmetic, so
\* otherwise a refund would revert for ever: a limit reset while a prompt is
\* pending, or a fee change between payment and refund, must not break it.
RefundsCovered ==
  \A u \in Users :
    Cardinality(OwedTo(u)) <= spendingLimits[u].spentAmount

\* pendingEscrowCount, which is all that setSpendingLimit looks at, covers the
\* user's pending escrows, and is exactly their number where there are no
\* agent jobs: the user can change the limit again once they are settled.
PendingCounted ==
  \A u \in Users :
    /\ Cardinality(PendingOf(u)) <= pendingEscrowCount[u]
    /\ MaxTriggers = 0 => pendingEscrowCount[u] = Cardinality(PendingOf(u))

\* The two ledgers agree: since the limit was last set, a user's token balance
\* went down by exactly the spentAmount the contract recorded, and that is
\* never more than the allowance the user agreed to.
SpentIsNetOutlay ==
  \A u \in Users :
    /\ balance[u] + spendingLimits[u].spentAmount = openingBalance[u]
    /\ spendingLimits[u].spentAmount <= spendingLimits[u].allowance

\* The registry and the escrow agree on the outcome of a request: an answer is
\* on record exactly when it was paid for, and an ID the registry finalized
\* (answered or cancelled) has no payment left pending.
AnsweredIffPaid ==
  MaxTriggers = 0 =>
    \A r \in requests :
      /\ (escrows[r.answer].status = "COMPLETE")
           <=> (messageToConversation[r.answer] # 0)
      /\ (escrows[r.answer].status = "COMPLETE") => r.answer \in isJobFinalized
      /\ r.answer \in isJobFinalized => escrows[r.answer].status # "PENDING"

\* The regeneration lock does its job: a prompt never has two regenerations
\* that both wait for an answer.
OneRegenerationAtATime ==
  \A r1, r2 \in {r \in requests : r.kind = "regeneration"} :
    /\ r1.prompt = r2.prompt
    /\ {r1.answer, r2.answer} \subseteq Pending
    => r1 = r2

\* A request is settled once: an escrow that was paid out to the treasury or
\* back to its user never changes again, so a late answer, cancellation or
\* refund moves no tokens.
SettledForGood ==
  [][MaxTriggers = 0 =>
       \A e \in EscrowIds :
         escrows[e].user # NoUser /\ escrows[e].status # "PENDING"
           => escrows'[e] = escrows[e]]_vars

\* Every payment is settled in the end, even if the oracle never answers and
\* the user never cancels: the keeper's refund cannot be blocked.
EveryPaymentSettles ==
  \A e \in EscrowIds : (e \in Pending) ~> (e \notin Pending)

\* The contracts implement PaymentPromise: an escrow is the payment of its ID.
PaymentOf(e) ==
  [state |-> IF escrows[e].user = NoUser THEN "none"
             ELSE CASE escrows[e].status = "PENDING"  -> "held"
                    [] escrows[e].status = "COMPLETE" -> "collected"
                    [] OTHER                          -> "returned",
   payer  |-> escrows[e].user,
   amount |-> escrows[e].amount]

Promise == INSTANCE PaymentPromise WITH
  Payers       <- Users,
  Nobody       <- NoUser,
  PaymentIds   <- EscrowIds,
  Prices       <- PromptFees,
  Charges      <- MetadataUpdateFees \cup BranchFees,
  ReturnFees   <- CancellationFees \cup {0},
  OpeningPurse <- InitialBalance,
  payment      <- [e \in EscrowIds |-> PaymentOf(e)],
  purse        <- [u \in Users |-> balance[u]],
  vault        <- balance[EscrowAccount]

\* Whatever the users, the oracle, the keeper and the owner do and in whatever
\* order, each payment is taken once and then collected once or returned once
\* to its payer, and no other step moves a user's or the contract's tokens.
KeepsPromise == Promise!PromiseSpec

\* contracts/EVMAIAgentEscrow.sol:70 "Maps a unique escrow ID to its escrow
\* details": a new escrow never takes the ID of one that exists.
EscrowIdUnique ==
  [][\A e \in EscrowIds :
       escrows[e].user # NoUser
         => [escrows'[e] EXCEPT !.status = escrows[e].status] = escrows[e]]_vars

===============================================================================
