----------------------------- MODULE RequestProofs -----------------------------
(***************************************************************************)
(* Theorems on the requests of EVMAIAgentEscrow: what the registry records *)
(* of them agrees with what the escrow was paid, and the regeneration lock *)
(* does its job.  Both hold as long as no agent job takes an answer's ID.  *)
(***************************************************************************)
EXTENDS EVMAIAgentEscrowProofs

\* Every ID in use was reserved, and every request has an answer ID and an
\* escrow of its own; conversation 0 is nobody's.
LogInv ==
  /\ conversationToOwner[0] = NoUser
  /\ \A m \in isJobFinalized : m < messageIdCounter
  /\ \A m \in MessageIds : m >= messageIdCounter => messageToConversation[m] = 0
  /\ \A r \in requests : /\ r.answer < messageIdCounter
                         /\ escrows[r.answer].user # NoUser
  /\ \A r1, r2 \in requests : r1.answer = r2.answer => r1 = r2

\* The outcome of one request, in the escrow and in the registry.
Agrees(r) ==
  /\ (escrows[r.answer].status = "COMPLETE")
       <=> (messageToConversation[r.answer] # 0)
  /\ (escrows[r.answer].status = "COMPLETE") => r.answer \in isJobFinalized
  /\ r.answer \in isJobFinalized => escrows[r.answer].status # "PENDING"

\* A regeneration that waits holds the lock of its prompt, and alone.
LockInv ==
  /\ \A r \in requests :
       r.kind = "regeneration" /\ escrows[r.answer].status = "PENDING"
         => r.prompt \in isRegenerationPending
  /\ \A r1, r2 \in requests :
       /\ r1.kind = "regeneration" /\ r2.kind = "regeneration"
       /\ r1.prompt = r2.prompt
       /\ escrows[r1.answer].status = "PENDING"
       /\ escrows[r2.answer].status = "PENDING"
       => r1 = r2

RequestInv == LogInv /\ (\A r \in requests : Agrees(r)) /\ LockInv

LEMMA InitRequestInv == Init => RequestInv
<1> SUFFICES ASSUME Init PROVE RequestInv
  OBVIOUS
<1>1. requests = {} /\ isJobFinalized = {}
  BY DEF Init, AgentInit
<1>2. conversationToOwner[0] = NoUser
  <2>1. 0 \in ConversationIds
    BY BoundsAssumption DEF ConversationIds
  <2> QED
    BY <2>1 DEF Init, AgentInit
<1>3. \A m \in MessageIds : messageToConversation[m] = 0
  BY DEF Init, AgentInit
<1> QED
  BY <1>1, <1>2, <1>3 DEF RequestInv, LogInv, LockInv

\* The steps that change nothing a request depends on.
LEMMA RequestsUntouched ==
  ASSUME RequestInv, UNCHANGED <<escrows, requests, messageIdCounter,
           messageToConversation, isJobFinalized, isRegenerationPending>>,
         conversationToOwner'[0] = conversationToOwner[0]
  PROVE  RequestInv'
  BY DEF RequestInv, LogInv, Agrees, LockInv

\* A new request r, whose answer's ID nothing has used.
LEMMA RequestAdded ==
  ASSUME MaxTriggers = 0, TypeOK, RequestInv,
         NEW r \in Request, NEW u \in Users,
         messageIdCounter' \in Nat,
         r.answer >= messageIdCounter,
         r.answer < messageIdCounter',
         messageIdCounter <= messageIdCounter',
         CreateEscrow(r.answer, u),
         requests' = requests \cup {r},
         isJobFinalized' = isJobFinalized,
         messageToConversation'[r.answer] = 0,
         \A m \in MessageIds :
           m < messageIdCounter \/ m >= messageIdCounter'
             => messageToConversation'[m] = messageToConversation[m],
         conversationToOwner'[0] = NoUser,
         r.kind = "regeneration" =>
           /\ r.prompt \notin isRegenerationPending
           /\ isRegenerationPending' = isRegenerationPending \cup {r.prompt},
         r.kind = "prompt" => isRegenerationPending' = isRegenerationPending
  PROVE  RequestInv'
<1>0. /\ messageIdCounter \in Nat /\ messageIdCounter' \in Int
      /\ isJobFinalized \subseteq EscrowIds /\ EscrowIds = MessageIds
      /\ \A x \in requests : x \in Request /\ x.answer \in MessageIds
      /\ r.answer \in MessageIds
      /\ MessageIds \subseteq Nat
  <2>1. messageIdCounter \in Nat /\ MaxMessages \in Nat
    BY BoundsAssumption DEF TypeOK, AgentTypeOK
  <2>2. EscrowIds = MessageIds /\ MessageIds \subseteq Nat
    BY <2>1 DEF EscrowIds, MessageIds, TriggerIds
  <2> QED
    BY <2>1, <2>2 DEF TypeOK, AgentTypeOK, Request
<1>1. \A x \in requests : x.answer < messageIdCounter /\ x.answer # r.answer
  <2>1. \A x \in requests : x.answer < messageIdCounter
    BY DEF RequestInv, LogInv
  <2>2. r.answer \in Nat /\ messageIdCounter \in Nat
    BY <1>0
  <2>3. ~ (r.answer < messageIdCounter)
    BY <2>2
  <2> QED
    BY <2>1, <2>3
<1>2. /\ escrows'[r.answer].user = u /\ escrows'[r.answer].status = "PENDING"
      /\ \A x \in requests : escrows'[x.answer] = escrows[x.answer]
  BY <1>0, <1>1 DEF CreateEscrow, TypeOK
<1>3. LogInv'
  <2>1. \A m \in isJobFinalized' : m < messageIdCounter'
    <3>1. \A m \in isJobFinalized : m < messageIdCounter /\ m \in Nat
      BY <1>0 DEF RequestInv, LogInv
    <3> QED
      BY <1>0, <3>1
  <2>2. \A m \in MessageIds : m >= messageIdCounter' => messageToConversation'[m] = 0
    BY <1>0 DEF RequestInv, LogInv
  <2>3. \A x \in requests' : /\ x.answer < messageIdCounter'
                             /\ escrows'[x.answer].user # NoUser
    <3>1. ASSUME NEW x \in requests
          PROVE  x.answer < messageIdCounter' /\ escrows'[x.answer].user # NoUser
      <4>1. x.answer \in Nat /\ x.answer < messageIdCounter
        BY <1>0, <1>1
      <4>2. escrows'[x.answer].user # NoUser
        BY <1>2 DEF RequestInv, LogInv
      <4> QED
        BY <1>0, <4>1, <4>2
    <3>2. r.answer < messageIdCounter' /\ escrows'[r.answer].user # NoUser
      BY <1>2, BoundsAssumption
    <3> QED
      BY <3>1, <3>2
  <2>4. \A x, y \in requests' : x.answer = y.answer => x = y
    BY <1>1 DEF RequestInv, LogInv
  <2> QED
    BY <2>1, <2>2, <2>3, <2>4 DEF LogInv
<1>4. \A x \in requests' : Agrees(x)'
  <2>1. ASSUME NEW x \in requests PROVE Agrees(x)'
    BY <1>0, <1>1, <1>2, <2>1 DEF RequestInv, Agrees
  <2>2. Agrees(r)'
    <3>1. r.answer \notin isJobFinalized
      <4>1. r.answer \in Nat /\ messageIdCounter \in Nat
        BY <1>0
      <4>2. ~ (r.answer < messageIdCounter)
        BY <4>1
      <4> QED
        BY <4>2 DEF RequestInv, LogInv
    <3> QED
      BY <1>2, <3>1 DEF Agrees
  <2> QED
    BY <2>1, <2>2
<1>5. LockInv'
  <2>1. isRegenerationPending \subseteq isRegenerationPending'
    BY DEF Request
  <2>2. \A x \in requests' :
          x.kind = "regeneration" /\ escrows'[x.answer].status = "PENDING"
            => x.prompt \in isRegenerationPending'
    BY <1>2, <2>1 DEF RequestInv, LockInv
  <2>3. \A x \in requests :
          /\ r.kind = "regeneration" /\ x.kind = "regeneration"
          /\ escrows[x.answer].status = "PENDING"
          => x.prompt # r.prompt
    BY DEF RequestInv, LockInv
  <2> QED
    BY <1>2, <2>2, <2>3 DEF RequestInv, LockInv
<1> QED
  BY <1>3, <1>4, <1>5 DEF RequestInv

\* An escrow that is settled for another outcome than an answer.
LEMMA RequestReturned ==
  ASSUME MaxTriggers = 0, TypeOK, FreshIds, RequestInv,
         NEW e \in EscrowIds, escrows[e].user \in Users,
         Settle(e, "REFUNDED"),
         isJobFinalized' \in {isJobFinalized, isJobFinalized \cup {e}},
         UNCHANGED <<requests, messageIdCounter, messageToConversation,
                     isRegenerationPending, conversationToOwner>>
  PROVE  RequestInv'
<1>1. /\ escrows[e].status = "PENDING"
      /\ escrows'[e].status = "REFUNDED" /\ escrows'[e].user = escrows[e].user
      /\ \A x \in EscrowIds \ {e} : escrows'[x] = escrows[x]
  BY DEF Settle, TypeOK
<1>2. e < messageIdCounter
  BY BoundsAssumption DEF FreshIds, TypeOK, AgentTypeOK, EscrowIds, MessageIds,
     TriggerIds
<1>3. \A r \in requests : r.answer \in EscrowIds
  BY DEF TypeOK, Request, EscrowIds
<1>4. LogInv'
  BY <1>1, <1>2, <1>3 DEF RequestInv, LogInv
<1>5. ASSUME NEW r \in requests PROVE Agrees(r)'
  <2>1. CASE r.answer = e
    BY <1>1, <2>1 DEF RequestInv, Agrees
  <2>2. CASE r.answer # e
    BY <1>1, <1>3, <2>2 DEF RequestInv, Agrees
  <2> QED
    BY <2>1, <2>2
<1>6. \A r \in requests : escrows'[r.answer].status = "PENDING"
                            => escrows[r.answer].status = "PENDING"
  BY <1>1, <1>3
<1>7. LockInv'
  BY <1>6 DEF RequestInv, LockInv
<1> QED
  BY <1>4, <1>5, <1>7 DEF RequestInv

\* A request that is answered.
LEMMA RequestAnswered ==
  ASSUME MaxTriggers = 0, TypeOK, RequestInv, NEW r \in requests, AnswerRequest(r)
  PROVE  RequestInv'
<1> DEFINE e == r.answer
           c == messageToConversation[r.prompt]
<1>0. /\ e \in MessageIds /\ e \in EscrowIds /\ r.prompt \in MessageIds
      /\ \A x \in requests : x.answer \in EscrowIds /\ x.answer \in MessageIds
      /\ \A x \in requests : x.kind \in {"prompt", "regeneration"}
      /\ messageIdCounter' = messageIdCounter
      /\ requests' = requests /\ conversationToOwner' = conversationToOwner
      /\ messageIdCounter \in Nat
  BY DEF TypeOK, AgentTypeOK, Request, EscrowIds, AnswerRequest, counters
<1>1. /\ escrows[e].status = "PENDING"
      /\ escrows'[e].status = "COMPLETE" /\ escrows'[e].user = escrows[e].user
      /\ \A x \in EscrowIds \ {e} : escrows'[x] = escrows[x]
  BY <1>0 DEF AnswerRequest, Settle, TypeOK
<1>2. /\ c # 0
      /\ isJobFinalized' = isJobFinalized \cup {e}
      /\ messageToConversation'[e] = c
      /\ \A m \in MessageIds \ {e} :
           messageToConversation'[m] = messageToConversation[m]
  BY <1>0 DEF AnswerRequest, SubmitAnswer, RequestInv, LogInv, TypeOK, AgentTypeOK
<1>3. \A x \in requests : x # r => x.answer # e
  BY DEF RequestInv, LogInv
<1>4. LogInv'
  <2>1. e < messageIdCounter
    BY DEF RequestInv, LogInv
  <2>2. \A m \in isJobFinalized' : m < messageIdCounter'
    BY <1>0, <1>2, <2>1 DEF RequestInv, LogInv
  <2>3. \A m \in MessageIds : m >= messageIdCounter' => messageToConversation'[m] = 0
    <3> SUFFICES ASSUME NEW m \in MessageIds, m >= messageIdCounter
                 PROVE  messageToConversation'[m] = 0
      BY <1>0
    <3>1. m # e
      BY <1>0, <2>1 DEF MessageIds
    <3> QED
      BY <1>2, <3>1 DEF RequestInv, LogInv
  <2>4. \A x \in requests : /\ x.answer < messageIdCounter
                            /\ escrows'[x.answer].user # NoUser
    BY <1>0, <1>1 DEF RequestInv, LogInv
  <2> QED
    BY <1>0, <2>2, <2>3, <2>4 DEF RequestInv, LogInv
<1>5. ASSUME NEW x \in requests PROVE Agrees(x)'
  <2>1. CASE x = r
    BY <1>1, <1>2, <2>1 DEF Agrees
  <2>2. CASE x # r
    <3>1. /\ x.answer # e /\ escrows'[x.answer] = escrows[x.answer]
          /\ messageToConversation'[x.answer] = messageToConversation[x.answer]
      BY <1>0, <1>1, <1>2, <1>3, <2>2
    <3> QED
      BY <1>2, <3>1 DEF RequestInv, Agrees
  <2> QED
    BY <2>1, <2>2
<1>6. LockInv'
  <2>1. \A x \in requests : escrows'[x.answer].status = "PENDING"
          => x # r /\ escrows[x.answer].status = "PENDING"
    BY <1>0, <1>1
  <2>2. ASSUME NEW x \in requests, x.kind = "regeneration",
               escrows'[x.answer].status = "PENDING"
        PROVE  x.prompt \in isRegenerationPending'
    <3>1. x.prompt \in isRegenerationPending /\ x # r
      BY <2>1, <2>2 DEF RequestInv, LockInv
    <3>2. CASE r.kind = "prompt"
      BY <3>1, <3>2 DEF AnswerRequest, SubmitAnswer
    <3>3. CASE r.kind = "regeneration"
      <4>1. x.prompt # r.prompt
        BY <1>1, <2>1, <2>2, <3>1, <3>3 DEF RequestInv, LockInv
      <4> QED
        BY <3>1, <3>3, <4>1 DEF AnswerRequest, SubmitAnswer
    <3> QED
      BY <1>0, <3>2, <3>3
  <2> QED
    BY <1>0, <2>1, <2>2 DEF RequestInv, LockInv
<1> QED
  BY <1>0, <1>4, <1>5, <1>6 DEF RequestInv

LEMMA NextRequestInv ==
  ASSUME MaxTriggers = 0, TypeOK, FreshIds, RequestInv, [Next]_vars
  PROVE  RequestInv'
<1>0. /\ messageIdCounter \in Nat /\ MaxMessages \in Nat
      /\ conversationIdCounter \in Nat /\ conversationIdCounter >= 1
      /\ conversationToOwner \in [ConversationIds -> Owners]
      /\ messageToConversation \in [MessageIds -> ConversationIds]
      /\ conversationToOwner[0] = NoUser
      /\ 0 \in ConversationIds /\ NoUser \notin Users
      /\ \A m \in MessageIds : m >= messageIdCounter => messageToConversation[m] = 0
  BY BoundsAssumption DEF TypeOK, AgentTypeOK, ConversationIds, RequestInv, LogInv
<1>1. ASSUME NEW u \in Users, NEW c \in ConversationIds, InitiatePrompt(u, c)
      PROVE  RequestInv'
  <2> DEFINE r == [kind |-> "prompt", user |-> u, prompt |-> messageIdCounter,
                   answer |-> messageIdCounter + 1]
             t == IF c = 0 THEN conversationIdCounter ELSE c
  <2>1. /\ messageIdCounter \in MessageIds /\ messageIdCounter + 1 \in MessageIds
        /\ messageIdCounter' = messageIdCounter + 2
    BY <1>0, <1>1 DEF InitiatePrompt, ReserveMessageIds, MessageIds
  <2>2. r \in Request /\ r.answer = messageIdCounter + 1 /\ r.kind = "prompt"
    BY <2>1 DEF Request
  <2>3. t # 0
    BY <1>0
  <2>4. /\ conversationToOwner'[0] = NoUser
        /\ messageToConversation' =
             [messageToConversation EXCEPT ![messageIdCounter] = t]
    BY <1>0, <1>1, <2>3 DEF InitiatePrompt, SubmitPrompt
  <2>5. /\ messageToConversation'[r.answer] = 0
        /\ \A m \in MessageIds :
             m < messageIdCounter \/ m >= messageIdCounter'
               => messageToConversation'[m] = messageToConversation[m]
    BY <1>0, <2>1, <2>2, <2>4 DEF MessageIds
  <2>6. /\ CreateEscrow(r.answer, u) /\ requests' = requests \cup {r}
        /\ isJobFinalized' = isJobFinalized
        /\ isRegenerationPending' = isRegenerationPending
    BY <1>1 DEF InitiatePrompt
  <2> HIDE DEF r
  <2> QED
    BY <1>0, <2>1, <2>2, <2>4, <2>5, <2>6, RequestAdded
<1>2. ASSUME NEW u \in Users, NEW c \in ConversationIds, NEW p \in MessageIds,
             InitiateRegeneration(u, c, p)
      PROVE  RequestInv'
  <2> DEFINE r == [kind |-> "regeneration", user |-> u, prompt |-> p,
                   answer |-> messageIdCounter]
  <2>1. /\ messageIdCounter \in MessageIds
        /\ messageIdCounter' = messageIdCounter + 1
    BY <1>0, <1>2 DEF InitiateRegeneration, ReserveMessageIds, MessageIds
  <2>2. /\ r \in Request /\ r.answer = messageIdCounter
        /\ r.kind = "regeneration" /\ r.prompt = p
    BY <2>1 DEF Request
  <2>3. /\ CreateEscrow(r.answer, u) /\ requests' = requests \cup {r}
        /\ isJobFinalized' = isJobFinalized
        /\ messageToConversation' = messageToConversation
        /\ conversationToOwner' = conversationToOwner
        /\ p \notin isRegenerationPending
        /\ isRegenerationPending' = isRegenerationPending \cup {p}
    BY <1>2 DEF InitiateRegeneration, SubmitRegenerationRequest
  <2> HIDE DEF r
  <2>4. messageToConversation'[r.answer] = 0
    BY <1>0, <2>1, <2>2, <2>3
  <2> QED
    BY <1>0, <2>1, <2>2, <2>3, <2>4, RequestAdded
<1>3. ASSUME NEW u \in Users, NEW j \in JobIds, InitiateAgentJob(u, j)
      PROVE  RequestInv'
  <2>1. FALSE
    BY <1>3, BoundsAssumption DEF InitiateAgentJob, ReserveTriggerId, TypeOK,
       AgentTypeOK
  <2> QED
    BY <2>1
<1>4. ASSUME NEW u \in Users, NEW c \in ConversationIds, InitiateBranch(u, c)
      PROVE  RequestInv'
  <2>1. conversationToOwner'[0] = conversationToOwner[0]
    BY <1>0, <1>4 DEF InitiateBranch, SubmitBranchRequest
  <2> QED
    BY <1>4, <2>1, RequestsUntouched DEF InitiateBranch
<1>5. ASSUME NEW u \in Users, NEW e \in EscrowIds, CancelPrompt(u, e)
      PROVE  RequestInv'
  BY <1>5, RequestReturned DEF CancelPrompt, RecordCancellation, counters
<1>6. ASSUME NEW e \in EscrowIds, ProcessRefund(e)
      PROVE  RequestInv'
  <2>1. escrows[e].user \in Users
    BY <1>6 DEF ProcessRefund, TypeOK, Escrow, Owners
  <2> QED
    BY <1>6, <2>1, RequestReturned DEF ProcessRefund, agentVars, counters
<1>7. ASSUME NEW r \in requests, AnswerRequest(r) PROVE RequestInv'
  BY <1>7, RequestAnswered
<1>8. ASSUME UNCHANGED <<agentVars, escrows, requests>> PROVE RequestInv'
  BY <1>8, RequestsUntouched DEF agentVars, counters
<1> QED
  BY <1>1, <1>2, <1>3, <1>4, <1>5, <1>6, <1>7, <1>8
  DEF Next, UserStep, OracleStep, SetSpendingLimit, CancelSpendingLimit, ResetLimit,
      InitiateMetadataUpdate, OwnerStep, SetPromptFee, SetCancellationFee,
      SetMetadataUpdateFee, SetBranchFee, SetTreasury, OwnerUnchanged, Tick, vars

LEMMA RequestInvHolds == MaxTriggers = 0 => (Spec => []RequestInv)
<1> SUFFICES ASSUME MaxTriggers = 0 PROVE Spec => []RequestInv
  OBVIOUS
<1>1. TypeOK /\ FreshIds /\ RequestInv /\ [Next]_vars => RequestInv'
  BY NextRequestInv
<1> QED
  BY <1>1, InitRequestInv, TypeCorrect, FreshIdsHold, PTL DEF Spec

\* Without agent jobs an answer is on record in the registry exactly when the
\* escrow was paid out for it, and what the registry finalized is not pending in
\* the escrow, although processRefund tells the registry nothing.
THEOREM AnsweredExactlyIfPaid == Spec => []AnsweredIffPaid
<1>1. CASE MaxTriggers = 0
  <2>1. RequestInv => AnsweredIffPaid
    BY DEF RequestInv, Agrees, AnsweredIffPaid
  <2> QED
    BY <1>1, <2>1, RequestInvHolds, PTL
<1>2. CASE MaxTriggers # 0
  <2>1. TypeOK => AnsweredIffPaid
    BY <1>2 DEF AnsweredIffPaid
  <2> QED
    BY <2>1, TypeCorrect, PTL
<1> QED
  BY <1>1, <1>2

\* A prompt never has two regenerations that wait for an answer, however
\* requests, answers, cancellations and refunds interleave.
THEOREM RegenerationsExclude ==
  MaxTriggers = 0 => (Spec => []OneRegenerationAtATime)
<1> SUFFICES ASSUME MaxTriggers = 0 PROVE Spec => []OneRegenerationAtATime
  OBVIOUS
<1>1. RequestInv => OneRegenerationAtATime
  BY DEF RequestInv, LockInv, OneRegenerationAtATime, Pending
<1> QED
  BY <1>1, RequestInvHolds, PTL

===============================================================================
