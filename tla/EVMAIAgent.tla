------------------------------ MODULE EVMAIAgent ------------------------------
(***************************************************************************)
(* The on-chain registry of conversations, messages, jobs and their        *)
(* owners (contracts/EVMAIAgent.sol).                                      *)
(*                                                                         *)
(* A transaction that enters the escrow contract calls several functions   *)
(* of this contract before it commits, so every function is an operator    *)
(* here: its guard is the function's list of reverts, its primed variables *)
(* are the function's writes, and it leaves the other variables free.      *)
(* EVMAIAgentEscrow conjoins the calls of a transaction into one action.   *)
(*                                                                         *)
(* A Solidity mapping is total and zero by default: an owner mapping is    *)
(* NoUser where it was never written, and a mapping to bool is the set of  *)
(* the keys that map to true.  The onlyOracle and onlyAIAgentEscrow        *)
(* modifiers are the choice of which actions call an operator.             *)
(***************************************************************************)
EXTENDS Integers, FiniteSets

CONSTANTS
  Users,             \* the accounts that own conversations
  NoUser,            \* the zero address
  MaxConversations,  \* bound: the largest conversation ID
  MaxMessages,       \* bound: how many message IDs there are
  MaxTriggers        \* bound: how many agent jobs the oracle starts

ASSUME BoundsAssumption ==
  /\ NoUser \notin Users
  /\ MaxConversations \in Nat
  /\ MaxMessages \in Nat
  /\ MaxTriggers \in Nat

VARIABLES
  conversationIdCounter,
  messageIdCounter,
  jobIdCounter,
  triggerIdCounter,
  conversationToOwner,
  jobToOwner,
  messageToConversation,
  triggerToJob,
  isJobFinalized,
  isRegenerationPending

counters == <<conversationIdCounter, messageIdCounter,
              jobIdCounter, triggerIdCounter>>

jobVars == <<jobIdCounter, triggerIdCounter, jobToOwner, triggerToJob>>

agentVars == <<counters, conversationToOwner, jobToOwner,
               messageToConversation, triggerToJob,
               isJobFinalized, isRegenerationPending>>

ConversationIds == 0 .. MaxConversations
MessageIds      == 0 .. (MaxMessages - 1)
TriggerIds      == 0 .. (MaxTriggers - 1)
JobIds          == 0 .. MaxTriggers
EscrowIds       == MessageIds \cup TriggerIds
Owners          == Users \cup {NoUser}

AgentTypeOK ==
  /\ conversationIdCounter \in 1 .. (MaxConversations + 1)
  /\ messageIdCounter \in 0 .. MaxMessages
  /\ jobIdCounter \in 1 .. (MaxTriggers + 1)
  /\ triggerIdCounter \in 0 .. MaxTriggers
  /\ conversationToOwner \in [ConversationIds -> Owners]
  /\ jobToOwner \in [JobIds -> Owners]
  /\ messageToConversation \in [MessageIds -> ConversationIds]
  /\ triggerToJob \in [TriggerIds -> JobIds]
  /\ isJobFinalized \subseteq EscrowIds
  /\ isRegenerationPending \subseteq MessageIds

\* Conversation and job IDs start at 1, message and trigger IDs at 0.
AgentInit ==
  /\ conversationIdCounter = 1
  /\ messageIdCounter = 0
  /\ jobIdCounter = 1
  /\ triggerIdCounter = 0
  /\ conversationToOwner = [c \in ConversationIds |-> NoUser]
  /\ jobToOwner = [j \in JobIds |-> NoUser]
  /\ messageToConversation = [m \in MessageIds |-> 0]
  /\ triggerToJob = [t \in TriggerIds |-> 0]
  /\ isJobFinalized = {}
  /\ isRegenerationPending = {}

-------------------------------------------------------------------------------
(* Reserving IDs.  Each returns the counter's value before the call.       *)

ReserveConversationId ==
  /\ conversationIdCounter <= MaxConversations
  /\ conversationIdCounter' = conversationIdCounter + 1

\* The IDs a transaction gets from its n calls are the n values from the
\* counter on.
ReserveMessageIds(n) ==
  /\ messageIdCounter + n <= MaxMessages
  /\ messageIdCounter' = messageIdCounter + n

ReserveJobId ==
  /\ jobIdCounter <= MaxTriggers
  /\ jobIdCounter' = jobIdCounter + 1

ReserveTriggerId ==
  /\ triggerIdCounter < MaxTriggers
  /\ triggerIdCounter' = triggerIdCounter + 1

-------------------------------------------------------------------------------
(* Calls of the escrow contract.                                           *)

\* An unowned conversation becomes the caller's, whichever way its ID came.
SubmitPrompt(user, conversation, prompt) ==
  /\ conversationToOwner[conversation] \in {NoUser, user}
  /\ conversationToOwner' = [conversationToOwner EXCEPT ![conversation] = user]
  /\ messageToConversation' =
       [messageToConversation EXCEPT ![prompt] = conversation]

\* Mutation of SubmitRegenerationRequest: without the check of the lock.
SubmitRegenerationUnlocked(user, conversation, prompt) ==
  /\ conversationToOwner[conversation] = user
  /\ isRegenerationPending' = isRegenerationPending \cup {prompt}

SubmitRegenerationRequest(user, conversation, prompt) ==
  /\ prompt \notin isRegenerationPending
  /\ conversationToOwner[conversation] = user
  /\ isRegenerationPending' = isRegenerationPending \cup {prompt}

SubmitAgentJob(user, job, trigger) ==
  /\ jobToOwner[job] \in {NoUser, user}
  /\ jobToOwner' = [jobToOwner EXCEPT ![job] = user]
  /\ triggerToJob' = [triggerToJob EXCEPT ![trigger] = job]

SubmitMetadataUpdate(user, conversation) ==
  conversationToOwner[conversation] = user

\* The new conversation's owner is written whatever it was before.
SubmitBranchRequest(user, original, new) ==
  /\ conversationToOwner[original] = user
  /\ conversationToOwner' = [conversationToOwner EXCEPT ![new] = user]

RecordCancellation(answer) ==
  /\ answer \notin isJobFinalized
  /\ isJobFinalized' = isJobFinalized \cup {answer}

-------------------------------------------------------------------------------
(* Calls of the oracle.  submitConversationMetadata and submitBranch only  *)
(* emit events, so they have no operator.                                  *)

\* withPrompt: the CID bundle names the prompt's file, as it does for the
\* answer of a new prompt and not for a regeneration.
SubmitAnswer(prompt, answer, withPrompt) ==
  LET conversation == messageToConversation[prompt]
  IN  /\ answer \notin isJobFinalized
      /\ conversationToOwner[conversation] # NoUser
      /\ isJobFinalized' = isJobFinalized \cup {answer}
      /\ isRegenerationPending' =
           IF withPrompt THEN isRegenerationPending
                         ELSE isRegenerationPending \ {prompt}
      /\ messageToConversation' =
           [messageToConversation EXCEPT ![answer] = conversation]

===============================================================================
