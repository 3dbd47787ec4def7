----------------------------- MODULE AnswerHandler -----------------------------
(***************************************************************************)
(* What the handlers of oracle/src/aiAgentOracle.js do with a request:     *)
(* handlePrompt, handleRegeneration, handleBranch, handleMetadataUpdate,   *)
(* the mutex around the wallet, the transactions they send, the telemetry  *)
(* they record, and the retries that run them again.                       *)
(*                                                                         *)
(* A task is one run of a handler in a slot of the queue; an action is the *)
(* code up to the next await whose outcome matters.  The user cancels, a   *)
(* keeper refunds, transactions wait in the mempool, RPC calls fail and    *)
(* the process crashes between any two steps.  Which events are scanned    *)
(* again after a crash is the subject of OracleEventLoop: here any request *)
(* of the current batch may be.                                            *)
(***************************************************************************)
EXTENDS Integers, Sequences, FiniteSets

CONSTANTS
  Prompts,         \* the requests of each kind, numbered in chain order
  Regenerations,
  Branches,
  Updates,         \* metadata updates, all of one conversation
  Malformed,       \* requests whose payload is no valid input
  PerBatch,        \* how many requests one batch of blocks holds
  Tasks,           \* the slots of the queue
  NoTask,
  MAX_RETRIES,
  MaxFaults,       \* bound: calls of the process that fail
  MaxCrashes       \* bound

Answers  == Prompts \cup Regenerations
Requests == Answers \cup Branches \cup Updates

ASSUME HandlerAssumption ==
  /\ Requests \subseteq Nat \ {0}
  /\ Malformed \subseteq Requests
  /\ PerBatch \in Nat \ {0}
  /\ IsFiniteSet(Tasks)
  /\ NoTask \notin Tasks
  /\ MAX_RETRIES \in Nat \ {0}
  /\ MaxFaults \in Nat
  /\ MaxCrashes \in Nat

BatchOf(q) == (q - 1) \div PerBatch

VARIABLES
  fate,      \* of each request in the contracts
  written,   \* the requests whose transaction took effect, in order
  outbox,    \* the transactions that wait to be mined, in nonce order
  task,      \* what each slot of the queue runs
  mutex,     \* txMutex: the tasks that want the wallet; the first has it
  job,       \* how far the loop is with each request
  retries,   \* retryCount of its job
  rows,      \* what recordAnswerActivity wrote
  sends,     \* history: the transactions sent for each request
  losses,    \* history: how often the process lost track of one of them
  retried,   \* history: the requests a retry has taken up
  faults,
  crashes

chainVars   == <<fate, written>>
historyVars == <<rows, sends, losses, retried>>
vars == <<chainVars, outbox, task, mutex, job, retries, historyVars, faults, crashes>>

Idle == [request |-> 0, pc |-> "idle", retry |-> FALSE, final |-> FALSE,
         missed |-> 0, receipt |-> "none", error |-> "none"]

Fates  == {"open", "answered", "cancelled", "refunded"}
Jobs   == {"waiting", "failed", "done", "reported", "forgotten"}
Pcs    == {"idle", "check", "work", "recheck", "upload", "lock", "send",
           "confirm", "record", "caught", "recordFailed"}
Errors == {"none", "bad", "retryable", "fatal"}

\* EVMAIAgent.isJobFinalized: processRefund does not finalize a job.
Finalized(q) == fate[q] \in {"answered", "cancelled"}

Init ==
  /\ fate = [q \in Requests |-> "open"]
  /\ written = <<>>
  /\ outbox = <<>>
  /\ task = [t \in Tasks |-> Idle]
  /\ mutex = <<>>
  /\ job = [q \in Requests |-> "waiting"]
  /\ retries = [q \in Requests |-> 0]
  /\ rows = {}
  /\ sends = [q \in Requests |-> 0]
  /\ losses = [q \in Requests |-> 0]
  /\ retried = {}
  /\ faults = 0
  /\ crashes = 0

At(t, pc)   == task[t].pc = pc
Goto(t, pc) == task' = [task EXCEPT ![t].pc = pc]
Req(t)      == task[t].request
IsAnswer(t) == Req(t) \in Answers

NoFault == UNCHANGED faults
Fault   == faults < MaxFaults /\ faults' = faults + 1

-------------------------------------------------------------------------------
(* A task begins and ends.                                                 *)

Begin(t, q, again) ==
  /\ At(t, "idle")
  /\ task' = [task EXCEPT ![t] =
       [Idle EXCEPT !.request = q, !.retry = again, !.final = q \in Answers /\ Finalized(q),
                    !.pc = IF q \in Answers THEN "check" ELSE "work"]]
  /\ retried' = IF again THEN retried \cup {q} ELSE retried
  /\ UNCHANGED <<chainVars, outbox, mutex, job, retries, rows, sends, losses, faults, crashes>>

\* Mutation: the loop does not wait for the batch under way.
DeliverAtOnce(t, q) ==
  /\ job[q] = "waiting"
  /\ \A u \in Tasks : Req(u) # q
  /\ Begin(t, q, FALSE)

\* The loop goes on to a batch when every task of the batches before it ended.
Deliver(t, q) ==
  /\ job[q] = "waiting"
  /\ \A u \in Tasks : Req(u) # q
  /\ \A p \in Requests : BatchOf(p) < BatchOf(q) => job[p] # "waiting"
  /\ Begin(t, q, FALSE)

\* The timer starts a retry run whether or not the last one has ended, so two
\* tasks may retry one job.
RetryJob(t, q) == job[q] = "failed" /\ Begin(t, q, TRUE)

\* Mutation: a retry that fails does not count.
OutcomeUncounted(t, error) ==
  IF error = "none" \/ (error = "bad" /\ ~task[t].retry) THEN "done"
    ELSE IF task[t].retry \/ error = "retryable" THEN "failed" ELSE "reported"

\* handleAndRecord and retryFailedJobs: what becomes of a request whose
\* handler returned, or threw the error.
Outcome(t, error) ==
  IF error = "none" THEN "done"
  ELSE IF task[t].retry
    THEN IF retries[Req(t)] + 1 >= MAX_RETRIES THEN "reported" ELSE "failed"
  ELSE CASE error = "bad"       -> "done"
         [] error = "retryable" -> "failed"
         [] error = "fatal"     -> "reported"

\* Mutation: transactions are sent without the mutex.
HasNoWallet(t) == mutex # <<>>

\* The first in line has the wallet.
HasWallet(t) == mutex # <<>> /\ Head(mutex) = t

\* Mutation: the mutex is not released when a handler throws.
ReleasedOnReturn(t) == IF task[t].receipt = "ok" THEN Tail(mutex) ELSE mutex

\* Only the task that has the wallet can give it back.
Released(t) == IF HasWallet(t) THEN Tail(mutex) ELSE mutex

End(t, error) ==
  /\ job' = [job EXCEPT ![Req(t)] = Outcome(t, error)]
  /\ retries' = IF task[t].retry /\ error # "none" /\ retries[Req(t)] < MAX_RETRIES
                  THEN [retries EXCEPT ![Req(t)] = @ + 1] ELSE retries
  /\ task' = [task EXCEPT ![t] = Idle]
  /\ mutex' = Released(t)

\* An exception frees the wallet; only the handlers of answers look at it.
Throw(t, error) ==
  IF IsAnswer(t)
    THEN /\ task' = [task EXCEPT ![t] = [@ EXCEPT !.pc = "caught", !.error = error]]
         /\ mutex' = Released(t)
         /\ UNCHANGED <<job, retries>>
    ELSE End(t, error)

Transient == {"retryable", "fatal"}

\* An await that throws for want of a service.
CallFails(t) == Fault /\ \E error \in Transient : Throw(t, error)

Proceed(t, pc) == NoFault /\ Goto(t, pc) /\ UNCHANGED <<mutex, job, retries>>

-------------------------------------------------------------------------------
(* The steps of a handler.                                                 *)

\* The check before the model is asked; it is skipped if the RPC fails.
CheckFinalized(t) ==
  /\ At(t, "check")
  /\ \/ Finalized(Req(t)) /\ NoFault /\ End(t, "none")
     \/ ~Finalized(Req(t)) /\ Proceed(t, "work")
     \/ /\ Fault
        /\ task' = [task EXCEPT ![t] = [@ EXCEPT !.pc = "work", !.missed = task[t].missed + 1]]
        /\ UNCHANGED <<mutex, job, retries>>
  /\ UNCHANGED <<chainVars, outbox, historyVars, crashes>>

\* Session key, decryption, validation, history and the model's answer.
Work(t) ==
  /\ At(t, "work")
  /\ \/ /\ Req(t) \notin Malformed
        /\ Proceed(t, IF IsAnswer(t) THEN "recheck" ELSE "upload")
     \/ Req(t) \in Malformed /\ NoFault /\ Throw(t, "bad")
     \/ CallFails(t)
  /\ UNCHANGED <<chainVars, outbox, historyVars, crashes>>

\* Mutation: the second check does not return.
RecheckIgnored(t) ==
  /\ At(t, "recheck")
  /\ Proceed(t, "upload")
  /\ UNCHANGED <<chainVars, outbox, historyVars, crashes>>

\* The check before storage is paid for.
Recheck(t) ==
  /\ At(t, "recheck")
  /\ \/ Finalized(Req(t)) /\ NoFault /\ End(t, "none")
     \/ ~Finalized(Req(t)) /\ Proceed(t, "upload")
     \/ /\ Fault
        /\ task' = [task EXCEPT ![t] = [@ EXCEPT !.pc = "upload", !.missed = task[t].missed + 1]]
        /\ UNCHANGED <<mutex, job, retries>>
  /\ UNCHANGED <<chainVars, outbox, historyVars, crashes>>

Upload(t) ==
  /\ At(t, "upload")
  /\ \/ /\ NoFault
        /\ Goto(t, "lock")
        /\ mutex' = Append(mutex, t)
        /\ UNCHANGED <<job, retries>>
     \/ CallFails(t)
  /\ UNCHANGED <<chainVars, outbox, historyVars, crashes>>

\* The check under the mutex; this one throws if the RPC fails.
Guard(t) ==
  /\ At(t, "lock")
  /\ HasWallet(t)
  /\ \/ IsAnswer(t) /\ Finalized(Req(t)) /\ NoFault /\ End(t, "none")
     \/ ~(IsAnswer(t) /\ Finalized(Req(t))) /\ Proceed(t, "send")
     \/ IsAnswer(t) /\ CallFails(t)
  /\ UNCHANGED <<chainVars, outbox, historyVars, crashes>>

Broadcast(t, sender) ==
  /\ outbox' = Append(outbox, [request |-> Req(t), sender |-> sender])
  /\ sends' = [sends EXCEPT ![Req(t)] = @ + 1]

Lost(t) == losses' = [losses EXCEPT ![Req(t)] = @ + 1]

\* The gas estimate reverts with JobAlreadyFinalized, which isContractError
\* recognizes; the revert of a transaction that was mined carries no data.
AlreadyFinalized(t) == IsAnswer(t) /\ Finalized(Req(t))

\* The gas estimate runs the call: it also reverts, in the escrow, if the
\* payment was refunded.  The reply to a transaction may be lost.
Send(t) ==
  /\ At(t, "send")
  /\ \/ /\ IsAnswer(t) => fate[Req(t)] = "open"
        /\ \/ Broadcast(t, t) /\ Proceed(t, "confirm") /\ UNCHANGED losses
           \/ Broadcast(t, NoTask) /\ CallFails(t) /\ Lost(t)
     \/ /\ AlreadyFinalized(t) /\ NoFault /\ End(t, "none")
        /\ UNCHANGED <<outbox, sends, losses>>
     \/ /\ IsAnswer(t) /\ fate[Req(t)] = "refunded" /\ NoFault /\ Throw(t, "fatal")
        /\ UNCHANGED <<outbox, sends, losses>>
     \/ CallFails(t) /\ UNCHANGED <<outbox, sends, losses>>
  /\ UNCHANGED <<chainVars, rows, retried, crashes>>

Detached(txs, senders) ==
  [i \in DOMAIN txs |->
     IF txs[i].sender \in senders THEN [txs[i] EXCEPT !.sender = NoTask] ELSE txs[i]]

\* tx.wait: a receipt, a revert, or a connection that drops.
Confirm(t) ==
  /\ At(t, "confirm")
  /\ \/ /\ task[t].receipt = "ok" /\ NoFault
        /\ IF IsAnswer(t)
             THEN Goto(t, "record") /\ mutex' = Released(t) /\ UNCHANGED <<job, retries>>
             ELSE End(t, "none")
        /\ UNCHANGED <<outbox, losses>>
     \/ /\ task[t].receipt = "reverted" /\ NoFault /\ Throw(t, "fatal")
        /\ UNCHANGED <<outbox, losses>>
     \/ /\ CallFails(t) /\ Lost(t)
        /\ outbox' = Detached(outbox, {t})
  /\ UNCHANGED <<chainVars, rows, sends, retried, crashes>>

\* Mutation: every error is taken for a cancellation.
FallbackReturns(t) ==
  /\ At(t, "caught")
  /\ NoFault
  /\ End(t, "none")
  /\ UNCHANGED <<chainVars, outbox, historyVars, crashes>>

\* The catch block asks once more whether the job is finalized.
FallbackCheck(t) ==
  /\ At(t, "caught")
  /\ \/ Finalized(Req(t)) /\ NoFault /\ End(t, "none")
     \/ /\ Fault \/ (~Finalized(Req(t)) /\ NoFault)
        /\ IF task[t].error = "bad"
             THEN End(t, "bad")
             ELSE Goto(t, "recordFailed") /\ UNCHANGED <<mutex, job, retries>>
  /\ UNCHANGED <<chainVars, outbox, historyVars, crashes>>

\* Mutation: the kind is not part of the row's seed.
RecordOnce(t, kind) ==
  /\ NoFault
  /\ rows' = IF \E row \in rows : row[1] = Req(t) THEN rows ELSE rows \cup {<<Req(t), kind>>}
  /\ UNCHANGED losses

\* recordAnswerActivity never throws: a row that cannot be written is lost.
Record(t, kind) ==
  \/ NoFault /\ rows' = rows \cup {<<Req(t), kind>>} /\ UNCHANGED losses
  \/ Fault /\ UNCHANGED rows /\ Lost(t)

RecordFailed(t) ==
  /\ At(t, "recordFailed")
  /\ Record(t, "answer_failed")
  /\ End(t, task[t].error)
  /\ UNCHANGED <<chainVars, outbox, sends, retried, crashes>>

RecordAnswer(t) ==
  /\ At(t, "record")
  /\ Record(t, "answer")
  /\ End(t, "none")
  /\ UNCHANGED <<chainVars, outbox, sends, retried, crashes>>

-------------------------------------------------------------------------------
(* The four handlers.                                                      *)

SubmitSteps(t) == Work(t) \/ Upload(t) \/ Guard(t) \/ Send(t) \/ Confirm(t)

AnswerSteps(t) ==
  \/ CheckFinalized(t)
  \/ SubmitSteps(t)
  \/ Recheck(t)
  \/ FallbackCheck(t)
  \/ RecordFailed(t)
  \/ RecordAnswer(t)

HandlePrompt(t)         == Req(t) \in Prompts /\ AnswerSteps(t)
HandleRegeneration(t)   == Req(t) \in Regenerations /\ AnswerSteps(t)
HandleBranch(t)         == Req(t) \in Branches /\ SubmitSteps(t)
HandleMetadataUpdate(t) == Req(t) \in Updates /\ SubmitSteps(t)

Task(t) ==
  HandlePrompt(t) \/ HandleRegeneration(t) \/ HandleBranch(t) \/ HandleMetadataUpdate(t)

-------------------------------------------------------------------------------
(* The chain, its users, and crashes.                                      *)

\* The oldest transaction is mined.  Only an answer can revert.
Mine ==
  /\ outbox # <<>>
  /\ outbox' = Tail(outbox)
  /\ LET q  == Head(outbox).request
         t  == Head(outbox).sender
         ok == q \in Answers => fate[q] = "open"
     IN /\ fate' = IF ok THEN [fate EXCEPT ![q] = "answered"] ELSE fate
        /\ written' = IF ok THEN Append(written, q) ELSE written
        /\ task' = IF t = NoTask THEN task
                     ELSE [task EXCEPT ![t].receipt = IF ok THEN "ok" ELSE "reverted"]
  /\ UNCHANGED <<mutex, job, retries, historyVars, faults, crashes>>

\* cancelPrompt and processRefund of the escrow.
Withdraw(q) ==
  /\ q \in Answers
  /\ fate[q] = "open"
  /\ \E f \in {"cancelled", "refunded"} : fate' = [fate EXCEPT ![q] = f]
  /\ UNCHANGED <<written, outbox, task, mutex, job, retries, historyVars, faults, crashes>>

Running == {q \in Requests : \E t \in Tasks : Req(t) = q /\ ~task[t].retry}

\* The batch of the last request that was delivered.
CurrentBatch ==
  {q \in Requests : \A p \in Requests :
     job[p] # "waiting" \/ p \in Running => BatchOf(p) <= BatchOf(q)}

\* The tasks are gone, the transactions are not.  Requests of the batch may be
\* delivered again, done or not; those that were running may not be.
Crash ==
  /\ crashes < MaxCrashes
  /\ crashes' = crashes + 1
  /\ task' = [t \in Tasks |-> Idle]
  /\ mutex' = <<>>
  /\ outbox' = Detached(outbox, Tasks)
  /\ losses' = [q \in Requests |-> losses[q] +
       Cardinality({t \in Tasks : Req(t) = q /\ task[t].pc \in {"confirm", "record"}})]
  /\ \E again \in SUBSET (CurrentBatch \cap ({q \in Requests : job[q] = "done"} \cup Running)) :
       job' = [q \in Requests |->
         IF q \in again THEN "waiting" ELSE IF q \in Running THEN "forgotten" ELSE job[q]]
  /\ UNCHANGED <<chainVars, retries, rows, sends, retried, faults>>

Next ==
  \/ \E t \in Tasks : Task(t)
  \/ \E t \in Tasks, q \in Requests : Deliver(t, q) \/ RetryJob(t, q)
  \/ Mine
  \/ \E q \in Requests : Withdraw(q)
  \/ Crash

Spec == Init /\ [][Next]_vars

\* Calls return, transactions are mined, and the queue and the timer go on.
Fairness ==
  /\ \A t \in Tasks : WF_vars(Task(t))
  /\ \A q \in Requests : WF_vars(\E t \in Tasks : Deliver(t, q))
  /\ \A q \in Requests : SF_vars(\E t \in Tasks : RetryJob(t, q))
  /\ WF_vars(Mine)

FairSpec == Spec /\ Fairness

-------------------------------------------------------------------------------
(* Properties.                                                             *)

\* Every variable has its type; the wallet belongs to a task that wants it.
TypeOK ==
  /\ fate \in [Requests -> Fates]
  /\ written \in Seq(Requests)
  /\ outbox \in Seq([request : Requests, sender : Tasks \cup {NoTask}])
  /\ task \in [Tasks -> [request : Requests \cup {0}, pc : Pcs, retry : BOOLEAN,
                         final : BOOLEAN, missed : 0 .. 2,
                         receipt : {"none", "ok", "reverted"}, error : Errors]]
  /\ mutex \in Seq({t \in Tasks : task[t].pc \in {"lock", "send", "confirm"}})
  /\ job \in [Requests -> Jobs]
  /\ retries \in [Requests -> 0 .. MAX_RETRIES]
  /\ rows \subseteq Answers \X {"answer", "answer_failed"}
  /\ sends \in [Requests -> Nat]
  /\ losses \in [Requests -> Nat]
  /\ faults \in 0 .. MaxFaults
  /\ crashes \in 0 .. MaxCrashes

\* However often an answer is retried, delivered again or raced by another
\* task, a second transaction is sent for it only if the process lost track of
\* an earlier one: the check under the mutex sees what the mutex waited for.
SentOnce == \A q \in Answers : sends[q] <= 1 + losses[q]

\* The loop takes a request off its books without an alert only if the chain
\* has its result, the user or a keeper withdrew it, or it was malformed:
\* skipping, retrying and the early returns drop nothing.
NothingDropped ==
  \A q \in Requests : job[q] = "done" =>
    fate[q] \in {"answered", "cancelled"} \/ q \in Malformed

\* An answer on the chain is in the daily summary: a row was written, is about
\* to be, or the process lost track of the transaction.
AnswersCounted ==
  \A q \in Answers : fate[q] = "answered" =>
    \/ <<q, "answer">> \in rows
    \/ losses[q] > 0
    \/ \E t \in Tasks : Req(t) = q /\ task[t].pc \in {"confirm", "record"}

\* Storage is paid for a request that was answered or cancelled before its
\* handler began only if both early checks failed.
NoWorkForFinalized ==
  \A t \in Tasks : task[t].final /\ task[t].pc \in {"upload", "lock"} => task[t].missed = 2

\* Two updates in different batches take effect in the order of their events,
\* unless the earlier one had to be retried or was delivered again.
BatchesLandInOrder ==
  crashes = 0 => \A i, j \in DOMAIN written :
    LET p == written[i]
        q == written[j]
    IN p \in Updates /\ q \in Updates /\ BatchOf(p) < BatchOf(q) /\ j < i
         => p \in retried

\* With calls that return and transactions that are mined, every request is
\* settled, given up with an alert, or forgotten in a crash: neither the mutex
\* nor the slots of the queue keep one waiting.
EveryRequestEnds ==
  \A q \in Requests : <>[](job[q] \in {"done", "reported", "forgotten"})

===============================================================================
