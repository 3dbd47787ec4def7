---------------------------- MODULE OracleEventLoop ----------------------------
(***************************************************************************)
(* How the oracle process (oracle/src/aiAgentOracle.js) finds the events   *)
(* of the agent contract, hands each to a handler and remembers how far it *)
(* got: catch-up after a start, the polling loop, the queue of concurrent  *)
(* tasks, the two files on disk, the timer that retries failed jobs, and   *)
(* crashes.                                                                *)
(*                                                                         *)
(* Node runs one callback at a time, so an action is the code between two  *)
(* awaits.  What a handler does is left to other modules: here it ends in  *)
(* one of the four ways handleAndRecord distinguishes.  Events are numbered *)
(* in the order the chain emits them.  Chain reorganizations are left to   *)
(* PollCursor.                                                             *)
(***************************************************************************)
EXTENDS Integers, Sequences, FiniteSets

CONSTANTS
  NumEvents,     \* bound: how many events the contract emits
  MaxBlock,      \* bound: the chain's last block
  Flaky,         \* events whose handler may fail with a retryable error
  Broken,        \* events whose handler may fail with any other error
  Runs,          \* names of the retry runs that may overlap
  Concurrency,   \* the slots of the task queue
  BatchSize,     \* EVENT_BATCH_SIZE, in blocks
  Lookback,      \* how far back a start without a checkpoint looks
  MAX_RETRIES,
  StartMayFail,  \* whether the chain RPC may fail while the oracle starts
  MaxCrashes     \* bound

Events == 1 .. NumEvents

ASSUME LoopAssumption ==
  /\ NumEvents \in Nat
  /\ MaxBlock \in Nat
  /\ Flaky \subseteq Events
  /\ Broken \subseteq Events
  /\ Concurrency \in Nat \ {0}
  /\ BatchSize \in Nat \ {0}
  /\ Lookback \in Nat
  /\ MAX_RETRIES \in Nat \ {0}
  /\ StartMayFail \in BOOLEAN
  /\ MaxCrashes \in Nat

VARIABLES
  blockOf,       \* the block of each event
  head,          \* the chain's latest block
  phase,         \* of start(): one of Phases
  cursor,        \* the last block whose events were all processed
  target,        \* where catch-up ends
  batchTo,       \* the last block of the batch under way, or the cursor
  queue,         \* the tasks that wait for a slot, first in first out
  pc,            \* where the task of each event is
  jobsRead,      \* what the task of an event read from failed-jobs.json
  runs,          \* the retry runs
  stateFile,     \* oracle-state.json: lastProcessedBlock, 0 if unreadable
  failedJobs,    \* failed-jobs.json: empty if unreadable
  handled,       \* events whose handler succeeded, or dropped them as bad input
  reported,      \* events that were given up with an alert
  crashes,
  interrupted    \* history: events that a crash found in memory

chainVars == <<blockOf, head>>
loopVars  == <<phase, cursor, target, batchTo>>
fileVars  == <<stateFile, failedJobs>>
taskVars  == <<queue, pc, jobsRead>>
fateVars  == <<handled, reported, crashes, interrupted>>
vars == <<chainVars, loopVars, taskVars, runs, fileVars, fateVars>>

Job == [event: Events, retryCount: 0 .. MAX_RETRIES - 1]

\* A task of the queue: a new event, or the current job of a retry run.
EventTask(e) == <<"event", e>>
RetryTask(r) == <<"retry", r>>

\* todo: the jobs the run has not come to; kept: those it will write back;
\* tried: whether it attempted one.
IdleRun == [pc |-> "idle", todo |-> <<>>, kept |-> <<>>, tried |-> FALSE]

Phases   == {"down", "boot", "catchup", "poll", "stopped"}
EventPcs == {"idle", "queued", "handling", "readJobs", "writeJobs", "record"}
RunPcs   == {"idle", "next", "queued", "handling", "writing"}

JobsOf(jobs)   == {jobs[i].event : i \in DOMAIN jobs}
JobsHeldBy(r)  == JobsOf(runs[r].todo) \cup JobsOf(runs[r].kept)

Init ==
  /\ blockOf \in [Events -> 1 .. MaxBlock]
  /\ \A e, f \in Events : e < f => blockOf[e] <= blockOf[f]
  /\ head \in 0 .. MaxBlock
  /\ phase = "down"
  /\ cursor = 0
  /\ target = 0
  /\ batchTo = 0
  /\ queue = <<>>
  /\ pc = [e \in Events |-> "idle"]
  /\ jobsRead = [e \in Events |-> <<>>]
  /\ runs = [r \in Runs |-> IdleRun]
  /\ stateFile = 0
  /\ failedJobs = <<>>
  /\ handled = {}
  /\ reported = {}
  /\ crashes = 0
  /\ interrupted = {}

\* External: the chain grows.
NewBlock ==
  /\ head < MaxBlock
  /\ head' = head + 1
  /\ UNCHANGED <<blockOf, loopVars, taskVars, runs, fileVars, fateVars>>

-------------------------------------------------------------------------------
(* Files.  writeFile truncates before it writes.  A read during a write    *)
(* may find nothing, and so does whoever reads after two writes overlapped. *)

WritesJobs ==
  {EventTask(e) : e \in {x \in Events : pc[x] = "writeJobs"}}
    \cup {RetryTask(r) : r \in {x \in Runs : runs[x].pc = "writing"}}

BatchHandled ==
  /\ phase \in {"catchup", "poll"}
  /\ batchTo > cursor
  /\ \A e \in Events : pc[e] = "idle"

CaughtUp == phase = "catchup" /\ batchTo = cursor /\ cursor >= target

WritesState == {e \in Events : pc[e] = "record"}

ReadsJobs(jobs) == jobs = failedJobs \/ (WritesJobs # {} /\ jobs = <<>>)

WriteJobs(self, jobs) ==
  failedJobs' = jobs \/ (WritesJobs # {self} /\ failedJobs' = <<>>)

WriteState(writers, block) ==
  stateFile' = block \/ (Cardinality(writers) > 1 /\ stateFile' = 0)

-------------------------------------------------------------------------------
(* Start, catch-up and polling: start, processPastEvents, pollEvents.      *)

\* A retry run takes the jobs it reads; it returns at once if there are none.
StartRun(r) ==
  /\ runs[r].pc = "idle"
  /\ \E jobs \in {failedJobs, <<>>} :
       /\ ReadsJobs(jobs)
       /\ jobs # <<>>
       /\ runs' = [runs EXCEPT ![r] =
                     [pc |-> "next", todo |-> jobs, kept |-> <<>>, tried |-> FALSE]]

Start ==
  /\ phase = "down"
  /\ phase' = "boot"
  /\ IF failedJobs = <<>> THEN UNCHANGED runs ELSE \E r \in Runs : StartRun(r)
  /\ UNCHANGED <<chainVars, cursor, target, batchTo, taskVars, fileVars, fateVars>>

\* Mutation of Resume: the block after the checkpoint is taken for processed.
ResumeTooLate ==
  IF stateFile # 0 THEN stateFile + 1
  ELSE (IF head > Lookback THEN head - Lookback ELSE 0) - 1

\* The block before the first one that catch-up scans.
Resume ==
  IF stateFile # 0 THEN stateFile
  ELSE (IF head > Lookback THEN head - Lookback ELSE 0) - 1

BeginCatchUp ==
  /\ phase = "boot"
  /\ \A r \in Runs : runs[r].pc = "idle"
  /\ phase' = "catchup"
  /\ cursor' = Resume
  /\ batchTo' = Resume
  /\ target' = head
  /\ UNCHANGED <<chainVars, taskVars, runs, fileVars, fateVars>>

\* How many events the chain emitted up to a block.
EventsUpTo(block) == Cardinality({e \in Events : blockOf[e] <= block})

\* Mutation of ScanBatch: a batch is not cut at the limit.
ScanBatchPastHead ==
  LET to    == cursor + BatchSize
      known == EventsUpTo(cursor)
  IN  /\ phase \in {"catchup", "poll"}
      /\ batchTo = cursor
      /\ cursor < (IF phase = "catchup" THEN target ELSE head)
      /\ batchTo' = to
      /\ queue' = queue \o [i \in 1 .. (EventsUpTo(to) - known) |->
                              EventTask(known + i)]
      /\ pc' = [e \in Events |-> IF blockOf[e] \in (cursor + 1) .. to
                                   THEN "queued" ELSE pc[e]]
      /\ UNCHANGED <<chainVars, phase, cursor, target, jobsRead, runs, fileVars,
                     fateVars>>

\* queryFilter, sort, and one task for each event found.  Catch-up stops at the
\* head it saw when it began, polling at the head of the day.
ScanBatch ==
  LET limit == IF phase = "catchup" THEN target ELSE head
      to    == IF cursor + BatchSize < limit THEN cursor + BatchSize ELSE limit
      known == EventsUpTo(cursor)
  IN  /\ phase \in {"catchup", "poll"}
      /\ batchTo = cursor
      /\ cursor < limit
      /\ batchTo' = to
      /\ queue' = queue \o [i \in 1 .. (EventsUpTo(to) - known) |->
                              EventTask(known + i)]
      /\ pc' = [e \in Events |-> IF blockOf[e] \in (cursor + 1) .. to
                                   THEN "queued" ELSE pc[e]]
      /\ UNCHANGED <<chainVars, phase, cursor, target, jobsRead, runs, fileVars,
                     fateVars>>

\* Mutation of FinishBatch: the loop does not wait for the tasks.
FinishBatchEarly ==
  /\ phase \in {"catchup", "poll"}
  /\ batchTo > cursor
  /\ stateFile' = batchTo
  /\ cursor' = batchTo
  /\ UNCHANGED <<chainVars, phase, target, batchTo, taskVars, runs, failedJobs,
                 fateVars>>

\* Promise.all(tasks) is over: the checkpoint moves to the end of the batch.
FinishBatch ==
  /\ BatchHandled
  /\ stateFile' = batchTo
  /\ cursor' = batchTo
  /\ UNCHANGED <<chainVars, phase, target, batchTo, taskVars, runs, failedJobs,
                 fateVars>>

\* start() rejects, and the handler of unhandled rejections only logs it: the
\* process does not poll, nor does it end with the failure that would start it
\* again.  (In the polling loop a failing RPC call is
\* retried, which changes nothing.)
StartFails ==
  /\ StartMayFail
  /\ phase \in {"boot", "catchup"}
  /\ batchTo = cursor
  /\ \A r \in Runs : runs[r].pc = "idle"
  /\ phase' = "stopped"
  /\ UNCHANGED <<chainVars, cursor, target, batchTo, taskVars, runs, fileVars,
                 fateVars>>

BeginPolling ==
  /\ CaughtUp
  /\ phase' = "poll"
  /\ stateFile' = target
  /\ cursor' = target
  /\ batchTo' = target
  /\ UNCHANGED <<chainVars, target, taskVars, runs, failedJobs, fateVars>>

-------------------------------------------------------------------------------
(* The task of an event: handleAndRecord.                                  *)

BusySlots ==
  Cardinality({e \in Events : pc[e] \notin {"idle", "queued"}})
    + Cardinality({r \in Runs : runs[r].pc = "handling"})

StartTask ==
  /\ queue # <<>>
  /\ BusySlots < Concurrency
  /\ queue' = Tail(queue)
  /\ \/ \E e \in Events : /\ Head(queue) = EventTask(e)
                          /\ pc' = [pc EXCEPT ![e] = "handling"]
                          /\ UNCHANGED runs
     \/ \E r \in Runs : /\ Head(queue) = RetryTask(r)
                        /\ runs' = [runs EXCEPT ![r].pc = "handling"]
                        /\ UNCHANGED pc
  /\ UNCHANGED <<chainVars, loopVars, jobsRead, fileVars, fateVars>>

\* The handler returns, or throws an error that isBadInputError recognizes.
HandlerDone(e) ==
  /\ pc[e] = "handling"
  /\ pc' = [pc EXCEPT ![e] = "record"]
  /\ handled' = handled \cup {e}
  /\ UNCHANGED <<chainVars, loopVars, queue, jobsRead, runs, fileVars, reported,
                 crashes, interrupted>>

HandlerFailsRetryably(e) ==
  /\ pc[e] = "handling"
  /\ e \in Flaky
  /\ pc' = [pc EXCEPT ![e] = "readJobs"]
  /\ UNCHANGED <<chainVars, loopVars, queue, jobsRead, runs, fileVars, fateVars>>

\* Any other error: an alert, and neither a job nor a checkpoint.
HandlerFailsFatally(e) ==
  /\ pc[e] = "handling"
  /\ e \in Broken
  /\ pc' = [pc EXCEPT ![e] = "idle"]
  /\ reported' = reported \cup {e}
  /\ UNCHANGED <<chainVars, loopVars, queue, jobsRead, runs, fileVars, handled,
                 crashes, interrupted>>

ReadFailedJobs(e) ==
  /\ pc[e] = "readJobs"
  /\ \E jobs \in {failedJobs, <<>>} :
       /\ ReadsJobs(jobs)
       /\ jobsRead' = [jobsRead EXCEPT ![e] = jobs]
  /\ pc' = [pc EXCEPT ![e] = "writeJobs"]
  /\ UNCHANGED <<chainVars, loopVars, queue, runs, fileVars, fateVars>>

WriteFailedJobs(e) ==
  /\ pc[e] = "writeJobs"
  /\ WriteJobs(EventTask(e),
               Append(jobsRead[e], [event |-> e, retryCount |-> 0]))
  /\ pc' = [pc EXCEPT ![e] = "record"]
  /\ jobsRead' = [jobsRead EXCEPT ![e] = <<>>]
  /\ UNCHANGED <<chainVars, loopVars, queue, runs, stateFile, fateVars>>

\* The event's own block becomes the checkpoint, whatever else is in flight.
RecordBlock(e) ==
  /\ pc[e] = "record"
  /\ WriteState(WritesState, blockOf[e])
  /\ pc' = [pc EXCEPT ![e] = "idle"]
  /\ UNCHANGED <<chainVars, loopVars, queue, jobsRead, runs, failedJobs, fateVars>>

-------------------------------------------------------------------------------
(* A retry run: retryFailedJobs.                                           *)

\* setInterval: a run starts whether or not the last one is over.
RetryTimer ==
  /\ phase = "poll"
  /\ \E r \in Runs : StartRun(r)
  /\ UNCHANGED <<chainVars, loopVars, taskVars, fileVars, fateVars>>

\* Not time yet: the job is kept.
SkipJob(r) ==
  /\ runs[r].pc = "next"
  /\ runs[r].todo # <<>>
  /\ LET run == runs[r]
     IN  runs' = [runs EXCEPT ![r] =
           [run EXCEPT !.todo = Tail(run.todo), !.kept = Append(run.kept, Head(run.todo))]]
  /\ UNCHANGED <<chainVars, loopVars, taskVars, fileVars, fateVars>>

\* Time: the event is fetched again and queued like a new one.
QueueJob(r) ==
  /\ runs[r].pc = "next"
  /\ runs[r].todo # <<>>
  /\ runs' = [runs EXCEPT ![r] = [@ EXCEPT !.pc = "queued", !.tried = TRUE]]
  /\ queue' = Append(queue, RetryTask(r))
  /\ UNCHANGED <<chainVars, loopVars, pc, jobsRead, fileVars, fateVars>>

RetrySucceeds(r) ==
  /\ runs[r].pc = "handling"
  /\ runs' = [runs EXCEPT ![r] = [@ EXCEPT !.pc = "next", !.todo = Tail(runs[r].todo)]]
  /\ handled' = handled \cup {Head(runs[r].todo).event}
  /\ UNCHANGED <<chainVars, loopVars, taskVars, fileVars, reported, crashes,
                 interrupted>>

\* The job is being attempted, or it is time and its event cannot be fetched.
Attempted(r) ==
  \/ runs[r].pc = "handling"
  \/ runs[r].pc = "next" /\ runs[r].todo # <<>>

\* Mutation of RetryFails: the attempt is not counted.
RetryFailsUncounted(r) ==
  /\ Attempted(r)
  /\ runs' = [runs EXCEPT ![r] =
       [pc |-> "next", todo |-> Tail(@.todo),
        kept |-> Append(@.kept, Head(@.todo)), tried |-> TRUE]]
  /\ UNCHANGED <<chainVars, loopVars, taskVars, fileVars, fateVars>>

\* The job is kept for another attempt, or dropped with an alert.
RetryFails(r) ==
  LET job   == Head(runs[r].todo)
      count == job.retryCount + 1
      kept  == IF count >= MAX_RETRIES THEN runs[r].kept
               ELSE Append(runs[r].kept, [job EXCEPT !.retryCount = count])
  IN  /\ Attempted(r)
      /\ runs' = [runs EXCEPT ![r] = [pc |-> "next", todo |-> Tail(@.todo),
                                      kept |-> kept, tried |-> TRUE]]
      /\ reported' = IF count >= MAX_RETRIES THEN reported \cup {job.event}
                     ELSE reported
      /\ UNCHANGED <<chainVars, loopVars, taskVars, fileVars, handled, crashes,
                     interrupted>>

\* The file is written only if a job was tried.
FinishRun(r) ==
  /\ runs[r].pc = "next"
  /\ runs[r].todo = <<>>
  /\ runs' = [runs EXCEPT ![r] =
                IF runs[r].tried THEN [@ EXCEPT !.pc = "writing"] ELSE IdleRun]
  /\ UNCHANGED <<chainVars, loopVars, taskVars, fileVars, fateVars>>

WriteRemaining(r) ==
  /\ runs[r].pc = "writing"
  /\ WriteJobs(RetryTask(r), runs[r].kept)
  /\ runs' = [runs EXCEPT ![r] = IdleRun]
  /\ UNCHANGED <<chainVars, loopVars, taskVars, stateFile, fateVars>>

-------------------------------------------------------------------------------
\* The process dies and everything in memory with it.  A file that is being
\* written is left truncated.
Crash ==
  /\ phase # "down"
  /\ crashes < MaxCrashes
  /\ crashes' = crashes + 1
  /\ interrupted' = interrupted \cup {e \in Events : pc[e] # "idle"}
                                \cup UNION {JobsHeldBy(r) : r \in Runs}
  /\ \/ UNCHANGED stateFile
     \/ /\ WritesState # {} \/ BatchHandled \/ CaughtUp
        /\ stateFile' = 0
  /\ \/ UNCHANGED failedJobs
     \/ /\ WritesJobs # {}
        /\ failedJobs' = <<>>
  /\ phase' = "down"
  /\ cursor' = 0
  /\ target' = 0
  /\ batchTo' = 0
  /\ queue' = <<>>
  /\ pc' = [e \in Events |-> "idle"]
  /\ jobsRead' = [e \in Events |-> <<>>]
  /\ runs' = [r \in Runs |-> IdleRun]
  /\ UNCHANGED <<chainVars, handled, reported>>

Main == Start \/ BeginCatchUp \/ ScanBatch \/ FinishBatch \/ BeginPolling

Task(e) ==
  \/ HandlerDone(e)
  \/ HandlerFailsRetryably(e)
  \/ HandlerFailsFatally(e)
  \/ ReadFailedJobs(e)
  \/ WriteFailedJobs(e)
  \/ RecordBlock(e)

RetryRun(r) ==
  \/ SkipJob(r)
  \/ QueueJob(r)
  \/ RetrySucceeds(r)
  \/ RetryFails(r)
  \/ FinishRun(r)
  \/ WriteRemaining(r)

Next ==
  \/ NewBlock
  \/ Main
  \/ StartFails
  \/ StartTask
  \/ \E e \in Events : Task(e)
  \/ RetryTimer
  \/ \E r \in Runs : RetryRun(r)
  \/ Crash

Spec == Init /\ [][Next]_vars

\* Node's event loop runs whatever can run, handlers and file operations end, a
\* job's time for another attempt comes, and the container's restart policy
\* starts a dead process again.
Fairness ==
  /\ WF_vars(Main)
  /\ WF_vars(StartTask)
  /\ \A e \in Events : WF_vars(Task(e))
  /\ WF_vars(RetryTimer)
  /\ \A r \in Runs : WF_vars(RetryRun(r)) /\ SF_vars(QueueJob(r))

FairSpec == Spec /\ Fairness

-------------------------------------------------------------------------------
(* Properties.                                                             *)

\* Types.  The loop never leaves the chain: cursor, target and batch lie within
\* it, and no job is kept that was tried MAX_RETRIES times.
TypeOK ==
  /\ blockOf \in [Events -> 1 .. MaxBlock]
  /\ head \in 0 .. MaxBlock
  /\ phase \in Phases
  /\ cursor \in -1 .. MaxBlock
  /\ target \in 0 .. MaxBlock
  /\ batchTo \in -1 .. MaxBlock
  /\ queue \in Seq({EventTask(e) : e \in Events} \cup {RetryTask(r) : r \in Runs})
  /\ pc \in [Events -> EventPcs]
  /\ jobsRead \in [Events -> Seq(Job)]
  /\ runs \in [Runs -> [pc: RunPcs, todo: Seq(Job), kept: Seq(Job), tried: BOOLEAN]]
  /\ stateFile \in 0 .. MaxBlock
  /\ failedJobs \in Seq(Job)
  /\ handled \subseteq Events
  /\ reported \subseteq Events
  /\ crashes \in 0 .. MaxCrashes
  /\ interrupted \subseteq Events

\* What became of an event: it was handled, given up with an alert, or waits in
\* the file of failed jobs or in a retry run.
Accounted(e) ==
  \/ e \in handled \cup reported \cup JobsOf(failedJobs)
  \/ \E r \in Runs : e \in JobsHeldBy(r)

\* The oracle forgets no event it has scanned past, however tasks, retries and
\* restarts interleave: only an event that was in memory when the process died
\* can get lost.  (With more than one failing event, or a lookback shorter than
\* the chain, this is false: two writers of failed-jobs.json overwrite each
\* other's job.)
ForgottenOnlyByCrash ==
  phase \in {"catchup", "poll"} =>
    \A e \in Events :
      blockOf[e] <= batchTo /\ pc[e] = "idle"
        => Accounted(e) \/ e \in interrupted

\* The tasks' own writes of the checkpoint never escape the batch they belong
\* to: while polling it lies within the batch under way (or is unreadable), and
\* between batches it is the cursor.
CheckpointWithinBatch ==
  phase = "poll" =>
    /\ stateFile \in {0} \cup cursor .. batchTo
    /\ batchTo = cursor => stateFile = cursor

\* Every event on the chain is handled in the end or given up with an alert,
\* through failures, overlapping retry runs, restarts and a queue shared with
\* them, unless it was in memory when the process died or a start failed.
EveryEventSettles ==
  \A e \in Events :
    (blockOf[e] <= head)
      ~> (e \in handled \cup reported \cup interrupted \/ phase = "stopped")

===============================================================================
