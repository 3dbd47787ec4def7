------------------------- MODULE OracleEventLoopProofs -------------------------
(***************************************************************************)
(* Theorems on OracleEventLoop for any events, blocks, slots, batch size,  *)
(* retry runs and crashes: types, where the checkpoint may stand, and,     *)
(* where it is true, that only a crash makes the oracle forget an event.   *)
(***************************************************************************)
EXTENDS OracleEventLoop, SequenceTheorems, FiniteSetTheorems, WellFoundedInduction, TLAPS

(* The events up to a block are an initial segment.                        *)

Sorted ==
  /\ blockOf \in [Events -> 1 .. MaxBlock]
  /\ \A e, f \in Events : e < f => blockOf[e] <= blockOf[f]

LEMMA LeastOf ==
  ASSUME NEW S \in SUBSET Nat, S # {}
  PROVE  \E m \in S : \A n \in S : m <= n
<1>1. PICK m \in S : \A n \in S : <<n, m>> \notin OpToRel(<, Nat)
  BY NatLessThanWellFounded, WFMin
<1>2. \A n \in S : ~(n < m)
  BY <1>1 DEF OpToRel
<1> QED
  BY <1>2

LEMMA EventsBelow ==
  ASSUME Sorted, NEW b \in Int
  PROVE  /\ EventsUpTo(b) \in 0 .. NumEvents
         /\ \A e \in Events : blockOf[e] <= b <=> e <= EventsUpTo(b)
<1> DEFINE below == {e \in Events : blockOf[e] <= b}
           above == {e \in Events : ~(blockOf[e] <= b)}
<1>0. NumEvents \in Nat /\ MaxBlock \in Nat /\ \A e \in Events : blockOf[e] \in Nat
  BY LoopAssumption DEF Sorted
<1>1. PICK n \in 0 .. NumEvents : below = 1 .. n
  <2>1. CASE above = {}
    <3>1. below = 1 .. NumEvents
      BY <2>1 DEF Events
    <3> QED
      BY <1>0, <3>1
  <2>2. CASE above # {}
    <3>1. above \in SUBSET Nat
      BY <1>0 DEF Events
    <3>2. PICK m \in above : \A e \in above : m <= e
      BY <2>2, <3>1, LeastOf
    <3>3. m \in 1 .. NumEvents /\ blockOf[m] > b
      BY <1>0, <3>2 DEF Events
    <3>4. ASSUME NEW e \in Events PROVE blockOf[e] <= b <=> e < m
      <4>1. CASE e < m
        BY <1>0, <3>2, <4>1 DEF Events
      <4>2. CASE e = m
        BY <3>3, <4>2
      <4>3. CASE m < e
        <5>1. blockOf[m] <= blockOf[e]
          BY <3>3, <4>3 DEF Sorted, Events
        <5> QED
          BY <1>0, <3>3, <4>3, <5>1 DEF Events
      <4> QED
        BY <1>0, <3>3, <4>1, <4>2, <4>3 DEF Events
    <3>5. below = 1 .. (m - 1)
      BY <1>0, <3>3, <3>4 DEF Events
    <3> QED
      BY <1>0, <3>3, <3>5
  <2> QED
    BY <2>1, <2>2
<1>2. EventsUpTo(b) = n
  <2>1. Cardinality(1 .. n) = IF 1 > n THEN 0 ELSE n - 1 + 1
    BY <1>0, FS_Interval
  <2>2. EventsUpTo(b) = Cardinality(below)
    BY DEF EventsUpTo
  <2>3. n \in Nat /\ (1 > n => n = 0) /\ n - 1 + 1 = n
    BY <1>0
  <2> HIDE DEF below
  <2> QED
    BY <1>1, <2>1, <2>2, <2>3
<1> QED
  BY <1>0, <1>1, <1>2 DEF Events

-------------------------------------------------------------------------------
(* The invariant of the loop, part by part.                                *)

QTasks == {EventTask(e) : e \in Events} \cup {RetryTask(r) : r \in Runs}
RunRec == [pc : RunPcs, todo : Seq(Job), kept : Seq(Job), tried : BOOLEAN]

\* A task waits in the queue once, and what it is a task of knows that it does;
\* a retry run that has a task has a job for it.
QueueInv ==
  /\ \A i, j \in DOMAIN queue : queue[i] = queue[j] => i = j
  /\ \A i \in DOMAIN queue, e \in Events : queue[i] = EventTask(e) => pc[e] = "queued"
  /\ \A i \in DOMAIN queue, r \in Runs :
       queue[i] = RetryTask(r) => runs[r].pc = "queued"
  /\ \A r \in Runs : runs[r].pc \in {"queued", "handling"} => runs[r].todo # <<>>

\* The events that are in the works are events of the batch under way.
BatchInv ==
  /\ \A e \in Events : pc[e] # "idle" => blockOf[e] \in (cursor + 1) .. batchTo
  /\ phase \notin {"catchup", "poll"} => batchTo = cursor

LoopInv == TypeOK /\ Sorted /\ QueueInv /\ BatchInv /\ CheckpointWithinBatch

LEMMA RunFacts ==
  ASSUME TypeOK, NEW r \in Runs
  PROVE  /\ runs \in [Runs -> RunRec] /\ runs[r] \in RunRec
         /\ runs[r].todo \in Seq(Job) /\ runs[r].kept \in Seq(Job)
         /\ runs[r].todo # <<>> =>
              /\ Head(runs[r].todo) \in Job /\ Tail(runs[r].todo) \in Seq(Job)
<1>1. runs \in [Runs -> RunRec]
  BY DEF TypeOK, RunRec
<1>2. runs[r].todo \in Seq(Job) /\ runs[r].kept \in Seq(Job)
  BY <1>1 DEF RunRec
<1> QED
  BY <1>1, <1>2, HeadTailProperties

LEMMA IdleRunIsRun == IdleRun \in RunRec
<1>1. <<>> \in Seq(Job)
  BY EmptySeq
<1> QED
  BY <1>1 DEF IdleRun, RunRec, RunPcs

\* A step of a retry run gives it a record again, and no job too many attempts.
LEMMA StartRunEffect ==
  ASSUME TypeOK, NEW r \in Runs, StartRun(r)
  PROVE  /\ runs[r].pc = "idle" /\ runs' \in [Runs -> RunRec]
         /\ \A s \in Runs \ {r} : runs'[s] = runs[s]
         /\ \E jobs \in Seq(Job) : /\ jobs = failedJobs /\ jobs # <<>>
                                   /\ runs'[r].pc = "next" /\ runs'[r].todo = jobs
                                   /\ runs'[r].kept = <<>> /\ ~runs'[r].tried
<1>1. PICK jobs \in {failedJobs, <<>>} :
        /\ jobs # <<>>
        /\ runs' = [runs EXCEPT ![r] =
                      [pc |-> "next", todo |-> jobs, kept |-> <<>>, tried |-> FALSE]]
  BY DEF StartRun
<1>2. jobs = failedJobs /\ jobs \in Seq(Job) /\ runs \in [Runs -> RunRec]
  BY <1>1, RunFacts DEF TypeOK
<1>3. [pc |-> "next", todo |-> jobs, kept |-> <<>>, tried |-> FALSE] \in RunRec
  BY <1>2, EmptySeq DEF RunRec, RunPcs
<1>4. runs[r].pc = "idle"
  BY DEF StartRun
<1> QED
  BY <1>1, <1>2, <1>3, <1>4

LEMMA RetryRunEffect ==
  ASSUME TypeOK, QueueInv, NEW r \in Runs, RetryRun(r)
  PROVE  /\ runs' \in [Runs -> RunRec]
         /\ \A s \in Runs \ {r} : runs'[s] = runs[s]
         /\ runs'[r].pc \in {"queued", "handling"} => runs'[r].todo # <<>>
         /\ runs[r].pc # "queued"
         /\ \/ SkipJob(r) /\ runs[r].todo # <<>>
               /\ runs'[r] = [runs[r] EXCEPT
                    !.todo = Tail(runs[r].todo), !.kept = Append(runs[r].kept, Head(runs[r].todo))]
            \/ QueueJob(r) /\ runs'[r] = [runs[r] EXCEPT !.pc = "queued", !.tried = TRUE]
            \/ RetrySucceeds(r) /\ runs[r].todo # <<>>
               /\ runs'[r] = [runs[r] EXCEPT !.pc = "next", !.todo = Tail(runs[r].todo)]
            \/ RetryFails(r) /\ runs[r].todo # <<>>
               /\ runs'[r].todo = Tail(runs[r].todo) /\ runs'[r].tried
            \/ FinishRun(r)
               /\ runs'[r] = IF runs[r].tried THEN [runs[r] EXCEPT !.pc = "writing"] ELSE IdleRun
            \/ WriteRemaining(r) /\ runs'[r] = IdleRun
<1> DEFINE run == runs[r]
<1>0. /\ runs \in [Runs -> RunRec] /\ run \in RunRec
      /\ run.todo \in Seq(Job) /\ run.kept \in Seq(Job)
      /\ run.todo # <<>> => Head(run.todo) \in Job /\ Tail(run.todo) \in Seq(Job)
  BY RunFacts
<1>1. CASE SkipJob(r)
  <2> DEFINE new == [run EXCEPT !.todo = Tail(run.todo), !.kept = Append(run.kept, Head(run.todo))]
  <2>1. run.pc = "next" /\ run.todo # <<>> /\ runs' = [runs EXCEPT ![r] = new]
    BY <1>1 DEF SkipJob
  <2>2. Append(run.kept, Head(run.todo)) \in Seq(Job)
    BY <1>0, <2>1, AppendProperties
  <2>3. new \in RunRec /\ new.pc = "next"
    BY <1>0, <2>1, <2>2 DEF RunRec
  <2> HIDE DEF new
  <2>4. runs'[r] = new /\ runs' \in [Runs -> RunRec] /\ \A s \in Runs \ {r} : runs'[s] = runs[s]
    BY <1>0, <2>1, <2>3
  <2> QED
    BY <1>1, <2>1, <2>3, <2>4 DEF new
<1>2. CASE QueueJob(r)
  <2> DEFINE new == [run EXCEPT !.pc = "queued", !.tried = TRUE]
  <2>1. run.pc = "next" /\ run.todo # <<>> /\ runs' = [runs EXCEPT ![r] = new]
    BY <1>2 DEF QueueJob
  <2>2. new \in RunRec /\ new.todo = run.todo
    BY <1>0 DEF RunRec, RunPcs
  <2> HIDE DEF new
  <2>3. runs'[r] = new /\ runs' \in [Runs -> RunRec] /\ \A s \in Runs \ {r} : runs'[s] = runs[s]
    BY <1>0, <2>1, <2>2
  <2> QED
    BY <1>2, <2>1, <2>2, <2>3 DEF new
<1>3. CASE RetrySucceeds(r)
  <2> DEFINE new == [run EXCEPT !.pc = "next", !.todo = Tail(run.todo)]
  <2>1. run.pc = "handling" /\ run.todo # <<>> /\ runs' = [runs EXCEPT ![r] = new]
    BY <1>3 DEF RetrySucceeds, QueueInv
  <2>2. new \in RunRec /\ new.pc = "next"
    BY <1>0, <2>1 DEF RunRec, RunPcs
  <2> HIDE DEF new
  <2>3. runs'[r] = new /\ runs' \in [Runs -> RunRec] /\ \A s \in Runs \ {r} : runs'[s] = runs[s]
    BY <1>0, <2>1, <2>2
  <2> QED
    BY <1>3, <2>1, <2>2, <2>3 DEF new
<1>4. CASE RetryFails(r)
  <2> DEFINE old   == Head(run.todo)
             count == old.retryCount + 1
             kept  == IF count >= MAX_RETRIES THEN run.kept
                      ELSE Append(run.kept, [old EXCEPT !.retryCount = count])
             new   == [pc |-> "next", todo |-> Tail(run.todo), kept |-> kept, tried |-> TRUE]
  <2>1. run.pc \in {"next", "handling"} /\ run.todo # <<>>
        /\ runs' = [runs EXCEPT ![r] = new]
    BY <1>4 DEF RetryFails, Attempted, QueueInv
  <2>2. old \in Job /\ old.retryCount \in 0 .. MAX_RETRIES - 1 /\ MAX_RETRIES \in Nat
    BY <1>0, <2>1, LoopAssumption DEF Job
  <2>3. kept \in Seq(Job)
    <3>1. CASE count >= MAX_RETRIES
      BY <1>0, <3>1
    <3>2. CASE ~(count >= MAX_RETRIES)
      <4>1. count \in 0 .. MAX_RETRIES - 1
        BY <2>2, <3>2
      <4>2. [old EXCEPT !.retryCount = count] \in Job
        <5> HIDE DEF count, old
        <5> QED
          BY <2>2, <4>1 DEF Job
      <4> QED
        BY <1>0, <3>2, <4>2, AppendProperties
    <3> QED
      BY <3>1, <3>2
  <2> HIDE DEF kept
  <2>4. new \in RunRec /\ new.pc = "next" /\ new.todo = Tail(run.todo) /\ new.tried
    BY <1>0, <2>1, <2>3 DEF RunRec, RunPcs
  <2> HIDE DEF new
  <2>5. runs'[r] = new /\ runs' \in [Runs -> RunRec] /\ \A s \in Runs \ {r} : runs'[s] = runs[s]
    BY <1>0, <2>1, <2>4
  <2> QED
    BY <1>4, <2>1, <2>4, <2>5
<1>5. CASE FinishRun(r)
  <2> DEFINE new == IF run.tried THEN [run EXCEPT !.pc = "writing"] ELSE IdleRun
  <2>1. run.pc = "next" /\ runs' = [runs EXCEPT ![r] = new]
    BY <1>5 DEF FinishRun
  <2>2. new \in RunRec /\ new.pc \in {"writing", "idle"}
    BY <1>0, IdleRunIsRun DEF RunRec, RunPcs, IdleRun
  <2> HIDE DEF new
  <2>3. runs'[r] = new /\ runs' \in [Runs -> RunRec] /\ \A s \in Runs \ {r} : runs'[s] = runs[s]
    BY <1>0, <2>1, <2>2
  <2> QED
    BY <1>5, <2>1, <2>2, <2>3 DEF new
<1>6. CASE WriteRemaining(r)
  <2>1. run.pc = "writing" /\ runs' = [runs EXCEPT ![r] = IdleRun]
    BY <1>6 DEF WriteRemaining
  <2>2. runs'[r] = IdleRun /\ runs' \in [Runs -> RunRec]
        /\ \A s \in Runs \ {r} : runs'[s] = runs[s]
    BY <1>0, <2>1, IdleRunIsRun
  <2> QED
    BY <1>6, <2>1, <2>2 DEF IdleRun
<1> QED
  BY <1>1, <1>2, <1>3, <1>4, <1>5, <1>6 DEF RetryRun

\* Resuming: the scan starts within the chain.
LEMMA ResumeRange == TypeOK => Resume \in -1 .. MaxBlock
  BY LoopAssumption DEF TypeOK, Resume

LEMMA SameInterval ==
  ASSUME NEW a \in Nat, NEW b \in Nat, 1 .. a = 1 .. b
  PROVE  a = b
<1>1. a > 0 => a \in 1 .. b
  OBVIOUS
<1>2. b > 0 => b \in 1 .. a
  OBVIOUS
<1> QED
  BY <1>1, <1>2

\* A batch: it ends within the chain, and its events, each once, join the queue.
LEMMA ScanEffect ==
  ASSUME TypeOK, Sorted, ScanBatch
  PROVE  /\ batchTo = cursor /\ batchTo' \in (cursor + 1) .. MaxBlock
         /\ pc' = [e \in Events |-> IF blockOf[e] \in (cursor + 1) .. batchTo'
                                      THEN "queued" ELSE pc[e]]
         /\ queue' \in Seq(QTasks)
         /\ Len(queue) \in Nat /\ DOMAIN queue = 1 .. Len(queue)
         /\ \A i \in DOMAIN queue' :
              \/ i \in DOMAIN queue /\ queue'[i] = queue[i]
              \/ LET e == EventsUpTo(cursor) + (i - Len(queue))
                 IN  /\ i \notin DOMAIN queue /\ i \in Nat
                     /\ e \in Events /\ queue'[i] = EventTask(e)
                     /\ blockOf[e] \in (cursor + 1) .. batchTo'
<1> DEFINE limit == IF phase = "catchup" THEN target ELSE head
           to    == IF cursor + BatchSize < limit THEN cursor + BatchSize ELSE limit
           known == EventsUpTo(cursor)
           found == EventsUpTo(to)
           new   == [i \in 1 .. (found - known) |-> EventTask(known + i)]
<1>1. /\ batchTo = cursor /\ cursor < limit /\ batchTo' = to
      /\ queue' = queue \o new
      /\ pc' = [e \in Events |-> IF blockOf[e] \in (cursor + 1) .. to THEN "queued" ELSE pc[e]]
  BY DEF ScanBatch
<1>2. limit \in 0 .. MaxBlock /\ BatchSize \in Nat \ {0} /\ cursor \in -1 .. MaxBlock
  BY LoopAssumption DEF TypeOK
<1>3. to \in (cursor + 1) .. MaxBlock /\ to \in Int /\ cursor \in Int
  <2> HIDE DEF limit
  <2> QED
    BY <1>1, <1>2, LoopAssumption
<1> HIDE DEF to, limit
<1>4. /\ known \in 0 .. NumEvents /\ found \in 0 .. NumEvents /\ NumEvents \in Nat
      /\ \A e \in Events : /\ blockOf[e] <= cursor <=> e <= known
                           /\ blockOf[e] <= to <=> e <= found
  BY <1>3, EventsBelow, LoopAssumption
<1>5. \A e \in Events : blockOf[e] \in Nat
  BY LoopAssumption DEF Sorted
<1> HIDE DEF known, found
<1>6. ASSUME NEW i \in 1 .. (found - known)
      PROVE  known + i \in Events /\ blockOf[known + i] \in (cursor + 1) .. to
  <2>1. known + i \in Events /\ known + i <= found /\ ~(known + i <= known)
    BY <1>4 DEF Events
  <2> QED
    BY <1>3, <1>4, <1>5, <2>1
<1>7. /\ new \in Seq(QTasks) /\ DOMAIN new = 1 .. Len(new) /\ Len(new) \in Nat
      /\ \A i \in 1 .. Len(new) : new[i] = EventTask(known + i)
      /\ (Len(new) <= found - known \/ Len(new) = 0)
  <2> DEFINE n == IF found - known > 0 THEN found - known ELSE 0
  <2>1. n \in Nat /\ 1 .. (found - known) = 1 .. n /\ (n <= found - known \/ n = 0)
    BY <1>4
  <2>2. new \in [1 .. n -> QTasks]
    BY <1>6, <2>1 DEF QTasks
  <2>0. \A i \in 1 .. n : new[i] = EventTask(known + i)
    BY <2>1
  <2> HIDE DEF n, new
  <2>3. new \in Seq(QTasks)
    BY <2>1, <2>2, SeqDef
  <2>4. DOMAIN new = 1 .. Len(new) /\ DOMAIN new = 1 .. n /\ Len(new) \in Nat
    BY <2>2, <2>3, LenProperties
  <2>5. Len(new) = n
    BY <2>1, <2>4, SameInterval
  <2> QED
    BY <2>0, <2>1, <2>3, <2>4, <2>5
<1>8. queue \in Seq(QTasks)
  BY DEF TypeOK, QTasks
<1>9. /\ queue' \in Seq(QTasks) /\ Len(queue') = Len(queue) + Len(new)
      /\ \A i \in 1 .. Len(queue) + Len(new) :
           queue'[i] = IF i <= Len(queue) THEN queue[i] ELSE new[i - Len(queue)]
      /\ DOMAIN queue' = 1 .. Len(queue')
      /\ Len(queue) \in Nat /\ DOMAIN queue = 1 .. Len(queue)
  <2> HIDE DEF new
  <2> QED
    BY <1>1, <1>7, <1>8, ConcatProperties, LenProperties
<1>10. ASSUME NEW i \in DOMAIN queue', i \notin DOMAIN queue
       PROVE  LET e == known + (i - Len(queue))
              IN  /\ i \in Nat /\ e \in Events /\ queue'[i] = EventTask(e)
                  /\ blockOf[e] \in (cursor + 1) .. to
  <2>1. i - Len(queue) \in 1 .. Len(new) /\ queue'[i] = new[i - Len(queue)] /\ i \in Nat
    <3> DEFINE m == Len(new)
    <3>1. m \in Nat
      BY <1>7
    <3> HIDE DEF new, m
    <3>2. i \in 1 .. (Len(queue) + m) /\ ~(i <= Len(queue)) /\ i \in Nat
      BY <1>9, <1>10, <3>1 DEF m
    <3>3. i - Len(queue) \in 1 .. m
      BY <1>9, <3>1, <3>2
    <3> QED
      BY <1>9, <3>2, <3>3 DEF m
  <2>2. i - Len(queue) \in 1 .. (found - known)
    BY <1>4, <1>7, <2>1
  <2> QED
    BY <1>6, <1>7, <2>1, <2>2
<1>11. \A i \in DOMAIN queue : queue'[i] = queue[i] /\ i \in DOMAIN queue'
  <2> HIDE DEF new
  <2> QED
    BY <1>7, <1>9
<1>12. ASSUME NEW i \in DOMAIN queue'
       PROVE  \/ i \in DOMAIN queue /\ queue'[i] = queue[i]
              \/ LET e == known + (i - Len(queue))
                 IN  /\ i \notin DOMAIN queue /\ i \in Nat
                     /\ e \in Events /\ queue'[i] = EventTask(e)
                     /\ blockOf[e] \in (cursor + 1) .. to
  <2>1. CASE i \in DOMAIN queue
    BY <1>11, <2>1
  <2>2. CASE i \notin DOMAIN queue
    BY <1>10, <2>2
  <2> QED
    BY <2>1, <2>2
<1> HIDE DEF new
<1> QED
  BY <1>1, <1>3, <1>9, <1>12 DEF known

\* What the loop itself, the chain and the process do to the types.
LEMMA MainTypes ==
  ASSUME TypeOK, Sorted, NewBlock \/ Main \/ StartFails \/ RetryTimer \/ Crash
  PROVE  TypeOK'
<1> USE DEF chainVars, loopVars, fileVars, taskVars, fateVars
<1>0. runs \in [Runs -> RunRec] /\ queue \in Seq(QTasks) /\ MaxBlock \in Nat /\ MaxCrashes \in Nat
  BY LoopAssumption DEF TypeOK, RunRec, QTasks
<1>1. CASE NewBlock
  <2>1. head' \in 0 .. MaxBlock
    BY <1>0, <1>1 DEF NewBlock, TypeOK
  <2> QED
    BY <1>1, <2>1 DEF NewBlock, TypeOK
<1>2. CASE Start \/ RetryTimer
  <2>1. runs' \in [Runs -> RunRec]
    BY <1>0, <1>2, StartRunEffect DEF Start, RetryTimer
  <2>2. phase' \in Phases
    BY <1>2 DEF Start, RetryTimer, Phases, TypeOK
  <2> QED
    BY <1>2, <2>1, <2>2 DEF Start, RetryTimer, TypeOK, RunRec
<1>3. CASE BeginCatchUp
  BY <1>3, ResumeRange DEF BeginCatchUp, TypeOK, Phases
<1>4. CASE ScanBatch
  <2>1. batchTo' \in -1 .. MaxBlock /\ queue' \in Seq(QTasks)
    BY <1>0, <1>4, ScanEffect DEF TypeOK
  <2>2. pc' \in [Events -> EventPcs]
    BY <1>4, ScanEffect DEF TypeOK, EventPcs
  <2> QED
    BY <1>4, <2>1, <2>2 DEF ScanBatch, TypeOK, QTasks
<1>5. CASE FinishBatch
  <2>1. batchTo \in 0 .. MaxBlock
    BY <1>0, <1>5 DEF FinishBatch, BatchHandled, TypeOK
  <2> QED
    BY <1>5, <2>1 DEF FinishBatch, TypeOK
<1>6. CASE BeginPolling
  BY <1>0, <1>6 DEF BeginPolling, TypeOK, Phases
<1>7. CASE StartFails
  BY <1>7 DEF StartFails, TypeOK, Phases
<1>8. CASE Crash
  <2>1. /\ stateFile' \in 0 .. MaxBlock /\ failedJobs' \in Seq(Job)
        /\ crashes' \in 0 .. MaxCrashes
    <3>1. crashes' \in 0 .. MaxCrashes
      BY <1>0, <1>8 DEF Crash, TypeOK
    <3>2. stateFile' = stateFile \/ stateFile' = 0
      BY <1>8 DEF Crash
    <3>3. failedJobs' = failedJobs \/ failedJobs' = <<>>
      BY <1>8 DEF Crash
    <3>4. stateFile' \in 0 .. MaxBlock
      BY <1>0, <3>2 DEF TypeOK
    <3>5. failedJobs' \in Seq(Job)
      BY <3>3, EmptySeq DEF TypeOK
    <3> QED
      BY <3>1, <3>4, <3>5
  <2>2. interrupted' \subseteq Events
    <3>1. \A r \in Runs : JobsHeldBy(r) \subseteq Events
      <4>1. ASSUME NEW s \in Seq(Job) PROVE JobsOf(s) \subseteq Events
        <5>1. \A i \in DOMAIN s : s[i] \in Job
          BY LenProperties, ElementOfSeq
        <5> QED
          BY <5>1 DEF JobsOf, Job
      <4> QED
        BY <4>1, RunFacts DEF JobsHeldBy
    <3> QED
      BY <1>8, <3>1 DEF Crash, TypeOK
  <2>3. runs' \in [Runs -> RunRec] /\ queue' \in Seq(QTasks)
    BY <1>8, IdleRunIsRun, EmptySeq DEF Crash
  <2>4. jobsRead' \in [Events -> Seq(Job)] /\ pc' \in [Events -> EventPcs]
    BY <1>8, EmptySeq DEF Crash, EventPcs
  <2>5. /\ cursor' \in -1 .. MaxBlock /\ target' \in 0 .. MaxBlock
        /\ batchTo' \in -1 .. MaxBlock /\ phase' \in Phases
    BY <1>0, <1>8 DEF Crash, Phases
  <2> QED
    BY <1>8, <2>1, <2>2, <2>3, <2>4, <2>5 DEF Crash, TypeOK, RunRec, QTasks
<1> QED
  BY <1>1, <1>2, <1>3, <1>4, <1>5, <1>6, <1>7, <1>8 DEF Main

LEMMA StartTaskEffect ==
  ASSUME TypeOK, StartTask
  PROVE  /\ queue' \in Seq(QTasks) /\ 1 \in DOMAIN queue
         /\ \A i \in DOMAIN queue' :
              /\ i \in Int /\ i + 1 \in DOMAIN queue /\ i + 1 # 1
              /\ queue'[i] = queue[i + 1]
         /\ \/ \E e \in Events : /\ queue[1] = EventTask(e)
                                 /\ pc' = [pc EXCEPT ![e] = "handling"]
                                 /\ UNCHANGED runs
            \/ \E r \in Runs : /\ queue[1] = RetryTask(r)
                               /\ runs' = [runs EXCEPT ![r].pc = "handling"]
                               /\ UNCHANGED pc
<1>1. queue \in Seq(QTasks) /\ queue # <<>> /\ queue' = Tail(queue)
  BY DEF TypeOK, QTasks, StartTask
<1>2. /\ Len(queue) \in Nat \ {0} /\ DOMAIN queue = 1 .. Len(queue)
      /\ Head(queue) = queue[1]
  BY <1>1, EmptySeq, LenProperties
<1>3. /\ queue' \in Seq(QTasks) /\ Len(queue') = Len(queue) - 1
      /\ \A i \in 1 .. Len(queue') : queue'[i] = queue[i + 1]
      /\ DOMAIN queue' = 1 .. Len(queue')
  BY <1>1, HeadTailProperties, LenProperties
<1>4. \A i \in DOMAIN queue' :
        i \in Int /\ i + 1 \in DOMAIN queue /\ i + 1 # 1 /\ queue'[i] = queue[i + 1]
  BY <1>2, <1>3
<1> QED
  BY <1>2, <1>3, <1>4 DEF StartTask

\* A step in the task of an event.
LEMMA TaskEffect ==
  ASSUME TypeOK, NEW e \in Events, Task(e)
  PROVE  /\ pc[e] \in {"handling", "readJobs", "writeJobs", "record"}
         /\ pc' \in [Events -> EventPcs] /\ pc'[e] # "queued"
         /\ \A f \in Events \ {e} : pc'[f] = pc[f]
         /\ jobsRead' \in [Events -> Seq(Job)] /\ failedJobs' \in Seq(Job)
         /\ \/ UNCHANGED stateFile
            \/ pc[e] = "record" /\ stateFile' \in {blockOf[e], 0}
         /\ handled' \subseteq Events /\ reported' \subseteq Events
         /\ UNCHANGED <<chainVars, loopVars, queue, runs, crashes, interrupted>>
<1> USE DEF chainVars, loopVars, fileVars, taskVars, fateVars
<1>0. /\ pc \in [Events -> EventPcs] /\ jobsRead \in [Events -> Seq(Job)]
      /\ failedJobs \in Seq(Job) /\ handled \subseteq Events /\ reported \subseteq Events
  BY DEF TypeOK
<1>1. CASE HandlerDone(e)
  BY <1>0, <1>1 DEF HandlerDone, EventPcs
<1>2. CASE HandlerFailsRetryably(e)
  BY <1>0, <1>2 DEF HandlerFailsRetryably, EventPcs
<1>3. CASE HandlerFailsFatally(e)
  BY <1>0, <1>3 DEF HandlerFailsFatally, EventPcs
<1>4. CASE ReadFailedJobs(e)
  BY <1>0, <1>4, EmptySeq DEF ReadFailedJobs, EventPcs
<1>5. CASE WriteFailedJobs(e)
  <2>1. [event |-> e, retryCount |-> 0] \in Job
    BY LoopAssumption DEF Job
  <2>2. Append(jobsRead[e], [event |-> e, retryCount |-> 0]) \in Seq(Job)
    BY <1>0, <2>1, AppendProperties
  <2>3. failedJobs' \in Seq(Job)
    BY <1>5, <2>2, EmptySeq DEF WriteFailedJobs, WriteJobs
  <2>4. jobsRead' \in [Events -> Seq(Job)]
    BY <1>0, <1>5, EmptySeq DEF WriteFailedJobs
  <2> QED
    BY <1>0, <1>5, <2>3, <2>4 DEF WriteFailedJobs, EventPcs
<1>6. CASE RecordBlock(e)
  BY <1>0, <1>6 DEF RecordBlock, WriteState, EventPcs
<1> QED
  BY <1>1, <1>2, <1>3, <1>4, <1>5, <1>6 DEF Task

\* What a retry run changes besides its own record.
LEMMA RetryRunFrame ==
  ASSUME TypeOK, QueueInv, NEW r \in Runs, RetryRun(r)
  PROVE  /\ UNCHANGED <<blockOf, head, phase, cursor, target, batchTo, pc, jobsRead,
                        stateFile, crashes, interrupted>>
         /\ \/ UNCHANGED queue
            \/ QueueJob(r) /\ queue' = Append(queue, RetryTask(r)) /\ runs[r].pc = "next"
<1> USE DEF chainVars, loopVars, fileVars, taskVars, fateVars
<1>1. CASE SkipJob(r)
  BY <1>1 DEF SkipJob
<1>2. CASE QueueJob(r)
  BY <1>2 DEF QueueJob
<1>3. CASE RetrySucceeds(r)
  BY <1>3 DEF RetrySucceeds
<1>4. CASE RetryFails(r)
  BY <1>4 DEF RetryFails
<1>5. CASE FinishRun(r)
  BY <1>5 DEF FinishRun
<1>6. CASE WriteRemaining(r)
  BY <1>6 DEF WriteRemaining
<1> QED
  BY <1>1, <1>2, <1>3, <1>4, <1>5, <1>6 DEF RetryRun

\* What it does to the file and to the fate of its job's event.
LEMMA RetryRunFates ==
  ASSUME TypeOK, QueueInv, NEW r \in Runs, RetryRun(r)
  PROVE  /\ UNCHANGED failedJobs \/ WriteRemaining(r)
         /\ \/ UNCHANGED handled
            \/ RetrySucceeds(r) /\ handled' = handled \cup {Head(runs[r].todo).event}
         /\ \/ UNCHANGED reported
            \/ RetryFails(r) /\ reported' = reported \cup {Head(runs[r].todo).event}
         /\ failedJobs' \in Seq(Job)
         /\ handled' \subseteq Events /\ reported' \subseteq Events
<1> USE DEF chainVars, loopVars, fileVars, taskVars, fateVars
<1>0. failedJobs \in Seq(Job) /\ handled \subseteq Events /\ reported \subseteq Events
  BY DEF TypeOK
<1>1. UNCHANGED failedJobs \/ WriteRemaining(r)
  BY DEF RetryRun, SkipJob, QueueJob, RetrySucceeds, RetryFails, FinishRun
<1>2. \/ UNCHANGED handled
      \/ RetrySucceeds(r) /\ handled' = handled \cup {Head(runs[r].todo).event}
  BY DEF RetryRun, SkipJob, QueueJob, RetrySucceeds, RetryFails, FinishRun, WriteRemaining
<1>3. \/ UNCHANGED reported
      \/ RetryFails(r) /\ reported' = reported \cup {Head(runs[r].todo).event}
  BY DEF RetryRun, SkipJob, QueueJob, RetrySucceeds, RetryFails, FinishRun, WriteRemaining
<1>4. failedJobs' \in Seq(Job)
  BY <1>0, <1>1, RunFacts, EmptySeq DEF WriteRemaining, WriteJobs
<1>5. RetrySucceeds(r) \/ RetryFails(r) => Head(runs[r].todo).event \in Events
  BY RunFacts DEF RetrySucceeds, RetryFails, Attempted, QueueInv, Job
<1> QED
  BY <1>0, <1>1, <1>2, <1>3, <1>4, <1>5

LEMMA NextTypes ==
  ASSUME TypeOK, Sorted, QueueInv, [Next]_vars
  PROVE  TypeOK'
<1> USE DEF chainVars, loopVars, fileVars, taskVars, fateVars
<1>1. CASE UNCHANGED vars
  BY <1>1 DEF vars, TypeOK
<1>2. CASE StartTask
  <2>1. queue' \in Seq(QTasks)
    BY <1>2, StartTaskEffect
  <2>2. pc' \in [Events -> EventPcs]
    BY <1>2, StartTaskEffect DEF TypeOK, EventPcs
  <2>3. runs' \in [Runs -> RunRec]
    <3>1. runs \in [Runs -> RunRec]
      BY DEF TypeOK, RunRec
    <3>2. \A r \in Runs : [runs[r] EXCEPT !.pc = "handling"] \in RunRec
      BY <3>1 DEF RunRec, RunPcs
    <3> QED
      BY <1>2, <3>1, <3>2, StartTaskEffect
  <2> QED
    BY <1>2, <2>1, <2>2, <2>3 DEF StartTask, TypeOK, QTasks, RunRec
<1>3. ASSUME NEW e \in Events, Task(e) PROVE TypeOK'
  <2>1. stateFile' \in 0 .. MaxBlock
    <3>1. stateFile \in 0 .. MaxBlock /\ blockOf[e] \in 1 .. MaxBlock /\ MaxBlock \in Nat
      BY LoopAssumption DEF TypeOK
    <3>2. stateFile' = stateFile \/ stateFile' = blockOf[e] \/ stateFile' = 0
      BY <1>3, TaskEffect
    <3> QED
      BY <3>1, <3>2
  <2> QED
    BY <1>3, <2>1, TaskEffect DEF TypeOK
<1>4. ASSUME NEW r \in Runs, RetryRun(r) PROVE TypeOK'
  <2>1. runs' \in [Runs -> RunRec]
    BY <1>4, RetryRunEffect
  <2>2. queue' \in Seq(QTasks)
    <3>1. queue \in Seq(QTasks) /\ RetryTask(r) \in QTasks
      BY DEF TypeOK, QTasks
    <3> QED
      BY <1>4, <3>1, RetryRunFrame, AppendProperties
  <2> QED
    BY <1>4, <2>1, <2>2, RetryRunFrame, RetryRunFates DEF TypeOK, QTasks, RunRec
<1> QED
  BY <1>1, <1>2, <1>3, <1>4, MainTypes DEF Next

\* No step moves an event to another block.
LEMMA BlocksStand ==
  ASSUME TypeOK, QueueInv, Next
  PROVE  UNCHANGED blockOf
<1> USE DEF chainVars
<1>1. CASE NewBlock \/ Main \/ StartFails \/ StartTask \/ RetryTimer \/ Crash
  BY <1>1 DEF NewBlock, Main, Start, BeginCatchUp, ScanBatch, FinishBatch, BeginPolling,
              StartFails, StartTask, RetryTimer, Crash
<1>2. ASSUME NEW e \in Events, Task(e) PROVE UNCHANGED blockOf
  BY <1>2, TaskEffect
<1>3. ASSUME NEW r \in Runs, RetryRun(r) PROVE UNCHANGED blockOf
  BY <1>3, RetryRunFrame
<1> QED
  BY <1>1, <1>2, <1>3 DEF Next

-------------------------------------------------------------------------------
(* The invariant of the loop is inductive.                                 *)

LEMMA TaskNames ==
  /\ \A e, f \in Events : EventTask(e) = EventTask(f) => e = f
  /\ \A r, s \in Runs : RetryTask(r) = RetryTask(s) => r = s
  /\ \A e \in Events, r \in Runs : EventTask(e) # RetryTask(r)
  BY DEF EventTask, RetryTask

\* Between batches no task of an event is under way.
LEMMA BetweenBatches ==
  ASSUME TypeOK, BatchInv, batchTo = cursor
  PROVE  \A e \in Events : pc[e] = "idle"
<1>1. cursor \in Int /\ \A e \in Events : blockOf[e] \in Int
  BY LoopAssumption DEF TypeOK
<1> QED
  BY <1>1 DEF BatchInv

LEMMA QueueStep ==
  ASSUME TypeOK, Sorted, QueueInv, BatchInv, Next
  PROVE  QueueInv'
<1> USE DEF chainVars, loopVars, fileVars, taskVars, fateVars
<1>0. /\ runs \in [Runs -> RunRec] /\ pc \in [Events -> EventPcs]
      /\ queue \in Seq(QTasks) /\ DOMAIN queue = 1 .. Len(queue) /\ Len(queue) \in Nat
  BY LenProperties DEF TypeOK, RunRec, QTasks
<1>1. CASE NewBlock \/ BeginCatchUp \/ FinishBatch \/ BeginPolling \/ StartFails
  BY <1>1 DEF NewBlock, BeginCatchUp, FinishBatch, BeginPolling, StartFails, QueueInv
<1>2. CASE Start \/ RetryTimer
  <2>1. UNCHANGED <<queue, pc>>
    BY <1>2 DEF Start, RetryTimer
  <2>2. CASE UNCHANGED runs
    BY <2>1, <2>2 DEF QueueInv
  <2>3. ASSUME NEW r \in Runs, StartRun(r) PROVE QueueInv'
    BY <2>1, <2>3, StartRunEffect DEF QueueInv
  <2> QED
    BY <1>2, <2>2, <2>3 DEF Start, RetryTimer
<1>3. CASE ScanBatch
  <2>1. \A e \in Events : pc[e] = "idle"
    BY <1>3, BetweenBatches, ScanEffect
  <2>2. \A i \in DOMAIN queue, e \in Events : queue[i] # EventTask(e)
    BY <2>1 DEF QueueInv
  <2> DEFINE known == EventsUpTo(cursor)
             fresh(i) == /\ i \notin DOMAIN queue /\ i \in Nat
                         /\ known + (i - Len(queue)) \in Events
                         /\ queue'[i] = EventTask(known + (i - Len(queue)))
                         /\ blockOf[known + (i - Len(queue))] \in (cursor + 1) .. batchTo'
  <2>3. \A i \in DOMAIN queue' : (i \in DOMAIN queue /\ queue'[i] = queue[i]) \/ fresh(i)
    BY <1>3, ScanEffect
  <2>4. known \in Int
    BY EventsBelow DEF TypeOK
  <2>5. ASSUME NEW i \in DOMAIN queue', NEW j \in DOMAIN queue', queue'[i] = queue'[j]
        PROVE  i = j
    <3>1. CASE fresh(i) /\ fresh(j)
      <4>1. known + (i - Len(queue)) = known + (j - Len(queue))
        BY <2>5, <3>1, TaskNames
      <4>2. i \in Nat /\ j \in Nat
        BY <3>1
      <4> HIDE DEF known, fresh
      <4> QED
        BY <1>0, <2>4, <4>1, <4>2
    <3>2. CASE fresh(i) /\ j \in DOMAIN queue /\ queue'[j] = queue[j]
      BY <2>2, <2>5, <3>2
    <3>3. CASE fresh(j) /\ i \in DOMAIN queue /\ queue'[i] = queue[i]
      BY <2>2, <2>5, <3>3
    <3>4. CASE i \in DOMAIN queue /\ queue'[i] = queue[i] /\ j \in DOMAIN queue /\ queue'[j] = queue[j]
      BY <2>5, <3>4 DEF QueueInv
    <3> QED
      BY <2>3, <3>1, <3>2, <3>3, <3>4
  <2>6. ASSUME NEW i \in DOMAIN queue', NEW e \in Events, queue'[i] = EventTask(e)
        PROVE  pc'[e] = "queued"
    <3>1. fresh(i)
      BY <2>2, <2>3, <2>6
    <3>2. e = known + (i - Len(queue)) /\ blockOf[e] \in (cursor + 1) .. batchTo'
      BY <2>6, <3>1, TaskNames
    <3> QED
      BY <1>3, <3>2, ScanEffect
  <2>7. ASSUME NEW i \in DOMAIN queue', NEW r \in Runs, queue'[i] = RetryTask(r)
        PROVE  runs'[r].pc = "queued"
    <3>1. ~fresh(i)
      BY <2>7, TaskNames
    <3>2. i \in DOMAIN queue /\ queue[i] = RetryTask(r)
      BY <2>3, <2>7, <3>1
    <3>3. runs[r].pc = "queued" /\ UNCHANGED runs
      BY <1>3, <3>2 DEF QueueInv, ScanBatch
    <3> QED
      BY <3>3
  <2>8. UNCHANGED runs
    BY <1>3 DEF ScanBatch
  <2> HIDE DEF fresh, known
  <2> QED
    BY <2>5, <2>6, <2>7, <2>8 DEF QueueInv
<1>4. CASE StartTask
  <2>1. \A i \in DOMAIN queue' :
          i \in Int /\ i + 1 \in DOMAIN queue /\ i + 1 # 1 /\ queue'[i] = queue[i + 1]
    BY <1>4, StartTaskEffect
  <2>2. \A i, j \in DOMAIN queue' : queue'[i] = queue'[j] => i = j
    <3>1. \A i, j \in DOMAIN queue' : queue'[i] = queue'[j] => i + 1 = j + 1
      BY <2>1 DEF QueueInv
    <3> QED
      BY <2>1, <3>1
  <2>3. 1 \in DOMAIN queue /\ \A i \in DOMAIN queue' : queue'[i] # queue[1]
    BY <1>4, <2>1, StartTaskEffect DEF QueueInv
  <2>4. ASSUME NEW e \in Events, queue[1] = EventTask(e),
               pc' = [pc EXCEPT ![e] = "handling"], UNCHANGED runs
        PROVE  QueueInv'
    <3>1. \A f \in Events \ {e} : pc'[f] = pc[f]
      BY <1>0, <2>4
    <3>2. \A i \in DOMAIN queue', f \in Events : queue'[i] = EventTask(f) => f # e
      BY <2>3, <2>4
    <3> QED
      BY <2>1, <2>2, <2>4, <3>1, <3>2 DEF QueueInv
  <2>5. ASSUME NEW r \in Runs, queue[1] = RetryTask(r),
               runs' = [runs EXCEPT ![r].pc = "handling"], UNCHANGED pc
        PROVE  QueueInv'
    <3>1. /\ \A s \in Runs \ {r} : runs'[s] = runs[s]
          /\ runs[r].pc = "queued" /\ runs'[r].todo = runs[r].todo
      <4>1. runs[r].pc = "queued"
        BY <2>3, <2>5 DEF QueueInv
      <4>2. runs'[r] = [runs[r] EXCEPT !.pc = "handling"] /\ runs[r] \in RunRec
        BY <1>0, <2>5
      <4>3. runs'[r].todo = runs[r].todo
        BY <4>2 DEF RunRec
      <4> QED
        BY <1>0, <2>5, <4>1, <4>3
    <3>2. \A i \in DOMAIN queue', s \in Runs : queue'[i] = RetryTask(s) => s # r
      BY <2>3, <2>5
    <3> QED
      BY <2>1, <2>2, <2>5, <3>1, <3>2 DEF QueueInv
  <2> QED
    BY <1>4, <2>4, <2>5, StartTaskEffect
<1>5. ASSUME NEW e \in Events, Task(e) PROVE QueueInv'
  <2>1. /\ pc[e] # "queued" /\ UNCHANGED <<queue, runs>>
        /\ \A f \in Events \ {e} : pc'[f] = pc[f]
    BY <1>5, TaskEffect
  <2> QED
    BY <2>1 DEF QueueInv
<1>6. ASSUME NEW r \in Runs, RetryRun(r) PROVE QueueInv'
  <2>1. /\ \A s \in Runs \ {r} : runs'[s] = runs[s]
        /\ runs'[r].pc \in {"queued", "handling"} => runs'[r].todo # <<>>
        /\ runs[r].pc # "queued" /\ UNCHANGED pc
    BY <1>6, RetryRunEffect, RetryRunFrame
  <2>2. CASE UNCHANGED queue
    BY <2>1, <2>2 DEF QueueInv
  <2>3. CASE QueueJob(r) /\ queue' = Append(queue, RetryTask(r)) /\ runs[r].pc = "next"
    <3>1. /\ queue' \in Seq(QTasks) /\ Len(queue') = Len(queue) + 1
          /\ DOMAIN queue' = 1 .. Len(queue) + 1
          /\ \A i \in 1 .. Len(queue) : queue'[i] = queue[i]
          /\ queue'[Len(queue) + 1] = RetryTask(r)
      <4>1. RetryTask(r) \in QTasks
        BY DEF QTasks
      <4> QED
        BY <1>0, <2>3, <4>1, AppendProperties, LenProperties
    <3>2. \A i \in DOMAIN queue' :
            (i \in DOMAIN queue /\ queue'[i] = queue[i])
              \/ (i = Len(queue) + 1 /\ queue'[i] = RetryTask(r))
      BY <1>0, <3>1
    <3>3. \A i \in DOMAIN queue : queue[i] # RetryTask(r)
      BY <2>1 DEF QueueInv
    <3>4. runs'[r].pc = "queued"
      BY <1>0, <2>3 DEF QueueJob, RunRec
    <3>5. \A i, j \in DOMAIN queue' : queue'[i] = queue'[j] => i = j
      BY <3>2, <3>3 DEF QueueInv
    <3>6. \A i \in DOMAIN queue', e \in Events : queue'[i] = EventTask(e) => pc'[e] = "queued"
      BY <2>1, <3>2, TaskNames DEF QueueInv
    <3>7. \A i \in DOMAIN queue', s \in Runs : queue'[i] = RetryTask(s) => runs'[s].pc = "queued"
      BY <2>1, <3>2, <3>4, TaskNames DEF QueueInv
    <3>8. \A s \in Runs : runs'[s].pc \in {"queued", "handling"} => runs'[s].todo # <<>>
      BY <2>1 DEF QueueInv
    <3> QED
      BY <3>5, <3>6, <3>7, <3>8 DEF QueueInv
  <2> QED
    BY <1>6, <2>2, <2>3, RetryRunFrame
<1>7. CASE Crash
  <2>1. queue' = <<>> /\ \A r \in Runs : runs'[r] = IdleRun
    BY <1>7 DEF Crash
  <2> QED
    BY <2>1 DEF QueueInv, IdleRun
<1> QED
  BY <1>1, <1>2, <1>3, <1>4, <1>5, <1>6, <1>7 DEF Next, Main

LEMMA BatchStep ==
  ASSUME TypeOK, Sorted, QueueInv, BatchInv, CheckpointWithinBatch, Next
  PROVE  BatchInv' /\ CheckpointWithinBatch'
<1> USE DEF chainVars, loopVars, fileVars, taskVars, fateVars
<1>0. /\ pc \in [Events -> EventPcs] /\ cursor \in Int /\ batchTo \in Int /\ stateFile \in Nat
      /\ target \in Int /\ MaxBlock \in Nat /\ \A e \in Events : blockOf[e] \in Int
  BY LoopAssumption DEF TypeOK
<1>1. CASE NewBlock \/ StartFails \/ RetryTimer \/ Start
  BY <1>1 DEF NewBlock, StartFails, RetryTimer, Start, BatchInv, CheckpointWithinBatch
<1>2. CASE BeginCatchUp
  <2>1. \A e \in Events : pc[e] = "idle"
    BY <1>2, BetweenBatches DEF BeginCatchUp, BatchInv
  <2> QED
    BY <1>2, <2>1 DEF BeginCatchUp, BatchInv, CheckpointWithinBatch
<1>3. CASE ScanBatch
  <2>1. batchTo = cursor /\ batchTo' \in Int /\ batchTo' > cursor /\ UNCHANGED <<cursor, phase, stateFile, blockOf>>
        /\ phase \in {"catchup", "poll"}
    BY <1>0, <1>3, ScanEffect DEF ScanBatch
  <2>2. \A e \in Events : pc[e] = "idle"
    BY <2>1, BetweenBatches
  <2>3. \A e \in Events : pc'[e] = IF blockOf[e] \in (cursor + 1) .. batchTo' THEN "queued" ELSE pc[e]
    BY <1>3, ScanEffect
  <2>4. BatchInv'
    BY <2>1, <2>2, <2>3 DEF BatchInv
  <2>5. CheckpointWithinBatch'
    BY <1>0, <2>1 DEF CheckpointWithinBatch
  <2> QED
    BY <2>4, <2>5
<1>4. CASE FinishBatch
  BY <1>0, <1>4 DEF FinishBatch, BatchHandled, BatchInv, CheckpointWithinBatch
<1>5. CASE BeginPolling
  <2>1. \A e \in Events : pc[e] = "idle"
    BY <1>5, BetweenBatches DEF BeginPolling, CaughtUp
  <2> QED
    BY <1>0, <1>5, <2>1 DEF BeginPolling, BatchInv, CheckpointWithinBatch
<1>6. CASE StartTask
  <2>1. UNCHANGED <<blockOf, phase, cursor, batchTo, stateFile>>
    BY <1>6 DEF StartTask
  <2>2. \A e \in Events : pc'[e] # "idle" => pc[e] # "idle"
    <3>1. ASSUME NEW e \in Events, queue[1] = EventTask(e), pc' = [pc EXCEPT ![e] = "handling"]
          PROVE  \A f \in Events : pc'[f] # "idle" => pc[f] # "idle"
      <4>1. pc[e] = "queued"
        BY <1>6, <3>1, StartTaskEffect DEF QueueInv
      <4> QED
        BY <1>0, <3>1, <4>1
    <3> QED
      BY <1>6, <3>1, StartTaskEffect
  <2> QED
    BY <2>1, <2>2 DEF BatchInv, CheckpointWithinBatch
<1>7. ASSUME NEW e \in Events, Task(e) PROVE BatchInv' /\ CheckpointWithinBatch'
  <2>1. /\ pc[e] # "idle" /\ UNCHANGED <<blockOf, phase, cursor, batchTo>>
        /\ \A f \in Events \ {e} : pc'[f] = pc[f]
        /\ stateFile' \in {stateFile, blockOf[e], 0}
    BY <1>7, TaskEffect
  <2>2. blockOf[e] \in (cursor + 1) .. batchTo
    BY <2>1 DEF BatchInv
  <2>3. BatchInv'
    BY <2>1 DEF BatchInv
  <2>4. CheckpointWithinBatch'
    BY <1>0, <2>1, <2>2 DEF CheckpointWithinBatch
  <2> QED
    BY <2>3, <2>4
<1>8. ASSUME NEW r \in Runs, RetryRun(r) PROVE BatchInv' /\ CheckpointWithinBatch'
  BY <1>8, RetryRunFrame DEF BatchInv, CheckpointWithinBatch
<1>9. CASE Crash
  BY <1>9 DEF Crash, BatchInv, CheckpointWithinBatch
<1> QED
  BY <1>1, <1>2, <1>3, <1>4, <1>5, <1>6, <1>7, <1>8, <1>9 DEF Next, Main

\* The loop's invariant holds in every reachable state.
THEOREM LoopInvariant == Spec => []LoopInv
<1>1. Init => LoopInv
  <2> SUFFICES ASSUME Init PROVE LoopInv
    OBVIOUS
  <2>1. queue \in Seq(QTasks) /\ jobsRead \in [Events -> Seq(Job)] /\ failedJobs \in Seq(Job)
    BY EmptySeq DEF Init
  <2>2. runs \in [Runs -> RunRec] /\ pc \in [Events -> EventPcs]
    BY IdleRunIsRun DEF Init, EventPcs
  <2>3. /\ cursor \in -1 .. MaxBlock /\ target \in 0 .. MaxBlock
        /\ batchTo \in -1 .. MaxBlock /\ stateFile \in 0 .. MaxBlock
        /\ crashes \in 0 .. MaxCrashes /\ phase \in Phases
    BY LoopAssumption DEF Init, Phases
  <2>4. /\ blockOf \in [Events -> 1 .. MaxBlock] /\ head \in 0 .. MaxBlock
        /\ handled \subseteq Events /\ reported \subseteq Events /\ interrupted \subseteq Events
    BY DEF Init
  <2>5. TypeOK
    BY <2>1, <2>2, <2>3, <2>4 DEF TypeOK, QTasks, RunRec
  <2>6. Sorted /\ BatchInv /\ CheckpointWithinBatch
    BY DEF Init, Sorted, BatchInv, CheckpointWithinBatch
  <2>7. QueueInv
    BY DEF Init, QueueInv, IdleRun
  <2> QED
    BY <2>5, <2>6, <2>7 DEF LoopInv
<1>2. LoopInv /\ [Next]_vars => LoopInv'
  <2> SUFFICES ASSUME LoopInv, [Next]_vars PROVE LoopInv'
    OBVIOUS
  <2>1. CASE UNCHANGED vars
    BY <2>1 DEF vars, chainVars, loopVars, fileVars, taskVars, fateVars, LoopInv, TypeOK,
                Sorted, QueueInv, BatchInv, CheckpointWithinBatch
  <2>2. CASE Next
    <3>1. TypeOK'
      BY NextTypes DEF LoopInv
    <3>2. QueueInv' /\ BatchInv' /\ CheckpointWithinBatch'
      BY <2>2, QueueStep, BatchStep DEF LoopInv
    <3>3. UNCHANGED blockOf
      BY <2>2, BlocksStand DEF LoopInv
    <3>4. Sorted'
      BY <3>3 DEF LoopInv, Sorted
    <3> QED
      BY <3>1, <3>2, <3>4 DEF LoopInv
  <2> QED
    BY <2>1, <2>2
<1> QED
  BY <1>1, <1>2, PTL DEF Spec

\* The types of OracleEventLoop: the cursor, the target and the batch stay
\* within the chain, and no job is kept that was tried MAX_RETRIES times.
THEOREM LoopTypes == Spec => []TypeOK
<1>1. LoopInv => TypeOK
  BY DEF LoopInv
<1> QED
  BY <1>1, LoopInvariant, PTL

\* The tasks' own writes of the checkpoint never escape the batch under way,
\* and between batches the checkpoint is the cursor, whatever the number of
\* tasks and slots.
THEOREM CheckpointStaysInBatch == Spec => []CheckpointWithinBatch
<1>1. LoopInv => CheckpointWithinBatch
  BY DEF LoopInv
<1> QED
  BY <1>1, LoopInvariant, PTL

-------------------------------------------------------------------------------
(* Where the loop forgets nothing: at most one event has a handler that can *)
(* fail retryably, and a start without a checkpoint looks at the whole     *)
(* chain.  Two such events lose a job when their tasks read failed-jobs.json *)
(* before either writes it, and a shorter lookback skips blocks.           *)

Fate == handled \cup reported

\* Every job anywhere is a job of the one event f.
OnlyJobsOf(f) ==
  /\ JobsOf(failedJobs) \subseteq {f}
  /\ \A e \in Events : JobsOf(jobsRead[e]) \subseteq {f}
  /\ \A r \in Runs : JobsHeldBy(r) \subseteq {f}
  /\ \A e \in Events : pc[e] \in {"readJobs", "writeJobs"} => e = f

\* A retry run holds the job of f until it knows what became of f, and writes
\* it back if it does not.
RunsHoldJob(f) ==
  \A r \in Runs :
    /\ runs[r].pc # "idle" => f \in JobsHeldBy(r) \cup Fate
    /\ runs[r].pc = "writing" => f \in JobsOf(runs[r].kept) \cup Fate

\* The task of the event has yet to handle it or to write it down as failed.
Pending(e) == pc[e] \in {"queued", "handling", "readJobs", "writeJobs"}

\* The event survives whatever the tasks of others do.
Safe(e) ==
  \/ e \in Fate \cup JobsOf(failedJobs) \cup interrupted
  \/ \E r \in Runs : runs[r].pc = "writing" /\ e \in JobsOf(runs[r].kept)

\* The checkpoint, or the loop in memory, has passed the event's block.
Due(e) ==
  \/ blockOf[e] <= stateFile
  \/ phase \in {"catchup", "poll"} /\ blockOf[e] <= batchTo

NoneLost == \A e \in Events : Due(e) => Pending(e) \/ Safe(e)

AccountInv(f) == OnlyJobsOf(f) /\ RunsHoldJob(f) /\ NoneLost

\* The events of a list of jobs.
LEMMA JobsOfList ==
  /\ JobsOf(<<>>) = {}
  /\ \A s \in Seq(Job) : JobsOf(s) \subseteq Events
  /\ \A s \in Seq(Job) : s # <<>> => JobsOf(s) = {Head(s).event} \cup JobsOf(Tail(s))
  /\ \A s \in Seq(Job), j \in Job : JobsOf(Append(s, j)) = JobsOf(s) \cup {j.event}
<1>1. JobsOf(<<>>) = {}
  BY DEF JobsOf
<1>2. ASSUME NEW s \in Seq(Job) PROVE JobsOf(s) \subseteq Events
  <2>1. \A i \in DOMAIN s : s[i] \in Job
    BY LenProperties, ElementOfSeq
  <2> QED
    BY <2>1 DEF JobsOf, Job
<1>3. ASSUME NEW s \in Seq(Job), s # <<>>
      PROVE  JobsOf(s) = {Head(s).event} \cup JobsOf(Tail(s))
  <2>1. /\ Len(s) \in Nat \ {0} /\ DOMAIN s = 1 .. Len(s) /\ Head(s) = s[1]
        /\ DOMAIN Tail(s) = 1 .. (Len(s) - 1)
        /\ \A i \in 1 .. (Len(s) - 1) : Tail(s)[i] = s[i + 1]
    BY <1>3, HeadTailProperties, LenProperties, EmptySeq
  <2>2. ASSUME NEW i \in DOMAIN s PROVE i = 1 \/ s[i].event \in JobsOf(Tail(s))
    <3>1. CASE i # 1
      <4>1. i - 1 \in DOMAIN Tail(s) /\ Tail(s)[i - 1] = s[i]
        BY <2>1, <3>1
      <4> QED
        BY <4>1 DEF JobsOf
    <3> QED
      BY <3>1
  <2>3. ASSUME NEW i \in DOMAIN Tail(s) PROVE Tail(s)[i].event \in JobsOf(s)
    <3>1. i + 1 \in DOMAIN s /\ Tail(s)[i] = s[i + 1]
      BY <2>1
    <3> QED
      BY <3>1 DEF JobsOf
  <2>4. Head(s).event \in JobsOf(s)
    <3>1. 1 \in DOMAIN s
      BY <2>1
    <3> QED
      BY <2>1, <3>1 DEF JobsOf
  <2>5. JobsOf(Tail(s)) \subseteq JobsOf(s)
    BY <2>3 DEF JobsOf
  <2>6. JobsOf(s) \subseteq {Head(s).event} \cup JobsOf(Tail(s))
    <3>1. \A x \in JobsOf(s) : \E i \in DOMAIN s : x = s[i].event
      BY DEF JobsOf
    <3> QED
      BY <2>1, <2>2, <3>1
  <2> QED
    BY <2>4, <2>5, <2>6
<1>4. ASSUME NEW s \in Seq(Job), NEW j \in Job
      PROVE  JobsOf(Append(s, j)) = JobsOf(s) \cup {j.event}
  <2>1. /\ Len(s) \in Nat /\ DOMAIN s = 1 .. Len(s)
        /\ DOMAIN Append(s, j) = 1 .. (Len(s) + 1)
        /\ \A i \in 1 .. Len(s) : Append(s, j)[i] = s[i]
        /\ Append(s, j)[Len(s) + 1] = j
    BY AppendProperties, LenProperties
  <2>2. ASSUME NEW i \in DOMAIN Append(s, j)
        PROVE  Append(s, j)[i].event \in JobsOf(s) \cup {j.event}
    <3>1. CASE i = Len(s) + 1
      BY <2>1, <3>1
    <3>2. CASE i \in DOMAIN s
      BY <2>1, <3>2 DEF JobsOf
    <3> QED
      BY <2>1, <3>1, <3>2
  <2>3. ASSUME NEW i \in DOMAIN s PROVE s[i].event \in JobsOf(Append(s, j))
    <3>1. i \in DOMAIN Append(s, j) /\ Append(s, j)[i] = s[i]
      BY <2>1
    <3> QED
      BY <3>1 DEF JobsOf
  <2>4. j.event \in JobsOf(Append(s, j))
    <3>1. Len(s) + 1 \in DOMAIN Append(s, j)
      BY <2>1
    <3> QED
      BY <2>1, <3>1 DEF JobsOf
  <2> QED
    BY <2>2, <2>3, <2>4 DEF JobsOf
<1> QED
  BY <1>1, <1>2, <1>3, <1>4

\* A retry run drops a job only when it knows what became of the event.
LEMMA RetryRunJobs ==
  ASSUME TypeOK, QueueInv, NEW r \in Runs, RetryRun(r)
  PROVE  /\ Fate \subseteq Fate'
         /\ runs[r].pc # "idle"
         /\ runs'[r].pc # "idle" =>
              /\ JobsHeldBy(r)' \subseteq JobsHeldBy(r)
              /\ JobsHeldBy(r) \subseteq JobsHeldBy(r)' \cup Fate'
         /\ runs'[r].pc = "idle" => JobsHeldBy(r)' = {}
         /\ runs'[r].pc = "writing" => JobsHeldBy(r) = JobsOf(runs'[r].kept)
         /\ runs[r].pc = "writing" => WriteRemaining(r) /\ runs'[r].pc = "idle"
<1> DEFINE run == runs[r]
           new == runs'[r]
<1>0. /\ run \in RunRec /\ run.todo \in Seq(Job) /\ run.kept \in Seq(Job)
      /\ run.todo # <<>> => Head(run.todo) \in Job
  BY RunFacts
<1>1. Fate \subseteq Fate'
  BY RetryRunFates DEF Fate
<1>2. /\ JobsHeldBy(r) = JobsOf(run.todo) \cup JobsOf(run.kept)
      /\ JobsHeldBy(r)' = JobsOf(new.todo) \cup JobsOf(new.kept)
  BY DEF JobsHeldBy
<1>3. CASE SkipJob(r) /\ run.todo # <<>>
           /\ new = [run EXCEPT !.todo = Tail(run.todo),
                                !.kept = Append(run.kept, Head(run.todo))]
  <2>1. /\ new.todo = Tail(run.todo) /\ new.kept = Append(run.kept, Head(run.todo))
        /\ new.pc = "next" /\ run.pc = "next"
    BY <1>0, <1>3 DEF SkipJob, RunRec
  <2>2. JobsHeldBy(r)' = JobsHeldBy(r)
    BY <1>0, <1>2, <1>3, <2>1, JobsOfList
  <2> QED
    BY <1>1, <2>1, <2>2
<1>4. CASE QueueJob(r) /\ new = [run EXCEPT !.pc = "queued", !.tried = TRUE]
  <2>1. new.todo = run.todo /\ new.kept = run.kept /\ new.pc = "queued" /\ run.pc = "next"
    BY <1>0, <1>4 DEF QueueJob, RunRec
  <2>2. JobsHeldBy(r)' = JobsHeldBy(r)
    BY <1>2, <2>1
  <2> QED
    BY <1>1, <2>1, <2>2
<1>5. CASE RetrySucceeds(r) /\ run.todo # <<>>
           /\ new = [run EXCEPT !.pc = "next", !.todo = Tail(run.todo)]
  <2>1. /\ new.todo = Tail(run.todo) /\ new.kept = run.kept
        /\ new.pc = "next" /\ run.pc = "handling"
    BY <1>0, <1>5 DEF RetrySucceeds, RunRec
  <2>2. Head(run.todo).event \in Fate'
    BY <1>5 DEF RetrySucceeds, Fate
  <2>3. JobsOf(run.todo) = {Head(run.todo).event} \cup JobsOf(Tail(run.todo))
    BY <1>0, <1>5, JobsOfList
  <2> QED
    BY <1>1, <1>2, <2>1, <2>2, <2>3
<1>6. CASE RetryFails(r) /\ run.todo # <<>>
  <2> DEFINE old   == Head(run.todo)
             count == old.retryCount + 1
             again == [old EXCEPT !.retryCount = count]
  <2>1. /\ new.pc = "next" /\ new.todo = Tail(run.todo) /\ run.pc \in {"next", "handling"}
        /\ new.kept = IF count >= MAX_RETRIES THEN run.kept ELSE Append(run.kept, again)
        /\ reported' = IF count >= MAX_RETRIES THEN reported \cup {old.event} ELSE reported
    <3>1. runs \in [Runs -> RunRec]
      BY RunFacts
    <3> QED
      BY <1>6, <3>1 DEF RetryFails, Attempted
  <2>2. JobsOf(run.todo) = {old.event} \cup JobsOf(Tail(run.todo))
    BY <1>0, <1>6, JobsOfList
  <2>3. CASE count >= MAX_RETRIES
    <3>1. old.event \in Fate'
      BY <2>1, <2>3 DEF Fate
    <3> QED
      BY <1>1, <1>2, <2>1, <2>2, <2>3, <3>1
  <2>4. CASE ~(count >= MAX_RETRIES)
    <3>1. old \in Job /\ old.retryCount \in 0 .. MAX_RETRIES - 1 /\ MAX_RETRIES \in Nat
      BY <1>0, <1>6, LoopAssumption DEF Job
    <3>2. count \in 0 .. MAX_RETRIES - 1
      BY <2>4, <3>1
    <3>3. again \in Job /\ again.event = old.event
      <4> HIDE DEF count, old
      <4> QED
        BY <3>1, <3>2 DEF Job
    <3>4. JobsOf(new.kept) = JobsOf(run.kept) \cup {old.event}
      <4> HIDE DEF again, old
      <4> QED
        BY <1>0, <2>1, <2>4, <3>3, JobsOfList
    <3> QED
      BY <1>1, <1>2, <2>1, <2>2, <3>4
  <2> QED
    BY <2>3, <2>4
<1>7. CASE FinishRun(r) /\ new = IF run.tried THEN [run EXCEPT !.pc = "writing"] ELSE IdleRun
  <2>1. run.todo = <<>> /\ run.pc = "next"
    BY <1>7 DEF FinishRun
  <2>2. CASE run.tried
    <3>1. new.pc = "writing" /\ new.todo = run.todo /\ new.kept = run.kept
      BY <1>0, <1>7, <2>2 DEF RunRec
    <3>2. JobsHeldBy(r)' = JobsHeldBy(r) /\ JobsHeldBy(r) = JobsOf(new.kept)
      BY <1>2, <2>1, <3>1, JobsOfList
    <3> QED
      BY <1>1, <2>1, <3>1, <3>2
  <2>3. CASE ~run.tried
    <3>1. new.pc = "idle" /\ new.todo = <<>> /\ new.kept = <<>>
      BY <1>7, <2>3 DEF IdleRun
    <3> QED
      BY <1>1, <1>2, <2>1, <3>1, JobsOfList
  <2> QED
    BY <2>2, <2>3
<1>8. CASE WriteRemaining(r) /\ new = IdleRun
  <2>1. run.pc = "writing" /\ new.pc = "idle" /\ new.todo = <<>> /\ new.kept = <<>>
    BY <1>8 DEF IdleRun, WriteRemaining
  <2> QED
    BY <1>1, <1>2, <1>8, <2>1, JobsOfList
<1> QED
  BY <1>3, <1>4, <1>5, <1>6, <1>7, <1>8, RetryRunEffect

\* What has happened to an event is not undone.
LEMMA FateStays ==
  ASSUME TypeOK, QueueInv, Next
  PROVE  Fate \subseteq Fate' /\ interrupted \subseteq interrupted'
<1> USE DEF chainVars, loopVars, fileVars, taskVars, fateVars
<1>1. CASE NewBlock \/ Main \/ StartFails \/ StartTask \/ RetryTimer
  BY <1>1 DEF NewBlock, Main, Start, BeginCatchUp, ScanBatch, FinishBatch, BeginPolling,
              StartFails, StartTask, RetryTimer, Fate
<1>2. ASSUME NEW e \in Events, Task(e)
      PROVE  Fate \subseteq Fate' /\ interrupted \subseteq interrupted'
  BY <1>2 DEF Task, HandlerDone, HandlerFailsRetryably, HandlerFailsFatally,
              ReadFailedJobs, WriteFailedJobs, RecordBlock, Fate
<1>3. ASSUME NEW r \in Runs, RetryRun(r)
      PROVE  Fate \subseteq Fate' /\ interrupted \subseteq interrupted'
  BY <1>3, RetryRunJobs, RetryRunFrame
<1>4. CASE Crash
  BY <1>4 DEF Crash, Fate
<1> QED
  BY <1>1, <1>2, <1>3, <1>4 DEF Next

\* Only the task of f appends to the file, and only retry runs rewrite it.
LEMMA OnlyJobsStep ==
  ASSUME NEW f, Flaky \subseteq {f}, TypeOK, QueueInv, OnlyJobsOf(f), Next
  PROVE  OnlyJobsOf(f)'
<1> USE DEF chainVars, loopVars, fileVars, taskVars, fateVars
<1>0. /\ runs \in [Runs -> RunRec] /\ pc \in [Events -> EventPcs]
      /\ jobsRead \in [Events -> Seq(Job)] /\ failedJobs \in Seq(Job)
      /\ JobsOf(<<>>) = {}
  BY JobsOfList DEF TypeOK, RunRec
<1>1. CASE NewBlock \/ BeginCatchUp \/ FinishBatch \/ BeginPolling \/ StartFails
  BY <1>1 DEF NewBlock, BeginCatchUp, FinishBatch, BeginPolling, StartFails, OnlyJobsOf,
              JobsHeldBy
<1>2. CASE Start \/ RetryTimer
  <2>1. UNCHANGED <<failedJobs, jobsRead, pc>>
    BY <1>2 DEF Start, RetryTimer
  <2>2. CASE UNCHANGED runs
    BY <2>1, <2>2 DEF OnlyJobsOf, JobsHeldBy
  <2>3. ASSUME NEW r \in Runs, StartRun(r) PROVE OnlyJobsOf(f)'
    <3>1. JobsHeldBy(r)' = JobsOf(failedJobs)
      BY <1>0, <2>3, StartRunEffect DEF JobsHeldBy
    <3>2. \A s \in Runs \ {r} : JobsHeldBy(s)' = JobsHeldBy(s)
      BY <2>3, StartRunEffect DEF JobsHeldBy
    <3> QED
      BY <2>1, <3>1, <3>2 DEF OnlyJobsOf
  <2> QED
    BY <1>2, <2>2, <2>3 DEF Start, RetryTimer
<1>3. CASE ScanBatch
  BY <1>3 DEF ScanBatch, OnlyJobsOf, JobsHeldBy
<1>4. CASE StartTask
  <2>1. UNCHANGED <<failedJobs, jobsRead>>
    BY <1>4 DEF StartTask
  <2>2. \A e \in Events : pc'[e] \in {"readJobs", "writeJobs"} => pc[e] \in {"readJobs", "writeJobs"}
    BY <1>0, <1>4, StartTaskEffect
  <2>3. \A r \in Runs : JobsHeldBy(r)' = JobsHeldBy(r)
    <3>1. \A r \in Runs : runs'[r].todo = runs[r].todo /\ runs'[r].kept = runs[r].kept
      <4>1. \A r \in Runs : runs[r] \in RunRec
        BY <1>0
      <4>2. \A r \in Runs : LET new == [runs[r] EXCEPT !.pc = "handling"]
                            IN  new.todo = runs[r].todo /\ new.kept = runs[r].kept
        BY <4>1 DEF RunRec
      <4>3. \A r \in Runs : runs'[r] = runs[r] \/ runs'[r] = [runs[r] EXCEPT !.pc = "handling"]
        BY <1>0, <1>4, StartTaskEffect
      <4> QED
        BY <4>2, <4>3
    <3> QED
      BY <3>1 DEF JobsHeldBy
  <2> QED
    BY <2>1, <2>2, <2>3 DEF OnlyJobsOf
<1>5. ASSUME NEW e \in Events, Task(e) PROVE OnlyJobsOf(f)'
  <2>1. \A r \in Runs : JobsHeldBy(r)' = JobsHeldBy(r)
    BY <1>5, TaskEffect DEF JobsHeldBy
  <2>2. CASE HandlerDone(e) \/ HandlerFailsFatally(e) \/ RecordBlock(e)
    <3>1. UNCHANGED <<failedJobs, jobsRead>>
      BY <2>2 DEF HandlerDone, HandlerFailsFatally, RecordBlock
    <3>2. \A g \in Events : pc'[g] \in {"readJobs", "writeJobs"} => pc[g] \in {"readJobs", "writeJobs"}
      BY <1>0, <2>2 DEF HandlerDone, HandlerFailsFatally, RecordBlock
    <3> QED
      BY <2>1, <3>1, <3>2 DEF OnlyJobsOf
  <2>3. CASE HandlerFailsRetryably(e)
    <3>1. e = f /\ UNCHANGED <<failedJobs, jobsRead>>
      BY <2>3 DEF HandlerFailsRetryably
    <3>2. \A g \in Events \ {e} : pc'[g] = pc[g]
      BY <1>5, TaskEffect
    <3> QED
      BY <2>1, <3>1, <3>2 DEF OnlyJobsOf
  <2>4. CASE ReadFailedJobs(e)
    <3>1. UNCHANGED failedJobs /\ pc[e] = "readJobs"
      BY <2>4 DEF ReadFailedJobs
    <3>2. \A g \in Events : JobsOf(jobsRead'[g]) \subseteq {f}
      <4>1. PICK jobs \in {failedJobs, <<>>} : jobsRead' = [jobsRead EXCEPT ![e] = jobs]
        BY <2>4 DEF ReadFailedJobs
      <4>2. JobsOf(jobs) \subseteq {f}
        BY <1>0 DEF OnlyJobsOf
      <4> QED
        BY <1>0, <4>1, <4>2 DEF OnlyJobsOf
    <3>3. \A g \in Events \ {e} : pc'[g] = pc[g]
      BY <1>5, TaskEffect
    <3> QED
      BY <2>1, <3>1, <3>2, <3>3 DEF OnlyJobsOf
  <2>5. CASE WriteFailedJobs(e)
    <3>1. e = f /\ [event |-> e, retryCount |-> 0] \in Job
      BY <2>5, LoopAssumption DEF WriteFailedJobs, OnlyJobsOf, Job
    <3>2. JobsOf(failedJobs') \subseteq {f}
      <4>1. JobsOf(Append(jobsRead[e], [event |-> e, retryCount |-> 0]))
              = JobsOf(jobsRead[e]) \cup {e}
        BY <1>0, <3>1, JobsOfList
      <4> QED
        BY <1>0, <2>5, <3>1, <4>1 DEF WriteFailedJobs, WriteJobs, OnlyJobsOf
    <3>3. \A g \in Events : JobsOf(jobsRead'[g]) \subseteq {f}
      BY <1>0, <2>5 DEF WriteFailedJobs, OnlyJobsOf
    <3>4. \A g \in Events \ {e} : pc'[g] = pc[g]
      BY <1>5, TaskEffect
    <3> QED
      BY <2>1, <3>1, <3>2, <3>3, <3>4 DEF OnlyJobsOf
  <2> QED
    BY <1>5, <2>2, <2>3, <2>4, <2>5 DEF Task
<1>6. ASSUME NEW r \in Runs, RetryRun(r) PROVE OnlyJobsOf(f)'
  <2>1. JobsHeldBy(r)' \subseteq JobsHeldBy(r)
    BY <1>6, RetryRunJobs
  <2>2. \A s \in Runs \ {r} : JobsHeldBy(s)' = JobsHeldBy(s)
    BY <1>6, RetryRunEffect DEF JobsHeldBy
  <2>3. UNCHANGED <<pc, jobsRead>>
    BY <1>6, RetryRunFrame
  <2>4. JobsOf(failedJobs') \subseteq {f}
    <3>1. failedJobs' \in {failedJobs, runs[r].kept, <<>>}
      BY <1>6, RetryRunFates DEF WriteRemaining, WriteJobs
    <3>2. JobsOf(runs[r].kept) \subseteq JobsHeldBy(r)
      BY DEF JobsHeldBy
    <3> QED
      BY <1>0, <3>1, <3>2 DEF OnlyJobsOf
  <2> QED
    BY <2>1, <2>2, <2>3, <2>4 DEF OnlyJobsOf
<1>7. CASE Crash
  <2>1. /\ failedJobs' = failedJobs \/ failedJobs' = <<>>
        /\ \A r \in Runs : runs'[r] = IdleRun
        /\ \A e \in Events : jobsRead'[e] = <<>> /\ pc'[e] = "idle"
    BY <1>7 DEF Crash
  <2>2. \A r \in Runs : JobsHeldBy(r)' = {}
    BY <1>0, <2>1 DEF JobsHeldBy, IdleRun
  <2> QED
    BY <1>0, <2>1, <2>2 DEF OnlyJobsOf
<1> QED
  BY <1>1, <1>2, <1>3, <1>4, <1>5, <1>6, <1>7 DEF Next, Main

LEMMA RunsHoldStep ==
  ASSUME NEW f, TypeOK, QueueInv, OnlyJobsOf(f), RunsHoldJob(f), Next
  PROVE  RunsHoldJob(f)'
<1> USE DEF chainVars, loopVars, fileVars, taskVars, fateVars
<1>0. runs \in [Runs -> RunRec] /\ JobsOf(<<>>) = {} /\ failedJobs \in Seq(Job)
  BY JobsOfList DEF TypeOK, RunRec
<1>1. Fate \subseteq Fate'
  BY FateStays
<1>2. ASSUME UNCHANGED runs PROVE RunsHoldJob(f)'
  BY <1>1, <1>2 DEF RunsHoldJob, JobsHeldBy
<1>3. CASE NewBlock \/ BeginCatchUp \/ ScanBatch \/ FinishBatch \/ BeginPolling \/ StartFails
  BY <1>2, <1>3 DEF NewBlock, BeginCatchUp, ScanBatch, FinishBatch, BeginPolling, StartFails
<1>4. CASE Start \/ RetryTimer
  <2>1. ASSUME NEW r \in Runs, StartRun(r) PROVE RunsHoldJob(f)'
    <3>1. f \in JobsHeldBy(r)' /\ runs'[r].pc = "next"
      <4>1. failedJobs # <<>> /\ runs'[r].todo = failedJobs /\ runs'[r].pc = "next"
        BY <2>1, StartRunEffect
      <4>2. Head(failedJobs).event \in JobsOf(failedJobs)
        BY <1>0, <4>1, JobsOfList
      <4> QED
        BY <4>1, <4>2 DEF JobsHeldBy, OnlyJobsOf
    <3>2. \A s \in Runs \ {r} : runs'[s] = runs[s] /\ JobsHeldBy(s)' = JobsHeldBy(s)
      BY <2>1, StartRunEffect DEF JobsHeldBy
    <3> QED
      BY <1>1, <3>1, <3>2 DEF RunsHoldJob
  <2> QED
    BY <1>2, <1>4, <2>1 DEF Start, RetryTimer
<1>5. CASE StartTask
  <2>1. ASSUME NEW r \in Runs, queue[1] = RetryTask(r), runs' = [runs EXCEPT ![r].pc = "handling"]
        PROVE  RunsHoldJob(f)'
    <3>1. runs'[r] = [runs[r] EXCEPT !.pc = "handling"] /\ runs[r] \in RunRec
      BY <1>0, <2>1
    <3>2. /\ runs'[r].pc = "handling" /\ runs'[r].todo = runs[r].todo
          /\ runs'[r].kept = runs[r].kept
      BY <3>1 DEF RunRec
    <3>3. 1 \in DOMAIN queue
      BY <1>5, StartTaskEffect
    <3>4. runs[r].pc = "queued"
      BY <2>1, <3>3 DEF QueueInv
    <3>5. f \in JobsHeldBy(r)' \cup Fate'
      BY <1>1, <3>2, <3>4 DEF RunsHoldJob, JobsHeldBy
    <3>6. \A s \in Runs \ {r} : runs'[s] = runs[s] /\ JobsHeldBy(s)' = JobsHeldBy(s)
      BY <1>0, <2>1 DEF JobsHeldBy
    <3> QED
      BY <1>1, <3>2, <3>5, <3>6 DEF RunsHoldJob
  <2> QED
    BY <1>2, <1>5, <2>1, StartTaskEffect
<1>6. ASSUME NEW e \in Events, Task(e) PROVE RunsHoldJob(f)'
  BY <1>2, <1>6, TaskEffect
<1>7. ASSUME NEW r \in Runs, RetryRun(r) PROVE RunsHoldJob(f)'
  <2>1. \A s \in Runs \ {r} : runs'[s] = runs[s] /\ JobsHeldBy(s)' = JobsHeldBy(s)
    BY <1>7, RetryRunEffect DEF JobsHeldBy
  <2>2. f \in JobsHeldBy(r) \cup Fate
    BY <1>7, RetryRunJobs DEF RunsHoldJob
  <2>3. runs'[r].pc # "idle" => f \in JobsHeldBy(r)' \cup Fate'
    BY <1>1, <1>7, <2>2, RetryRunJobs
  <2>4. runs'[r].pc = "writing" => f \in JobsOf(runs'[r].kept) \cup Fate'
    BY <1>1, <1>7, <2>2, RetryRunJobs
  <2> QED
    BY <1>1, <2>1, <2>3, <2>4 DEF RunsHoldJob
<1>8. CASE Crash
  <2>1. \A r \in Runs : runs'[r].pc = "idle"
    BY <1>8 DEF Crash, IdleRun
  <2> QED
    BY <2>1 DEF RunsHoldJob
<1> QED
  BY <1>3, <1>4, <1>5, <1>6, <1>7, <1>8 DEF Next, Main

\* Who may be writing the file: the task of f, or a retry run.
LEMMA Writers ==
  ASSUME NEW f, OnlyJobsOf(f), NEW w \in WritesJobs
  PROVE  \/ f \in Events /\ pc[f] = "writeJobs" /\ w = EventTask(f)
         \/ \E r \in Runs : runs[r].pc = "writing" /\ w = RetryTask(r)
  BY DEF WritesJobs, OnlyJobsOf

\* The event that has jobs stays accounted for: whoever empties or overwrites
\* failed-jobs.json leaves another writer that knows its job.
LEMMA JobStays ==
  ASSUME NEW f \in Events, TypeOK, QueueInv, OnlyJobsOf(f), RunsHoldJob(f), Next,
         Pending(f) \/ Safe(f)
  PROVE  Pending(f)' \/ Safe(f)'
<1> USE DEF chainVars, loopVars, fileVars, taskVars, fateVars
<1>0. /\ runs \in [Runs -> RunRec] /\ pc \in [Events -> EventPcs]
      /\ Fate \subseteq Fate' /\ interrupted \subseteq interrupted'
  BY FateStays DEF TypeOK, RunRec
<1>1. ASSUME UNCHANGED failedJobs, \A r \in Runs : runs[r].pc = "writing" => runs'[r] = runs[r],
             Safe(f)
      PROVE  Safe(f)'
  BY <1>0, <1>1 DEF Safe
<1>2. CASE NewBlock \/ BeginCatchUp \/ FinishBatch \/ BeginPolling \/ StartFails
  <2>1. UNCHANGED <<failedJobs, runs, pc>>
    BY <1>2 DEF NewBlock, BeginCatchUp, FinishBatch, BeginPolling, StartFails
  <2> QED
    BY <1>1, <2>1 DEF Pending
<1>3. CASE ScanBatch
  <2>1. UNCHANGED <<failedJobs, runs>> /\ (pc'[f] = "queued" \/ pc'[f] = pc[f])
    BY <1>3 DEF ScanBatch
  <2> QED
    BY <1>1, <2>1 DEF Pending
<1>4. CASE Start \/ RetryTimer
  <2>1. UNCHANGED <<failedJobs, pc>>
    BY <1>4 DEF Start, RetryTimer
  <2>2. \A r \in Runs : runs[r].pc = "writing" => runs'[r] = runs[r]
    BY <1>4, StartRunEffect DEF Start, RetryTimer
  <2> QED
    BY <1>1, <2>1, <2>2 DEF Pending
<1>5. CASE StartTask
  <2>1. UNCHANGED failedJobs
    BY <1>5 DEF StartTask
  <2>2. Pending(f) => Pending(f)'
    BY <1>0, <1>5, StartTaskEffect DEF Pending
  <2>3. \A r \in Runs : runs[r].pc = "writing" => runs'[r] = runs[r]
    <3>1. ASSUME NEW r \in Runs, queue[1] = RetryTask(r), runs' = [runs EXCEPT ![r].pc = "handling"]
          PROVE  \A s \in Runs : runs[s].pc = "writing" => runs'[s] = runs[s]
      <4>1. 1 \in DOMAIN queue
        BY <1>5, StartTaskEffect
      <4>2. runs[r].pc = "queued"
        BY <3>1, <4>1 DEF QueueInv
      <4> QED
        BY <1>0, <3>1, <4>2
    <3> QED
      BY <1>5, <3>1, StartTaskEffect
  <2> QED
    BY <1>1, <2>1, <2>2, <2>3
<1>6. ASSUME NEW e \in Events, Task(e) PROVE Pending(f)' \/ Safe(f)'
  <2>0. UNCHANGED runs /\ \A g \in Events \ {e} : pc'[g] = pc[g]
    BY <1>6, TaskEffect
  <2>1. CASE WriteFailedJobs(e)
    <3>1. e = f /\ [event |-> e, retryCount |-> 0] \in Job
      BY <2>1, LoopAssumption DEF WriteFailedJobs, OnlyJobsOf, Job
    <3>2. CASE failedJobs' = Append(jobsRead[e], [event |-> e, retryCount |-> 0])
      <4>1. jobsRead[e] \in Seq(Job)
        BY DEF TypeOK
      <4>2. e \in JobsOf(failedJobs')
        BY <3>1, <3>2, <4>1, JobsOfList
      <4> QED
        BY <3>1, <4>2 DEF Safe
    <3>3. CASE WritesJobs # {EventTask(e)}
      <4>1. EventTask(e) \in WritesJobs
        BY <2>1 DEF WritesJobs, WriteFailedJobs
      <4>2. PICK w \in WritesJobs : w # EventTask(e)
        BY <3>3, <4>1
      <4>3. PICK r \in Runs : runs[r].pc = "writing"
        BY <3>1, <4>2, Writers
      <4>4. f \in JobsOf(runs[r].kept) \cup Fate
        BY <4>3 DEF RunsHoldJob
      <4> QED
        BY <1>0, <2>0, <4>3, <4>4 DEF Safe
    <3> QED
      BY <2>1, <3>2, <3>3 DEF WriteFailedJobs, WriteJobs
  <2>2. CASE ~WriteFailedJobs(e)
    <3>1. UNCHANGED failedJobs
      BY <1>6, <2>2 DEF Task, HandlerDone, HandlerFailsRetryably, HandlerFailsFatally,
                        ReadFailedJobs, RecordBlock
    <3>2. CASE Safe(f)
      BY <1>1, <2>0, <3>1, <3>2
    <3>3. CASE Pending(f) /\ e # f
      BY <2>0, <3>3 DEF Pending
    <3>4. CASE Pending(f) /\ e = f
      <4>1. CASE HandlerDone(f) \/ HandlerFailsFatally(f)
        BY <4>1 DEF HandlerDone, HandlerFailsFatally, Safe, Fate
      <4>2. CASE HandlerFailsRetryably(f) \/ ReadFailedJobs(f)
        BY <1>0, <4>2 DEF HandlerFailsRetryably, ReadFailedJobs, Pending
      <4>3. CASE RecordBlock(f)
        BY <3>4, <4>3 DEF RecordBlock, Pending
      <4> QED
        BY <1>6, <2>2, <3>4, <4>1, <4>2, <4>3 DEF Task
    <3> QED
      BY <3>2, <3>3, <3>4
  <2> QED
    BY <2>1, <2>2
<1>7. ASSUME NEW r \in Runs, RetryRun(r) PROVE Pending(f)' \/ Safe(f)'
  <2>0. UNCHANGED pc /\ \A s \in Runs \ {r} : runs'[s] = runs[s]
    BY <1>7, RetryRunEffect, RetryRunFrame
  <2>1. CASE runs[r].pc # "writing"
    <3>1. UNCHANGED failedJobs
      BY <1>7, <2>1, RetryRunFates DEF WriteRemaining
    <3> QED
      BY <1>1, <2>0, <2>1, <3>1 DEF Pending
  <2>2. CASE runs[r].pc = "writing"
    <3>1. WriteRemaining(r) /\ f \in JobsOf(runs[r].kept) \cup Fate
      BY <1>7, <2>2, RetryRunJobs DEF RunsHoldJob
    <3>2. CASE failedJobs' = runs[r].kept
      BY <1>0, <3>1, <3>2 DEF Safe
    <3>3. CASE WritesJobs # {RetryTask(r)}
      <4>1. RetryTask(r) \in WritesJobs
        BY <2>2 DEF WritesJobs
      <4>2. PICK w \in WritesJobs : w # RetryTask(r)
        BY <3>3, <4>1
      <4>3. CASE pc[f] = "writeJobs"
        BY <2>0, <4>3 DEF Pending
      <4>4. ASSUME NEW s \in Runs, runs[s].pc = "writing", w = RetryTask(s)
            PROVE  Safe(f)'
        <5>1. s # r /\ runs'[s] = runs[s]
          BY <2>0, <4>2, <4>4
        <5>2. f \in JobsOf(runs[s].kept) \cup Fate
          BY <4>4 DEF RunsHoldJob
        <5> QED
          BY <1>0, <4>4, <5>1, <5>2 DEF Safe
      <4> QED
        BY <4>2, <4>3, <4>4, Writers
    <3> QED
      BY <3>1, <3>2, <3>3 DEF WriteRemaining, WriteJobs
  <2> QED
    BY <2>1, <2>2
<1>8. CASE Crash
  <2>1. /\ interrupted' = interrupted \cup {e \in Events : pc[e] # "idle"}
                                      \cup UNION {JobsHeldBy(r) : r \in Runs}
        /\ UNCHANGED failedJobs \/ WritesJobs # {}
    BY <1>8 DEF Crash
  <2>2. CASE pc[f] # "idle"
    BY <2>1, <2>2 DEF Safe
  <2>3. ASSUME NEW r \in Runs, runs[r].pc = "writing" PROVE Safe(f)'
    <3>1. f \in JobsOf(runs[r].kept) \cup Fate
      BY <2>3 DEF RunsHoldJob
    <3>2. JobsOf(runs[r].kept) \subseteq JobsHeldBy(r)
      BY DEF JobsHeldBy
    <3> QED
      BY <1>0, <2>1, <3>1, <3>2 DEF Safe
  <2>4. CASE pc[f] = "idle" /\ \A r \in Runs : runs[r].pc # "writing"
    <3>1. WritesJobs = {}
      BY <2>4, Writers
    <3> QED
      BY <1>0, <2>1, <2>4, <3>1 DEF Safe, Pending
  <2> QED
    BY <2>2, <2>3, <2>4
<1> QED
  BY <1>2, <1>3, <1>4, <1>5, <1>6, <1>7, <1>8 DEF Next, Main

\* So does every other event, which never has a job.
LEMMA OtherStays ==
  ASSUME NEW f, Flaky \subseteq {f}, TypeOK, QueueInv, OnlyJobsOf(f), Next,
         NEW e \in Events, e # f, Pending(e) \/ Safe(e)
  PROVE  Pending(e)' \/ Safe(e)'
<1> USE DEF chainVars, loopVars, fileVars, taskVars, fateVars
<1>0. /\ pc \in [Events -> EventPcs]
      /\ Fate \subseteq Fate' /\ interrupted \subseteq interrupted'
  BY FateStays DEF TypeOK
<1>1. CASE Safe(e)
  <2>1. \A r \in Runs : JobsOf(runs[r].kept) \subseteq {f}
    BY DEF OnlyJobsOf, JobsHeldBy
  <2>2. e \in Fate \cup interrupted
    BY <1>1, <2>1 DEF Safe, OnlyJobsOf
  <2> QED
    BY <1>0, <2>2 DEF Safe
<1>2. CASE Pending(e)
  <2>1. pc[e] \in {"queued", "handling"}
    BY <1>2 DEF Pending, OnlyJobsOf
  <2>2. CASE NewBlock \/ Main \/ StartFails \/ RetryTimer
    <3>1. pc'[e] = "queued" \/ pc'[e] = pc[e]
      BY <2>2 DEF NewBlock, Main, Start, BeginCatchUp, ScanBatch, FinishBatch, BeginPolling,
                  StartFails, RetryTimer
    <3> QED
      BY <2>1, <3>1 DEF Pending
  <2>3. CASE StartTask
    BY <1>0, <2>1, <2>3, StartTaskEffect DEF Pending
  <2>4. ASSUME NEW g \in Events, Task(g) PROVE Pending(e)' \/ Safe(e)'
    <3>1. CASE g # e
      BY <2>1, <2>4, <3>1, TaskEffect DEF Pending
    <3>2. CASE g = e
      <4>1. HandlerDone(e) \/ HandlerFailsFatally(e)
        BY <2>1, <2>4, <3>2 DEF Task, HandlerFailsRetryably, ReadFailedJobs,
                                WriteFailedJobs, RecordBlock
      <4> QED
        BY <4>1 DEF HandlerDone, HandlerFailsFatally, Safe, Fate
    <3> QED
      BY <3>1, <3>2
  <2>5. ASSUME NEW r \in Runs, RetryRun(r) PROVE Pending(e)'
    BY <2>1, <2>5, RetryRunFrame DEF Pending
  <2>6. CASE Crash
    BY <2>1, <2>6 DEF Crash, Safe
  <2> QED
    BY <2>2, <2>3, <2>4, <2>5, <2>6 DEF Next
<1> QED
  BY <1>1, <1>2

\* The loop passes an event's block only by queueing its task.
LEMMA DueStep ==
  ASSUME LoopInv, Lookback >= MaxBlock, Next, NEW e \in Events, Due(e)'
  PROVE  Due(e) \/ pc'[e] = "queued"
<1> USE DEF chainVars, loopVars, fileVars, taskVars, fateVars, Due
<1>0. /\ TypeOK /\ QueueInv /\ BatchInv
      /\ \A x \in Events : blockOf[x] \in Int /\ blockOf[x] > 0
      /\ cursor \in Int /\ batchTo \in Int /\ stateFile \in Nat /\ target \in Int
      /\ head \in 0 .. MaxBlock /\ Lookback \in Nat /\ MaxBlock \in Nat
      /\ UNCHANGED blockOf
  <2>1. TypeOK /\ QueueInv /\ BatchInv
    BY DEF LoopInv
  <2>2. UNCHANGED blockOf
    BY <2>1, BlocksStand
  <2>3. \A x \in Events : blockOf[x] \in 1 .. MaxBlock
    BY <2>1 DEF TypeOK
  <2>4. /\ cursor \in -1 .. MaxBlock /\ batchTo \in -1 .. MaxBlock /\ head \in 0 .. MaxBlock
        /\ target \in 0 .. MaxBlock /\ stateFile \in 0 .. MaxBlock
    BY <2>1 DEF TypeOK
  <2> QED
    BY <2>1, <2>2, <2>3, <2>4, LoopAssumption
<1>1. CASE NewBlock \/ Start \/ StartFails \/ RetryTimer
  BY <1>0, <1>1 DEF NewBlock, Start, StartFails, RetryTimer
<1>2. CASE BeginCatchUp
  <2>1. Resume = stateFile \/ Resume = -1
    BY <1>0 DEF Resume
  <2>2. batchTo' = Resume /\ stateFile' = stateFile
    BY <1>2 DEF BeginCatchUp
  <2> QED
    BY <1>0, <2>1, <2>2
<1>3. CASE ScanBatch
  <2>1. /\ batchTo = cursor /\ batchTo' \in Int /\ UNCHANGED <<phase, stateFile>>
        /\ pc'[e] = IF blockOf[e] \in (cursor + 1) .. batchTo' THEN "queued" ELSE pc[e]
        /\ phase \in {"catchup", "poll"}
    BY <1>0, <1>3, ScanEffect DEF LoopInv, ScanBatch
  <2> QED
    BY <1>0, <2>1
<1>4. CASE FinishBatch
  BY <1>0, <1>4 DEF FinishBatch, BatchHandled
<1>5. CASE BeginPolling
  BY <1>0, <1>5 DEF BeginPolling, CaughtUp
<1>6. CASE StartTask
  BY <1>0, <1>6 DEF StartTask
<1>7. ASSUME NEW g \in Events, Task(g) PROVE Due(e)
  <2>1. UNCHANGED <<phase, batchTo>> /\ pc[g] # "idle" /\ stateFile' \in {stateFile, blockOf[g], 0}
    BY <1>0, <1>7, TaskEffect
  <2>2. blockOf[g] \in (cursor + 1) .. batchTo
    BY <1>0, <2>1 DEF BatchInv
  <2>3. phase \in {"catchup", "poll"}
    BY <1>0, <2>2 DEF BatchInv
  <2> QED
    BY <1>0, <2>1, <2>2, <2>3
<1>8. ASSUME NEW r \in Runs, RetryRun(r) PROVE Due(e)
  BY <1>0, <1>8, RetryRunFrame
<1>9. CASE Crash
  BY <1>0, <1>9 DEF Crash
<1> QED
  BY <1>1, <1>2, <1>3, <1>4, <1>5, <1>6, <1>7, <1>8, <1>9 DEF Next, Main

\* The oracle forgets no event it has scanned past, however many retry runs
\* overlap and however often the process dies: only an event that was in memory
\* then can get lost.  The hypotheses are those without which the code loses
\* events: failed-jobs.json is rewritten whole, from what was read before, so
\* that two failing events overwrite each other's job; and a start without a
\* checkpoint looks back no further than Lookback.
THEOREM OnlyCrashesForget ==
  ASSUME NEW f, Flaky \subseteq {f}, Lookback >= MaxBlock
  PROVE  Spec => []ForgottenOnlyByCrash
<1>1. Init => AccountInv(f)
  <2> SUFFICES ASSUME Init PROVE AccountInv(f)
    OBVIOUS
  <2>1. JobsOf(<<>>) = {}
    BY JobsOfList
  <2>2. OnlyJobsOf(f) /\ RunsHoldJob(f)
    BY <2>1 DEF Init, OnlyJobsOf, RunsHoldJob, JobsHeldBy, IdleRun
  <2>3. NoneLost
    BY LoopAssumption DEF Init, NoneLost, Due
  <2> QED
    BY <2>2, <2>3 DEF AccountInv
<1>2. LoopInv /\ AccountInv(f) /\ [Next]_vars => AccountInv(f)'
  <2> SUFFICES ASSUME LoopInv, AccountInv(f), [Next]_vars PROVE AccountInv(f)'
    OBVIOUS
  <2>0. TypeOK /\ QueueInv /\ OnlyJobsOf(f) /\ RunsHoldJob(f) /\ NoneLost
    BY DEF LoopInv, AccountInv
  <2>1. CASE UNCHANGED vars
    BY <2>0, <2>1 DEF vars, chainVars, loopVars, fileVars, taskVars, fateVars, AccountInv,
                OnlyJobsOf, RunsHoldJob, JobsHeldBy, NoneLost, Due, Pending, Safe, Fate
  <2>2. CASE Next
    <3>1. OnlyJobsOf(f)' /\ RunsHoldJob(f)'
      BY <2>0, <2>2, OnlyJobsStep, RunsHoldStep
    <3>2. ASSUME NEW e \in Events, Due(e)' PROVE Pending(e)' \/ Safe(e)'
      <4>1. CASE pc'[e] = "queued"
        BY <4>1 DEF Pending
      <4>2. CASE Due(e)
        <5>1. Pending(e) \/ Safe(e)
          BY <2>0, <4>2 DEF NoneLost
        <5>2. CASE e = f
          BY <2>0, <2>2, <5>1, <5>2, JobStays
        <5>3. CASE e # f
          BY <2>0, <2>2, <5>1, <5>3, OtherStays
        <5> QED
          BY <5>2, <5>3
      <4> QED
        BY <2>2, <3>2, <4>1, <4>2, DueStep
    <3>3. NoneLost'
      <4>1. \A e \in Events : Due(e)' => Pending(e)' \/ Safe(e)'
        BY <3>2
      <4> QED
        BY <4>1 DEF NoneLost
    <3> QED
      BY <3>1, <3>3 DEF AccountInv
  <2> QED
    BY <2>1, <2>2
<1>3. AccountInv(f) => ForgottenOnlyByCrash
  <2> SUFFICES ASSUME AccountInv(f), phase \in {"catchup", "poll"}, NEW e \in Events,
                      blockOf[e] <= batchTo, pc[e] = "idle"
               PROVE  Accounted(e) \/ e \in interrupted
    BY DEF ForgottenOnlyByCrash
  <2>1. Safe(e)
    BY DEF AccountInv, NoneLost, Due, Pending
  <2> QED
    BY <2>1 DEF Safe, Accounted, JobsHeldBy, Fate
<1> QED
  BY <1>1, <1>2, <1>3, LoopInvariant, PTL DEF Spec

===============================================================================
