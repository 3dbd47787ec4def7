-------------------------- MODULE AnswerHandlerProofs --------------------------
(***************************************************************************)
(* Theorems on AnswerHandler for any requests, slots, faults and crashes:  *)
(* its safety properties, and the inductive invariant they follow from.    *)
(***************************************************************************)
EXTENDS AnswerHandler, SequenceTheorems, FiniteSetTheorems, TLAPS

(* The invariant, part by part.                                            *)

\* Steps that only the handlers of answers take.
AnswerPcs == {"check", "recheck", "record", "caught", "recordFailed"}

\* What a task's position says of its other fields.
TaskOK(t) ==
  /\ At(t, "idle") <=> Req(t) = 0
  /\ task[t].pc \in AnswerPcs => IsAnswer(t)
  /\ task[t].receipt # "none" =>
       task[t].pc \in {"confirm", "record", "caught", "recordFailed"}
  /\ At(t, "record") => task[t].receipt = "ok"
  /\ At(t, "caught") => task[t].error # "none"
  /\ At(t, "recordFailed") => task[t].error \in Transient
  /\ task[t].error = "bad" => Req(t) \in Malformed

\* How many of the early checks a task has missed so far, and that it must have
\* missed them all if its request was finalized before it began.
CheckOK(t) ==
  /\ At(t, "check") => task[t].missed = 0
  /\ task[t].pc \in {"work", "recheck"} => task[t].missed <= 1
  /\ task[t].final =>
       /\ IsAnswer(t) /\ Finalized(Req(t))
       /\ task[t].pc \in {"work", "recheck"} => task[t].missed = 1
       /\ task[t].pc \in {"upload", "lock"} => task[t].missed = 2

TaskInv == \A t \in Tasks : TaskOK(t) /\ CheckOK(t)

\* The mutex excludes: who sends or waits for a receipt is first in line, and
\* nobody stands in line twice.
WalletInv ==
  /\ \A i, j \in DOMAIN mutex : mutex[i] = mutex[j] => i = j
  /\ \A t \in Tasks : task[t].pc \in {"send", "confirm"} => HasWallet(t)

\* A transaction in the mempool is waited for by its sender, the only one, or
\* the process lost track of it; a receipt tells the truth.
OutboxInv ==
  /\ \A i \in DOMAIN outbox :
       IF outbox[i].sender = NoTask
       THEN outbox[i].request \in Answers => losses[outbox[i].request] > 0
       ELSE /\ At(outbox[i].sender, "confirm")
            /\ Req(outbox[i].sender) = outbox[i].request
            /\ task[outbox[i].sender].receipt = "none"
  /\ \A i, j \in DOMAIN outbox :
       outbox[i].sender # NoTask /\ outbox[j].sender # NoTask => i = j
  /\ \A t \in Tasks :
       /\ task[t].receipt # "none" /\ IsAnswer(t) => fate[Req(t)] # "open"
       /\ task[t].receipt = "ok" => fate[Req(t)] = "answered"

\* One transaction more than were lost is either waited for or has taken effect.
SendInv ==
  \A q \in Answers :
    /\ sends[q] <= 1 + losses[q]
    /\ sends[q] = 1 + losses[q] =>
         fate[q] # "open" \/ \E t \in Tasks : Req(t) = q /\ At(t, "confirm")

\* Whoever is to write the row of an answer knows that it was mined.
RowInv ==
  \A q \in Answers : fate[q] = "answered" =>
    \/ <<q, "answer">> \in rows
    \/ losses[q] > 0
    \/ \E t \in Tasks : /\ Req(t) = q
                        /\ At(t, "record") \/ (At(t, "confirm") /\ task[t].receipt = "ok")

\* A request the loop has got to, in a task, the mempool or the chain.
Begun(q) ==
  \/ job[q] # "waiting"
  \/ \E t \in Tasks : Req(t) = q
  \/ \E i \in DOMAIN written : written[i] = q
  \/ \E i \in DOMAIN outbox : outbox[i].request = q

\* A request that takes effect after one of a later batch has been retried.
MayFollow(p, q) == BatchOf(p) < BatchOf(q) => p \in retried

\* Without a crash the first run of a request is its only task, and what the
\* loop waits for before it goes on to the next batch.
FirstRuns ==
  /\ \A t \in Tasks : Req(t) # 0 => (task[t].retry <=> job[Req(t)] # "waiting")
  /\ \A t, u \in Tasks : Req(t) # 0 /\ Req(t) = Req(u) /\ ~task[t].retry => t = u
  /\ \A p, q \in Requests : Begun(q) /\ BatchOf(p) < BatchOf(q) => job[p] # "waiting"

\* Transactions take effect, and wait, in the order of their batches.
LandInOrder ==
  /\ \A i, j \in DOMAIN written : j < i => MayFollow(written[i], written[j])
  /\ \A i, j \in DOMAIN outbox :
       j < i => MayFollow(outbox[i].request, outbox[j].request)
  /\ \A i \in DOMAIN outbox, j \in DOMAIN written :
       MayFollow(outbox[i].request, written[j])

OrderInv ==
  /\ \A t \in Tasks : task[t].retry => Req(t) \in retried
  /\ crashes = 0 => FirstRuns /\ LandInOrder

-------------------------------------------------------------------------------
(* What the helpers do.                                                    *)

TaskRec == [request : Requests \cup {0}, pc : Pcs, retry : BOOLEAN,
            final : BOOLEAN, missed : 0 .. 2,
            receipt : {"none", "ok", "reverted"}, error : Errors]

InLine == {"lock", "send", "confirm"}

LEMMA IdleIsTask == Idle \in TaskRec
  BY DEF Idle, TaskRec, Pcs, Errors

\* Ending a run: the slot is free, the request has an outcome.
LEMMA EndEffect ==
  ASSUME TypeOK, NEW t \in Tasks, Req(t) \in Requests, NEW error \in Errors,
         End(t, error)
  PROVE  /\ task' \in [Tasks -> TaskRec] /\ job' \in [Requests -> Jobs]
         /\ retries' \in [Requests -> 0 .. MAX_RETRIES]
         /\ task'[t] = Idle /\ \A u \in Tasks \ {t} : task'[u] = task[u]
         /\ job'[Req(t)] = Outcome(t, error) /\ Outcome(t, error) \in Jobs \ {"waiting"}
         /\ \A q \in Requests \ {Req(t)} : job'[q] = job[q]
         /\ mutex' = Released(t)
<1>1. Outcome(t, error) \in Jobs \ {"waiting"}
  BY DEF Outcome, Jobs, Errors
<1>2. task \in [Tasks -> TaskRec]
  BY DEF TypeOK, TaskRec
<1>3. retries' \in [Requests -> 0 .. MAX_RETRIES]
  <2>1. retries \in [Requests -> 0 .. MAX_RETRIES] /\ MAX_RETRIES \in Nat
    BY HandlerAssumption DEF TypeOK
  <2>2. retries[Req(t)] < MAX_RETRIES => retries[Req(t)] + 1 \in 0 .. MAX_RETRIES
    BY <2>1
  <2> QED
    BY <2>1, <2>2 DEF End
<1>4. /\ task' \in [Tasks -> TaskRec]
      /\ task'[t] = Idle /\ \A u \in Tasks \ {t} : task'[u] = task[u]
  BY <1>2, IdleIsTask DEF End
<1>5. /\ job' \in [Requests -> Jobs]
      /\ job'[Req(t)] = Outcome(t, error)
      /\ \A q \in Requests \ {Req(t)} : job'[q] = job[q]
  BY <1>1 DEF End, TypeOK
<1> QED
  BY <1>1, <1>3, <1>4, <1>5 DEF End

\* Throwing: the run ends, or an answer's handler catches the error.
LEMMA ThrowEffect ==
  ASSUME TypeOK, NEW t \in Tasks, Req(t) \in Requests, NEW error \in Errors,
         Throw(t, error)
  PROVE  /\ task' \in [Tasks -> TaskRec] /\ job' \in [Requests -> Jobs]
         /\ retries' \in [Requests -> 0 .. MAX_RETRIES]
         /\ \A u \in Tasks \ {t} : task'[u] = task[u]
         /\ mutex' = Released(t)
         /\ \A q \in Requests \ {Req(t)} : job'[q] = job[q]
         /\ \/ /\ IsAnswer(t)
               /\ task'[t] = [task[t] EXCEPT !.pc = "caught", !.error = error]
               /\ job' = job
            \/ /\ ~IsAnswer(t) /\ task'[t] = Idle
               /\ job'[Req(t)] = Outcome(t, error)
               /\ Outcome(t, error) \in Jobs \ {"waiting"}
<1>1. CASE ~IsAnswer(t)
  <2>1. End(t, error)
    BY <1>1 DEF Throw
  <2> QED
    BY <1>1, <2>1, EndEffect
<1>2. CASE IsAnswer(t)
  <2>1. task \in [Tasks -> TaskRec]
    BY DEF TypeOK, TaskRec
  <2>2. /\ task' = [task EXCEPT ![t] = [@ EXCEPT !.pc = "caught", !.error = error]]
        /\ mutex' = Released(t) /\ job' = job /\ retries' = retries
    BY <1>2 DEF Throw
  <2>3. /\ task'[t] = [task[t] EXCEPT !.pc = "caught", !.error = error]
        /\ \A u \in Tasks \ {t} : task'[u] = task[u]
        /\ task' \in [Tasks -> TaskRec]
    BY <2>1, <2>2 DEF TaskRec, Pcs
  <2> QED
    BY <1>2, <2>2, <2>3 DEF TypeOK
<1> QED
  BY <1>1, <1>2

LEMMA GotoEffect ==
  ASSUME TypeOK, NEW t \in Tasks, NEW pc \in Pcs, Goto(t, pc)
  PROVE  /\ task' \in [Tasks -> TaskRec]
         /\ task'[t] = [task[t] EXCEPT !.pc = pc]
         /\ \A u \in Tasks \ {t} : task'[u] = task[u]
  BY DEF Goto, TypeOK, TaskRec

\* A task leaves the line, stays where it is in it, or joins it.
LineOK == mutex \in Seq({t \in Tasks : task[t].pc \in InLine})

LEMMA LineIsOfTasks ==
  ASSUME NEW s, NEW S, NEW T
  PROVE  s \in Seq(S) /\ (\A i \in 1 .. Len(s) : s[i] \in T) => s \in Seq(T)
<1> SUFFICES ASSUME s \in Seq(S), \A i \in 1 .. Len(s) : s[i] \in T
             PROVE  s \in Seq(T)
  OBVIOUS
<1>1. s \in [1 .. Len(s) -> T] /\ Len(s) \in Nat
  BY LenProperties
<1> QED
  BY <1>1, SeqDef

LEMMA LeavesLine ==
  ASSUME LineOK, WalletInv, NEW t \in Tasks, task[t].pc \in InLine => HasWallet(t),
         mutex' = Released(t), \A u \in Tasks \ {t} : task'[u] = task[u],
         task'[t].pc \notin InLine
  PROVE  LineOK' /\ WalletInv'
<1> DEFINE S == {u \in Tasks : task[u].pc \in InLine}
<1>0. /\ mutex \in Seq(S) /\ Len(mutex) \in Nat /\ DOMAIN mutex = 1 .. Len(mutex)
      /\ \A i \in 1 .. Len(mutex) : mutex[i] \in S
  BY LenProperties, ElementOfSeq DEF LineOK
<1>1. CASE HasWallet(t)
  <2>1. /\ mutex' = Tail(mutex) /\ mutex # <<>> /\ mutex[1] = t
        /\ 1 \in 1 .. Len(mutex)
    BY <1>0, <1>1, EmptySeq DEF HasWallet, Released
  <2>2. /\ mutex' \in Seq(S) /\ Len(mutex') = Len(mutex) - 1
        /\ \A i \in 1 .. Len(mutex') : mutex'[i] = mutex[i + 1]
        /\ DOMAIN mutex' = 1 .. Len(mutex')
    BY <1>0, <2>1, HeadTailProperties, LenProperties
  <2>3. \A i \in 1 .. Len(mutex') : mutex'[i] \in S /\ mutex'[i] # t
    BY <1>0, <2>1, <2>2 DEF WalletInv
  <2>4. LineOK'
    BY <2>2, <2>3, LineIsOfTasks DEF LineOK
  <2>5. \A i, j \in DOMAIN mutex' : mutex'[i] = mutex'[j] => i = j
    <3> SUFFICES ASSUME NEW i \in DOMAIN mutex', NEW j \in DOMAIN mutex',
                        mutex'[i] = mutex'[j]
                 PROVE  i = j
      OBVIOUS
    <3>1. i + 1 \in 1 .. Len(mutex) /\ j + 1 \in 1 .. Len(mutex) /\ i \in Int /\ j \in Int
      BY <1>0, <2>2
    <3>2. mutex[i + 1] = mutex[j + 1]
      BY <2>2
    <3>3. i + 1 = j + 1
      BY <1>0, <3>1, <3>2 DEF WalletInv
    <3> QED
      BY <3>1, <3>3
  <2>6. ASSUME NEW u \in Tasks PROVE task'[u].pc \notin {"send", "confirm"}
    <3>1. u # t /\ HasWallet(u) => FALSE
      BY <1>1 DEF HasWallet
    <3> QED
      BY <3>1 DEF WalletInv, InLine
  <2> QED
    BY <2>4, <2>5, <2>6 DEF WalletInv
<1>2. CASE ~HasWallet(t)
  <2>1. mutex' = mutex /\ \A i \in 1 .. Len(mutex) : mutex[i] # t
    BY <1>0, <1>2 DEF Released
  <2>2. LineOK'
    BY <1>0, <2>1, LineIsOfTasks DEF LineOK
  <2>3. \A u \in Tasks : task'[u].pc \in {"send", "confirm"} => HasWallet(u)'
    BY <2>1 DEF WalletInv, HasWallet, InLine
  <2> QED
    BY <2>1, <2>2, <2>3 DEF WalletInv
<1> QED
  BY <1>1, <1>2

LEMMA KeepsPlaceInLine ==
  ASSUME LineOK, WalletInv, NEW t \in Tasks, mutex' = mutex,
         \A u \in Tasks \ {t} : task'[u] = task[u],
         task[t].pc \in InLine => task'[t].pc \in InLine,
         task'[t].pc \in {"send", "confirm"} => HasWallet(t)
  PROVE  LineOK' /\ WalletInv'
<1>1. {u \in Tasks : task[u].pc \in InLine} \subseteq {u \in Tasks : task'[u].pc \in InLine}
  OBVIOUS
<1>2. LineOK'
  BY <1>1, SeqMonotonic DEF LineOK
<1>3. WalletInv'
  BY DEF WalletInv, HasWallet
<1> QED
  BY <1>2, <1>3

LEMMA JoinsLine ==
  ASSUME LineOK, WalletInv, NEW t \in Tasks, mutex' = Append(mutex, t),
         \A u \in Tasks \ {t} : task'[u] = task[u],
         task[t].pc \notin InLine, task'[t].pc = "lock"
  PROVE  LineOK' /\ WalletInv'
<1> DEFINE S == {u \in Tasks : task[u].pc \in InLine}
           T == {u \in Tasks : task'[u].pc \in InLine}
<1>0. /\ mutex \in Seq(S) /\ Len(mutex) \in Nat /\ DOMAIN mutex = 1 .. Len(mutex)
      /\ \A i \in 1 .. Len(mutex) : mutex[i] \in S
  BY LenProperties, ElementOfSeq DEF LineOK
<1>1. S \subseteq T /\ t \in T /\ t \notin S
  BY DEF InLine
<1>2. mutex \in Seq(T)
  BY <1>0, <1>1, SeqMonotonic
<1>3. /\ mutex' \in Seq(T) /\ Len(mutex') = Len(mutex) + 1
      /\ \A i \in 1 .. Len(mutex) : mutex'[i] = mutex[i]
      /\ mutex'[Len(mutex) + 1] = t /\ mutex' # <<>>
  BY <1>1, <1>2, AppendProperties
<1>4. DOMAIN mutex' = 1 .. Len(mutex')
  BY <1>3, LenProperties
<1>5. \A i, j \in DOMAIN mutex' : mutex'[i] = mutex'[j] => i = j
  BY <1>0, <1>1, <1>3, <1>4 DEF WalletInv
<1>6. ASSUME NEW u \in Tasks, task'[u].pc \in {"send", "confirm"} PROVE HasWallet(u)'
  <2>1. u # t /\ HasWallet(u)
    BY <1>6 DEF WalletInv
  <2>2. mutex # <<>> /\ mutex[1] = u /\ 1 \in 1 .. Len(mutex)
    BY <1>0, <2>1, EmptySeq DEF HasWallet
  <2>3. mutex'[1] = u
    BY <1>3, <2>2
  <2> QED
    BY <1>3, <2>3 DEF HasWallet
<1> QED
  BY <1>3, <1>5, <1>6 DEF LineOK, WalletInv

-------------------------------------------------------------------------------
(* Types, positions and the mutex.                                         *)

Tx == [request : Requests, sender : Tasks \cup {NoTask}]

BooksOK ==
  /\ fate \in [Requests -> Fates] /\ written \in Seq(Requests) /\ outbox \in Seq(Tx)
  /\ rows \subseteq Answers \X {"answer", "answer_failed"}
  /\ sends \in [Requests -> Nat] /\ losses \in [Requests -> Nat]
  /\ faults \in 0 .. MaxFaults /\ crashes \in 0 .. MaxCrashes

JobsOK == job \in [Requests -> Jobs] /\ retries \in [Requests -> 0 .. MAX_RETRIES]

LEMMA TypeParts ==
  TypeOK <=> BooksOK /\ JobsOK /\ LineOK /\ task \in [Tasks -> TaskRec]
  BY DEF TypeOK, BooksOK, JobsOK, LineOK, TaskRec, Tx, InLine

Core == TypeOK /\ TaskInv /\ WalletInv

\* A step of one task that keeps the parts it disturbs keeps them all.
LEMMA CoreByParts ==
  ASSUME Core, NEW t \in Tasks, UNCHANGED fate,
         \A u \in Tasks \ {t} : task'[u] = task[u],
         task' \in [Tasks -> TaskRec], BooksOK', JobsOK', LineOK', WalletInv',
         TaskOK(t)', CheckOK(t)'
  PROVE  Core'
<1>1. TypeOK'
  BY DEF TypeOK, BooksOK, JobsOK, LineOK, TaskRec, Tx, InLine
<1>2. ASSUME NEW u \in Tasks \ {t} PROVE TaskOK(u)' /\ CheckOK(u)'
  BY DEF Core, TaskInv, TaskOK, CheckOK, At, Req, IsAnswer, Finalized
<1> QED
  BY <1>1, <1>2 DEF Core, TaskInv

\* The run of a task ends, or its handler catches an error.
LEMMA StopCore ==
  ASSUME Core, NEW t \in Tasks, Req(t) \in Requests,
         task[t].pc \in InLine => HasWallet(t),
         NEW error \in Errors,
         \/ End(t, error)
         \/ /\ Throw(t, error) /\ error # "none"
            /\ error = "bad" => Req(t) \in Malformed,
         UNCHANGED fate, BooksOK'
  PROVE  Core'
<1>0. TypeOK /\ LineOK /\ WalletInv /\ 0 \notin Requests /\ task[t] \in TaskRec
  BY TypeParts, HandlerAssumption DEF Core
<1>1. CASE End(t, error) \/ ~IsAnswer(t)
  <2>1. End(t, error)
    BY <1>1 DEF Throw
  <2>2. /\ task' \in [Tasks -> TaskRec] /\ JobsOK' /\ task'[t] = Idle
        /\ \A u \in Tasks \ {t} : task'[u] = task[u]
        /\ mutex' = Released(t)
    BY <1>0, <2>1, EndEffect DEF JobsOK
  <2>3. LineOK' /\ WalletInv'
    BY <1>0, <2>2, LeavesLine DEF Idle, InLine
  <2>4. TaskOK(t)' /\ CheckOK(t)'
    BY <2>2 DEF TaskOK, CheckOK, At, Req, Idle, AnswerPcs
  <2> QED
    BY <2>2, <2>3, <2>4, CoreByParts
<1>2. CASE ~ (End(t, error) \/ ~IsAnswer(t))
  <2>1. /\ Throw(t, error) /\ error # "none" /\ IsAnswer(t)
        /\ error = "bad" => Req(t) \in Malformed
    BY <1>2
  <2>2. /\ task' \in [Tasks -> TaskRec] /\ JobsOK'
        /\ task'[t] = [task[t] EXCEPT !.pc = "caught", !.error = error]
        /\ \A u \in Tasks \ {t} : task'[u] = task[u]
        /\ mutex' = Released(t)
    BY <1>0, <2>1, ThrowEffect DEF JobsOK
  <2>3. /\ task'[t].pc = "caught" /\ task'[t].error = error
        /\ task'[t].request = task[t].request /\ task'[t].final = task[t].final
    BY <1>0, <2>2 DEF TaskRec
  <2>4. LineOK' /\ WalletInv'
    BY <1>0, <2>2, <2>3, LeavesLine DEF InLine
  <2>5. TaskOK(t) /\ CheckOK(t) /\ Req(t) # 0
    BY <1>0 DEF Core, TaskInv
  <2>6. TaskOK(t)' /\ CheckOK(t)'
    BY <2>1, <2>3, <2>5 DEF TaskOK, CheckOK, At, Req, IsAnswer, AnswerPcs, Finalized
  <2> QED
    BY <2>2, <2>4, <2>6, CoreByParts
<1> QED
  BY <1>1, <1>2

\* A task that goes on, where it stands in line.
LEMMA GoesOnCore ==
  ASSUME Core, NEW t \in Tasks, Req(t) \in Requests,
         task' \in [Tasks -> TaskRec], \A u \in Tasks \ {t} : task'[u] = task[u],
         TaskOK(t)', CheckOK(t)',
         mutex' = mutex,
         task[t].pc \in InLine => task'[t].pc \in InLine,
         task'[t].pc \in {"send", "confirm"} => HasWallet(t),
         UNCHANGED <<fate, job, retries>>, BooksOK'
  PROVE  Core'
<1>1. LineOK /\ WalletInv /\ JobsOK'
  BY TypeParts DEF Core, JobsOK
<1>2. LineOK' /\ WalletInv'
  BY <1>1, KeepsPlaceInLine
<1> QED
  BY <1>1, <1>2, CoreByParts

\* The requests of tasks, and what tasks know of themselves.
LEMMA TaskFacts ==
  ASSUME Core, NEW t \in Tasks
  PROVE  /\ TypeOK /\ LineOK /\ WalletInv /\ BooksOK /\ JobsOK
         /\ TaskOK(t) /\ CheckOK(t)
         /\ task \in [Tasks -> TaskRec] /\ task[t] \in TaskRec /\ 0 \notin Requests
         /\ Req(t) \in Requests \cup {0}
         /\ task[t].pc # "idle" <=> Req(t) \in Requests
         /\ NoTask \notin Tasks
  BY TypeParts, HandlerAssumption DEF Core, TaskInv, TaskOK, At, Req, TaskRec

BooksSame == UNCHANGED <<fate, written, outbox, rows, sends, losses, crashes>>

LEMMA SameBooks ==
  ASSUME BooksOK, BooksSame, NoFault \/ Fault
  PROVE  BooksOK'
<1>1. faults' \in 0 .. MaxFaults
  BY HandlerAssumption DEF BooksOK, NoFault, Fault
<1> QED
  BY <1>1 DEF BooksOK, BooksSame

LEMMA CallFailsCore ==
  ASSUME Core, NEW t \in Tasks, Req(t) \in Requests,
         task[t].pc \in InLine => HasWallet(t), CallFails(t), UNCHANGED fate, BooksOK'
  PROVE  Core'
<1>1. PICK error \in Transient : Throw(t, error)
  BY DEF CallFails
<1>2. error \in Errors /\ error # "none" /\ error # "bad"
  BY DEF Transient, Errors
<1> QED
  BY <1>1, <1>2, StopCore

\* The steps before anything is sent.
LEMMA CheckFinalizedCore ==
  ASSUME Core, NEW t \in Tasks, CheckFinalized(t) \/ Recheck(t)
  PROVE  Core'
<1> USE TaskFacts
<1>1. /\ At(t, "check") \/ At(t, "recheck")
      /\ Req(t) \in Requests /\ task[t].pc \notin InLine /\ IsAnswer(t) /\ BooksSame
  BY DEF CheckFinalized, Recheck, At, InLine, TaskOK, AnswerPcs, chainVars, historyVars,
         BooksSame
<1>2. NoFault \/ Fault
  BY DEF CheckFinalized, Recheck, Proceed
<1>3. BooksOK'
  BY <1>1, <1>2, SameBooks
<1>4. CASE End(t, "none")
  BY <1>1, <1>3, <1>4, StopCore DEF BooksSame, Errors
<1>5. CASE ~End(t, "none")
  <2> DEFINE next == IF At(t, "check") THEN "work" ELSE "upload"
  <2>1. /\ \/ task' = [task EXCEPT ![t].pc = next] /\ ~Finalized(Req(t))
           \/ task' = [task EXCEPT ![t] = [@ EXCEPT !.pc = next, !.missed = task[t].missed + 1]]
        /\ UNCHANGED <<mutex, job, retries>>
    BY <1>5 DEF CheckFinalized, Recheck, Proceed, Goto, At
  <2>2. /\ task[t].missed <= 1 /\ task[t].missed \in Nat
        /\ next \in {"work", "upload"} \cap Pcs
    BY <1>1 DEF CheckOK, At, TaskRec, Pcs
  <2> DEFINE going   == [task[t] EXCEPT !.pc = next]
             missing == [task[t] EXCEPT !.pc = next, !.missed = task[t].missed + 1]
  <2>a. going \in TaskRec /\ missing \in TaskRec
    <3>1. task[t].missed + 1 \in 0 .. 2 /\ next \in Pcs
      BY <2>2
    <3> HIDE DEF next
    <3>2. going \in TaskRec
      BY <3>1 DEF TaskRec
    <3>3. [task[t] EXCEPT !.pc = next, !.missed = task[t].missed + 1] \in TaskRec
      BY <3>1 DEF TaskRec
    <3> QED
      BY <3>2, <3>3
  <2>3. /\ task' \in [Tasks -> TaskRec]
        /\ \A u \in Tasks \ {t} : task'[u] = task[u]
        /\ \/ task'[t] = going /\ ~Finalized(Req(t))
           \/ task'[t] = missing
    <3>1. \/ task' = [task EXCEPT ![t] = going] /\ ~Finalized(Req(t))
          \/ task' = [task EXCEPT ![t] = missing]
      <4>1. [task EXCEPT ![t].pc = next] = [task EXCEPT ![t] = going]
        OBVIOUS
      <4>2. [task EXCEPT ![t] = [@ EXCEPT !.pc = next, !.missed = task[t].missed + 1]]
              = [task EXCEPT ![t] = missing]
        OBVIOUS
      <4> HIDE DEF next
      <4> QED
        BY <2>1, <4>1, <4>2
    <3>2. task \in [Tasks -> TaskRec]
      BY TaskFacts
    <3> HIDE DEF going, missing
    <3> QED
      BY <2>a, <3>1, <3>2
  <2>4. /\ task'[t].pc = next /\ task'[t].request = task[t].request
        /\ task'[t].final = task[t].final /\ task'[t].receipt = task[t].receipt
        /\ task'[t].error = task[t].error
        /\ \/ task'[t].missed = task[t].missed /\ ~Finalized(Req(t))
           \/ task'[t].missed = task[t].missed + 1
    BY <2>3 DEF TaskRec
  <2>5. TaskOK(t)'
    BY <1>1, <2>2, <2>4 DEF TaskOK, At, Req, IsAnswer, AnswerPcs
  <2>6. CheckOK(t)'
    BY <1>1, <2>2, <2>4 DEF CheckOK, At, Req, IsAnswer, Finalized, BooksSame
  <2> QED
    BY <1>1, <1>3, <2>1, <2>2, <2>3, <2>4, <2>5, <2>6, GoesOnCore DEF BooksSame, InLine
<1> QED
  BY <1>4, <1>5

LEMMA WorkCore ==
  ASSUME Core, NEW t \in Tasks, Work(t)
  PROVE  Core'
<1> USE TaskFacts
<1>1. At(t, "work") /\ Req(t) \in Requests /\ task[t].pc \notin InLine /\ BooksSame
  BY DEF Work, At, InLine, chainVars, historyVars, BooksSame
<1>2. BooksOK'
  BY <1>1, SameBooks DEF Work, CallFails, Proceed
<1>3. CASE Req(t) \in Malformed /\ Throw(t, "bad")
  BY <1>1, <1>2, <1>3, StopCore DEF Errors, BooksSame
<1>4. CASE CallFails(t)
  BY <1>1, <1>2, <1>4, CallFailsCore DEF BooksSame
<1>5. CASE Proceed(t, IF IsAnswer(t) THEN "recheck" ELSE "upload")
  <2> DEFINE next == IF IsAnswer(t) THEN "recheck" ELSE "upload"
  <2>1. /\ task' \in [Tasks -> TaskRec] /\ task'[t] = [task[t] EXCEPT !.pc = next]
        /\ \A u \in Tasks \ {t} : task'[u] = task[u]
    BY <1>5, GotoEffect DEF Proceed, Pcs
  <2>2. /\ task'[t].pc = next /\ task'[t].request = task[t].request
        /\ task'[t].final = task[t].final /\ task'[t].receipt = task[t].receipt
        /\ task'[t].error = task[t].error /\ task'[t].missed = task[t].missed
    BY <2>1 DEF TaskRec
  <2>3. TaskOK(t)'
    BY <1>1, <2>2 DEF TaskOK, At, Req, IsAnswer, AnswerPcs
  <2>4. CheckOK(t)'
    BY <1>1, <2>2 DEF CheckOK, At, Req, IsAnswer, Finalized, BooksSame
  <2> QED
    BY <1>1, <1>2, <1>5, <2>1, <2>2, <2>3, <2>4, GoesOnCore DEF BooksSame, InLine, Proceed
<1> QED
  BY <1>3, <1>4, <1>5 DEF Work

LEMMA UploadCore ==
  ASSUME Core, NEW t \in Tasks, Upload(t)
  PROVE  Core'
<1> USE TaskFacts
<1>1. At(t, "upload") /\ Req(t) \in Requests /\ task[t].pc \notin InLine /\ BooksSame
  BY DEF Upload, At, InLine, chainVars, historyVars, BooksSame
<1>2. BooksOK'
  BY <1>1, SameBooks DEF Upload, CallFails
<1>3. CASE CallFails(t)
  BY <1>1, <1>2, <1>3, CallFailsCore DEF BooksSame
<1>4. CASE Goto(t, "lock") /\ mutex' = Append(mutex, t) /\ UNCHANGED <<job, retries>>
  <2>1. /\ task' \in [Tasks -> TaskRec] /\ task'[t] = [task[t] EXCEPT !.pc = "lock"]
        /\ \A u \in Tasks \ {t} : task'[u] = task[u]
    BY <1>4, GotoEffect DEF Pcs
  <2>2. /\ task'[t].pc = "lock" /\ task'[t].request = task[t].request
        /\ task'[t].final = task[t].final /\ task'[t].receipt = task[t].receipt
        /\ task'[t].error = task[t].error /\ task'[t].missed = task[t].missed
    BY <2>1 DEF TaskRec
  <2>3. TaskOK(t)'
    BY <1>1, <2>2 DEF TaskOK, At, Req, IsAnswer, AnswerPcs
  <2>4. CheckOK(t)'
    BY <1>1, <2>2 DEF CheckOK, At, Req, IsAnswer, Finalized, BooksSame
  <2>5. LineOK' /\ WalletInv'
    BY <1>1, <1>4, <2>1, <2>2, JoinsLine
  <2>6. JobsOK'
    BY <1>4 DEF JobsOK
  <2> QED
    BY <1>1, <1>2, <2>1, <2>3, <2>4, <2>5, <2>6, CoreByParts DEF BooksSame
<1> QED
  BY <1>3, <1>4 DEF Upload

LEMMA GuardCore ==
  ASSUME Core, NEW t \in Tasks, Guard(t)
  PROVE  Core'
<1> USE TaskFacts
<1>1. At(t, "lock") /\ Req(t) \in Requests /\ HasWallet(t) /\ BooksSame
  BY DEF Guard, At, chainVars, historyVars, BooksSame
<1>2. BooksOK'
  BY <1>1, SameBooks DEF Guard, CallFails, Proceed
<1>3. CASE End(t, "none")
  BY <1>1, <1>2, <1>3, StopCore DEF BooksSame, Errors
<1>4. CASE CallFails(t)
  BY <1>1, <1>2, <1>4, CallFailsCore DEF BooksSame
<1>5. CASE Proceed(t, "send")
  <2>1. /\ task' \in [Tasks -> TaskRec] /\ task'[t] = [task[t] EXCEPT !.pc = "send"]
        /\ \A u \in Tasks \ {t} : task'[u] = task[u]
    BY <1>5, GotoEffect DEF Proceed, Pcs
  <2>2. /\ task'[t].pc = "send" /\ task'[t].request = task[t].request
        /\ task'[t].final = task[t].final /\ task'[t].receipt = task[t].receipt
        /\ task'[t].error = task[t].error /\ task'[t].missed = task[t].missed
    BY <2>1 DEF TaskRec
  <2>3. TaskOK(t)'
    BY <1>1, <2>2 DEF TaskOK, At, Req, IsAnswer, AnswerPcs
  <2>4. CheckOK(t)'
    BY <1>1, <2>2 DEF CheckOK, At, Req, IsAnswer, Finalized, BooksSame
  <2> QED
    BY <1>1, <1>2, <1>5, <2>1, <2>2, <2>3, <2>4, GoesOnCore DEF BooksSame, InLine, Proceed
<1> QED
  BY <1>3, <1>4, <1>5 DEF Guard

\* What becomes of the mempool.
LEMMA BroadcastBooks ==
  ASSUME TypeOK, NEW t \in Tasks, Req(t) \in Requests, NEW s \in Tasks \cup {NoTask},
         Broadcast(t, s)
  PROVE  /\ outbox' \in Seq(Tx) /\ sends' \in [Requests -> Nat]
         /\ Len(outbox') = Len(outbox) + 1 /\ Len(outbox) \in Nat
         /\ DOMAIN outbox = 1 .. Len(outbox) /\ DOMAIN outbox' = 1 .. Len(outbox')
         /\ \A i \in 1 .. Len(outbox) : outbox'[i] = outbox[i]
         /\ outbox'[Len(outbox) + 1] = [request |-> Req(t), sender |-> s]
         /\ sends'[Req(t)] = sends[Req(t)] + 1
         /\ \A q \in Requests \ {Req(t)} : sends'[q] = sends[q]
<1>1. outbox \in Seq(Tx) /\ sends \in [Requests -> Nat]
  BY DEF TypeOK, Tx
<1>2. [request |-> Req(t), sender |-> s] \in Tx
  BY DEF Tx
<1>3. /\ outbox' \in Seq(Tx) /\ Len(outbox') = Len(outbox) + 1
      /\ \A i \in 1 .. Len(outbox) : outbox'[i] = outbox[i]
      /\ outbox'[Len(outbox) + 1] = [request |-> Req(t), sender |-> s]
  BY <1>1, <1>2, AppendProperties DEF Broadcast
<1>4. /\ Len(outbox) \in Nat /\ DOMAIN outbox = 1 .. Len(outbox)
      /\ DOMAIN outbox' = 1 .. Len(outbox')
  BY <1>1, <1>3, LenProperties
<1>5. /\ sends' \in [Requests -> Nat] /\ sends'[Req(t)] = sends[Req(t)] + 1
      /\ \A q \in Requests \ {Req(t)} : sends'[q] = sends[q]
  BY <1>1 DEF Broadcast
<1> QED
  BY <1>3, <1>4, <1>5

LEMMA LostOne ==
  ASSUME TypeOK, NEW t \in Tasks, Req(t) \in Requests, Lost(t)
  PROVE  /\ losses' \in [Requests -> Nat] /\ losses'[Req(t)] = losses[Req(t)] + 1
         /\ \A q \in Requests \ {Req(t)} : losses'[q] = losses[q]
  BY DEF TypeOK, Lost

LEMMA DetachedBooks ==
  ASSUME NEW txs \in Seq(Tx), NEW senders
  PROVE  /\ Detached(txs, senders) \in Seq(Tx)
         /\ DOMAIN Detached(txs, senders) = DOMAIN txs /\ DOMAIN txs = 1 .. Len(txs)
         /\ Len(txs) \in Nat
         /\ \A i \in DOMAIN txs :
              /\ txs[i] \in Tx
              /\ Detached(txs, senders)[i].request = txs[i].request
              /\ Detached(txs, senders)[i].sender =
                   IF txs[i].sender \in senders THEN NoTask ELSE txs[i].sender
<1>1. DOMAIN txs = 1 .. Len(txs) /\ Len(txs) \in Nat /\ \A i \in DOMAIN txs : txs[i] \in Tx
  BY LenProperties, ElementOfSeq
<1>2. \A i \in DOMAIN txs :
        /\ Detached(txs, senders)[i] \in Tx
        /\ Detached(txs, senders)[i].request = txs[i].request
        /\ Detached(txs, senders)[i].sender =
             IF txs[i].sender \in senders THEN NoTask ELSE txs[i].sender
  BY <1>1 DEF Detached, Tx
<1>3. Detached(txs, senders) \in [1 .. Len(txs) -> Tx]
  BY <1>1, <1>2 DEF Detached
<1> QED
  BY <1>1, <1>2, <1>3, SeqDef DEF Detached

LEMMA SendCore ==
  ASSUME Core, NEW t \in Tasks, Send(t)
  PROVE  Core'
<1> USE TaskFacts
<1>1. /\ At(t, "send") /\ Req(t) \in Requests /\ HasWallet(t)
      /\ UNCHANGED <<fate, written, rows, crashes>>
  BY DEF Send, At, WalletInv, chainVars
<1>2. faults' \in 0 .. MaxFaults
  <2>1. NoFault \/ Fault
    BY DEF Send, CallFails, Proceed
  <2> QED
    BY <2>1, HandlerAssumption DEF BooksOK, NoFault, Fault
<1>3. BooksOK'
  <2>1. losses' \in [Requests -> Nat]
    BY <1>1, LostOne DEF Send, BooksOK
  <2>2. outbox' \in Seq(Tx) /\ sends' \in [Requests -> Nat]
    <3>1. \/ \E s \in Tasks \cup {NoTask} : Broadcast(t, s)
          \/ UNCHANGED <<outbox, sends>>
      BY DEF Send
    <3> QED
      BY <1>1, <3>1, BroadcastBooks DEF BooksOK
  <2> QED
    BY <1>1, <1>2, <2>1, <2>2 DEF BooksOK
<1>4. CASE End(t, "none")
  BY <1>1, <1>3, <1>4, StopCore DEF Errors
<1>5. CASE Throw(t, "fatal")
  BY <1>1, <1>3, <1>5, StopCore DEF Errors
<1>6. CASE CallFails(t)
  BY <1>1, <1>3, <1>6, CallFailsCore
<1>7. CASE Proceed(t, "confirm")
  <2>1. /\ task' \in [Tasks -> TaskRec] /\ task'[t] = [task[t] EXCEPT !.pc = "confirm"]
        /\ \A u \in Tasks \ {t} : task'[u] = task[u]
    BY <1>7, GotoEffect DEF Proceed, Pcs
  <2>2. /\ task'[t].pc = "confirm" /\ task'[t].request = task[t].request
        /\ task'[t].final = task[t].final /\ task'[t].receipt = task[t].receipt
        /\ task'[t].error = task[t].error /\ task'[t].missed = task[t].missed
    BY <2>1 DEF TaskRec
  <2>3. TaskOK(t)'
    BY <1>1, <2>2 DEF TaskOK, At, Req, IsAnswer, AnswerPcs
  <2>4. CheckOK(t)'
    BY <1>1, <2>2 DEF CheckOK, At, Req, IsAnswer, Finalized
  <2> QED
    BY <1>1, <1>3, <1>7, <2>1, <2>2, <2>3, <2>4, GoesOnCore DEF InLine, Proceed
<1> QED
  BY <1>4, <1>5, <1>6, <1>7 DEF Send

LEMMA ConfirmCore ==
  ASSUME Core, NEW t \in Tasks, Confirm(t)
  PROVE  Core'
<1> USE TaskFacts
<1>1. /\ At(t, "confirm") /\ Req(t) \in Requests /\ HasWallet(t)
      /\ UNCHANGED <<fate, written, rows, sends, crashes>>
  BY DEF Confirm, At, WalletInv, chainVars
<1>2. faults' \in 0 .. MaxFaults
  <2>1. NoFault \/ Fault
    BY DEF Confirm, CallFails
  <2> QED
    BY <2>1, HandlerAssumption DEF BooksOK, NoFault, Fault
<1>3. BooksOK'
  <2>1. losses' \in [Requests -> Nat]
    BY <1>1, LostOne DEF Confirm, BooksOK
  <2>2. outbox' \in Seq(Tx)
    BY <1>1, DetachedBooks DEF Confirm, BooksOK
  <2> QED
    BY <1>1, <1>2, <2>1, <2>2 DEF BooksOK
<1>4. CASE End(t, "none")
  BY <1>1, <1>3, <1>4, StopCore DEF Errors
<1>5. CASE Throw(t, "fatal")
  BY <1>1, <1>3, <1>5, StopCore DEF Errors
<1>6. CASE CallFails(t)
  BY <1>1, <1>3, <1>6, CallFailsCore
<1>7. CASE /\ Goto(t, "record") /\ mutex' = Released(t) /\ UNCHANGED <<job, retries>>
           /\ IsAnswer(t) /\ task[t].receipt = "ok"
  <2>1. /\ task' \in [Tasks -> TaskRec] /\ task'[t] = [task[t] EXCEPT !.pc = "record"]
        /\ \A u \in Tasks \ {t} : task'[u] = task[u]
    BY <1>7, GotoEffect DEF Pcs
  <2>2. /\ task'[t].pc = "record" /\ task'[t].request = task[t].request
        /\ task'[t].final = task[t].final /\ task'[t].receipt = task[t].receipt
        /\ task'[t].error = task[t].error /\ task'[t].missed = task[t].missed
    BY <2>1 DEF TaskRec
  <2>3. TaskOK(t)'
    BY <1>1, <1>7, <2>2 DEF TaskOK, At, Req, IsAnswer, AnswerPcs
  <2>4. CheckOK(t)'
    BY <1>1, <2>2 DEF CheckOK, At, Req, IsAnswer, Finalized
  <2>5. LineOK' /\ WalletInv'
    BY <1>1, <1>7, <2>1, <2>2, LeavesLine DEF InLine
  <2>6. JobsOK'
    BY <1>7 DEF JobsOK
  <2> QED
    BY <1>1, <1>3, <2>1, <2>3, <2>4, <2>5, <2>6, CoreByParts
<1> QED
  BY <1>4, <1>5, <1>6, <1>7 DEF Confirm

LEMMA FallbackCheckCore ==
  ASSUME Core, NEW t \in Tasks, FallbackCheck(t)
  PROVE  Core'
<1> USE TaskFacts
<1>1. /\ At(t, "caught") /\ Req(t) \in Requests /\ task[t].pc \notin InLine /\ IsAnswer(t)
      /\ BooksSame
  BY DEF FallbackCheck, At, InLine, TaskOK, AnswerPcs, chainVars, historyVars, BooksSame
<1>2. BooksOK'
  BY <1>1, SameBooks DEF FallbackCheck
<1>3. CASE End(t, "none") \/ End(t, "bad")
  BY <1>1, <1>2, <1>3, StopCore DEF Errors, BooksSame
<1>4. CASE Goto(t, "recordFailed") /\ task[t].error # "bad" /\ UNCHANGED <<mutex, job, retries>>
  <2>1. /\ task' \in [Tasks -> TaskRec] /\ task'[t] = [task[t] EXCEPT !.pc = "recordFailed"]
        /\ \A u \in Tasks \ {t} : task'[u] = task[u]
    BY <1>4, GotoEffect DEF Pcs
  <2>2. /\ task'[t].pc = "recordFailed" /\ task'[t].request = task[t].request
        /\ task'[t].final = task[t].final /\ task'[t].receipt = task[t].receipt
        /\ task'[t].error = task[t].error /\ task'[t].missed = task[t].missed
    BY <2>1 DEF TaskRec
  <2>3. task[t].error \in Transient
    BY <1>1, <1>4 DEF TaskOK, TaskRec, Errors, Transient, At
  <2>4. TaskOK(t)'
    BY <1>1, <2>2, <2>3 DEF TaskOK, At, Req, IsAnswer, AnswerPcs
  <2>5. CheckOK(t)'
    BY <1>1, <2>2 DEF CheckOK, At, Req, IsAnswer, Finalized, BooksSame
  <2> QED
    BY <1>1, <1>2, <1>4, <2>1, <2>2, <2>4, <2>5, GoesOnCore DEF InLine, BooksSame
<1> QED
  BY <1>3, <1>4 DEF FallbackCheck

LEMMA RecordCore ==
  ASSUME Core, NEW t \in Tasks, RecordFailed(t) \/ RecordAnswer(t)
  PROVE  Core'
<1> USE TaskFacts
<1>1. /\ At(t, "recordFailed") \/ At(t, "record")
      /\ Req(t) \in Requests /\ task[t].pc \notin InLine /\ IsAnswer(t)
      /\ UNCHANGED <<fate, written, outbox, sends, crashes>>
  BY DEF RecordFailed, RecordAnswer, At, InLine, TaskOK, AnswerPcs, chainVars
<1>2. PICK kind \in {"answer", "answer_failed"}, error \in Errors :
        Record(t, kind) /\ End(t, error)
  BY DEF RecordFailed, RecordAnswer, TaskRec, Errors
<1>3. BooksOK'
  <2>1. faults' \in 0 .. MaxFaults
    BY <1>2, HandlerAssumption DEF BooksOK, NoFault, Fault, Record
  <2>2. losses' \in [Requests -> Nat]
    BY <1>1, <1>2, LostOne DEF Record, BooksOK
  <2>3. rows' \subseteq Answers \X {"answer", "answer_failed"}
    BY <1>1, <1>2 DEF Record, BooksOK, IsAnswer
  <2> QED
    BY <1>1, <2>1, <2>2, <2>3 DEF BooksOK
<1> QED
  BY <1>1, <1>2, <1>3, StopCore

LEMMA TaskCore ==
  ASSUME Core, NEW t \in Tasks, Task(t)
  PROVE  Core'
  BY CheckFinalizedCore, WorkCore, UploadCore, GuardCore, SendCore, ConfirmCore,
     FallbackCheckCore, RecordCore
  DEF Task, HandlePrompt, HandleRegeneration, HandleBranch, HandleMetadataUpdate,
      AnswerSteps, SubmitSteps

\* A task begins in a free slot.
LEMMA BeginEffect ==
  ASSUME Core, NEW t \in Tasks, NEW q \in Requests, NEW again \in BOOLEAN,
         Begin(t, q, again)
  PROVE  /\ At(t, "idle") /\ Req(t) = 0
         /\ task' \in [Tasks -> TaskRec] /\ \A u \in Tasks \ {t} : task'[u] = task[u]
         /\ task'[t].request = q /\ task'[t].retry = again
         /\ task'[t].pc = (IF q \in Answers THEN "check" ELSE "work")
         /\ task'[t].final = (q \in Answers /\ Finalized(q))
         /\ task'[t].missed = 0 /\ task'[t].receipt = "none" /\ task'[t].error = "none"
<1> USE TaskFacts
<1> DEFINE new == [Idle EXCEPT !.request = q, !.retry = again,
                               !.final = q \in Answers /\ Finalized(q),
                               !.pc = IF q \in Answers THEN "check" ELSE "work"]
<1>1. At(t, "idle") /\ Req(t) = 0 /\ task' = [task EXCEPT ![t] = new]
  BY DEF Begin, TaskOK
<1>2. (q \in Answers /\ Finalized(q)) \in BOOLEAN
  OBVIOUS
<1>3. (IF q \in Answers THEN "check" ELSE "work") \in Pcs
  BY DEF Pcs
<1>4. new \in TaskRec
  BY <1>2, <1>3, IdleIsTask DEF TaskRec
<1>5. task \in [Tasks -> TaskRec]
  OBVIOUS
<1>6. /\ new.request = q /\ new.retry = again
      /\ new.pc = (IF q \in Answers THEN "check" ELSE "work")
      /\ new.final = (q \in Answers /\ Finalized(q))
      /\ new.missed = 0 /\ new.receipt = "none" /\ new.error = "none"
  BY DEF Idle
<1> HIDE DEF new
<1>7. /\ task'[t] = new /\ task' \in [Tasks -> TaskRec]
      /\ \A u \in Tasks \ {t} : task'[u] = task[u]
  BY <1>1, <1>4, <1>5
<1> QED
  BY <1>1, <1>6, <1>7

LEMMA BeginCore ==
  ASSUME Core, NEW t \in Tasks, NEW q \in Requests, NEW again \in BOOLEAN,
         Begin(t, q, again)
  PROVE  Core'
<1> USE TaskFacts
<1>1. UNCHANGED <<chainVars, outbox, mutex, job, retries, rows, sends, losses, faults, crashes>>
  BY DEF Begin
<1>2. BooksOK' /\ JobsOK'
  BY <1>1 DEF BooksOK, JobsOK, chainVars
<1>3. LineOK' /\ WalletInv'
  BY <1>1, BeginEffect, KeepsPlaceInLine DEF InLine, At
<1>4. TaskOK(t)'
  BY BeginEffect DEF TaskOK, At, Req, IsAnswer, AnswerPcs
<1>5. CheckOK(t)'
  <2>1. /\ task'[t].request = q /\ task'[t].missed = 0 /\ fate' = fate
        /\ task'[t].pc = (IF q \in Answers THEN "check" ELSE "work")
    BY <1>1, BeginEffect DEF chainVars
  <2>2. task'[t].final => q \in Answers /\ Finalized(q)
    <3>1. task'[t].final = (q \in Answers /\ Finalized(q))
      BY BeginEffect
    <3> QED
      BY ONLY <3>1, Zenon
  <2> QED
    BY ONLY <2>1, <2>2 DEF CheckOK, At, Req, IsAnswer, Finalized
<1> QED
  BY <1>1, <1>2, <1>3, <1>4, <1>5, BeginEffect, CoreByParts DEF chainVars

\* What the chain does leaves every task where it is, but for a receipt.
LEMMA ChainCore ==
  ASSUME Core, task' \in [Tasks -> TaskRec], BooksOK', UNCHANGED <<mutex, job, retries>>,
         \A q \in Answers : Finalized(q) => Finalized(q)',
         \A u \in Tasks :
           /\ task'[u].pc = task[u].pc /\ task'[u].request = task[u].request
           /\ task'[u].final = task[u].final /\ task'[u].missed = task[u].missed
           /\ task'[u].error = task[u].error
           /\ task'[u].receipt = task[u].receipt \/ At(u, "confirm")
  PROVE  Core'
<1>1. JobsOK' /\ LineOK' /\ WalletInv'
  BY TypeParts DEF Core, JobsOK, LineOK, WalletInv, HasWallet
<1>2. TypeOK'
  BY <1>1 DEF TypeOK, BooksOK, JobsOK, LineOK, TaskRec, Tx, InLine
<1>3. ASSUME NEW u \in Tasks PROVE TaskOK(u)' /\ CheckOK(u)'
  <2>1. TaskOK(u) /\ CheckOK(u)
    BY DEF Core, TaskInv
  <2>2. TaskOK(u)'
    BY <2>1 DEF TaskOK, At, Req, IsAnswer, AnswerPcs
  <2>3. CheckOK(u)'
    BY <2>1 DEF CheckOK, At, Req, IsAnswer
  <2> QED
    BY <2>2, <2>3
<1> QED
  BY <1>1, <1>2, <1>3 DEF Core, TaskInv

LEMMA WithdrawCore ==
  ASSUME Core, NEW q \in Requests, Withdraw(q)
  PROVE  Core'
<1>1. TypeOK /\ BooksOK
  BY TypeParts DEF Core
<1>2. fate' \in [Requests -> Fates] /\ \A p \in Answers : Finalized(p) => Finalized(p)'
  BY <1>1 DEF Withdraw, Finalized, TypeOK, Fates, Answers, Requests
<1>3. UNCHANGED <<written, outbox, task, mutex, job, retries, historyVars, faults, crashes>>
  BY DEF Withdraw
<1>4. BooksOK'
  BY <1>1, <1>2, <1>3 DEF BooksOK, historyVars
<1>5. task' \in [Tasks -> TaskRec]
  BY <1>3, TypeParts DEF Core
<1> QED
  BY <1>2, <1>3, <1>4, <1>5, ChainCore

\* A transaction takes effect or reverts, and its sender learns of it.
LEMMA MineEffect ==
  ASSUME Core, OutboxInv, Mine
  PROVE  /\ outbox \in Seq(Tx) /\ outbox # <<>> /\ outbox' = Tail(outbox)
         /\ DOMAIN outbox = 1 .. Len(outbox) /\ 1 \in DOMAIN outbox
         /\ outbox[1] \in Tx /\ Head(outbox) = outbox[1]
         /\ Len(outbox') = Len(outbox) - 1 /\ DOMAIN outbox' = 1 .. Len(outbox')
         /\ outbox' \in Seq(Tx)
         /\ \A i \in DOMAIN outbox' :
              /\ i + 1 \in DOMAIN outbox /\ i + 1 # 1
              /\ outbox'[i] = outbox[i + 1] /\ outbox[i + 1] \in Tx
         /\ LET q  == outbox[1].request
                t  == outbox[1].sender
                ok == q \in Answers => fate[q] = "open"
            IN /\ fate' = IF ok THEN [fate EXCEPT ![q] = "answered"] ELSE fate
               /\ written' = IF ok THEN Append(written, q) ELSE written
               /\ t = NoTask => task' = task
               /\ t # NoTask =>
                    /\ t \in Tasks /\ At(t, "confirm") /\ Req(t) = q
                    /\ task[t].receipt = "none"
                    /\ task'[t] = [task[t] EXCEPT !.receipt = IF ok THEN "ok" ELSE "reverted"]
                    /\ \A u \in Tasks \ {t} : task'[u] = task[u]
         /\ task' \in [Tasks -> TaskRec]
<1>1. outbox \in Seq(Tx) /\ outbox # <<>> /\ outbox' = Tail(outbox)
  BY DEF Core, TypeOK, Tx, Mine
<1>2. /\ DOMAIN outbox = 1 .. Len(outbox) /\ 1 \in DOMAIN outbox
      /\ Head(outbox) = outbox[1] /\ Len(outbox) \in Nat
      /\ \A i \in DOMAIN outbox : outbox[i] \in Tx
  BY <1>1, LenProperties, ElementOfSeq, EmptySeq
<1>3. /\ Len(outbox') = Len(outbox) - 1 /\ outbox' \in Seq(Tx)
      /\ \A i \in 1 .. Len(outbox') : outbox'[i] = outbox[i + 1]
      /\ DOMAIN outbox' = 1 .. Len(outbox')
  BY <1>1, HeadTailProperties, LenProperties
<1>4. \A i \in 1 .. Len(outbox') : i + 1 \in 1 .. Len(outbox) /\ i + 1 # 1
  BY <1>2, <1>3
<1> DEFINE q  == outbox[1].request
           t  == outbox[1].sender
           ok == q \in Answers => fate[q] = "open"
           receipt == IF ok THEN "ok" ELSE "reverted"
<1>5. q \in Requests /\ t \in Tasks \cup {NoTask}
  BY <1>2 DEF Tx
<1>6. t # NoTask => At(t, "confirm") /\ Req(t) = q /\ task[t].receipt = "none"
  BY <1>2 DEF OutboxInv
<1>7. /\ fate' = IF ok THEN [fate EXCEPT ![q] = "answered"] ELSE fate
      /\ written' = IF ok THEN Append(written, q) ELSE written
      /\ task' = IF t = NoTask THEN task ELSE [task EXCEPT ![t].receipt = receipt]
  BY <1>2 DEF Mine
<1>8. task \in [Tasks -> TaskRec] /\ receipt \in {"none", "ok", "reverted"}
  BY TypeParts DEF Core
<1>9. /\ t # NoTask => /\ task'[t] = [task[t] EXCEPT !.receipt = receipt]
                       /\ \A u \in Tasks \ {t} : task'[u] = task[u]
      /\ task' \in [Tasks -> TaskRec]
  <2> HIDE DEF receipt
  <2>1. t # NoTask => [task[t] EXCEPT !.receipt = receipt] \in TaskRec
    BY <1>5, <1>8 DEF TaskRec
  <2> QED
    BY <1>5, <1>7, <1>8, <2>1
<1> QED
  BY <1>1, <1>2, <1>3, <1>4, <1>5, <1>6, <1>7, <1>9

LEMMA MineCore ==
  ASSUME Core, OutboxInv, Mine
  PROVE  Core'
<1> DEFINE q  == outbox[1].request
           t  == outbox[1].sender
           ok == q \in Answers => fate[q] = "open"
<1>1. /\ q \in Requests /\ task' \in [Tasks -> TaskRec] /\ outbox' \in Seq(Tx)
      /\ fate' = IF ok THEN [fate EXCEPT ![q] = "answered"] ELSE fate
      /\ written' = IF ok THEN Append(written, q) ELSE written
  BY MineEffect DEF Tx
<1>2. TypeOK /\ BooksOK /\ JobsOK /\ task \in [Tasks -> TaskRec]
  BY TypeParts DEF Core
<1>3. /\ fate' \in [Requests -> Fates]
      /\ \A p \in Answers : Finalized(p) => Finalized(p)'
  BY <1>1, <1>2 DEF TypeOK, Fates, Finalized, Answers, Requests
<1>4. written' \in Seq(Requests)
  BY <1>1, <1>2, AppendProperties DEF BooksOK
<1>5. UNCHANGED <<mutex, job, retries, rows, sends, losses, faults, crashes>>
  BY DEF Mine, historyVars
<1>6. BooksOK'
  BY <1>1, <1>2, <1>3, <1>4, <1>5 DEF BooksOK
<1>7. ASSUME NEW u \in Tasks
      PROVE  /\ task'[u].pc = task[u].pc /\ task'[u].request = task[u].request
             /\ task'[u].final = task[u].final /\ task'[u].missed = task[u].missed
             /\ task'[u].error = task[u].error
             /\ task'[u].receipt = task[u].receipt \/ At(u, "confirm")
  BY <1>2, MineEffect DEF TaskRec
<1> QED
  BY <1>1, <1>3, <1>5, <1>6, <1>7, ChainCore

\* After a crash there are no tasks, and the process has lost track of every
\* transaction a task was waiting for or about to record.
LEMMA CrashEffect ==
  ASSUME Core, Crash
  PROVE  /\ \A t \in Tasks : task'[t] = Idle
         /\ mutex' = <<>> /\ crashes' \in 0 .. MaxCrashes /\ crashes' > 0
         /\ job' \in [Requests -> Jobs]
         /\ \A q \in Requests : job'[q] = "done" => job[q] = "done"
         /\ losses' \in [Requests -> Nat]
         /\ \A q \in Requests : losses'[q] >= losses[q]
         /\ \A t \in Tasks : /\ Req(t) \in Requests
                             /\ task[t].pc \in {"confirm", "record"}
               => losses'[Req(t)] > losses[Req(t)]
         /\ outbox \in Seq(Tx) /\ outbox' = Detached(outbox, Tasks)
         /\ UNCHANGED <<fate, written, retries, rows, sends, retried, faults>>
<1>1. TypeOK /\ losses \in [Requests -> Nat] /\ outbox \in Seq(Tx)
  BY DEF Core, TypeOK, Tx
<1> DEFINE Waiting(q) ==
      {t \in Tasks : Req(t) = q /\ task[t].pc \in {"confirm", "record"}}
<1>2. \A q \in Requests : losses'[q] = losses[q] + Cardinality(Waiting(q))
  BY DEF Crash
<1>3. \A q \in Requests : IsFiniteSet(Waiting(q)) /\ Cardinality(Waiting(q)) \in Nat
  BY HandlerAssumption, FS_Subset, FS_CardinalityType
<1>4. \A q \in Requests : Waiting(q) # {} => Cardinality(Waiting(q)) > 0
  BY <1>3, FS_EmptySet
<1>5. losses' \in [Requests -> Nat] /\ \A q \in Requests : losses'[q] >= losses[q]
  <2>1. losses' = [q \in Requests |-> losses'[q]]
    BY DEF Crash
  <2>2. \A q \in Requests : losses'[q] \in Nat /\ losses'[q] >= losses[q]
    <3> HIDE DEF Waiting
    <3> QED
      BY <1>1, <1>2, <1>3
  <2> QED
    BY <2>1, <2>2
<1>6. ASSUME NEW t \in Tasks, Req(t) \in Requests, task[t].pc \in {"confirm", "record"}
      PROVE  losses'[Req(t)] > losses[Req(t)]
  <2>1. t \in Waiting(Req(t))
    BY <1>6
  <2> HIDE DEF Waiting
  <2>2. Waiting(Req(t)) # {}
    BY <2>1
  <2> QED
    BY <1>1, <1>2, <1>3, <1>4, <1>6, <2>2
<1>7. /\ job' \in [Requests -> Jobs]
      /\ \A q \in Requests : job'[q] = "done" => job[q] = "done"
  <2>1. PICK again : job' = [q \in Requests |->
          IF q \in again THEN "waiting" ELSE IF q \in Running THEN "forgotten" ELSE job[q]]
    BY DEF Crash
  <2>2. \A q \in Requests : job[q] \in Jobs
    BY <1>1 DEF TypeOK
  <2> HIDE DEF Waiting
  <2> QED
    BY <2>1, <2>2 DEF Jobs
<1>8. crashes' \in 0 .. MaxCrashes /\ crashes' > 0
  BY <1>1, HandlerAssumption DEF Crash, TypeOK
<1> QED
  BY <1>1, <1>5, <1>6, <1>7, <1>8 DEF Crash, chainVars

LEMMA CrashCore ==
  ASSUME Core, Crash
  PROVE  Core'
<1>1. TypeOK /\ BooksOK /\ JobsOK
  BY TypeParts DEF Core
<1>2. outbox' \in Seq(Tx)
  BY CrashEffect, DetachedBooks
<1>3. BooksOK'
  BY <1>1, <1>2, CrashEffect DEF BooksOK
<1>4. JobsOK'
  BY <1>1, CrashEffect DEF JobsOK
<1>5. task' = [t \in Tasks |-> Idle]
  BY DEF Crash
<1>6. task' \in [Tasks -> TaskRec]
  BY <1>5, IdleIsTask
<1>7. LineOK' /\ WalletInv'
  BY <1>5, CrashEffect, EmptySeq DEF LineOK, WalletInv, Idle
<1>8. TypeOK'
  BY <1>3, <1>4, <1>6, <1>7 DEF TypeOK, BooksOK, JobsOK, LineOK, TaskRec, Tx, InLine
<1>9. \A t \in Tasks : TaskOK(t)' /\ CheckOK(t)'
  BY <1>5 DEF TaskOK, CheckOK, At, Req, Idle, AnswerPcs
<1> QED
  BY <1>7, <1>8, <1>9 DEF Core, TaskInv

LEMMA InitCore == Init => Core
<1> SUFFICES ASSUME Init PROVE Core
  OBVIOUS
<1>1. task = [t \in Tasks |-> Idle] /\ mutex = <<>>
  BY DEF Init
<1>2. task \in [Tasks -> TaskRec]
  BY <1>1, IdleIsTask
<1>3. LineOK /\ WalletInv
  BY <1>1, EmptySeq DEF LineOK, WalletInv, Idle
<1>4. BooksOK
  BY HandlerAssumption, EmptySeq DEF Init, BooksOK, Fates
<1>5. JobsOK
  BY HandlerAssumption DEF Init, JobsOK, Jobs
<1>6. \A t \in Tasks : TaskOK(t) /\ CheckOK(t)
  BY <1>1 DEF TaskOK, CheckOK, At, Req, Idle, AnswerPcs
<1> QED
  BY <1>2, <1>3, <1>4, <1>5, <1>6, TypeParts DEF Core, TaskInv

LEMMA NextCore ==
  ASSUME Core, OutboxInv, [Next]_vars
  PROVE  Core'
<1>1. CASE UNCHANGED vars
  <2>1. TypeOK'
    BY <1>1 DEF Core, TypeOK, vars, chainVars, historyVars
  <2>2. TaskInv'
    BY <1>1 DEF Core, TaskInv, TaskOK, CheckOK, At, Req, IsAnswer, Finalized, vars,
                chainVars, historyVars
  <2>3. WalletInv'
    BY <1>1 DEF Core, WalletInv, HasWallet, vars, chainVars, historyVars
  <2> QED
    BY <2>1, <2>2, <2>3 DEF Core
<1>2. ASSUME NEW t \in Tasks, NEW q \in Requests, Deliver(t, q) \/ RetryJob(t, q)
      PROVE  Core'
  BY <1>2, BeginCore DEF Deliver, RetryJob
<1> QED
  BY <1>1, <1>2, TaskCore, MineCore, WithdrawCore, CrashCore DEF Next

-------------------------------------------------------------------------------
(* What one step of a task does to the chain, the mempool and the jobs.    *)

\* The chain has the request's result, it was withdrawn, or it was malformed.
Settled(q) == fate[q] \in {"answered", "cancelled"} \/ q \in Malformed

\* The run goes on.
Stays(t) ==
  /\ task'[t].request = Req(t) /\ task'[t].retry = task[t].retry
  /\ task'[t].receipt = task[t].receipt /\ job' = job

\* The run is over.
Leaves(t) ==
  /\ task'[t] = Idle /\ job'[Req(t)] # "waiting"
  /\ job'[Req(t)] = "done" => Settled(Req(t))

Steps(t) ==
  /\ \A u \in Tasks \ {t} : task'[u] = task[u]
  /\ \A q \in Requests \ {Req(t)} : job'[q] = job[q]
  /\ Stays(t) \/ Leaves(t)

LEMMA EndSteps ==
  ASSUME Core, NEW t \in Tasks, Req(t) \in Requests, NEW error \in Errors,
         End(t, error), error \in {"none", "bad"} => Settled(Req(t))
  PROVE  Steps(t) /\ task'[t] = Idle
<1>1. Outcome(t, error) = "done" => error \in {"none", "bad"}
  BY DEF Outcome, Errors
<1>2. TypeOK
  BY DEF Core
<1> QED
  BY <1>1, <1>2, EndEffect DEF Steps, Leaves

LEMMA ThrowSteps ==
  ASSUME Core, NEW t \in Tasks, Req(t) \in Requests, NEW error \in Errors \ {"none"},
         Throw(t, error), error = "bad" => Settled(Req(t))
  PROVE  Steps(t) /\ task'[t].pc \notin {"confirm", "record"}
<1>1. CASE ~IsAnswer(t)
  <2>1. End(t, error)
    BY <1>1 DEF Throw
  <2> QED
    BY <2>1, EndSteps DEF Idle
<1>2. CASE IsAnswer(t)
  <2>1. /\ \A u \in Tasks \ {t} : task'[u] = task[u]
        /\ task'[t] = [task[t] EXCEPT !.pc = "caught", !.error = error]
        /\ job' = job
    BY <1>2, ThrowEffect DEF Core
  <2>2. task[t] \in TaskRec
    BY TaskFacts
  <2>3. Stays(t) /\ task'[t].pc = "caught"
    BY <2>1, <2>2 DEF Stays, Req, TaskRec
  <2> QED
    BY <2>1, <2>3 DEF Steps
<1> QED
  BY <1>1, <1>2

LEMMA CallFailsSteps ==
  ASSUME Core, NEW t \in Tasks, Req(t) \in Requests, CallFails(t)
  PROVE  Steps(t) /\ task'[t].pc \notin {"confirm", "record"}
<1>1. PICK error \in Transient : Throw(t, error)
  BY DEF CallFails
<1>2. error \in Errors \ {"none"} /\ error # "bad"
  BY DEF Transient, Errors
<1> QED
  BY <1>1, <1>2, ThrowSteps

LEMMA GotoSteps ==
  ASSUME Core, NEW t \in Tasks, NEW pc \in Pcs, Goto(t, pc), UNCHANGED job
  PROVE  Steps(t) /\ task'[t].pc = pc
<1>1. /\ task'[t] = [task[t] EXCEPT !.pc = pc]
      /\ \A u \in Tasks \ {t} : task'[u] = task[u]
  BY GotoEffect DEF Core
<1>2. task[t] \in TaskRec
  BY TaskFacts
<1> QED
  BY <1>1, <1>2 DEF Steps, Stays, Req, TaskRec

\* The steps that leave the chain, the mempool and the summary alone.
Quiet(t) ==
  /\ Steps(t) /\ Req(t) \in Requests
  /\ task[t].pc \notin {"confirm", "record"} /\ task'[t].pc \notin {"confirm", "record"}
  /\ UNCHANGED <<chainVars, outbox, sends, retried, crashes>>
  /\ rows \subseteq rows'
  /\ \A q \in Requests : losses'[q] >= losses[q]

LEMMA EarlySteps ==
  ASSUME Core, NEW t \in Tasks,
         CheckFinalized(t) \/ Recheck(t) \/ Work(t) \/ Upload(t) \/ Guard(t) \/ FallbackCheck(t)
  PROVE  Quiet(t)
<1>0. /\ task[t] \in TaskRec /\ (task[t].pc # "idle" <=> Req(t) \in Requests)
      /\ losses \in [Requests -> Nat] /\ TaskOK(t)
  BY TaskFacts DEF BooksOK
<1>1. /\ Req(t) \in Requests /\ task[t].pc \notin {"confirm", "record"}
      /\ UNCHANGED <<chainVars, outbox, historyVars, crashes>>
  BY <1>0 DEF CheckFinalized, Recheck, Work, Upload, Guard, FallbackCheck, At
<1>2. \A q \in Requests : losses'[q] >= losses[q]
  BY <1>0, <1>1 DEF historyVars
<1> DEFINE Goal == Steps(t) /\ task'[t].pc \notin {"confirm", "record"}
<1>3. ASSUME End(t, "none"), Finalized(Req(t)) PROVE Goal
  BY <1>1, <1>3, EndSteps DEF Settled, Finalized, Errors, Idle
<1>4. ASSUME End(t, "bad"), At(t, "caught"), task[t].error = "bad" PROVE Goal
  BY <1>0, <1>1, <1>4, EndSteps DEF Settled, TaskOK, Errors, Idle
<1>5. ASSUME Throw(t, "bad"), Req(t) \in Malformed PROVE Goal
  BY <1>1, <1>5, ThrowSteps DEF Settled, Errors
<1>6. ASSUME CallFails(t) PROVE Goal
  BY <1>1, <1>6, CallFailsSteps
<1>7. ASSUME NEW pc \in Pcs \ {"confirm", "record"}, Goto(t, pc), UNCHANGED job
      PROVE  Goal
  BY <1>7, GotoSteps
<1>8. ASSUME NEW pc \in {"work", "upload"}, UNCHANGED job,
             task' = [task EXCEPT ![t] = [@ EXCEPT !.pc = pc, !.missed = task[t].missed + 1]]
      PROVE  Goal
  <2>1. task \in [Tasks -> TaskRec]
    BY TaskFacts
  <2>2. /\ task'[t] = [task[t] EXCEPT !.pc = pc, !.missed = task[t].missed + 1]
        /\ \A u \in Tasks \ {t} : task'[u] = task[u]
    BY <1>8, <2>1
  <2>3. /\ task'[t].pc = pc /\ task'[t].request = task[t].request
        /\ task'[t].retry = task[t].retry /\ task'[t].receipt = task[t].receipt
    BY <1>0, <2>2 DEF TaskRec
  <2> QED
    BY <1>8, <2>2, <2>3 DEF Steps, Stays, Req
<1>9. Goal
  <2> HIDE DEF Goal
  <2>1. CASE CheckFinalized(t)
    BY <2>1, <1>3, <1>7, <1>8 DEF CheckFinalized, Proceed, Pcs
  <2>2. CASE Recheck(t)
    BY <2>2, <1>3, <1>7, <1>8 DEF Recheck, Proceed, Pcs
  <2>3. CASE Work(t)
    <3>1. CASE Proceed(t, IF IsAnswer(t) THEN "recheck" ELSE "upload")
      <4>1. (IF IsAnswer(t) THEN "recheck" ELSE "upload") \in Pcs \ {"confirm", "record"}
        BY DEF Pcs
      <4> QED
        BY <3>1, <4>1, <1>7 DEF Proceed
    <3> QED
      BY <2>3, <3>1, <1>5, <1>6 DEF Work
  <2>4. CASE Upload(t)
    BY <2>4, <1>6, <1>7 DEF Upload, Pcs
  <2>5. CASE Guard(t)
    BY <2>5, <1>3, <1>6, <1>7 DEF Guard, Proceed, Pcs
  <2>6. CASE FallbackCheck(t)
    BY <2>6, <1>3, <1>4, <1>7 DEF FallbackCheck, Pcs
  <2> QED
    BY <2>1, <2>2, <2>3, <2>4, <2>5, <2>6
<1> QED
  BY <1>1, <1>2, <1>9 DEF Quiet, historyVars

LEMMA SendSteps ==
  ASSUME Core, NEW t \in Tasks, Send(t)
  PROVE  \/ Quiet(t)
         \/ /\ At(t, "send") /\ Req(t) \in Requests /\ Steps(t)
            /\ UNCHANGED <<chainVars, rows, retried, crashes>>
            /\ IsAnswer(t) => fate[Req(t)] = "open"
            /\ \/ /\ Broadcast(t, t) /\ UNCHANGED losses
                  /\ Stays(t) /\ task'[t].pc = "confirm"
               \/ /\ Broadcast(t, NoTask) /\ Lost(t)
                  /\ task'[t].pc \notin {"confirm", "record"}
<1>0. /\ task[t] \in TaskRec /\ (task[t].pc # "idle" <=> Req(t) \in Requests)
      /\ losses \in [Requests -> Nat]
  BY TaskFacts DEF BooksOK
<1>1. /\ At(t, "send") /\ Req(t) \in Requests
      /\ UNCHANGED <<chainVars, rows, retried, crashes>>
  BY <1>0 DEF Send, At
<1>2. CASE /\ IsAnswer(t) => fate[Req(t)] = "open"
           /\ Broadcast(t, t) /\ Proceed(t, "confirm") /\ UNCHANGED losses
  <2>1. Steps(t) /\ task'[t].pc = "confirm"
    BY <1>2, GotoSteps DEF Proceed, Pcs
  <2>2. Stays(t)
    BY <2>1 DEF Steps, Leaves, Idle
  <2> QED
    BY <1>1, <1>2, <2>1, <2>2
<1>3. CASE /\ IsAnswer(t) => fate[Req(t)] = "open"
           /\ Broadcast(t, NoTask) /\ CallFails(t) /\ Lost(t)
  BY <1>1, <1>3, CallFailsSteps
<1>4. CASE UNCHANGED <<outbox, sends, losses>>
  <2> DEFINE Goal == Steps(t) /\ task'[t].pc \notin {"confirm", "record"}
  <2>1. ASSUME AlreadyFinalized(t), End(t, "none") PROVE Goal
    BY <1>1, <2>1, EndSteps DEF Settled, AlreadyFinalized, Finalized, Errors, Idle
  <2>2. ASSUME Throw(t, "fatal") PROVE Goal
    BY <1>1, <2>2, ThrowSteps DEF Errors
  <2>3. ASSUME CallFails(t) PROVE Goal
    BY <1>1, <2>3, CallFailsSteps
  <2>4. CASE Goal
    BY <1>0, <1>1, <1>4, <2>4 DEF Quiet, At
  <2>5. CASE ~Goal
    <3> HIDE DEF Goal
    <3> QED
      BY <2>1, <2>2, <2>3, <2>5, <1>2, <1>3 DEF Send
  <2> QED
    BY <2>4, <2>5
<1> QED
  BY <1>2, <1>3, <1>4 DEF Send

LEMMA ConfirmSteps ==
  ASSUME Core, OutboxInv, NEW t \in Tasks, Confirm(t)
  PROVE  /\ At(t, "confirm") /\ Req(t) \in Requests /\ Steps(t)
         /\ UNCHANGED <<chainVars, rows, sends, retried, crashes>>
         /\ task'[t].pc # "confirm"
         /\ \/ /\ UNCHANGED <<outbox, losses>> /\ task[t].receipt # "none"
               /\ IsAnswer(t) /\ task[t].receipt = "ok" =>
                    task'[t].pc = "record"
            \/ Lost(t) /\ outbox' = Detached(outbox, {t}) /\ task'[t].pc # "record"
<1>0. /\ task[t] \in TaskRec /\ (task[t].pc # "idle" <=> Req(t) \in Requests)
  BY TaskFacts
<1>1. /\ At(t, "confirm") /\ Req(t) \in Requests
      /\ UNCHANGED <<chainVars, rows, sends, retried, crashes>>
  BY <1>0 DEF Confirm, At
<1>2. CASE task[t].receipt = "ok" /\ IsAnswer(t) /\ Goto(t, "record") /\ UNCHANGED job
           /\ UNCHANGED <<outbox, losses>>
  BY <1>1, <1>2, GotoSteps DEF Pcs
<1>3. CASE task[t].receipt = "ok" /\ ~IsAnswer(t) /\ End(t, "none")
           /\ UNCHANGED <<outbox, losses>>
  <2>1. Settled(Req(t))
    BY <1>3 DEF OutboxInv, Settled
  <2> QED
    BY <1>1, <1>3, <2>1, EndSteps DEF Errors, Idle
<1>4. CASE task[t].receipt = "reverted" /\ Throw(t, "fatal")
           /\ UNCHANGED <<outbox, losses>>
  BY <1>1, <1>4, ThrowSteps DEF Errors
<1>5. CASE CallFails(t) /\ Lost(t) /\ outbox' = Detached(outbox, {t})
  BY <1>1, <1>5, CallFailsSteps
<1> QED
  BY <1>2, <1>3, <1>4, <1>5 DEF Confirm

LEMMA RecordSteps ==
  ASSUME Core, OutboxInv, NEW t \in Tasks, RecordFailed(t) \/ RecordAnswer(t)
  PROVE  /\ task[t].pc \in {"record", "recordFailed"}
         /\ Req(t) \in Requests /\ Steps(t) /\ task'[t] = Idle
         /\ UNCHANGED <<chainVars, outbox, sends, retried, crashes>>
         /\ rows \subseteq rows'
         /\ \A q \in Requests : losses'[q] >= losses[q]
         /\ At(t, "record") =>
              <<Req(t), "answer">> \in rows' \/ losses'[Req(t)] > losses[Req(t)]
<1>0. /\ task[t] \in TaskRec /\ (task[t].pc # "idle" <=> Req(t) \in Requests)
      /\ losses \in [Requests -> Nat] /\ TaskOK(t)
  BY TaskFacts DEF BooksOK
<1>1. /\ task[t].pc \in {"record", "recordFailed"} /\ Req(t) \in Requests
      /\ UNCHANGED <<chainVars, outbox, sends, retried, crashes>>
  BY <1>0 DEF RecordFailed, RecordAnswer, At
<1>2. Steps(t) /\ task'[t] = Idle
  <2>1. CASE RecordFailed(t)
    <3>1. task[t].error \in Errors /\ task[t].error \notin {"none", "bad"}
      BY <1>0, <2>1 DEF RecordFailed, TaskOK, TaskRec, Transient
    <3> QED
      BY <1>1, <2>1, <3>1, EndSteps DEF RecordFailed
  <2>2. CASE RecordAnswer(t)
    <3>1. Settled(Req(t))
      BY <1>0, <2>2 DEF RecordAnswer, TaskOK, OutboxInv, Settled
    <3> QED
      BY <1>1, <2>2, <3>1, EndSteps DEF RecordAnswer, Errors
  <2> QED
    BY <2>1, <2>2
<1>3. PICK kind : Record(t, kind) /\ (At(t, "record") => kind = "answer")
  BY DEF RecordFailed, RecordAnswer, At
<1>4. CASE rows' = rows \cup {<<Req(t), kind>>} /\ UNCHANGED losses
  BY <1>0, <1>1, <1>2, <1>3, <1>4
<1>5. CASE UNCHANGED rows /\ Lost(t)
  <2>1. losses'[Req(t)] = losses[Req(t)] + 1
        /\ \A q \in Requests \ {Req(t)} : losses'[q] = losses[q]
    BY <1>0, <1>1, <1>5 DEF Lost
  <2>2. \A q \in Requests : losses[q] \in Nat
    BY <1>0
  <2>3. \A q \in Requests : losses'[q] >= losses[q]
    BY <1>1, <2>1, <2>2
  <2> QED
    BY <1>1, <1>2, <1>5, <2>1, <2>2, <2>3
<1> QED
  BY <1>3, <1>4, <1>5 DEF Record

LEMMA TaskKinds ==
  ASSUME NEW t, Task(t)
  PROVE  \/ CheckFinalized(t) \/ Recheck(t) \/ Work(t) \/ Upload(t) \/ Guard(t)
            \/ FallbackCheck(t)
         \/ Send(t)
         \/ Confirm(t)
         \/ RecordFailed(t) \/ RecordAnswer(t)
  BY DEF Task, HandlePrompt, HandleRegeneration, HandleBranch, HandleMetadataUpdate,
         AnswerSteps, SubmitSteps

-------------------------------------------------------------------------------
(* The mempool.                                                            *)

LEMMA ReceiptsKept ==
  ASSUME Core, OutboxInv, NEW t \in Tasks, Req(t) \in Requests, Steps(t), UNCHANGED fate
  PROVE  \A u \in Tasks :
           /\ (task[u].receipt # "none" /\ IsAnswer(u))' => fate'[Req(u)'] # "open"
           /\ task'[u].receipt = "ok" => fate'[Req(u)'] = "answered"
<1>1. ASSUME NEW u \in Tasks
      PROVE  /\ task'[u].request = task[u].request /\ task'[u].receipt = task[u].receipt
             \/ task'[u].receipt = "none"
  BY DEF Steps, Stays, Leaves, Idle, Req
<1> QED
  BY <1>1 DEF OutboxInv, Req, IsAnswer

LEMMA MempoolKept ==
  ASSUME Core, Core', OutboxInv, NEW t \in Tasks, Req(t) \in Requests, Steps(t), UNCHANGED fate,
         UNCHANGED outbox, \A q \in Requests : losses'[q] >= losses[q],
         ~(At(t, "confirm") /\ task[t].receipt = "none")
  PROVE  OutboxInv'
<1>0. /\ losses \in [Requests -> Nat] /\ losses' \in [Requests -> Nat]
      /\ \A i \in DOMAIN outbox : outbox[i] \in Tx
  <2>1. outbox \in Seq(Tx)
    BY DEF Core, TypeOK, Tx
  <2> QED
    BY <2>1, ElementOfSeq, LenProperties DEF Core, TypeOK
<1>1. ASSUME NEW i \in DOMAIN outbox
      PROVE  IF outbox[i].sender = NoTask
             THEN outbox[i].request \in Answers => losses'[outbox[i].request] > 0
             ELSE /\ At(outbox[i].sender, "confirm")'
                  /\ Req(outbox[i].sender)' = outbox[i].request
                  /\ task'[outbox[i].sender].receipt = "none"
  <2>1. CASE outbox[i].sender = NoTask
    <3>1. outbox[i].request \in Answers =>
            /\ losses[outbox[i].request] > 0 /\ losses[outbox[i].request] \in Nat
            /\ losses'[outbox[i].request] >= losses[outbox[i].request]
            /\ losses'[outbox[i].request] \in Nat
      BY <1>0, <2>1 DEF OutboxInv, Answers, Requests
    <3> QED
      BY <2>1, <3>1
  <2>2. CASE outbox[i].sender # NoTask
    <3>1. outbox[i].sender \in Tasks \ {t}
      BY <1>0, <2>2 DEF OutboxInv, Tx, At
    <3> QED
      BY <2>2, <3>1 DEF OutboxInv, Steps, At, Req
  <2> QED
    BY <2>1, <2>2
<1> QED
  BY <1>1, ReceiptsKept DEF OutboxInv

LEMMA SendMempool ==
  ASSUME Core, Core', OutboxInv, NEW t \in Tasks, Send(t)
  PROVE  OutboxInv'
<1>0. /\ losses \in [Requests -> Nat] /\ losses' \in [Requests -> Nat]
      /\ TypeOK /\ NoTask \notin Tasks /\ WalletInv
  BY HandlerAssumption DEF Core, TypeOK
<1>1. CASE Quiet(t)
  BY <1>1, MempoolKept DEF Quiet, chainVars, At
<1>2. CASE ~Quiet(t)
  <2>1. /\ At(t, "send") /\ Req(t) \in Requests /\ Steps(t)
        /\ UNCHANGED <<chainVars, rows, retried, crashes>>
        /\ \/ /\ Broadcast(t, t) /\ UNCHANGED losses
              /\ Stays(t) /\ task'[t].pc = "confirm"
           \/ Broadcast(t, NoTask) /\ Lost(t)
    BY <1>2, SendSteps
  <2> DEFINE new == Len(outbox) + 1
             wait(i) ==
               IF outbox'[i].sender = NoTask
               THEN outbox'[i].request \in Answers => losses'[outbox'[i].request] > 0
               ELSE /\ task'[outbox'[i].sender].pc = "confirm"
                    /\ task'[outbox'[i].sender].request = outbox'[i].request
                    /\ task'[outbox'[i].sender].receipt = "none"
  <2>2. PICK s \in {t, NoTask} : Broadcast(t, s) /\ (s = NoTask => Lost(t))
                                  /\ (s = t => task'[t].pc = "confirm" /\ Stays(t))
    BY <1>0, <2>1
  <2>3. /\ DOMAIN outbox = 1 .. Len(outbox) /\ DOMAIN outbox' = 1 .. new
        /\ Len(outbox) \in Nat
        /\ \A i \in 1 .. Len(outbox) : outbox'[i] = outbox[i]
        /\ outbox'[new] = [request |-> Req(t), sender |-> s]
    BY <1>0, <2>1, <2>2, BroadcastBooks
  <2>4. \A q \in Requests : losses'[q] >= losses[q]
    <3>1. CASE Lost(t)
      BY <1>0, <2>1, <3>1 DEF Lost
    <3>2. CASE UNCHANGED losses
      BY <1>0, <3>2
    <3> QED
      BY <2>1, <3>1, <3>2
  <2>5. \A i \in 1 .. Len(outbox) : outbox[i].sender = NoTask /\ outbox[i] \in Tx
    <3>1. ASSUME NEW i \in 1 .. Len(outbox), outbox[i].sender # NoTask PROVE FALSE
      <4>1. outbox[i] \in Tx
        BY <1>0, ElementOfSeq DEF TypeOK, Tx
      <4>2. outbox[i].sender \in Tasks /\ At(outbox[i].sender, "confirm")
        BY <2>3, <3>1, <4>1 DEF OutboxInv, Tx
      <4>3. HasWallet(outbox[i].sender) /\ HasWallet(t)
        BY <1>0, <2>1, <4>2 DEF WalletInv, At
      <4> QED
        BY <2>1, <4>2, <4>3 DEF HasWallet, At
    <3> QED
      BY <1>0, <3>1, ElementOfSeq DEF TypeOK, Tx
  <2>6. ASSUME NEW i \in 1 .. Len(outbox) PROVE wait(i)
    <3>1. outbox[i].request \in Answers =>
            /\ losses[outbox[i].request] > 0 /\ losses[outbox[i].request] \in Nat
            /\ losses'[outbox[i].request] >= losses[outbox[i].request]
            /\ losses'[outbox[i].request] \in Nat
      BY <1>0, <2>3, <2>4, <2>5 DEF OutboxInv, Answers, Requests
    <3> QED
      BY <2>3, <2>5, <3>1
  <2>7. wait(new)
    <3>1. CASE s = NoTask
      <4>1. losses'[Req(t)] = losses[Req(t)] + 1 /\ losses[Req(t)] \in Nat
        BY <1>0, <2>1, <2>2, <3>1 DEF Lost
      <4> QED
        BY <2>3, <3>1, <4>1
    <3>2. CASE s # NoTask
      <4>1. s = t /\ task'[t].pc = "confirm" /\ Stays(t) /\ TaskOK(t)
        BY <2>2, <3>2, TaskFacts
      <4>2. task[t].receipt = "none"
        BY <2>1, <4>1 DEF TaskOK, At
      <4> QED
        BY <1>0, <2>3, <4>1, <4>2 DEF Stays, At, Req
    <3> QED
      BY <3>1, <3>2
  <2>8. \A i \in DOMAIN outbox' : wait(i)
    <3> HIDE DEF wait
    <3> QED
      BY <2>3, <2>6, <2>7
  <2>9. \A i, j \in DOMAIN outbox' :
          outbox'[i].sender # NoTask /\ outbox'[j].sender # NoTask => i = j
    BY <2>3, <2>5
  <2> QED
    BY <2>1, <2>8, <2>9, ReceiptsKept DEF OutboxInv, chainVars, At, Req
<1> QED
  BY <1>1, <1>2

LEMMA ConfirmMempool ==
  ASSUME Core, Core', OutboxInv, NEW t \in Tasks, Confirm(t)
  PROVE  OutboxInv'
<1>0. /\ losses \in [Requests -> Nat] /\ losses' \in [Requests -> Nat]
      /\ outbox \in Seq(Tx) /\ NoTask \notin Tasks
  BY HandlerAssumption DEF Core, TypeOK, Tx
<1>1. /\ At(t, "confirm") /\ Req(t) \in Requests /\ Steps(t)
      /\ UNCHANGED <<chainVars, rows, sends, retried, crashes>>
  BY ConfirmSteps
<1>2. CASE UNCHANGED <<outbox, losses>> /\ task[t].receipt # "none"
  BY <1>0, <1>1, <1>2, MempoolKept DEF chainVars
<1>3. CASE Lost(t) /\ outbox' = Detached(outbox, {t})
  <2>1. /\ DOMAIN outbox' = DOMAIN outbox
        /\ \A i \in DOMAIN outbox :
             /\ outbox[i] \in Tx /\ outbox'[i].request = outbox[i].request
             /\ outbox'[i].sender =
                  IF outbox[i].sender \in {t} THEN NoTask ELSE outbox[i].sender
    <3>1. \A s : /\ DOMAIN Detached(outbox, s) = DOMAIN outbox
                 /\ \A i \in DOMAIN outbox :
                      /\ outbox[i] \in Tx
                      /\ Detached(outbox, s)[i].request = outbox[i].request
                      /\ Detached(outbox, s)[i].sender =
                           IF outbox[i].sender \in s THEN NoTask ELSE outbox[i].sender
      BY <1>0, DetachedBooks
    <3> QED
      BY <1>3, <3>1
  <2>2. /\ losses'[Req(t)] > 0
        /\ \A q \in Requests : losses[q] > 0 => losses'[q] > 0
    BY <1>0, <1>1, <1>3 DEF Lost
  <2>3. ASSUME NEW i \in DOMAIN outbox
        PROVE  IF outbox'[i].sender = NoTask
               THEN outbox[i].request \in Answers => losses'[outbox[i].request] > 0
               ELSE /\ task'[outbox'[i].sender].pc = "confirm"
                    /\ task'[outbox'[i].sender].request = outbox[i].request
                    /\ task'[outbox'[i].sender].receipt = "none"
    <3>1. CASE outbox[i].sender = t
      BY <1>0, <2>1, <2>2, <3>1 DEF OutboxInv
    <3>2. CASE outbox[i].sender = NoTask
      BY <1>0, <2>1, <2>2, <3>2 DEF OutboxInv, Answers, Requests
    <3>3. CASE outbox[i].sender \in Tasks \ {t}
      BY <1>0, <1>1, <2>1, <3>3 DEF OutboxInv, Steps, At, Req
    <3> QED
      BY <2>1, <3>1, <3>2, <3>3 DEF Tx
  <2>4. \A i, j \in DOMAIN outbox :
          outbox'[i].sender # NoTask /\ outbox'[j].sender # NoTask => i = j
    BY <2>1 DEF OutboxInv
  <2> QED
    BY <1>1, <2>1, <2>3, <2>4, ReceiptsKept DEF OutboxInv, chainVars, At, Req
<1> QED
  BY <1>2, <1>3, ConfirmSteps

LEMMA TaskMempool ==
  ASSUME Core, Core', OutboxInv, NEW t \in Tasks, Task(t)
  PROVE  OutboxInv'
<1>1. CASE Quiet(t)
  BY <1>1, MempoolKept DEF Quiet, chainVars, At
<1>2. CASE RecordFailed(t) \/ RecordAnswer(t)
  BY <1>2, RecordSteps, MempoolKept DEF chainVars, At
<1> QED
  BY <1>1, <1>2, TaskKinds, EarlySteps, SendMempool, ConfirmMempool

LEMMA BeginMempool ==
  ASSUME Core, OutboxInv, NEW t \in Tasks, NEW q \in Requests, NEW again \in BOOLEAN,
         Begin(t, q, again)
  PROVE  OutboxInv'
<1>1. /\ At(t, "idle") /\ UNCHANGED <<fate, outbox, losses>>
      /\ task'[t].receipt = "none" /\ \A u \in Tasks \ {t} : task'[u] = task[u]
  BY BeginEffect DEF Begin, chainVars
<1>2. \A i \in DOMAIN outbox : outbox[i].sender # t /\ outbox[i].sender \in Tasks \cup {NoTask}
  <2>1. outbox \in Seq(Tx) /\ NoTask \notin Tasks
    BY HandlerAssumption DEF Core, TypeOK, Tx
  <2>2. \A i \in DOMAIN outbox : outbox[i] \in Tx
    BY <2>1, ElementOfSeq, LenProperties
  <2> QED
    BY <1>1, <2>1, <2>2 DEF OutboxInv, Tx, At
<1>3. \A i \in DOMAIN outbox :
        IF outbox[i].sender = NoTask
        THEN outbox[i].request \in Answers => losses[outbox[i].request] > 0
        ELSE /\ task'[outbox[i].sender].pc = "confirm"
             /\ task'[outbox[i].sender].request = outbox[i].request
             /\ task'[outbox[i].sender].receipt = "none"
  BY <1>1, <1>2 DEF OutboxInv, At, Req
<1>4. \A u \in Tasks :
        /\ (task[u].receipt # "none" /\ IsAnswer(u))' => fate[Req(u)'] # "open"
        /\ task'[u].receipt = "ok" => fate[Req(u)'] = "answered"
  BY <1>1 DEF OutboxInv, IsAnswer, Req
<1> QED
  BY <1>1, <1>3, <1>4 DEF OutboxInv, At, Req

LEMMA WithdrawMempool ==
  ASSUME Core, OutboxInv, NEW q \in Requests, Withdraw(q)
  PROVE  OutboxInv'
<1>1. UNCHANGED <<outbox, task, losses>>
  BY DEF Withdraw, historyVars
<1>2. \A p \in Requests : fate[p] # "open" => fate'[p] = fate[p]
  BY DEF Withdraw, Core, TypeOK
<1>3. /\ fate[q] = "open" /\ q \in Answers
      /\ fate'[q] # "open"
  BY DEF Withdraw, Core, TypeOK
<1>4. \A u \in Tasks :
        /\ task[u].receipt # "none" /\ IsAnswer(u) => fate'[Req(u)] # "open"
        /\ task[u].receipt = "ok" => fate'[Req(u)] = "answered"
  <2>1. ASSUME NEW u \in Tasks, task[u].receipt # "none" PROVE Req(u) \in Requests
    BY <2>1, TaskFacts DEF TaskOK, At
  <2> QED
    BY <1>2, <2>1 DEF OutboxInv
<1> QED
  BY <1>1, <1>4 DEF OutboxInv, At, Req, IsAnswer

LEMMA MineMempool ==
  ASSUME Core, OutboxInv, Mine
  PROVE  OutboxInv'
<1> DEFINE q  == outbox[1].request
           t  == outbox[1].sender
           ok == q \in Answers => fate[q] = "open"
<1>1. /\ q \in Requests /\ 1 \in DOMAIN outbox
      /\ fate' = IF ok THEN [fate EXCEPT ![q] = "answered"] ELSE fate
      /\ \A i \in DOMAIN outbox' :
           /\ i + 1 \in DOMAIN outbox /\ i + 1 # 1
           /\ outbox'[i] = outbox[i + 1] /\ outbox[i + 1] \in Tx
      /\ DOMAIN outbox' = 1 .. Len(outbox')
  BY MineEffect DEF Tx
<1>2. /\ t = NoTask => task' = task
      /\ t # NoTask =>
           /\ t \in Tasks /\ At(t, "confirm") /\ Req(t) = q
           /\ task'[t].request = q /\ task'[t].receipt = IF ok THEN "ok" ELSE "reverted"
           /\ \A u \in Tasks \ {t} : task'[u] = task[u]
  <2>1. task \in [Tasks -> TaskRec]
    BY TypeParts DEF Core
  <2> QED
    BY <2>1, MineEffect DEF TaskRec, Req
<1>3. fate \in [Requests -> Fates] /\ UNCHANGED losses /\ NoTask \notin Tasks
  BY HandlerAssumption DEF Mine, historyVars, Core, TypeOK
<1>4. ASSUME NEW i \in DOMAIN outbox'
      PROVE  IF outbox'[i].sender = NoTask
             THEN outbox'[i].request \in Answers => losses[outbox'[i].request] > 0
             ELSE /\ task'[outbox'[i].sender].pc = "confirm"
                  /\ task'[outbox'[i].sender].request = outbox'[i].request
                  /\ task'[outbox'[i].sender].receipt = "none"
  <2>1. CASE outbox'[i].sender = NoTask
    BY <1>1, <2>1 DEF OutboxInv
  <2>2. CASE outbox'[i].sender # NoTask
    <3>1. t = NoTask
      BY <1>1, <2>2 DEF OutboxInv
    <3> QED
      BY <1>1, <1>2, <2>2, <3>1 DEF OutboxInv, At, Req
  <2> QED
    BY <2>1, <2>2
<1>5. \A i, j \in DOMAIN outbox' :
        outbox'[i].sender # NoTask /\ outbox'[j].sender # NoTask => i = j
  <2> SUFFICES ASSUME NEW i \in DOMAIN outbox', NEW j \in DOMAIN outbox',
                      outbox'[i].sender # NoTask, outbox'[j].sender # NoTask
               PROVE  i = j
    OBVIOUS
  <2>1. i + 1 = j + 1
    BY <1>1 DEF OutboxInv
  <2> QED
    BY <1>1, <2>1
<1>6. ASSUME NEW u \in Tasks
      PROVE  /\ task'[u].receipt # "none" /\ task'[u].request \in Answers =>
                  fate'[task'[u].request] # "open"
             /\ task'[u].receipt = "ok" => fate'[task'[u].request] = "answered"
  <2>1. \A p \in Requests : fate[p] # "open" => fate'[p] # "open"
    BY <1>1, <1>3
  <2>2. \A p \in Requests : fate[p] = "answered" => fate'[p] = "answered"
    BY <1>1, <1>3
  <2>3. CASE t = u
    <3>1. task'[u].request = q /\ task'[u].receipt = IF ok THEN "ok" ELSE "reverted"
      BY <1>2, <1>3, <2>3
    <3> QED
      BY <1>1, <1>3, <3>1
  <2>4. CASE t # u
    <3>1. task'[u] = task[u]
      BY <1>2, <2>4
    <3>2. task[u].receipt # "none" => Req(u) \in Requests
      BY TaskFacts DEF TaskOK, At
    <3> QED
      BY <2>1, <2>2, <3>1, <3>2 DEF OutboxInv, Req, IsAnswer
  <2> QED
    BY <2>3, <2>4
<1> QED
  BY <1>3, <1>4, <1>5, <1>6 DEF OutboxInv, At, Req, IsAnswer

LEMMA CrashMempool ==
  ASSUME Core, OutboxInv, Crash
  PROVE  OutboxInv'
<1>1. /\ outbox \in Seq(Tx) /\ outbox' = Detached(outbox, Tasks)
      /\ losses \in [Requests -> Nat]
  BY CrashEffect DEF Core, TypeOK
<1>2. /\ DOMAIN outbox' = DOMAIN outbox
      /\ \A i \in DOMAIN outbox :
           /\ outbox[i] \in Tx /\ outbox'[i].request = outbox[i].request
           /\ outbox'[i].sender = NoTask
  <2>1. /\ DOMAIN Detached(outbox, Tasks) = DOMAIN outbox
        /\ \A i \in DOMAIN outbox :
             /\ outbox[i] \in Tx
             /\ Detached(outbox, Tasks)[i].request = outbox[i].request
             /\ Detached(outbox, Tasks)[i].sender =
                  IF outbox[i].sender \in Tasks THEN NoTask ELSE outbox[i].sender
    BY <1>1, DetachedBooks
  <2> QED
    BY <1>1, <2>1 DEF Tx
<1>3. ASSUME NEW i \in DOMAIN outbox', outbox'[i].request \in Answers
      PROVE  losses'[outbox'[i].request] > 0
  <2>1. outbox[i].request \in Requests /\ outbox[i].request \in Answers
    BY <1>2, <1>3 DEF Tx
  <2>2. CASE outbox[i].sender = NoTask
    <3>1. losses[outbox[i].request] > 0
      BY <1>2, <2>1, <2>2 DEF OutboxInv
    <3>2. /\ losses'[outbox[i].request] >= losses[outbox[i].request]
          /\ losses'[outbox[i].request] \in Nat
      BY <2>1, CrashEffect
    <3> QED
      BY <1>1, <1>2, <2>1, <3>1, <3>2
  <2>3. CASE outbox[i].sender # NoTask
    <3> DEFINE u == outbox[i].sender
    <3>1. /\ u \in Tasks /\ Req(u) = outbox[i].request /\ task[u].pc = "confirm"
      BY <1>2, <2>3 DEF OutboxInv, Tx, At
    <3>2. losses'[Req(u)] > losses[Req(u)] /\ losses'[Req(u)] \in Nat
      BY <2>1, <3>1, CrashEffect
    <3> QED
      BY <1>1, <1>2, <2>1, <3>1, <3>2
  <2> QED
    BY <2>2, <2>3
<1> QED
  BY <1>2, <1>3, CrashEffect DEF OutboxInv, Idle

LEMMA NextMempool ==
  ASSUME Core, Core', OutboxInv, [Next]_vars
  PROVE  OutboxInv'
<1>1. CASE UNCHANGED vars
  BY <1>1 DEF OutboxInv, At, Req, IsAnswer, vars, chainVars, historyVars
<1>2. ASSUME NEW t \in Tasks, NEW q \in Requests, Deliver(t, q) \/ RetryJob(t, q)
      PROVE  OutboxInv'
  BY <1>2, BeginMempool DEF Deliver, RetryJob
<1> QED
  BY <1>1, <1>2, TaskMempool, MineMempool, WithdrawMempool, CrashMempool DEF Next

-------------------------------------------------------------------------------
(* How many transactions are sent.                                         *)

LEMMA Counts ==
  ASSUME Core, NEW q \in Answers
  PROVE  sends[q] \in Nat /\ losses[q] \in Nat /\ fate[q] \in Fates /\ q \in Requests
  BY DEF Core, TypeOK, Requests

LEMMA CountsKept ==
  ASSUME Core, Core', SendInv, NEW t \in Tasks, UNCHANGED <<fate, sends>>,
         \A q \in Requests : losses'[q] >= losses[q],
         \A u \in Tasks \ {t} : task'[u] = task[u], ~At(t, "confirm")
  PROVE  SendInv'
<1> SUFFICES ASSUME NEW q \in Answers
             PROVE  /\ sends[q] <= 1 + losses'[q]
                    /\ sends[q] = 1 + losses'[q] =>
                         \/ fate[q] # "open"
                         \/ \E u \in Tasks : task'[u].request = q /\ task'[u].pc = "confirm"
  BY DEF SendInv, Req, At
<1>1. /\ sends[q] \in Nat /\ losses[q] \in Nat /\ losses'[q] \in Nat
      /\ losses'[q] >= losses[q] /\ sends[q] <= 1 + losses[q]
  BY Counts DEF SendInv, Core, TypeOK
<1>2. ASSUME sends[q] = 1 + losses'[q], fate[q] = "open"
      PROVE  \E u \in Tasks : task'[u].request = q /\ task'[u].pc = "confirm"
  <2>1. sends[q] = 1 + losses[q]
    BY <1>1, <1>2
  <2>2. PICK u \in Tasks : Req(u) = q /\ At(u, "confirm")
    BY <1>2, <2>1 DEF SendInv
  <2>3. task'[u] = task[u]
    BY <2>2 DEF At
  <2> QED
    BY <2>2, <2>3 DEF Req, At
<1> QED
  BY <1>1, <1>2

LEMMA SendCounts ==
  ASSUME Core, Core', SendInv, NEW t \in Tasks, Send(t)
  PROVE  SendInv'
<1>1. CASE Quiet(t)
  BY <1>1, CountsKept DEF Quiet, Steps, chainVars, At
<1>2. CASE ~Quiet(t)
  <2>1. /\ At(t, "send") /\ Req(t) \in Requests /\ Steps(t) /\ UNCHANGED fate
        /\ IsAnswer(t) => fate[Req(t)] = "open"
        /\ \/ /\ Broadcast(t, t) /\ UNCHANGED losses
              /\ Stays(t) /\ task'[t].pc = "confirm"
           \/ Broadcast(t, NoTask) /\ Lost(t)
    BY <1>2, SendSteps DEF chainVars
  <2>2. TypeOK /\ WalletInv /\ sends \in [Requests -> Nat] /\ losses \in [Requests -> Nat]
    BY DEF Core, TypeOK
  <2>3. /\ sends'[Req(t)] = sends[Req(t)] + 1
        /\ \A q \in Requests \ {Req(t)} : sends'[q] = sends[q]
    BY <2>1, <2>2 DEF Broadcast
  <2>4. \A u \in Tasks : At(u, "confirm") => FALSE
    BY <2>1, <2>2 DEF WalletInv, HasWallet, At
  <2>5. \/ /\ losses'[Req(t)] = losses[Req(t)] /\ task'[t].request = Req(t)
           /\ task'[t].pc = "confirm"
        \/ losses'[Req(t)] = losses[Req(t)] + 1
    BY <2>1, <2>2 DEF Lost, Stays
  <2>6. \A q \in Requests \ {Req(t)} : losses'[q] = losses[q]
    BY <2>1, <2>2 DEF Lost
  <2>7. ASSUME NEW q \in Answers
        PROVE  /\ sends'[q] <= 1 + losses'[q]
               /\ sends'[q] = 1 + losses'[q] =>
                    \/ fate[q] # "open"
                    \/ \E u \in Tasks : task'[u].request = q /\ task'[u].pc = "confirm"
    <3>1. /\ sends[q] \in Nat /\ losses[q] \in Nat /\ q \in Requests
          /\ sends[q] <= 1 + losses[q]
          /\ sends[q] = 1 + losses[q] => fate[q] # "open"
      BY <2>4, Counts DEF SendInv
    <3>2. CASE q # Req(t)
      BY <2>3, <2>6, <3>1, <3>2
    <3>3. CASE q = Req(t)
      <4>1. sends[q] <= losses[q]
        BY <2>1, <3>1, <3>3 DEF IsAnswer
      <4> QED
        BY <2>3, <2>5, <3>1, <3>3, <4>1
    <3> QED
      BY <3>2, <3>3
  <2> QED
    BY <2>1, <2>7 DEF SendInv, Req, At
<1> QED
  BY <1>1, <1>2

LEMMA ConfirmCounts ==
  ASSUME Core, Core', OutboxInv, SendInv, NEW t \in Tasks, Confirm(t)
  PROVE  SendInv'
<1>1. /\ At(t, "confirm") /\ Req(t) \in Requests /\ Steps(t) /\ UNCHANGED <<fate, sends>>
      /\ \/ UNCHANGED losses /\ task[t].receipt # "none"
         \/ Lost(t)
  BY ConfirmSteps DEF chainVars
<1>2. losses \in [Requests -> Nat]
  BY DEF Core, TypeOK
<1>3. ASSUME NEW q \in Answers
      PROVE  /\ sends[q] <= 1 + losses'[q]
             /\ sends[q] = 1 + losses'[q] =>
                  \/ fate[q] # "open"
                  \/ \E u \in Tasks : task'[u].request = q /\ task'[u].pc = "confirm"
  <2>1. /\ sends[q] \in Nat /\ losses[q] \in Nat /\ q \in Requests
        /\ sends[q] <= 1 + losses[q]
        /\ sends[q] = 1 + losses[q] =>
             fate[q] # "open" \/ \E u \in Tasks : Req(u) = q /\ At(u, "confirm")
    BY Counts DEF SendInv
  <2>2. CASE q = Req(t)
    <3>1. (losses'[q] = losses[q] /\ fate[q] # "open") \/ losses'[q] = losses[q] + 1
      BY <1>1, <1>2, <2>1, <2>2 DEF Lost, OutboxInv, IsAnswer
    <3> QED
      BY <2>1, <3>1
  <2>3. CASE q # Req(t)
    <3>1. losses'[q] = losses[q]
      BY <1>1, <1>2, <2>1, <2>3 DEF Lost
    <3>2. \A u \in Tasks : Req(u) = q => task'[u] = task[u]
      BY <1>1, <2>3 DEF Steps
    <3> QED
      BY <2>1, <3>1, <3>2 DEF Req, At
  <2> QED
    BY <2>2, <2>3
<1> QED
  BY <1>1, <1>3 DEF SendInv, Req, At

LEMMA NextCounts ==
  ASSUME Core, Core', OutboxInv, SendInv, [Next]_vars
  PROVE  SendInv'
<1>0. losses \in [Requests -> Nat]
  BY DEF Core, TypeOK
<1>1. CASE UNCHANGED vars
  BY <1>1 DEF SendInv, At, Req, vars, chainVars, historyVars
<1>2. ASSUME NEW t \in Tasks, Task(t) PROVE SendInv'
  <2>1. CASE Quiet(t)
    BY <2>1, CountsKept DEF Quiet, Steps, chainVars, At
  <2>2. CASE RecordFailed(t) \/ RecordAnswer(t)
    BY <2>2, RecordSteps, CountsKept DEF Steps, chainVars, At
  <2> QED
    BY <1>2, <2>1, <2>2, TaskKinds, EarlySteps, SendCounts, ConfirmCounts
<1>3. ASSUME NEW t \in Tasks, NEW q \in Requests, Deliver(t, q) \/ RetryJob(t, q)
      PROVE  SendInv'
  <2>1. PICK again \in BOOLEAN : Begin(t, q, again)
    BY <1>3 DEF Deliver, RetryJob
  <2>2. UNCHANGED <<fate, sends, losses>>
    BY <2>1 DEF Begin, chainVars
  <2>3. \A p \in Requests : losses'[p] >= losses[p]
    BY <1>0, <2>2
  <2> QED
    BY <2>1, <2>2, <2>3, BeginEffect, CountsKept DEF At
<1>4. CASE Mine
  <2>1. UNCHANGED <<sends, losses>>
    BY <1>4 DEF Mine, historyVars
  <2>2. \A u \in Tasks : task'[u].request = task[u].request /\ task'[u].pc = task[u].pc
    <3>1. task \in [Tasks -> TaskRec]
      BY TypeParts DEF Core
    <3> QED
      BY <1>4, <3>1, MineEffect DEF TaskRec
  <2>3. \A q \in Requests : fate[q] # "open" => fate'[q] # "open"
    BY <1>4 DEF Mine, Core, TypeOK
  <2> QED
    BY <2>1, <2>2, <2>3 DEF SendInv, At, Req, Requests
<1>5. ASSUME NEW q \in Requests, Withdraw(q) PROVE SendInv'
  <2>1. \A p \in Requests : fate[p] # "open" => fate'[p] # "open"
    BY <1>5 DEF Withdraw, Core, TypeOK
  <2> QED
    BY <1>5, <2>1 DEF SendInv, Withdraw, historyVars, At, Req, Requests
<1>6. CASE Crash
  <2>1. ASSUME NEW q \in Answers
        PROVE  sends[q] <= 1 + losses'[q] /\ (sends[q] = 1 + losses'[q] => fate[q] # "open")
    <3>1. /\ sends[q] \in Nat /\ losses[q] \in Nat /\ q \in Requests
          /\ sends[q] <= 1 + losses[q]
          /\ sends[q] = 1 + losses[q] =>
               fate[q] # "open" \/ \E u \in Tasks : Req(u) = q /\ At(u, "confirm")
      BY Counts DEF SendInv
    <3>2. /\ losses'[q] \in Nat /\ losses'[q] >= losses[q]
          /\ (\E u \in Tasks : Req(u) = q /\ At(u, "confirm")) => losses'[q] > losses[q]
      BY <1>6, <3>1, CrashEffect DEF At
    <3> QED
      BY <3>1, <3>2
  <2> QED
    BY <1>6, <2>1, CrashEffect DEF SendInv
<1> QED
  BY <1>1, <1>2, <1>3, <1>4, <1>5, <1>6 DEF Next

-------------------------------------------------------------------------------
(* The daily summary, and what the loop takes off its books.               *)

\* The task that is to write the row of an answer.
Writes(t, q) == /\ Req(t) = q
                /\ At(t, "record") \/ (At(t, "confirm") /\ task[t].receipt = "ok")

LEMMA RowsKept ==
  ASSUME Core, Core', RowInv, NEW t \in Tasks, UNCHANGED fate, rows \subseteq rows',
         \A q \in Requests : losses'[q] >= losses[q],
         \A u \in Tasks \ {t} : task'[u] = task[u],
         NEW mine \in Requests \cup {0},
         Writes(t, mine) => \/ <<mine, "answer">> \in rows' \/ losses'[mine] > losses[mine]
                            \/ task'[t].request = mine /\ task'[t].pc = "record",
         mine = Req(t)
  PROVE  RowInv'
<1> SUFFICES ASSUME NEW q \in Answers, fate[q] = "answered"
             PROVE  \/ <<q, "answer">> \in rows'
                    \/ losses'[q] > 0
                    \/ \E u \in Tasks : Writes(u, q)'
  BY DEF RowInv, Writes
<1>1. /\ losses[q] \in Nat /\ losses'[q] \in Nat /\ losses'[q] >= losses[q]
  BY Counts DEF Core, TypeOK
<1>2. CASE <<q, "answer">> \in rows \/ losses[q] > 0
  BY <1>1, <1>2
<1>3. CASE \E u \in Tasks : Writes(u, q)
  <2>1. PICK u \in Tasks : Writes(u, q)
    BY <1>3
  <2>2. CASE u = t
    <3>1. q = mine
      BY <2>1, <2>2 DEF Writes
    <3>2. \/ <<q, "answer">> \in rows' \/ losses'[q] > losses[q]
          \/ task'[t].request = q /\ task'[t].pc = "record"
      BY <2>1, <2>2, <3>1
    <3> QED
      BY <1>1, <3>2 DEF Writes, Req, At
  <2>3. CASE u # t
    <3>1. task'[u] = task[u]
      BY <2>3
    <3>2. Writes(u, q)'
      BY <2>1, <3>1 DEF Writes, Req, At
    <3> QED
      BY <3>2
  <2> QED
    BY <2>2, <2>3
<1> QED
  BY <1>2, <1>3 DEF RowInv, Writes

LEMMA TaskRows ==
  ASSUME Core, Core', OutboxInv, RowInv, NEW t \in Tasks, Task(t)
  PROVE  RowInv'
<1>0. losses \in [Requests -> Nat] /\ Req(t) \in Requests \cup {0}
  BY TaskFacts DEF Core, TypeOK
<1>1. CASE Quiet(t)
  BY <1>0, <1>1, RowsKept DEF Quiet, Steps, chainVars, Writes, At
<1>2. CASE RecordFailed(t) \/ RecordAnswer(t)
  <2>1. /\ task[t].pc \in {"record", "recordFailed"}
        /\ rows \subseteq rows' /\ UNCHANGED fate
        /\ \A q \in Requests : losses'[q] >= losses[q]
        /\ \A u \in Tasks \ {t} : task'[u] = task[u]
        /\ At(t, "record") =>
             <<Req(t), "answer">> \in rows' \/ losses'[Req(t)] > losses[Req(t)]
    BY <1>2, RecordSteps DEF Steps, chainVars
  <2> QED
    BY <1>0, <2>1, RowsKept DEF Writes, At
<1>3. CASE Send(t) /\ ~Quiet(t)
  <2>1. /\ At(t, "send") /\ UNCHANGED <<fate, rows>> /\ Req(t) \in Requests
        /\ \A u \in Tasks \ {t} : task'[u] = task[u]
        /\ UNCHANGED losses \/ Lost(t)
    BY <1>3, SendSteps DEF Steps, chainVars
  <2>2. \A q \in Requests : losses'[q] >= losses[q]
    <3>1. CASE UNCHANGED losses
      BY <1>0, <3>1
    <3>2. CASE Lost(t)
      BY <1>0, <2>1, <3>2 DEF Lost
    <3> QED
      BY <2>1, <3>1, <3>2
  <2> QED
    BY <1>0, <2>1, <2>2, RowsKept DEF Writes, At
<1>4. CASE Confirm(t)
  <2>1. /\ At(t, "confirm") /\ UNCHANGED <<fate, rows>> /\ Req(t) \in Requests
        /\ \A u \in Tasks \ {t} : task'[u] = task[u]
        /\ \/ /\ UNCHANGED losses
              /\ IsAnswer(t) /\ task[t].receipt = "ok" =>
                   task'[t].pc = "record"
           \/ Lost(t)
        /\ Steps(t)
    BY <1>4, ConfirmSteps DEF Steps, chainVars
  <2>2. \A q \in Requests : losses'[q] >= losses[q]
    <3>1. CASE UNCHANGED losses
      BY <1>0, <3>1
    <3>2. CASE Lost(t)
      BY <1>0, <2>1, <3>2 DEF Lost
    <3> QED
      BY <2>1, <3>1, <3>2
  <2>3. CASE Lost(t)
    <3>1. losses'[Req(t)] > losses[Req(t)]
      BY <1>0, <2>1, <2>3 DEF Lost
    <3> QED
      BY <1>0, <2>1, <2>2, <3>1, RowsKept
  <2>4. CASE ~Lost(t) /\ IsAnswer(t)
    <3>1. task[t].receipt = "ok" => task'[t].pc = "record" /\ task'[t].request = Req(t)
      BY <2>1, <2>4 DEF Steps, Leaves, Stays, Idle
    <3> QED
      BY <1>0, <2>1, <2>2, <3>1, RowsKept DEF Writes, At
  <2>5. CASE ~IsAnswer(t)
    <3>1. ASSUME NEW q \in Answers, fate[q] = "answered"
          PROVE  \/ <<q, "answer">> \in rows'
                 \/ losses'[q] > 0
                 \/ \E u \in Tasks : Writes(u, q)'
      <4>1. \/ <<q, "answer">> \in rows \/ losses[q] > 0
            \/ \E u \in Tasks : Writes(u, q)
        BY <3>1 DEF RowInv, Writes
      <4>2. \A u \in Tasks : Writes(u, q) => u # t
        BY <2>5 DEF Writes, IsAnswer
      <4>3. \A u \in Tasks : Writes(u, q) => Writes(u, q)'
        BY <2>1, <4>2 DEF Writes, Req, At
      <4>4. losses[q] \in Nat /\ losses'[q] \in Nat /\ losses'[q] >= losses[q]
        BY <2>2, Counts DEF Core, TypeOK
      <4> QED
        BY <2>1, <4>1, <4>3, <4>4
    <3> QED
      BY <2>1, <3>1 DEF RowInv, Writes
  <2> QED
    BY <2>3, <2>4, <2>5
<1> QED
  BY <1>1, <1>2, <1>3, <1>4, TaskKinds, EarlySteps

LEMMA NextRows ==
  ASSUME Core, Core', OutboxInv, RowInv, [Next]_vars
  PROVE  RowInv'
<1>0. losses \in [Requests -> Nat]
  BY DEF Core, TypeOK
<1>1. CASE UNCHANGED vars
  BY <1>1 DEF RowInv, At, Req, vars, chainVars, historyVars
<1>2. ASSUME NEW t \in Tasks, NEW q \in Requests, Deliver(t, q) \/ RetryJob(t, q)
      PROVE  RowInv'
  <2>1. PICK again \in BOOLEAN : Begin(t, q, again)
    BY <1>2 DEF Deliver, RetryJob
  <2>2. UNCHANGED <<fate, rows, losses>>
    BY <2>1 DEF Begin, chainVars
  <2>3. \A p \in Requests : losses'[p] >= losses[p]
    BY <1>0, <2>2
  <2> QED
    BY <2>1, <2>2, <2>3, BeginEffect, RowsKept DEF At, Writes
<1>3. CASE Mine
  <2>1. UNCHANGED <<rows, losses>>
    BY <1>3 DEF Mine, historyVars
  <2> DEFINE p  == outbox[1].request
             t  == outbox[1].sender
             ok == p \in Answers => fate[p] = "open"
  <2>2. /\ p \in Requests /\ 1 \in DOMAIN outbox
        /\ fate' = IF ok THEN [fate EXCEPT ![p] = "answered"] ELSE fate
    BY <1>3, MineEffect DEF Tx
  <2>3. \A u \in Tasks :
          /\ task'[u].request = task[u].request /\ task'[u].pc = task[u].pc
          /\ At(u, "confirm") /\ task[u].receipt = "ok" => task'[u].receipt = "ok"
    <3>1. task \in [Tasks -> TaskRec]
      BY TypeParts DEF Core
    <3> QED
      BY <1>3, <3>1, MineEffect DEF TaskRec
  <2>4. ASSUME NEW q \in Answers, fate'[q] = "answered"
        PROVE  \/ <<q, "answer">> \in rows'
               \/ losses'[q] > 0
               \/ \E u \in Tasks : Writes(u, q)'
    <3>1. CASE fate[q] = "answered"
      BY <2>1, <2>3, <2>4, <3>1 DEF RowInv, Writes, Req, At
    <3>2. CASE fate[q] # "answered"
      <4>1. q = p /\ ok
        <5>1. fate \in [Requests -> Fates] /\ q \in Requests
          BY DEF Core, TypeOK, Requests
        <5>2. ok
          BY <2>2, <2>4, <3>2
        <5>3. fate' = [fate EXCEPT ![p] = "answered"]
          BY <2>2, <5>2
        <5> QED
          BY <2>4, <3>2, <5>1, <5>2, <5>3
      <4>2. CASE t = NoTask
        BY <2>1, <2>2, <4>1, <4>2 DEF OutboxInv
      <4>3. CASE t # NoTask
        <5>1. PICK u \in Tasks : /\ At(u, "confirm") /\ Req(u) = p
                                 /\ task'[u].receipt = "ok"
          <6>1. task \in [Tasks -> TaskRec]
            BY TypeParts DEF Core
          <6>2. /\ t \in Tasks /\ At(t, "confirm") /\ Req(t) = p
                /\ task'[t] = [task[t] EXCEPT !.receipt = "ok"]
            BY <1>3, <4>1, <4>3, MineEffect
          <6> QED
            BY <6>1, <6>2 DEF TaskRec
        <5>2. Writes(u, q)'
          BY <2>3, <4>1, <5>1 DEF Writes, Req, At
        <5> QED
          BY <5>1, <5>2
      <4> QED
        BY <4>2, <4>3
    <3> QED
      BY <3>1, <3>2
  <2> QED
    BY <2>4 DEF RowInv, Writes
<1>4. ASSUME NEW q \in Requests, Withdraw(q) PROVE RowInv'
  <2>1. \A p \in Requests : fate'[p] = "answered" => fate[p] = "answered"
    BY <1>4 DEF Withdraw, Core, TypeOK
  <2> QED
    BY <1>4, <2>1 DEF RowInv, Withdraw, historyVars, At, Req, Requests
<1>5. CASE Crash
  <2>1. ASSUME NEW q \in Answers, fate[q] = "answered"
        PROVE  <<q, "answer">> \in rows \/ losses'[q] > 0
    <3>1. /\ losses[q] \in Nat /\ q \in Requests
          /\ \/ <<q, "answer">> \in rows \/ losses[q] > 0
             \/ \E u \in Tasks : Req(u) = q /\ task[u].pc \in {"confirm", "record"}
      BY <2>1, Counts DEF RowInv, At
    <3>2. /\ losses'[q] \in Nat /\ losses'[q] >= losses[q]
          /\ (\E u \in Tasks : Req(u) = q /\ task[u].pc \in {"confirm", "record"}) =>
               losses'[q] > losses[q]
      BY <1>5, <3>1, CrashEffect
    <3> QED
      BY <3>1, <3>2
  <2> QED
    BY <1>5, <2>1, CrashEffect DEF RowInv
<1> QED
  BY <1>1, <1>2, <1>3, <1>4, <1>5, TaskRows DEF Next

LEMMA NextDrops ==
  ASSUME Core, OutboxInv, NothingDropped, [Next]_vars
  PROVE  NothingDropped'
<1> USE DEF NothingDropped
<1>0. fate \in [Requests -> Fates]
  BY DEF Core, TypeOK
<1>1. CASE UNCHANGED <<fate, job>>
  BY <1>1
<1>2. ASSUME NEW t \in Tasks, Task(t) PROVE NothingDropped'
  <2>1. Steps(t) /\ Req(t) \in Requests /\ UNCHANGED fate
    BY <1>2, TaskKinds, EarlySteps, SendSteps, ConfirmSteps, RecordSteps
    DEF Quiet, chainVars
  <2> QED
    BY <2>1 DEF Steps, Stays, Leaves, Settled
<1>3. CASE Mine
  <2>1. UNCHANGED job /\ \A q \in Requests :
          fate[q] \in {"answered", "cancelled"} => fate'[q] \in {"answered", "cancelled"}
    BY <1>0, <1>3 DEF Mine
  <2> QED
    BY <2>1
<1>4. ASSUME NEW q \in Requests, Withdraw(q) PROVE NothingDropped'
  <2>1. UNCHANGED job /\ \A p \in Requests : fate[p] # "open" => fate'[p] = fate[p]
    BY <1>0, <1>4 DEF Withdraw
  <2> QED
    BY <2>1
<1>5. CASE Crash
  BY <1>5, CrashEffect
<1> QED
  BY <1>1, <1>2, <1>3, <1>4, <1>5
  DEF Next, Deliver, RetryJob, Begin, vars, chainVars, historyVars

-------------------------------------------------------------------------------
(* The order in which transactions take effect.                            *)

\* A task adds at most one transaction to the mempool, for its own request.
LEMMA MempoolGrows ==
  ASSUME Core, OutboxInv, NEW t \in Tasks, Task(t)
  PROVE  /\ Steps(t) /\ Req(t) \in Requests /\ UNCHANGED <<chainVars, retried, crashes>>
         /\ Len(outbox) \in Nat /\ DOMAIN outbox = 1 .. Len(outbox)
         /\ \A i \in 1 .. Len(outbox) :
              outbox[i].request \in Requests /\ outbox'[i].request = outbox[i].request
         /\ \/ DOMAIN outbox' = 1 .. Len(outbox)
            \/ /\ DOMAIN outbox' = 1 .. (Len(outbox) + 1)
               /\ outbox'[Len(outbox) + 1].request = Req(t)
<1>1. Steps(t) /\ Req(t) \in Requests /\ UNCHANGED <<chainVars, retried, crashes>>
  BY TaskKinds, EarlySteps, SendSteps, ConfirmSteps, RecordSteps DEF Quiet, chainVars
<1>2. TypeOK /\ outbox \in Seq(Tx)
  BY DEF Core, TypeOK, Tx
<1>3. /\ Len(outbox) \in Nat /\ DOMAIN outbox = 1 .. Len(outbox)
      /\ \A i \in 1 .. Len(outbox) : outbox[i].request \in Requests
  <2>1. /\ Len(outbox) \in Nat /\ DOMAIN outbox = 1 .. Len(outbox)
        /\ \A i \in 1 .. Len(outbox) : outbox[i] \in Tx
    BY <1>2, LenProperties, ElementOfSeq
  <2> QED
    BY <2>1 DEF Tx
<1>4. CASE UNCHANGED outbox
  BY <1>1, <1>3, <1>4
<1>5. ASSUME NEW s \in Tasks \cup {NoTask}, Broadcast(t, s)
      PROVE  /\ \A i \in 1 .. Len(outbox) : outbox'[i].request = outbox[i].request
             /\ DOMAIN outbox' = 1 .. (Len(outbox) + 1)
             /\ outbox'[Len(outbox) + 1].request = Req(t)
  <2>1. /\ Len(outbox') = Len(outbox) + 1 /\ DOMAIN outbox' = 1 .. Len(outbox')
        /\ \A i \in 1 .. Len(outbox) : outbox'[i] = outbox[i]
        /\ outbox'[Len(outbox) + 1] = [request |-> Req(t), sender |-> s]
    BY <1>1, <1>2, <1>5, BroadcastBooks
  <2> QED
    BY <2>1
<1>6. CASE outbox' = Detached(outbox, {t})
  <2>1. \A s : /\ DOMAIN Detached(outbox, s) = DOMAIN outbox
               /\ \A i \in DOMAIN outbox :
                    Detached(outbox, s)[i].request = outbox[i].request
    BY <1>2, DetachedBooks
  <2> QED
    BY <1>1, <1>3, <1>6, <2>1
<1>7. \/ UNCHANGED outbox \/ outbox' = Detached(outbox, {t})
      \/ \E s \in Tasks \cup {NoTask} : Broadcast(t, s)
  BY TaskKinds, EarlySteps, SendSteps, ConfirmSteps, RecordSteps DEF Quiet
<1> QED
  BY <1>1, <1>3, <1>4, <1>5, <1>6, <1>7

LEMMA TaskOrder ==
  ASSUME Core, OutboxInv, OrderInv, NEW t \in Tasks, Task(t)
  PROVE  OrderInv'
<1> DEFINE n == Len(outbox)
<1>1. /\ Steps(t) /\ Req(t) \in Requests /\ UNCHANGED <<fate, written, retried, crashes>>
      /\ n \in Nat /\ DOMAIN outbox = 1 .. n
      /\ \A i \in 1 .. n :
           outbox[i].request \in Requests /\ outbox'[i].request = outbox[i].request
      /\ \/ DOMAIN outbox' = 1 .. n
         \/ DOMAIN outbox' = 1 .. (n + 1) /\ outbox'[n + 1].request = Req(t)
  BY MempoolGrows DEF chainVars
<1> HIDE DEF n
<1>2. ASSUME NEW u \in Tasks
      PROVE  \/ /\ task'[u].request = task[u].request /\ task'[u].retry = task[u].retry
                /\ u = t => job' = job
             \/ u = t /\ task'[u].request = 0 /\ task'[u].retry = FALSE
  BY <1>1 DEF Steps, Stays, Leaves, Req, Idle
<1>3. \A q \in Requests : job'[q] = job[q] \/ (q = Req(t) /\ job'[q] # "waiting")
  BY <1>1 DEF Steps, Stays, Leaves
<1>4. \A u \in Tasks : task'[u].retry => Req(u)' \in retried
  BY <1>2 DEF OrderInv, Req
<1>5. ASSUME crashes = 0 PROVE FirstRuns'
  <2>0. FirstRuns /\ 0 \notin Requests
    BY <1>5, HandlerAssumption DEF OrderInv
  <2>1. ASSUME NEW u \in Tasks, NEW v \in Tasks, task'[u].request # 0,
               task'[u].request = task'[v].request, ~task'[u].retry
        PROVE  u = v
    <3>1. /\ task[u].request # 0 /\ task[u].request = task[v].request /\ ~task[u].retry
      BY <1>2, <2>1
    <3> QED
      BY <2>0, <3>1 DEF FirstRuns, Req
  <2>2. ASSUME NEW u \in Tasks, task'[u].request # 0
        PROVE  task'[u].retry <=> job'[task'[u].request] # "waiting"
    <3>1. task'[u].request = task[u].request /\ (task'[u].retry <=> task[u].retry)
      BY <1>2, <2>2
    <3>2. task[u].retry <=> job[task[u].request] # "waiting"
      BY <2>0, <2>2, <3>1 DEF FirstRuns, Req
    <3>3. task[u].request \in Requests
      BY <2>2, <3>1, TaskFacts DEF Req
    <3>4. CASE job'[task[u].request] = job[task[u].request]
      BY <3>1, <3>2, <3>4
    <3>5. CASE job'[task[u].request] # job[task[u].request]
      <4>1. task[u].request = Req(t) /\ job'[task[u].request] # "waiting"
        BY <1>3, <3>3, <3>5
      <4>2. CASE task[u].retry
        BY <3>1, <4>1, <4>2
      <4>3. CASE ~task[u].retry
        <5>1. u = t
          BY <2>0, <2>2, <3>1, <4>1, <4>3 DEF FirstRuns, Req
        <5> QED
          BY <1>2, <2>2, <3>5, <5>1
      <4> QED
        BY <4>2, <4>3
    <3> QED
      BY <3>4, <3>5
  <2>3. ASSUME NEW q \in Requests, Begun(q)' PROVE Begun(q)
    <3>1. CASE job'[q] # "waiting"
      BY <1>1, <1>3, <3>1 DEF Begun
    <3>2. CASE \E u \in Tasks : task'[u].request = q
      BY <1>2, <2>0, <3>2 DEF Begun, Req
    <3>3. CASE \E i \in DOMAIN written : written[i] = q
      BY <3>3 DEF Begun
    <3>4. CASE \E i \in DOMAIN outbox' : outbox'[i].request = q
      <4>1. PICK i \in DOMAIN outbox' : outbox'[i].request = q
        BY <3>4
      <4>2. i \in 1 .. n \/ outbox'[i].request = Req(t)
        BY <1>1
      <4> QED
        BY <1>1, <4>1, <4>2 DEF Begun
    <3> QED
      BY <1>1, <2>3, <3>1, <3>2, <3>3, <3>4 DEF Begun, Req
  <2>4. \A p, q \in Requests :
          Begun(q)' /\ BatchOf(p) < BatchOf(q) => job'[p] # "waiting"
    BY <1>3, <2>0, <2>3 DEF FirstRuns
  <2> QED
    BY <2>1, <2>2, <2>4 DEF FirstRuns, Req
<1>6. ASSUME crashes = 0 PROVE LandInOrder'
  <2>0. FirstRuns /\ LandInOrder /\ 0 \notin Requests
    BY <1>6, HandlerAssumption DEF OrderInv
  <2>1. ASSUME NEW q \in Requests, Begun(q), BatchOf(Req(t)) < BatchOf(q)
        PROVE  Req(t) \in retried
    BY <1>1, <2>0, <2>1 DEF FirstRuns, OrderInv
  <2>2. ASSUME NEW i \in DOMAIN outbox', NEW j \in DOMAIN outbox', j < i
        PROVE  MayFollow(outbox'[i].request, outbox'[j].request)
    <3>1. j \in 1 .. n /\ (i \in 1 .. n \/ outbox'[i].request = Req(t))
      BY <1>1, <2>2
    <3>2. CASE i \in 1 .. n
      BY <1>1, <2>0, <2>2, <3>1, <3>2 DEF LandInOrder, MayFollow
    <3>3. CASE outbox'[i].request = Req(t)
      <4>1. Begun(outbox[j].request) /\ outbox'[j].request = outbox[j].request
        BY <1>1, <3>1 DEF Begun
      <4> QED
        BY <1>1, <2>1, <3>1, <3>3, <4>1 DEF MayFollow
    <3> QED
      BY <3>1, <3>2, <3>3
  <2>3. ASSUME NEW i \in DOMAIN outbox', NEW j \in DOMAIN written
        PROVE  MayFollow(outbox'[i].request, written[j])
    <3>1. i \in 1 .. n \/ outbox'[i].request = Req(t)
      BY <1>1
    <3>2. CASE i \in 1 .. n
      BY <1>1, <2>0, <3>2 DEF LandInOrder, MayFollow
    <3>3. CASE outbox'[i].request = Req(t)
      <4>1. Begun(written[j])
        BY DEF Begun
      <4>2. written \in Seq(Requests)
        BY DEF Core, TypeOK
      <4>3. written[j] \in Requests
        BY <4>2, ElementOfSeq, LenProperties
      <4> QED
        BY <2>1, <3>3, <4>1, <4>3 DEF MayFollow
    <3> QED
      BY <3>1, <3>2, <3>3
  <2>4. \A i, j \in DOMAIN written : j < i => MayFollow(written[i], written[j])
    BY <2>0 DEF LandInOrder
  <2> QED
    BY <1>1, <2>2, <2>3, <2>4 DEF LandInOrder, MayFollow
<1> QED
  BY <1>1, <1>4, <1>5, <1>6 DEF OrderInv

LEMMA BeginOrder ==
  ASSUME Core, OrderInv, NEW t \in Tasks, NEW q \in Requests, Deliver(t, q) \/ RetryJob(t, q)
  PROVE  OrderInv'
<1>1. PICK again \in BOOLEAN :
        /\ Begin(t, q, again)
        /\ again => job[q] # "waiting"
        /\ ~again => /\ job[q] = "waiting" /\ \A u \in Tasks : Req(u) # q
                     /\ \A p \in Requests : BatchOf(p) < BatchOf(q) => job[p] # "waiting"
  BY DEF Deliver, RetryJob
<1>2. /\ task'[t].request = q /\ task'[t].retry = again /\ Req(t) = 0
      /\ \A u \in Tasks \ {t} : task'[u] = task[u]
  BY <1>1, BeginEffect
<1>3. /\ UNCHANGED <<written, outbox, job, crashes>>
      /\ retried \subseteq retried' /\ (again => q \in retried')
  BY <1>1 DEF Begin, chainVars
<1>4. \A u \in Tasks : task'[u].retry => Req(u)' \in retried'
  BY <1>2, <1>3 DEF OrderInv, Req
<1>5. ASSUME crashes = 0 PROVE FirstRuns'
  <2>0. FirstRuns
    BY <1>5 DEF OrderInv
  <2>1. ASSUME NEW u \in Tasks, NEW v \in Tasks, task'[u].request # 0,
               task'[u].request = task'[v].request, ~task'[u].retry
        PROVE  u = v
    <3>1. CASE u = t
      <4>1. ~again
        BY <1>2, <2>1, <3>1
      <4> QED
        BY <1>1, <1>2, <2>1, <3>1, <4>1 DEF Req
    <3>2. CASE u # t /\ v # t
      BY <1>2, <2>0, <2>1, <3>2 DEF FirstRuns, Req
    <3>3. CASE u # t /\ v = t
      <4>1. task[u].request = q /\ ~task[u].retry /\ Req(u) # 0
        BY <1>2, <2>1, <3>3 DEF Req
      <4>2. job[q] = "waiting"
        BY <2>0, <4>1 DEF FirstRuns, Req
      <4> QED
        BY <1>1, <4>1, <4>2 DEF Req
    <3> QED
      BY <3>1, <3>2, <3>3
  <2>2. ASSUME NEW u \in Tasks, task'[u].request # 0
        PROVE  task'[u].retry <=> job[task'[u].request] # "waiting"
    <3>1. CASE u = t
      <4>1. task'[u].request = q /\ task'[u].retry = again
        BY <1>2, <3>1
      <4>2. again <=> job[q] # "waiting"
        BY <1>1
      <4> QED
        BY <4>1, <4>2
    <3>2. CASE u # t
      BY <1>2, <2>0, <2>2, <3>2 DEF FirstRuns, Req
    <3> QED
      BY <3>1, <3>2
  <2>3. ASSUME NEW p \in Requests, NEW r \in Requests, Begun(r)', BatchOf(p) < BatchOf(r)
        PROVE  job[p] # "waiting"
    <3>1. CASE Begun(r)
      BY <2>0, <2>3, <3>1 DEF FirstRuns
    <3>2. CASE ~Begun(r)
      <4>1. r = q /\ ~again
        BY <1>1, <1>2, <1>3, <2>3, <3>2 DEF Begun, Req
      <4> QED
        BY <1>1, <2>3, <4>1
    <3> QED
      BY <3>1, <3>2
  <2> QED
    BY <1>3, <2>1, <2>2, <2>3 DEF FirstRuns, Req
<1>6. ASSUME crashes = 0 PROVE LandInOrder'
  BY <1>3, <1>6 DEF OrderInv, LandInOrder, MayFollow
<1> QED
  BY <1>3, <1>4, <1>5, <1>6 DEF OrderInv

LEMMA MineOrder ==
  ASSUME Core, OutboxInv, OrderInv, Mine
  PROVE  OrderInv'
<1> DEFINE q  == outbox[1].request
           ok == q \in Answers => fate[q] = "open"
<1>1. /\ q \in Requests /\ 1 \in DOMAIN outbox
      /\ written' = IF ok THEN Append(written, q) ELSE written
      /\ DOMAIN outbox' = 1 .. Len(outbox') /\ DOMAIN outbox = 1 .. Len(outbox)
      /\ \A i \in DOMAIN outbox' :
           i + 1 \in DOMAIN outbox /\ outbox'[i] = outbox[i + 1]
  BY MineEffect DEF Tx
<1>2. UNCHANGED <<job, retried, crashes>>
  BY DEF Mine, historyVars
<1>3. \A u \in Tasks : task'[u].request = task[u].request /\ task'[u].retry = task[u].retry
  <2>1. task \in [Tasks -> TaskRec]
    BY TypeParts DEF Core
  <2> QED
    BY <2>1, MineEffect DEF TaskRec
<1>4. /\ written \in Seq(Requests) /\ Len(written) \in Nat
      /\ DOMAIN written = 1 .. Len(written)
  <2>1. written \in Seq(Requests)
    BY DEF Core, TypeOK
  <2> QED
    BY <2>1, LenProperties
<1>5. \A i \in DOMAIN written' :
        \/ i \in DOMAIN written /\ written'[i] = written[i]
        \/ i = Len(written) + 1 /\ written'[i] = q
  <2>1. CASE ~ok
    BY <1>1, <2>1
  <2>2. CASE ok
    <3>1. /\ Append(written, q) \in Seq(Requests)
          /\ Len(Append(written, q)) = Len(written) + 1
          /\ \A i \in 1 .. Len(written) : Append(written, q)[i] = written[i]
          /\ Append(written, q)[Len(written) + 1] = q
      BY <1>1, <1>4, AppendProperties
    <3>2. written' = Append(written, q) /\ DOMAIN written' = 1 .. (Len(written) + 1)
      BY <1>1, <2>2, <3>1, LenProperties
    <3> QED
      BY <1>4, <3>1, <3>2
  <2> QED
    BY <2>1, <2>2
<1> HIDE DEF q, ok
<1>6. ASSUME crashes = 0 PROVE FirstRuns'
  <2>0. FirstRuns
    BY <1>6 DEF OrderInv
  <2>1. ASSUME NEW r \in Requests, Begun(r)' PROVE Begun(r)
    <3>1. ASSUME NEW i \in DOMAIN outbox', outbox'[i].request = r PROVE Begun(r)
      BY <1>1, <3>1 DEF Begun
    <3>2. ASSUME NEW i \in DOMAIN written', written'[i] = r PROVE Begun(r)
      BY <1>1, <1>5, <3>2 DEF Begun, q
    <3> QED
      BY <1>2, <1>3, <2>1, <3>1, <3>2 DEF Begun, Req
  <2> QED
    BY <1>2, <1>3, <2>0, <2>1 DEF FirstRuns, Req
<1>7. ASSUME crashes = 0 PROVE LandInOrder'
  <2>0. LandInOrder
    BY <1>7 DEF OrderInv
  <2>1. ASSUME NEW i \in DOMAIN outbox', NEW j \in DOMAIN outbox', j < i
        PROVE  MayFollow(outbox'[i].request, outbox'[j].request)
    <3>1. /\ i + 1 \in DOMAIN outbox /\ j + 1 \in DOMAIN outbox /\ j + 1 < i + 1
          /\ outbox'[i] = outbox[i + 1] /\ outbox'[j] = outbox[j + 1]
      BY <1>1, <2>1
    <3> QED
      BY <2>0, <3>1 DEF LandInOrder
  <2>2. ASSUME NEW i \in DOMAIN outbox', NEW j \in DOMAIN written'
        PROVE  MayFollow(outbox'[i].request, written'[j])
    <3>1. i + 1 \in DOMAIN outbox /\ outbox'[i] = outbox[i + 1] /\ 1 < i + 1
      BY <1>1
    <3>2. CASE j \in DOMAIN written /\ written'[j] = written[j]
      BY <2>0, <3>1, <3>2 DEF LandInOrder
    <3>3. CASE written'[j] = q
      BY <1>1, <2>0, <3>1, <3>3 DEF LandInOrder, q
    <3> QED
      BY <1>5, <3>2, <3>3
  <2>3. ASSUME NEW i \in DOMAIN written', NEW j \in DOMAIN written', j < i
        PROVE  MayFollow(written'[i], written'[j])
    <3>1. j \in DOMAIN written /\ written'[j] = written[j]
      <4>1. DOMAIN written' \subseteq 1 .. (Len(written) + 1)
        BY <1>4, <1>5
      <4> QED
        BY <1>4, <1>5, <2>3, <4>1
    <3>2. CASE i \in DOMAIN written /\ written'[i] = written[i]
      BY <2>0, <2>3, <3>1, <3>2 DEF LandInOrder
    <3>3. CASE written'[i] = q
      BY <1>1, <2>0, <3>1, <3>3 DEF LandInOrder, q
    <3> QED
      BY <1>5, <3>2, <3>3
  <2> QED
    BY <1>2, <2>1, <2>2, <2>3 DEF LandInOrder, MayFollow
<1>8. \A u \in Tasks : task'[u].retry => Req(u)' \in retried'
  BY <1>2, <1>3 DEF OrderInv, Req
<1> QED
  BY <1>2, <1>6, <1>7, <1>8 DEF OrderInv

LEMMA NextOrder ==
  ASSUME Core, OutboxInv, OrderInv, [Next]_vars
  PROVE  OrderInv'
<1>1. CASE UNCHANGED <<written, outbox, task, job, retried, crashes>>
  BY <1>1 DEF OrderInv, FirstRuns, LandInOrder, MayFollow, Begun, Req
<1>2. CASE Crash
  <2>1. crashes' # 0 /\ \A t \in Tasks : ~task'[t].retry
    BY <1>2, CrashEffect DEF Idle
  <2> QED
    BY <2>1 DEF OrderInv, Req
<1> QED
  BY <1>1, <1>2, TaskOrder, BeginOrder, MineOrder
  DEF Next, Withdraw, vars, chainVars, historyVars

-------------------------------------------------------------------------------
(* The theorems.                                                           *)

HandlerInv ==
  Core /\ OutboxInv /\ SendInv /\ RowInv /\ NothingDropped /\ OrderInv

LEMMA InitInv == Init => HandlerInv
<1> SUFFICES ASSUME Init PROVE HandlerInv
  OBVIOUS
<1>1. /\ task = [t \in Tasks |-> Idle] /\ outbox = <<>> /\ written = <<>>
      /\ fate = [q \in Requests |-> "open"] /\ job = [q \in Requests |-> "waiting"]
      /\ sends = [q \in Requests |-> 0] /\ losses = [q \in Requests |-> 0]
  BY DEF Init
<1>2. DOMAIN outbox = {} /\ DOMAIN written = {}
  BY <1>1
<1>3. \A t \in Tasks : task[t].request = 0 /\ ~task[t].retry /\ task[t].receipt = "none"
  BY <1>1 DEF Idle
<1>4. OutboxInv
  BY <1>2, <1>3 DEF OutboxInv
<1>5. SendInv /\ RowInv
  BY <1>1 DEF SendInv, RowInv, Requests
<1>6. NothingDropped
  BY <1>1 DEF NothingDropped
<1>7. OrderInv
  <2>1. 0 \notin Requests
    BY HandlerAssumption
  <2>2. \A q \in Requests : ~Begun(q)
    BY <1>1, <1>2, <1>3, <2>1 DEF Begun, Req
  <2> QED
    BY <1>2, <1>3, <2>2 DEF OrderInv, FirstRuns, LandInOrder, Req
<1> QED
  BY <1>4, <1>5, <1>6, <1>7, InitCore DEF HandlerInv

LEMMA NextInv == HandlerInv /\ [Next]_vars => HandlerInv'
  BY NextCore, NextMempool, NextCounts, NextRows, NextDrops, NextOrder DEF HandlerInv

\* The invariant holds: mutual exclusion, who waits for which transaction, and
\* what each task, count and row says of the chain.
THEOREM HandlerInvariant == Spec => []HandlerInv
  BY InitInv, NextInv, PTL DEF Spec

\* Every variable of the handlers has its type, and only tasks that want the
\* wallet stand in line for it, for any number of requests, slots and faults.
THEOREM HandlerTypes == Spec => []TypeOK
<1>1. HandlerInv => TypeOK
  BY DEF HandlerInv, Core
<1> QED
  BY <1>1, HandlerInvariant, PTL

\* A second transaction is sent for an answer only if the process lost track of
\* an earlier one: handleSubmission's check under txMutex.
THEOREM AnswersSentOnce == Spec => []SentOnce
<1>1. HandlerInv => SentOnce
  BY DEF HandlerInv, SendInv, SentOnce
<1> QED
  BY <1>1, HandlerInvariant, PTL

\* A request leaves the loop's books without an alert only if the chain has its
\* result, it was withdrawn, or it was malformed.
THEOREM NoRequestDropped == Spec => []NothingDropped
<1>1. HandlerInv => NothingDropped
  BY DEF HandlerInv
<1> QED
  BY <1>1, HandlerInvariant, PTL

\* Every answer on the chain has its row in the daily summary, is about to get
\* it, or belongs to a transaction the process lost track of.
THEOREM EveryAnswerCounted == Spec => []AnswersCounted
<1>1. HandlerInv => AnswersCounted
  BY DEF HandlerInv, RowInv, AnswersCounted, At
<1> QED
  BY <1>1, HandlerInvariant, PTL

\* Storage is paid for a request that was finalized before its handler began
\* only if both early checks failed.
THEOREM NoStorageForFinalized == Spec => []NoWorkForFinalized
<1>1. HandlerInv => NoWorkForFinalized
  BY DEF HandlerInv, Core, TaskInv, CheckOK, NoWorkForFinalized
<1> QED
  BY <1>1, HandlerInvariant, PTL

\* Without a crash, requests of different batches take effect in the order of
\* their batches, unless the earlier one was retried; the property says so of
\* the updates of a conversation, the invariant of every request.
THEOREM LaterBatchesLandLater == Spec => []BatchesLandInOrder
<1>1. HandlerInv => BatchesLandInOrder
  <2> SUFFICES ASSUME OrderInv, crashes = 0,
                      NEW i \in DOMAIN written, NEW j \in DOMAIN written,
                      BatchOf(written[i]) < BatchOf(written[j]), j < i
               PROVE  written[i] \in retried
    BY DEF HandlerInv, BatchesLandInOrder
  <2> QED
    BY DEF OrderInv, LandInOrder, MayFollow
<1> QED
  BY <1>1, HandlerInvariant, PTL

===============================================================================
