------------------------------ MODULE PollCursor ------------------------------
(***************************************************************************)
(* The cursor of the polling loop (pollEvents in                           *)
(* oracle/src/aiAgentOracle.js) and its reconciliation with a chain that   *)
(* may drop blocks (oracle/src/blockCursor.js).                            *)
(*                                                                         *)
(* A reorganization is a Revert followed by MineBlock steps.  A revert     *)
(* takes the oracle's answers to the dropped events away with them, so an  *)
(* event mined again has to be processed again.                            *)
(***************************************************************************)
EXTENDS Integers, FiniteSets

CONSTANTS
  Events,
  MaxBlock,       \* bound: the highest block
  MaxReverts,     \* bound
  BatchSize,      \* EVENT_BATCH_SIZE
  DropsAreSeen    \* whether the loop polls after each drop of the head, before
                  \* the chain grows again

ASSUME CursorAssumption ==
  /\ MaxBlock \in Nat
  /\ MaxReverts \in Nat
  /\ BatchSize \in Nat \ {0}
  /\ DropsAreSeen \in BOOLEAN

VARIABLES
  blockOf,      \* the block an event is mined in, 0 while it is in none
  head,         \* the latest block
  reverts,
  unseenDrop,   \* whether the head fell below what the loop has scanned or is
                \* about to, and the loop has not asked for the head since
  pc,           \* of the loop: before getBlockNumber, queryFilter, or the end
                \* of the batch
  cursor,       \* currentBlock
  batchTo,      \* toBlock
  processed     \* events processed where they are mined now

chain == <<blockOf, head, reverts>>
vars  == <<chain, unseenDrop, pc, cursor, batchTo, processed>>

Init ==
  /\ blockOf = [e \in Events |-> 0]
  /\ head = 0
  /\ reverts = 0
  /\ unseenDrop = FALSE
  /\ pc = "poll"
  /\ cursor = 0
  /\ batchTo = 0
  /\ processed = {}

\* External: a block with some of the events that are in none.
MineBlock(mined) ==
  /\ head < MaxBlock
  /\ DropsAreSeen => ~unseenDrop
  /\ \A e \in mined : blockOf[e] = 0
  /\ head' = head + 1
  /\ blockOf' = [e \in Events |-> IF e \in mined THEN head + 1 ELSE blockOf[e]]
  /\ UNCHANGED <<reverts, unseenDrop, pc, cursor, batchTo, processed>>

\* External: the blocks above f are dropped.
Revert(f) ==
  /\ reverts < MaxReverts
  /\ f < head
  /\ reverts' = reverts + 1
  /\ head' = f
  /\ blockOf' = [e \in Events |-> IF blockOf[e] > f THEN 0 ELSE blockOf[e]]
  /\ processed' = {e \in processed : blockOf[e] <= f}
  /\ unseenDrop' = (unseenDrop \/ f < cursor \/ f < batchTo)
  /\ UNCHANGED <<pc, cursor, batchTo>>

\* Mutation of Reconciled: a drop of the head is ignored.
ReconciledNever(current, latest) == current

Reconciled(current, latest) ==
  IF latest < current THEN (IF latest > 0 THEN latest - 1 ELSE 0) ELSE current

\* Mutation of PollHead: a batch is not cut at the head.
PollHeadUncut ==
  LET current == Reconciled(cursor, head)
  IN  /\ pc = "poll"
      /\ unseenDrop' = FALSE
      /\ cursor' = current
      /\ batchTo' = IF head > current THEN current + BatchSize ELSE current
      /\ pc' = IF head > current THEN "query" ELSE pc
      /\ UNCHANGED <<chain, processed>>

\* getBlockNumber returns: the cursor is rewound if the head fell below it, and
\* the next batch is chosen if there are blocks above it.
PollHead ==
  LET current == Reconciled(cursor, head)
      end     == current + BatchSize
  IN  /\ pc = "poll"
      /\ unseenDrop' = FALSE
      /\ cursor' = current
      /\ IF head > current
           THEN /\ pc' = "query"
                /\ batchTo' = IF end < head THEN end ELSE head
           ELSE /\ batchTo' = current
                /\ UNCHANGED pc
      /\ UNCHANGED <<chain, processed>>

\* queryFilter returns what the chain holds by now, and the tasks start.
QueryBatch ==
  /\ pc = "query"
  /\ pc' = "process"
  /\ processed' = processed \cup
       {e \in Events : blockOf[e] \in (cursor + 1) .. batchTo}
  /\ UNCHANGED <<chain, unseenDrop, cursor, batchTo>>

\* Mutation of FinishBatch: the cursor moves to the head of the day.
FinishBatchAtHead ==
  /\ pc = "process"
  /\ pc' = "poll"
  /\ cursor' = head
  /\ UNCHANGED <<chain, unseenDrop, batchTo, processed>>

\* All tasks are over.
FinishBatch ==
  /\ pc = "process"
  /\ pc' = "poll"
  /\ cursor' = batchTo
  /\ UNCHANGED <<chain, unseenDrop, batchTo, processed>>

Poll == PollHead \/ QueryBatch \/ FinishBatch

Next ==
  \/ \E mined \in SUBSET Events : MineBlock(mined)
  \/ \E f \in 0 .. MaxBlock : Revert(f)
  \/ Poll

Spec == Init /\ [][Next]_vars

\* The loop polls for ever, and handlers end.
FairSpec == Spec /\ WF_vars(Poll)

-------------------------------------------------------------------------------
(* Properties.                                                             *)

\* Types.  Neither the cursor nor a batch leaves the chain.
TypeOK ==
  /\ blockOf \in [Events -> 0 .. MaxBlock]
  /\ head \in 0 .. MaxBlock
  /\ reverts \in 0 .. MaxReverts
  /\ unseenDrop \in BOOLEAN
  /\ pc \in {"poll", "query", "process"}
  /\ cursor \in 0 .. MaxBlock
  /\ batchTo \in 0 .. MaxBlock
  /\ processed \subseteq Events

\* What the cursor has passed is processed, wherever reverts hit: between the
\* query of the head and that of the events, or while the tasks of a batch run.
NothingBelowCursorMissed ==
  DropsAreSeen =>
    \A e \in Events : blockOf[e] \in 1 .. cursor => e \in processed

\* oracle/src/aiAgentOracle.js:2495 "Reorg/revert reconciliation: if the head
\* has dropped below our cursor [...] rewind so the re-mined blocks get
\* re-scanned instead of being skipped forever": every event that is mined is
\* processed, unless it is dropped again.
ReminedEventsProcessed ==
  \A e \in Events : (blockOf[e] > 0) ~> (e \in processed \/ blockOf[e] = 0)

===============================================================================
