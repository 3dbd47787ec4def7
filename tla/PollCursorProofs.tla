--------------------------- MODULE PollCursorProofs ---------------------------
(* What PollCursor guarantees for any events, chain and batch size. *)
EXTENDS PollCursor, TLAPS

\* Once the loop has asked for the head it works below it.
BelowHead == ~unseenDrop => cursor <= head /\ batchTo <= head

\* While the tasks of a batch run, they are those of all its events.
BatchComplete ==
  pc = "process" => \A e \in Events : blockOf[e] \in 1 .. batchTo => e \in processed

\* The inductive invariant behind NothingBelowCursorMissed: the block that
\* FinishBatch moves the cursor to has to be complete, and a block mined now has
\* to lie above the cursor and above the batch.
CursorInv ==
  /\ TypeOK
  /\ DropsAreSeen => BelowHead /\ BatchComplete
  /\ NothingBelowCursorMissed

LEMMA CursorInit == Init => CursorInv
  <1> SUFFICES ASSUME Init  PROVE CursorInv
    OBVIOUS
  <1>1. TypeOK
    <2>1. /\ blockOf \in [Events -> 0 .. MaxBlock]
          /\ head \in 0 .. MaxBlock /\ cursor \in 0 .. MaxBlock
          /\ batchTo \in 0 .. MaxBlock /\ reverts \in 0 .. MaxReverts
      BY CursorAssumption DEF Init
    <2>2. /\ unseenDrop \in BOOLEAN /\ processed \subseteq Events
          /\ pc \in {"poll", "query", "process"}
      BY DEF Init
    <2> QED BY <2>1, <2>2 DEF TypeOK
  <1>2. BelowHead /\ BatchComplete
    BY DEF Init, BelowHead, BatchComplete
  <1>3. NothingBelowCursorMissed
    BY DEF Init, NothingBelowCursorMissed
  <1> QED BY <1>1, <1>2, <1>3 DEF CursorInv

\* Rewinding never moves the cursor up, and leaves it at the head or below.
LEMMA ReconciledBelow ==
  ASSUME NEW current \in Nat, NEW latest \in Nat
  PROVE  /\ Reconciled(current, latest) \in Nat
         /\ Reconciled(current, latest) <= current
         /\ Reconciled(current, latest) <= latest
  BY DEF Reconciled

LEMMA CursorStep == CursorInv /\ [Next]_vars => CursorInv'
  <1> SUFFICES ASSUME CursorInv, [Next]_vars  PROVE CursorInv'
    OBVIOUS
  <1> USE CursorAssumption DEF CursorInv
  <1>1. ASSUME NEW mined \in SUBSET Events, MineBlock(mined)  PROVE CursorInv'
    <2>1. TypeOK'
      BY <1>1 DEF MineBlock, TypeOK
    <2>2. DropsAreSeen => BelowHead'
      BY <1>1 DEF MineBlock, BelowHead, TypeOK
    <2>3. DropsAreSeen => BatchComplete'
      BY <1>1 DEF MineBlock, BatchComplete, BelowHead, TypeOK
    <2>4. NothingBelowCursorMissed'
      BY <1>1 DEF MineBlock, NothingBelowCursorMissed, BelowHead, TypeOK
    <2> QED BY <2>1, <2>2, <2>3, <2>4
  <1>2. ASSUME NEW f \in 0 .. MaxBlock, Revert(f)  PROVE CursorInv'
    <2> DEFINE dropped == f < cursor \/ f < batchTo
    <2>0. unseenDrop' \in BOOLEAN /\ (~unseenDrop' => ~dropped)
      <3>1. unseenDrop' = (unseenDrop \/ dropped)
        BY <1>2 DEF Revert
      <3> HIDE DEF dropped
      <3> QED BY <3>1, Zenon
    <2>1. TypeOK'
      <3>1. /\ blockOf' \in [Events -> 0 .. MaxBlock]
            /\ head' \in 0 .. MaxBlock /\ reverts' \in 0 .. MaxReverts
        BY <1>2 DEF Revert, TypeOK
      <3>2. processed' \subseteq Events /\ UNCHANGED <<pc, cursor, batchTo>>
        BY <1>2 DEF Revert, TypeOK
      <3> QED BY <2>0, <3>1, <3>2 DEF TypeOK
    <2>2. DropsAreSeen => BelowHead'
      <3>1. head' = f /\ UNCHANGED <<cursor, batchTo>>
        BY <1>2 DEF Revert
      <3> QED BY <2>0, <3>1 DEF BelowHead, TypeOK
    <2>3. DropsAreSeen => BatchComplete'
      BY <1>2 DEF Revert, BatchComplete, TypeOK
    <2>4. NothingBelowCursorMissed'
      BY <1>2 DEF Revert, NothingBelowCursorMissed, TypeOK
    <2> QED BY <2>1, <2>2, <2>3, <2>4
  <1>3. CASE PollHead
    <2> DEFINE current == Reconciled(cursor, head)
    <2>1. current \in Nat /\ current <= cursor /\ current <= head
      BY ReconciledBelow DEF TypeOK
    <2>2. /\ cursor' = current
          /\ unseenDrop' = FALSE
          /\ UNCHANGED <<blockOf, head, reverts, processed>>
          /\ pc' \in {"poll", "query"}
          /\ batchTo' \in Nat
          /\ batchTo' <= head
      <3> HIDE DEF current
      <3>1. CASE head > current
        BY <1>3, <2>1, <3>1 DEF PollHead, chain, TypeOK, current
      <3>2. CASE ~(head > current)
        BY <1>3, <2>1, <3>2 DEF PollHead, chain, TypeOK, current
      <3> QED BY <3>1, <3>2
    <2> HIDE DEF current
    <2>3. TypeOK'
      <3>1. unseenDrop' \in BOOLEAN
        BY <2>2, Zenon
      <3>2. /\ cursor' \in 0 .. MaxBlock /\ batchTo' \in 0 .. MaxBlock
            /\ pc' \in {"poll", "query", "process"}
        BY <2>1, <2>2 DEF TypeOK
      <3> QED BY <2>2, <3>1, <3>2 DEF TypeOK
    <2>4. BelowHead' /\ BatchComplete'
      BY <2>1, <2>2 DEF BelowHead, BatchComplete
    <2>5. NothingBelowCursorMissed'
      BY <2>1, <2>2 DEF NothingBelowCursorMissed, TypeOK
    <2> QED BY <2>3, <2>4, <2>5
  <1>4. CASE QueryBatch
    <2>1. TypeOK'
      BY <1>4 DEF QueryBatch, chain, TypeOK
    <2>2. DropsAreSeen => BelowHead'
      BY <1>4 DEF QueryBatch, chain, BelowHead
    <2>3. DropsAreSeen => BatchComplete'
      BY <1>4 DEF QueryBatch, chain, BatchComplete, NothingBelowCursorMissed, TypeOK
    <2>4. NothingBelowCursorMissed'
      BY <1>4 DEF QueryBatch, chain, NothingBelowCursorMissed
    <2> QED BY <2>1, <2>2, <2>3, <2>4
  <1>5. CASE FinishBatch
    <2>1. TypeOK'
      BY <1>5 DEF FinishBatch, chain, TypeOK
    <2>2. DropsAreSeen => BelowHead' /\ BatchComplete'
      BY <1>5 DEF FinishBatch, chain, BelowHead, BatchComplete
    <2>3. NothingBelowCursorMissed'
      BY <1>5 DEF FinishBatch, chain, NothingBelowCursorMissed, BatchComplete
    <2> QED BY <2>1, <2>2, <2>3
  <1>6. CASE UNCHANGED vars
    BY <1>6 DEF vars, chain, TypeOK, BelowHead, BatchComplete,
                NothingBelowCursorMissed
  <1> QED
    BY <1>1, <1>2, <1>3, <1>4, <1>5, <1>6 DEF Next, Poll

\* Every variable of the loop and of its chain keeps its type: neither the
\* cursor nor a batch ever leaves the chain, however blocks are dropped.
THEOREM CursorTypeCorrect == Spec => []TypeOK
  <1>1. CursorInv => TypeOK
    BY DEF CursorInv
  <1> QED BY <1>1, CursorInit, CursorStep, PTL DEF Spec

\* If every drop of the head is polled before the chain grows again, no event
\* that is mined at or below the cursor is ever left unprocessed, wherever in
\* the loop blocks are dropped.
THEOREM NothingMissed == Spec => []NothingBelowCursorMissed
  <1>1. CursorInv => NothingBelowCursorMissed
    BY DEF CursorInv
  <1> QED BY <1>1, CursorInit, CursorStep, PTL DEF Spec

===============================================================================
