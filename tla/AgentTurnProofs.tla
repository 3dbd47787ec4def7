---------------------------- MODULE AgentTurnProofs ----------------------------
(***************************************************************************)
(* Theorems on AgentTurn for any queries, conversations, providers and     *)
(* actions, any slots of the queue and any number of faults: types, the    *)
(* tally of providers, the run that each query has while it waits, whom a  *)
(* thought is attributed to, and which text is the answer.                 *)
(***************************************************************************)
EXTENDS AgentTurn, SequenceTheorems, FiniteSetTheorems, WellFoundedInduction, TLAPS

RunRec == [turn : Turns, thought : Thoughts, action : Labels]
ActRec == [at : {"off", "thinking", "ready", "started", "fetching", "hung", "done"},
           action : Actions \cup {None}, steps : 0..MaxActions,
           length : 0..MaxActions, planned : BOOLEAN, told : BOOLEAN]

(* Lists of runs.                                                          *)

LEMMA SeqFacts ==
  ASSUME NEW S, NEW s \in Seq(S)
  PROVE  /\ Len(s) \in Nat /\ DOMAIN s = 1 .. Len(s)
         /\ \A i \in DOMAIN s : s[i] \in S
  BY LenProperties, ElementOfSeq

LEMMA SameInterval ==
  ASSUME NEW a \in Nat, NEW b \in Nat, 1 .. a = 1 .. b
  PROVE  a = b
<1>1. a > 0 => a \in 1 .. b
  OBVIOUS
<1>2. b > 0 => b \in 1 .. a
  OBVIOUS
<1> QED
  BY <1>1, <1>2

\* What is computed from a list entry by entry is a list as long.
LEMMA MappedSeq ==
  ASSUME NEW S, NEW T, NEW s \in Seq(S), NEW new,
         new = [i \in DOMAIN s |-> new[i]], \A i \in DOMAIN s : new[i] \in T
  PROVE  new \in Seq(T) /\ DOMAIN new = DOMAIN s /\ Len(new) = Len(s)
<1> DEFINE n == Len(s)
<1>1. n \in Nat /\ DOMAIN s = 1 .. n
  BY SeqFacts
<1> HIDE DEF n
<1>2. DOMAIN new = 1 .. n /\ new \in [1 .. n -> T]
  BY <1>1
<1>3. new \in Seq(T)
  BY <1>1, <1>2, SeqDef
<1>4. Len(new) \in Nat /\ DOMAIN new = 1 .. Len(new)
  BY <1>3, LenProperties
<1>5. Len(new) = n
  <2> DEFINE m == Len(new)
  <2>1. m \in Nat /\ 1 .. m = 1 .. n
    BY <1>2, <1>4
  <2> HIDE DEF m
  <2>2. m = n
    BY <1>1, <2>1, SameInterval
  <2> QED
    BY <2>2 DEF m
<1> QED
  BY <1>1, <1>2, <1>3, <1>5 DEF n

\* Removing an entry keeps the others, in their order.
LEMMA RemovedSeq ==
  ASSUME NEW S, NEW s \in Seq(S), NEW k \in DOMAIN s
  PROVE  /\ RemoveAt(s, k) \in Seq(S)
         /\ Len(RemoveAt(s, k)) = Len(s) - 1
         /\ \A i \in 1 .. Len(s) - 1 :
              RemoveAt(s, k)[i] = IF i < k THEN s[i] ELSE s[i + 1]
<1> DEFINE n == Len(s)
           a == SubSeq(s, 1, k - 1)
           b == SubSeq(s, k + 1, n)
<1>1. n \in Nat /\ k \in 1 .. n /\ \A i \in 1 .. n : s[i] \in S
  BY SeqFacts
<1>2. /\ a \in Seq(S) /\ Len(a) = k - 1
      /\ \A i \in 1 .. k - 1 : a[i] = s[i]
  <2> HIDE DEF n
  <2>1. 1 \in Int /\ k - 1 \in Int /\ \A i \in 1 .. k - 1 : s[i] \in S
    BY <1>1
  <2>2. /\ a \in Seq(S) /\ Len(a) = IF 1 <= k - 1 THEN k - 1 - 1 + 1 ELSE 0
        /\ \A i \in 1 .. k - 1 - 1 + 1 : a[i] = s[1 + i - 1]
    BY <2>1, SubSeqProperties
  <2> HIDE DEF a
  <2>3. Len(a) = k - 1
    BY <1>1, <2>2
  <2>4. ASSUME NEW i \in 1 .. k - 1 PROVE a[i] = s[i]
    <3>1. i \in 1 .. k - 1 - 1 + 1 /\ 1 + i - 1 = i
      BY <1>1
    <3> QED
      BY <2>2, <3>1
  <2> QED
    BY <2>2, <2>3, <2>4
<1>3. /\ b \in Seq(S) /\ Len(b) = n - k
      /\ \A i \in 1 .. n - k : b[i] = s[k + i]
  <2> HIDE DEF n
  <2>1. k + 1 \in Int /\ n \in Int /\ \A i \in k + 1 .. n : s[i] \in S
    BY <1>1
  <2>2. /\ b \in Seq(S) /\ Len(b) = IF k + 1 <= n THEN n - (k + 1) + 1 ELSE 0
        /\ \A i \in 1 .. n - (k + 1) + 1 : b[i] = s[k + 1 + i - 1]
    BY <2>1, SubSeqProperties
  <2> HIDE DEF b
  <2>3. Len(b) = n - k
    BY <1>1, <2>2
  <2>4. ASSUME NEW i \in 1 .. n - k PROVE b[i] = s[k + i]
    <3>1. i \in 1 .. n - (k + 1) + 1 /\ k + 1 + i - 1 = k + i
      BY <1>1
    <3> QED
      BY <2>2, <3>1
  <2> QED
    BY <2>2, <2>3, <2>4
<1> HIDE DEF a, b
<1>4. /\ a \o b \in Seq(S) /\ Len(a \o b) = n - 1
      /\ \A i \in 1 .. n - 1 : (a \o b)[i] = IF i <= k - 1 THEN a[i] ELSE b[i - (k - 1)]
  <2>1. Len(a) + Len(b) = n - 1
    <3> HIDE DEF n
    <3> QED
      BY <1>1, <1>2, <1>3
  <2>2. /\ a \o b \in Seq(S) /\ Len(a \o b) = Len(a) + Len(b)
        /\ \A i \in 1 .. Len(a) + Len(b) : (a \o b)[i] =
             IF i <= Len(a) THEN a[i] ELSE b[i - Len(a)]
    BY <1>2, <1>3, ConcatProperties
  <2> QED
    BY <1>2, <2>1, <2>2
<1>5. ASSUME NEW i \in 1 .. n - 1
      PROVE  (a \o b)[i] = IF i < k THEN s[i] ELSE s[i + 1]
  <2> HIDE DEF n
  <2>1. CASE i < k
    <3>1. i <= k - 1 /\ i \in 1 .. k - 1
      BY <1>1, <2>1
    <3> QED
      BY <1>2, <1>4, <2>1, <3>1
  <2>2. CASE ~(i < k)
    <3>1. ~(i <= k - 1) /\ i - (k - 1) \in 1 .. n - k /\ k + (i - (k - 1)) = i + 1
      BY <1>1, <2>2
    <3> QED
      BY <1>3, <1>4, <2>2, <3>1
  <2> QED
    BY <2>1, <2>2
<1>6. RemoveAt(s, k) = a \o b
  BY DEF RemoveAt, a, b
<1> QED
  BY <1>4, <1>5, <1>6

Distinct(rs) == \A i, j \in DOMAIN rs : rs[i].turn = rs[j].turn => i = j

\* A run that is forgotten leaves the list, and no other does.
LEMMA ForgetEffect ==
  ASSUME NEW t, NEW rs \in Seq(RunRec)
  PROVE  /\ Forget(t, rs) \in Seq(RunRec)
         /\ \A i \in DOMAIN Forget(t, rs) : \E j \in DOMAIN rs : Forget(t, rs)[i] = rs[j]
         /\ Distinct(rs) =>
              /\ Distinct(Forget(t, rs))
              /\ \A i \in DOMAIN Forget(t, rs) : Forget(t, rs)[i].turn # t
              /\ \A j \in DOMAIN rs : rs[j].turn # t =>
                   \E i \in DOMAIN Forget(t, rs) : Forget(t, rs)[i] = rs[j]
<1> DEFINE found == {i \in DOMAIN rs : rs[i].turn = t}
           k     == CHOOSE i \in found : TRUE
           new   == Forget(t, rs)
<1>1. CASE found = {}
  <2>1. new = rs /\ \A i \in DOMAIN rs : rs[i].turn # t
    BY <1>1 DEF Forget
  <2> HIDE DEF new
  <2> QED
    BY <2>1 DEF new
<1>2. CASE found # {}
  <2>1. k \in found /\ new = RemoveAt(rs, k)
    BY <1>2 DEF Forget
  <2> HIDE DEF k, new
  <2>2. k \in DOMAIN rs /\ rs[k].turn = t
    BY <2>1
  <2>3. /\ Len(rs) \in Nat /\ DOMAIN rs = 1 .. Len(rs) /\ new \in Seq(RunRec)
        /\ Len(new) = Len(rs) - 1
        /\ \A i \in 1 .. Len(rs) - 1 : new[i] = IF i < k THEN rs[i] ELSE rs[i + 1]
    BY <2>1, <2>2, RemovedSeq, SeqFacts
  <2>4. DOMAIN new = 1 .. Len(rs) - 1
    BY <2>3, SeqFacts
  <2> DEFINE old(i) == IF i < k THEN i ELSE i + 1
  <2>5. ASSUME NEW i \in DOMAIN new
        PROVE  i \in Int /\ old(i) \in DOMAIN rs /\ new[i] = rs[old(i)] /\ old(i) # k
    BY <2>2, <2>3, <2>4
  <2>6. ASSUME NEW i \in DOMAIN new, NEW j \in DOMAIN new, old(i) = old(j)
        PROVE  i = j
    <3>1. i \in Int /\ j \in Int /\ k \in Int
      BY <2>2, <2>3, <2>5
    <3> QED
      BY <2>6, <3>1
  <2>7. ASSUME NEW j \in DOMAIN rs, j # k
        PROVE  \E i \in DOMAIN new : new[i] = rs[j]
    <3>1. CASE j < k
      <4>1. j \in DOMAIN new /\ old(j) = j
        BY <2>2, <2>3, <2>4, <3>1
      <4> QED
        BY <2>5, <4>1
    <3>2. CASE ~(j < k)
      <4>1. j - 1 \in DOMAIN new /\ old(j - 1) = j
        BY <2>2, <2>3, <2>4, <2>7, <3>2
      <4> QED
        BY <2>5, <4>1
    <3> QED
      BY <3>1, <3>2
  <2> HIDE DEF old
  <2>8. ASSUME Distinct(rs)
        PROVE  /\ Distinct(new)
               /\ \A i \in DOMAIN new : new[i].turn # t
               /\ \A j \in DOMAIN rs : rs[j].turn # t => \E i \in DOMAIN new : new[i] = rs[j]
    <3>1. Distinct(new)
      BY <2>5, <2>6, <2>8 DEF Distinct
    <3>2. \A i \in DOMAIN new : new[i].turn # t
      BY <2>2, <2>5, <2>8 DEF Distinct
    <3> QED
      BY <2>2, <2>7, <3>1, <3>2
  <2>9. \A i \in DOMAIN new : \E j \in DOMAIN rs : new[i] = rs[j]
    BY <2>5
  <2> QED
    BY <2>3, <2>8, <2>9 DEF new
<1> QED
  BY <1>1, <1>2

-------------------------------------------------------------------------------
(* What the operations of runProvenance do to the list.                    *)

LEMMA RunFacts ==
  ASSUME TypeOK
  PROVE  /\ runs \in Seq(RunRec) /\ Len(runs) \in Nat /\ DOMAIN runs = 1 .. Len(runs)
         /\ \A i \in DOMAIN runs : runs[i] \in RunRec /\ runs[i].turn \in Turns
         /\ Range(runs) = {runs[i] : i \in DOMAIN runs}
<1>1. runs \in Seq(RunRec)
  BY DEF TypeOK, RunRec
<1>2. Len(runs) \in Nat /\ DOMAIN runs = 1 .. Len(runs)
      /\ \A i \in DOMAIN runs : runs[i] \in RunRec
  BY <1>1, SeqFacts
<1>3. \A i \in DOMAIN runs : runs[i].turn \in Turns
  BY <1>2 DEF RunRec
<1> QED
  BY <1>1, <1>2, <1>3 DEF Range

LEMMA FiniteRoom ==
  ASSUME NEW rs \in Seq(RunRec), NEW S \in SUBSET DOMAIN rs
  PROVE  /\ IsFiniteSet(S) /\ Cardinality(S) \in Nat
         /\ Cardinality(S) = 1 <=> \E i \in S : S = {i}
         /\ \A i, j \in S : i # j => ~(Cardinality(S) < 2)
<1>1. IsFiniteSet(S)
  <2>1. Len(rs) \in Nat /\ DOMAIN rs = 1 .. Len(rs)
    BY SeqFacts
  <2>2. IsFiniteSet(1 .. Len(rs))
    BY <2>1, FS_Interval
  <2> QED
    BY <2>1, <2>2, FS_Subset
<1>2. Cardinality(S) \in Nat
  BY <1>1, FS_CardinalityType
<1>3. Cardinality(S) = 1 <=> \E i \in S : S = {i}
  <2>1. Cardinality(S) = 1 <=> \E i : S = {i}
    BY <1>1, FS_Singleton
  <2> QED
    BY <2>1
<1>4. Cardinality(S) = 0 <=> S = {}
  BY <1>1, FS_EmptySet
<1>5. ASSUME NEW i \in S, NEW j \in S, i # j PROVE ~(Cardinality(S) < 2)
  <2>1. Cardinality(S) # 0 /\ Cardinality(S) # 1
    BY <1>3, <1>4, <1>5
  <2> QED
    BY <1>2, <2>1
<1> QED
  BY <1>1, <1>2, <1>3, <1>5

LEMMA NoLabelIsLabel == NoLabel \in Labels /\ NoThought \in Thoughts /\ NoLabel.action = None
  BY DEF Labels, Thoughts, NoThought, NoLabel

LEMMA Relabelled ==
  ASSUME NEW r \in RunRec, NEW label \in Labels
  PROVE  /\ [r EXCEPT !.action = label] \in RunRec
         /\ [r EXCEPT !.action = label].turn = r.turn
         /\ [r EXCEPT !.action = label].thought = r.thought
         /\ [r EXCEPT !.action = label].action = label
  BY DEF RunRec

\* A room with two runs keeps no action in flight.
LEMMA UnlabelledEffect ==
  ASSUME NEW rm, NEW rs \in Seq(RunRec), NEW new, new = Unlabelled(rm, rs)
  PROVE  /\ new \in Seq(RunRec) /\ DOMAIN new = DOMAIN rs
         /\ \A i \in DOMAIN rs :
              /\ new[i].turn = rs[i].turn /\ new[i].thought = rs[i].thought
              /\ new[i].action \in {rs[i].action, NoLabel}
         /\ \A i, j \in DOMAIN rs :
              i # j /\ room[rs[i].turn] = rm /\ room[rs[j].turn] = rm
                => new[i].action = NoLabel
<1> DEFINE S == {i \in DOMAIN rs : room[rs[i].turn] = rm}
<1>1. \A i \in DOMAIN rs : rs[i] \in RunRec
  BY SeqFacts
<1>2. CASE Cardinality(S) < 2
  <2>1. new = rs
    BY <1>2 DEF Unlabelled
  <2>2. \A i, j \in S : i = j
    BY <1>2, FiniteRoom
  <2> QED
    BY <2>1, <2>2
<1>3. CASE ~(Cardinality(S) < 2)
  <2>1. new = [i \in DOMAIN rs |->
                IF room[rs[i].turn] = rm THEN [rs[i] EXCEPT !.action = NoLabel] ELSE rs[i]]
    BY <1>3 DEF Unlabelled
  <2>2. \A i \in DOMAIN rs : new[i] \in RunRec
    BY <1>1, <2>1, Relabelled, NoLabelIsLabel
  <2>3. new = [i \in DOMAIN rs |-> new[i]]
    BY <2>1
  <2>4. new \in Seq(RunRec) /\ DOMAIN new = DOMAIN rs
    BY <2>2, <2>3, MappedSeq
  <2>5. ASSUME NEW i \in DOMAIN rs
        PROVE  /\ new[i].turn = rs[i].turn /\ new[i].thought = rs[i].thought
               /\ new[i].action = IF room[rs[i].turn] = rm THEN NoLabel ELSE rs[i].action
    BY <1>1, <2>1, Relabelled, NoLabelIsLabel
  <2> QED
    BY <2>4, <2>5
<1> QED
  BY <1>2, <1>3

LEMMA AttributeEffect ==
  ASSUME TypeOK, NEW rm, NEW label \in Labels, Attribute(rm, label)
  PROVE  /\ runs' \in Seq(RunRec) /\ DOMAIN runs' = DOMAIN runs /\ Len(runs') = Len(runs)
         /\ \/ UNCHANGED runs /\ ~(\E k \in DOMAIN runs : RunsIn(rm) = {k})
            \/ \E k \in DOMAIN runs :
                 /\ RunsIn(rm) = {k} /\ runs'[k].action = label
                 /\ runs'[k].turn = runs[k].turn /\ runs'[k].thought = runs[k].thought
                 /\ \A i \in DOMAIN runs \ {k} : runs'[i] = runs[i]
<1>1. runs \in Seq(RunRec) /\ \A i \in DOMAIN runs : runs[i] \in RunRec
  BY RunFacts
<1>2. Cardinality(RunsIn(rm)) = 1 <=> \E k \in DOMAIN runs : RunsIn(rm) = {k}
  <2>1. RunsIn(rm) \in SUBSET DOMAIN runs
    BY DEF RunsIn
  <2> QED
    BY <1>1, <2>1, FiniteRoom
<1>3. CASE Cardinality(RunsIn(rm)) # 1
  BY <1>1, <1>2, <1>3 DEF Attribute
<1>4. CASE Cardinality(RunsIn(rm)) = 1
  <2>1. PICK k \in DOMAIN runs : RunsIn(rm) = {k}
    BY <1>2, <1>4
  <2>2. runs' = [i \in DOMAIN runs |->
                  IF i = k THEN [runs[i] EXCEPT !.action = label] ELSE runs[i]]
    BY <1>4, <2>1 DEF Attribute
  <2>3. \A i \in DOMAIN runs : runs'[i] \in RunRec
    BY <1>1, <2>2, Relabelled
  <2>4. runs' = [i \in DOMAIN runs |-> runs'[i]]
    BY <2>2
  <2>5. runs' \in Seq(RunRec) /\ DOMAIN runs' = DOMAIN runs /\ Len(runs') = Len(runs)
    BY <1>1, <2>3, <2>4, MappedSeq
  <2>6. /\ runs'[k].action = label
        /\ runs'[k].turn = runs[k].turn /\ runs'[k].thought = runs[k].thought
        /\ \A i \in DOMAIN runs \ {k} : runs'[i] = runs[i]
    BY <1>1, <2>2, Relabelled
  <2> QED
    BY <2>1, <2>5, <2>6
<1> QED
  BY <1>3, <1>4

LEMMA ThoughtEffect ==
  ASSUME TypeOK, NEW t \in Turns, RecordThought(t)
  PROVE  /\ runs' \in Seq(RunRec) /\ DOMAIN runs' = DOMAIN runs /\ Len(runs') = Len(runs)
         /\ \A i \in DOMAIN runs :
              /\ runs'[i].turn = runs[i].turn /\ runs'[i].action = runs[i].action
              /\ \/ runs'[i].thought = runs[i].thought
                 \/ /\ runs[i].turn = t
                    /\ runs'[i].thought = [by |-> acting[t].action, label |-> runs[i].action]
<1>1. runs \in Seq(RunRec) /\ \A i \in DOMAIN runs : runs[i] \in RunRec
  BY RunFacts
<1>2. acting[t].action \in Actions \cup {None}
  BY DEF TypeOK
<1> DEFINE th(i) == [by |-> acting[t].action, label |-> runs[i].action]
<1>3. \A i \in DOMAIN runs : th(i) \in Thoughts
  BY <1>1, <1>2 DEF RunRec, Thoughts
<1>4. runs' = [i \in DOMAIN runs |->
        IF runs[i].turn = t THEN [runs[i] EXCEPT !.thought = th(i)] ELSE runs[i]]
  BY DEF RecordThought
<1> HIDE DEF th
<1>5. ASSUME NEW i \in DOMAIN runs
      PROVE  /\ [runs[i] EXCEPT !.thought = th(i)] \in RunRec
             /\ [runs[i] EXCEPT !.thought = th(i)].turn = runs[i].turn
             /\ [runs[i] EXCEPT !.thought = th(i)].action = runs[i].action
             /\ [runs[i] EXCEPT !.thought = th(i)].thought = th(i)
  BY <1>1, <1>3 DEF RunRec
<1>6. \A i \in DOMAIN runs : runs'[i] \in RunRec
  BY <1>1, <1>4, <1>5
<1>7. runs' = [i \in DOMAIN runs |-> runs'[i]]
  BY <1>4
<1>8. runs' \in Seq(RunRec) /\ DOMAIN runs' = DOMAIN runs /\ Len(runs') = Len(runs)
  BY <1>1, <1>6, <1>7, MappedSeq
<1> QED
  BY <1>4, <1>5, <1>8 DEF th

LEMMA BeginTypes ==
  ASSUME TypeOK, NEW t \in Turns, BeginRun(t)
  PROVE  runs' \in Seq(RunRec)
<1> DEFINE fresh == [turn |-> t, thought |-> NoThought, action |-> NoLabel]
           kept  == IF Len(runs) >= MaxRuns THEN Forget(Head(runs).turn, runs) ELSE runs
<1>1. fresh \in RunRec
  BY NoLabelIsLabel DEF RunRec
<1>2. kept \in Seq(RunRec)
  BY RunFacts, ForgetEffect
<1> HIDE DEF fresh, kept
<1>3. Append(kept, fresh) \in Seq(RunRec)
  BY <1>1, <1>2, AppendProperties
<1>4. runs' = Unlabelled(room[t], Append(kept, fresh))
  BY DEF BeginRun, kept, fresh
<1> QED
  BY <1>3, <1>4, UnlabelledEffect

\* A run that begins while there is room evicts none.
LEMMA BeginEffect ==
  ASSUME TypeOK, NEW t \in Turns, BeginRun(t), Len(runs) < MaxRuns
  PROVE  /\ Len(runs) + 1 \notin DOMAIN runs
         /\ DOMAIN runs' = DOMAIN runs \cup {Len(runs) + 1}
         /\ /\ runs'[Len(runs) + 1].turn = t
            /\ runs'[Len(runs) + 1].thought = NoThought
            /\ runs'[Len(runs) + 1].action = NoLabel
         /\ \A i \in DOMAIN runs :
              /\ runs'[i].turn = runs[i].turn /\ runs'[i].thought = runs[i].thought
              /\ runs'[i].action \in {runs[i].action, NoLabel}
              /\ room[runs[i].turn] = room[t] => runs'[i].action = NoLabel
<1> DEFINE n     == Len(runs)
           fresh == [turn |-> t, thought |-> NoThought, action |-> NoLabel]
           all   == Append(runs, fresh)
<1>1. fresh \in RunRec
  BY NoLabelIsLabel DEF RunRec
<1>2. runs \in Seq(RunRec) /\ n \in Nat /\ DOMAIN runs = 1 .. n
      /\ \A i \in DOMAIN runs : runs[i] \in RunRec
  BY RunFacts
<1>3. ~(n >= MaxRuns)
  BY <1>2, TurnAssumption
<1>4. runs' = Unlabelled(room[t], all)
  BY <1>3 DEF BeginRun
<1> HIDE DEF fresh
<1>5. /\ all \in Seq(RunRec) /\ DOMAIN all = 1 .. n + 1
      /\ \A i \in DOMAIN runs : all[i] = runs[i]
      /\ all[n + 1] = fresh
  BY <1>1, <1>2, AppendProperties, LenProperties
<1> HIDE DEF all, n
<1>6. n + 1 \in DOMAIN all /\ n + 1 \notin DOMAIN runs
      /\ DOMAIN all = DOMAIN runs \cup {n + 1}
  BY <1>2, <1>5
<1>7. /\ DOMAIN runs' = DOMAIN all
      /\ \A i \in DOMAIN all :
           /\ runs'[i].turn = all[i].turn /\ runs'[i].thought = all[i].thought
           /\ runs'[i].action \in {all[i].action, NoLabel}
      /\ \A i, j \in DOMAIN all :
           i # j /\ room[all[i].turn] = room[t] /\ room[all[j].turn] = room[t]
             => runs'[i].action = NoLabel
  <2>1. PICK rm : rm = room[t]
    OBVIOUS
  <2>2. PICK new : new = Unlabelled(rm, all)
    OBVIOUS
  <2>3. /\ DOMAIN new = DOMAIN all
        /\ \A i \in DOMAIN all :
             /\ new[i].turn = all[i].turn /\ new[i].thought = all[i].thought
             /\ new[i].action \in {all[i].action, NoLabel}
        /\ \A i, j \in DOMAIN all :
             i # j /\ room[all[i].turn] = rm /\ room[all[j].turn] = rm
               => new[i].action = NoLabel
    <3>1. all \in Seq(RunRec)
      BY <1>5
    <3> QED
      BY <2>2, <3>1, UnlabelledEffect
  <2>4. runs' = new
    BY <1>4, <2>1, <2>2
  <2> QED
    BY <2>1, <2>3, <2>4
<1>8. fresh.turn = t /\ fresh.thought = NoThought /\ fresh.action = NoLabel
  BY DEF fresh
<1>10. ASSUME NEW i \in DOMAIN runs
       PROVE  /\ runs'[i].turn = runs[i].turn /\ runs'[i].thought = runs[i].thought
              /\ runs'[i].action \in {runs[i].action, NoLabel}
              /\ room[runs[i].turn] = room[t] => runs'[i].action = NoLabel
  <2>1. i \in DOMAIN all /\ all[i] = runs[i] /\ i # n + 1
    BY <1>5, <1>6
  <2>2. room[runs[i].turn] = room[t] => runs'[i].action = NoLabel
    BY <1>5, <1>6, <1>7, <1>8, <2>1
  <2> QED
    BY <1>7, <2>1, <2>2
<1>11. /\ runs'[n + 1].turn = t /\ runs'[n + 1].thought = NoThought
       /\ runs'[n + 1].action = NoLabel
  BY <1>5, <1>6, <1>7, <1>8
<1> QED
  BY <1>6, <1>7, <1>10, <1>11 DEF n

-------------------------------------------------------------------------------
(* What the steps do.                                                      *)

Ats == {"off", "thinking", "ready", "started", "fetching", "hung", "done"}

LEMMA ActFacts ==
  ASSUME TypeOK, NEW t \in Turns
  PROVE  /\ acting \in [Turns -> ActRec] /\ acting[t] \in ActRec
         /\ acting[t].at \in Ats /\ acting[t].action \in Actions \cup {None}
         /\ acting[t].steps \in 0 .. MaxActions /\ acting[t].length \in 0 .. MaxActions
         /\ acting[t].planned \in BOOLEAN /\ acting[t].told \in BOOLEAN
<1>1. acting \in [Turns -> ActRec]
  BY DEF TypeOK, ActRec
<1>2. acting[t] \in ActRec
  BY <1>1
<1> QED
  BY <1>1, <1>2 DEF ActRec, Ats

LEMMA OffIsAct == Off \in ActRec /\ Off.at = "off" /\ Off.action = None /\ ~Off.told
<1>1. 0 \in 0 .. MaxActions
  BY TurnAssumption
<1> QED
  BY <1>1 DEF Off, ActRec

\* Updates of what the runtime does for a query.
LEMMA ActingUpdate ==
  ASSUME TypeOK, NEW t \in Turns, NEW new \in ActRec, acting' = [acting EXCEPT ![t] = new]
  PROVE  /\ acting' \in [Turns -> ActRec] /\ acting'[t] = new
         /\ \A u \in Turns \ {t} : acting'[u] = acting[u]
  BY ActFacts

LEMMA AdvanceEffect ==
  ASSUME TypeOK, NEW t \in Turns, NEW at \in Ats, Advance(t, at)
  PROVE  /\ acting' \in [Turns -> ActRec]
         /\ acting'[t].at = at /\ acting'[t].action = acting[t].action
         /\ acting'[t].told = acting[t].told
         /\ \A u \in Turns \ {t} : acting'[u] = acting[u]
<1>1. acting \in [Turns -> ActRec] /\ acting[t] \in ActRec
  BY ActFacts
<1> DEFINE new == [acting[t] EXCEPT !.at = at]
<1>2. /\ new \in ActRec /\ new.at = at /\ new.action = acting[t].action
      /\ new.told = acting[t].told
  BY <1>1 DEF ActRec, Ats
<1>3. acting' = [acting EXCEPT ![t] = new]
  BY DEF Advance
<1> HIDE DEF new
<1> QED
  BY <1>1, <1>2, <1>3

LEMMA ToldEffect ==
  ASSUME TypeOK, NEW t \in Turns, Told(t)
  PROVE  /\ acting' \in [Turns -> ActRec]
         /\ acting'[t].at = "done" /\ acting'[t].action = acting[t].action
         /\ \A u \in Turns \ {t} : acting'[u] = acting[u]
<1>1. acting \in [Turns -> ActRec] /\ acting[t] \in ActRec
  BY ActFacts
<1> DEFINE new == [acting[t] EXCEPT !.at = "done", !.told = TRUE]
<1>2. new \in ActRec /\ new.at = "done" /\ new.action = acting[t].action
  BY <1>1 DEF ActRec
<1>3. acting' = [acting EXCEPT ![t] = new]
  BY DEF Told
<1> HIDE DEF new
<1> QED
  BY <1>1, <1>2, <1>3

LEMMA TextTypes ==
  /\ \A kind \in Kinds : Text(kind) \in Texts /\ Tagged(kind) \in Texts /\ Tagged(kind).ours
  /\ NoAnswer \in Texts /\ ~NoAnswer.ours
  BY DEF Text, Tagged, Texts, NoAnswer, Kinds

\* Texts are added while the query waits, and none is taken back.
LEMMA EmitEffect ==
  ASSUME TypeOK, NEW t \in Turns, NEW texts \in Seq(Texts), Emit(t, texts)
  PROVE  /\ emitted' \in [Turns -> Seq(Texts)]
         /\ \A u \in Turns : Range(emitted[u]) \subseteq Range(emitted'[u])
         /\ At(t, "running") => Range(texts) \subseteq Range(emitted'[t])
<1>1. emitted \in [Turns -> Seq(Texts)]
  BY DEF TypeOK
<1>2. CASE ~At(t, "running")
  BY <1>1, <1>2 DEF Emit
<1>3. CASE At(t, "running")
  <2> DEFINE s == emitted[t]
             new == s \o texts
  <2>1. /\ new \in Seq(Texts) /\ Len(new) = Len(s) + Len(texts)
        /\ \A i \in 1 .. Len(s) + Len(texts) :
             new[i] = IF i <= Len(s) THEN s[i] ELSE texts[i - Len(s)]
    BY <1>1, ConcatProperties
  <2>2. /\ Len(s) \in Nat /\ DOMAIN s = 1 .. Len(s)
        /\ Len(texts) \in Nat /\ DOMAIN texts = 1 .. Len(texts)
        /\ DOMAIN new = 1 .. Len(s) + Len(texts)
    BY <1>1, <2>1, LenProperties
  <2>3. emitted' = [emitted EXCEPT ![t] = new]
    BY <1>3 DEF Emit
  <2> HIDE DEF s, new
  <2>4. ASSUME NEW i \in DOMAIN s PROVE s[i] \in Range(new)
    <3>1. i \in DOMAIN new /\ new[i] = s[i]
      BY <2>1, <2>2
    <3> QED
      BY <3>1 DEF Range
  <2>5. ASSUME NEW i \in DOMAIN texts PROVE texts[i] \in Range(new)
    <3>1. Len(s) + i \in DOMAIN new /\ ~(Len(s) + i <= Len(s)) /\ Len(s) + i - Len(s) = i
      BY <2>2
    <3>2. new[Len(s) + i] = texts[i]
      BY <2>1, <2>2, <3>1
    <3> QED
      BY <3>1, <3>2 DEF Range
  <2>6. Range(s) \subseteq Range(new) /\ Range(texts) \subseteq Range(new)
    BY <2>4, <2>5 DEF Range
  <2> QED
    BY <1>1, <2>1, <2>3, <2>6 DEF s
<1> QED
  BY <1>2, <1>3

LEMMA OneText ==
  ASSUME NEW x \in Texts
  PROVE  <<x>> \in Seq(Texts) /\ x \in Range(<<x>>)
  BY DEF Range

LEMMA FaultTypes ==
  ASSUME TypeOK, Fault \/ NoFault
  PROVE  faults' \in 0 .. MaxFaults
  BY TurnAssumption DEF TypeOK, Fault, NoFault

\* A step of the runtime.  It changes what the runtime does for the query, the
\* texts and, when an action starts or ends or a thought is had, the runs.
Thinks(t) ==
  /\ UNCHANGED runs \/ RecordThought(t)
  /\ acting'[t].action = acting[t].action
  /\ acting[t].at \in {"thinking", "ready"} <=> acting'[t].at \in {"thinking", "ready"}

Begins(t) ==
  /\ acting[t].at = "ready" /\ acting'[t].at = "started"
  /\ acting'[t].action \in Actions
  /\ ActionStarted(t, acting'[t].action)

Ends(t) ==
  /\ acting[t].at = "done" /\ acting'[t].at = "ready" /\ acting'[t].action = None
  /\ ActionCompleted(t)

Acts(t) ==
  /\ acting[t].at # "off" /\ acting'[t].at # "off" /\ acting' \in [Turns -> ActRec]
  /\ \A u \in Turns \ {t} : acting'[u] = acting[u]
  /\ Thinks(t) \/ Begins(t) \/ Ends(t)

\* The texts only grow, and a query told its report shows it.
Speaks(t) ==
  /\ emitted' \in [Turns -> Seq(Texts)]
  /\ \A u \in Turns : Range(emitted[u]) \subseteq Range(emitted'[u])
  /\ \/ acting'[t].told = acting[t].told
     \/ At(t, "running") => \E x \in Range(emitted'[t]) : x.ours

LEMMA SilentStep ==
  ASSUME TypeOK, NEW t \in Turns, Silently, NEW at \in Ats, Advance(t, at),
         acting[t].at \in {"started", "fetching", "hung", "done"},
         at \in {"started", "fetching", "hung", "done"}
  PROVE  Acts(t) /\ Speaks(t)
<1>1. emitted' = emitted /\ runs' = runs /\ emitted \in [Turns -> Seq(Texts)]
  BY DEF Silently, TypeOK
<1> QED
  BY <1>1, AdvanceEffect DEF Acts, Thinks, Speaks

LEMMA SynthesisStep ==
  ASSUME TypeOK, NEW t \in Turns, HandleChainSynthesis(t), acting[t].at = "fetching"
  PROVE  Acts(t) /\ Speaks(t)
<1>1. CASE Advance(t, "done") /\ Silently
  BY <1>1, SilentStep DEF Ats
<1>2. ASSUME Told(t), NEW kind \in {"prose", "payload"}, Emit(t, <<Tagged(kind)>>),
             RecordThought(t) \/ UNCHANGED runs
      PROVE  Acts(t) /\ Speaks(t)
  <2>1. Tagged(kind) \in Texts /\ Tagged(kind).ours
    BY TextTypes DEF Kinds
  <2>2. <<Tagged(kind)>> \in Seq(Texts) /\ Tagged(kind) \in Range(<<Tagged(kind)>>)
    BY <2>1, OneText
  <2>3. Speaks(t)
    BY <1>2, <2>1, <2>2, EmitEffect DEF Speaks
  <2>4. Acts(t)
    BY <1>2, ToldEffect DEF Acts, Thinks
  <2> QED
    BY <2>3, <2>4
<1> QED
  BY <1>1, <1>2 DEF HandleChainSynthesis, Fails

LEMMA RuntimeEffect ==
  ASSUME TypeOK, NEW t \in Turns, RuntimeStep(t)
  PROVE  /\ UNCHANGED <<provider, room, stage, handlers, tally, answer, served>>
         /\ faults' \in 0 .. MaxFaults
         /\ Acts(t) /\ Speaks(t)
<1> USE DEF outside, config
<1>0. /\ emitted \in [Turns -> Seq(Texts)] /\ acting \in [Turns -> ActRec]
      /\ acting[t] \in ActRec /\ acting[t].action \in Actions \cup {None}
      /\ acting[t].told \in BOOLEAN
  BY ActFacts DEF TypeOK
<1>1. CASE Respond(t)
  <2>1. PICK length \in 0 .. MaxActions, planned \in BOOLEAN :
          acting' = [acting EXCEPT ![t] =
            [acting[t] EXCEPT !.at = "ready", !.length = length, !.planned = planned]]
    BY <1>1 DEF Respond
  <2> DEFINE new == [acting[t] EXCEPT !.at = "ready", !.length = length, !.planned = planned]
  <2>2. /\ new \in ActRec /\ new.at = "ready" /\ new.action = acting[t].action
        /\ new.told = acting[t].told
    BY <1>0 DEF ActRec
  <2>3. acting' = [acting EXCEPT ![t] = new]
    BY <2>1
  <2> HIDE DEF new
  <2>4. acting' \in [Turns -> ActRec] /\ acting'[t] = new
        /\ \A u \in Turns \ {t} : acting'[u] = acting[u]
    BY <1>0, <2>2, <2>3
  <2>5. Acts(t)
    BY <1>1, <2>2, <2>4 DEF Acts, Thinks, Respond
  <2>6. <<Text("prose")>> \in Seq(Texts) /\ <<>> \in Seq(Texts)
    BY TextTypes, OneText, EmptySeq DEF Kinds
  <2>7. Speaks(t)
    BY <1>1, <2>2, <2>4, <2>6, EmitEffect DEF Speaks, Respond
  <2>8. /\ UNCHANGED <<provider, room, stage, handlers, tally, answer, served>>
        /\ faults' \in 0 .. MaxFaults
    BY <1>1, FaultTypes DEF Respond
  <2> QED
    BY <2>5, <2>7, <2>8
<1>2. CASE StartAction(t)
  <2>1. PICK a \in Actions :
          /\ ActionStarted(t, a)
          /\ acting' = [acting EXCEPT ![t] = [acting[t] EXCEPT
               !.at = "started", !.action = a, !.steps = acting[t].steps + 1]]
    BY <1>2 DEF StartAction
  <2> DEFINE n   == acting[t].steps + 1
             new == [acting[t] EXCEPT !.at = "started", !.action = a, !.steps = n]
  <2>2. n \in 0 .. MaxActions
    <3>1. /\ acting[t].steps \in 0 .. MaxActions /\ acting[t].length \in 0 .. MaxActions
          /\ acting[t].steps < acting[t].length /\ MaxActions \in Nat
      BY <1>2, ActFacts, TurnAssumption DEF StartAction
    <3> QED
      BY <3>1
  <2>3. acting' = [acting EXCEPT ![t] = new]
    BY <2>1
  <2> HIDE DEF n
  <2>4. /\ new \in ActRec /\ new.at = "started" /\ new.action = a
        /\ new.told = acting[t].told
    BY <1>0, <2>2 DEF ActRec
  <2> HIDE DEF new
  <2>5. acting' \in [Turns -> ActRec] /\ acting'[t] = new
        /\ \A u \in Turns \ {t} : acting'[u] = acting[u]
    BY <1>0, <2>3, <2>4
  <2>6. Acts(t)
    BY <1>2, <2>1, <2>4, <2>5 DEF Acts, Begins, StartAction
  <2>7. Speaks(t)
    BY <1>0, <1>2, <2>4, <2>5 DEF Speaks, StartAction
  <2>8. /\ UNCHANGED <<provider, room, stage, handlers, tally, answer, served>>
        /\ faults' \in 0 .. MaxFaults
    BY <1>2, FaultTypes DEF StartAction
  <2> QED
    BY <2>6, <2>7, <2>8
<1>3. CASE EndAction(t)
  <2> DEFINE new == [acting[t] EXCEPT !.at = "ready", !.action = None]
  <2>1. acting' = [acting EXCEPT ![t] = new]
    BY <1>3 DEF EndAction
  <2>2. /\ new \in ActRec /\ new.at = "ready" /\ new.action = None
        /\ new.told = acting[t].told
    BY <1>0 DEF ActRec
  <2> HIDE DEF new
  <2>3. acting' \in [Turns -> ActRec] /\ acting'[t] = new
        /\ \A u \in Turns \ {t} : acting'[u] = acting[u]
    BY <1>0, <2>1, <2>2
  <2>4. Acts(t)
    BY <1>3, <2>2, <2>3 DEF Acts, Ends, EndAction
  <2>5. Speaks(t)
    BY <1>0, <1>3, <2>2, <2>3 DEF Speaks, EndAction
  <2>6. /\ UNCHANGED <<provider, room, stage, handlers, tally, answer, served>>
        /\ faults' \in 0 .. MaxFaults
    BY <1>3, FaultTypes DEF EndAction
  <2> QED
    BY <2>4, <2>5, <2>6
<1>4. CASE ExtractIntent(t)
  <2>1. Acts(t) /\ Speaks(t)
    <3>1. acting[t].at = "started"
      BY <1>4 DEF ExtractIntent, Doing
    <3>2. \E at \in {"fetching", "done"} : Advance(t, at) /\ Silently
      BY <1>4 DEF ExtractIntent, Fails
    <3> QED
      BY <3>1, <3>2, SilentStep DEF Ats
  <2>2. /\ UNCHANGED <<provider, room, stage, handlers, tally, answer, served>>
        /\ faults' \in 0 .. MaxFaults
    BY <1>4, FaultTypes DEF ExtractIntent, Fails
  <2> QED
    BY <2>1, <2>2
<1>5. CASE SearchNews(t) \/ FetchSentiment(t)
  <2>1. Acts(t) /\ Speaks(t)
    <3>1. acting[t].at = "fetching"
      BY <1>5 DEF SearchNews, FetchSentiment, Doing
    <3>2. HandleChainSynthesis(t) \/ (Advance(t, "done") /\ Silently)
      BY <1>5 DEF SearchNews, FetchSentiment, GetAssetSentiment, SearchThrows, Fails
    <3> QED
      BY <3>1, <3>2, SilentStep, SynthesisStep DEF Ats
  <2>2. UNCHANGED <<provider, room, stage, handlers, tally, answer, served>>
    BY <1>5 DEF SearchNews, FetchSentiment
  <2>3. Fault \/ NoFault
    BY <1>5 DEF SearchNews, FetchSentiment, GetAssetSentiment, SearchThrows, Fails,
                HandleChainSynthesis
  <2> QED
    BY <2>1, <2>2, <2>3, FaultTypes
<1>6. CASE ExtractTickers(t)
  <2>1. acting[t].at = "started"
    BY <1>6 DEF ExtractTickers, Doing
  <2>2. ASSUME Advance(t, "fetching"), Emit(t, <<Text("prose")>>), RecordThought(t)
        PROVE  Acts(t) /\ Speaks(t)
    <3>1. <<Text("prose")>> \in Seq(Texts)
      BY TextTypes, OneText DEF Kinds
    <3>2. Speaks(t)
      BY <2>2, <3>1, EmitEffect, AdvanceEffect DEF Speaks, Ats
    <3>3. Acts(t)
      BY <2>1, <2>2, AdvanceEffect DEF Acts, Thinks, Ats
    <3> QED
      BY <3>2, <3>3
  <2>3. ASSUME NEW at \in {"done", "hung"}, Advance(t, at), Silently
        PROVE  Acts(t) /\ Speaks(t)
    BY <2>1, <2>3, SilentStep DEF Ats
  <2>4. Acts(t) /\ Speaks(t)
    BY <1>6, <2>2, <2>3 DEF ExtractTickers, Fails
  <2>5. /\ UNCHANGED <<provider, room, stage, handlers, tally, answer, served>>
        /\ faults' \in 0 .. MaxFaults
    BY <1>6, FaultTypes DEF ExtractTickers, Fails
  <2> QED
    BY <2>4, <2>5
<1>7. CASE OtherAction(t)
  <2>1. Advance(t, "done") /\ RecordThought(t) /\ acting[t].at = "started"
    BY <1>7 DEF OtherAction
  <2>2. Acts(t)
    BY <2>1, AdvanceEffect DEF Acts, Thinks, Ats
  <2>3. PICK texts \in Seq(Texts) : Emit(t, texts)
    <3>1. \A kind \in {"prose", "payload"} :
            <<Text("prose"), Text(kind)>> \in Seq(Texts) /\ <<Text(kind)>> \in Seq(Texts)
      BY TextTypes DEF Kinds
    <3> QED
      BY <1>7, <3>1 DEF OtherAction
  <2>4. Speaks(t)
    BY <2>1, <2>3, EmitEffect, AdvanceEffect DEF Speaks, Ats
  <2>5. UNCHANGED <<provider, room, stage, handlers, tally, answer, served>>
    BY <1>7 DEF OtherAction
  <2>6. Fault \/ NoFault
    BY <1>7 DEF OtherAction
  <2> QED
    BY <2>2, <2>4, <2>5, <2>6, FaultTypes
<1>8. CASE GiveUp(t)
  <2>1. Acts(t) /\ Speaks(t)
    BY <1>8, SilentStep DEF GiveUp, Ats
  <2>2. /\ UNCHANGED <<provider, room, stage, handlers, tally, answer, served>>
        /\ faults' \in 0 .. MaxFaults
    BY <1>8, FaultTypes DEF GiveUp
  <2> QED
    BY <2>1, <2>2
<1> QED
  BY <1>1, <1>2, <1>3, <1>4, <1>5, <1>6, <1>7, <1>8 DEF RuntimeStep

\* The queries that hold a slot of the queue.
Busy == {t \in Turns : stage[t] \notin {"queued", "answered"}}

Counts(t, tier) ==
  /\ tally' = [tally EXCEPT ![tier] = @ + 1]
  /\ served' = [served EXCEPT ![t] = tier]

\* The runtime works for the query as before, or no longer.
Halts(t) ==
  /\ acting' \in [Turns -> ActRec]
  /\ acting'[t].at = "off" /\ acting'[t].action = None
  /\ \A u \in Turns \ {t} : acting'[u] = acting[u]

\* The kinds of steps of a query: it goes from provider to provider, joins the
\* runtime, is dropped by it, gets its answer, gets it too late, and resolves.
Falls(t) ==
  /\ UNCHANGED <<acting, emitted, runs, handlers, answer>>
  /\ stage[t] \notin {"running", "sanitizing", "answered"}
  /\ stage[t] = "queued" => Cardinality(Busy) < Concurrency
  /\ \E s \in Stages \ {"queued", "running", "sanitizing"} :
       /\ Goto(t, s)
       /\ stage[t] \in {"chaingpt", "deepseek"} => s \in {"deepseek", "answered"}
       /\ \/ s # "answered" /\ UNCHANGED <<tally, served>>
          \/ s = "answered" /\ \E tier \in Tiers \ {"elizaos"} : Counts(t, tier)

Joins(t) ==
  /\ stage[t] = "connecting" /\ Goto(t, "running")
  /\ UNCHANGED <<emitted, tally, answer, served>>
  /\ UNCHANGED handlers \/ (handlers = {"unasked"} /\ handlers' \in Subscribed)
  /\ BeginRun(t)
  /\ acting' \in [Turns -> ActRec]
  /\ acting'[t].at = "thinking" /\ acting'[t].action = None /\ ~acting'[t].told
  /\ \A u \in Turns \ {t} : acting'[u] = acting[u]

Drops(t) ==
  /\ stage[t] = "running" /\ Goto(t, "chaingpt")
  /\ Finish(t) /\ Dropped(t)
  /\ UNCHANGED <<handlers, tally, answer, served>>
  /\ UNCHANGED acting \/ Halts(t)

Completes(t) ==
  /\ stage[t] = "running" /\ acting[t].at = "ready" /\ Goto(t, "sanitizing")
  /\ answer' = [answer EXCEPT ![t] = SelectAnswer(emitted[t])]
  /\ SelectAnswer(emitted[t]) # NoAnswer
  /\ UNCHANGED <<emitted, runs, handlers, tally, served>>
  /\ Halts(t) /\ acting'[t].told = acting[t].told

EndsLate(t) ==
  /\ stage[t] # "running"
  /\ UNCHANGED <<stage, emitted, runs, handlers, tally, answer, served>>
  /\ Halts(t) /\ acting'[t].told = acting[t].told /\ acting[t].at = "ready"

Resolves(t) ==
  /\ stage[t] = "sanitizing" /\ Goto(t, "answered")
  /\ Finish(t) /\ Dropped(t)
  /\ Counts(t, "elizaos")
  /\ answer' = [answer EXCEPT ![t] = NoAnswer]
  /\ UNCHANGED handlers
  /\ Halts(t)

LEMMA QueryKinds ==
  ASSUME TypeOK, NEW t \in Turns, QueryStep(t) \/ RuntimeFails(t)
  PROVE  /\ UNCHANGED <<provider, room>> /\ faults' \in 0 .. MaxFaults
         /\ \/ Falls(t) \/ Joins(t) \/ Drops(t) \/ Completes(t) \/ EndsLate(t)
            \/ Resolves(t)
<1> USE DEF config, agentVars
<1>0. acting \in [Turns -> ActRec] /\ acting[t].told \in BOOLEAN
  BY ActFacts
<1>1. CASE Query(t)
  <2>1. /\ UNCHANGED <<provider, room, acting, emitted, runs, handlers, answer>>
        /\ stage[t] = "queued" /\ Cardinality(Busy) < Concurrency /\ NoFault
    BY <1>1 DEF Query, Busy, At
  <2>2. \/ Goto(t, "answered") /\ Counts(t, "mock")
        \/ /\ \E s \in {"chaingpt", "deepseek", "routing"} : Goto(t, s)
           /\ UNCHANGED <<tally, served>>
    BY <1>1 DEF Query, Serve, Counts
  <2> QED
    BY <2>1, <2>2, FaultTypes DEF Falls, Stages, Tiers
<1>2. CASE RouteQueryIntent(t)
  <2>1. /\ UNCHANGED <<provider, room, acting, emitted, runs, handlers, answer, tally, served>>
        /\ stage[t] = "routing" /\ NoFault
        /\ \E s \in {"tradable", "connecting"} : Goto(t, s)
    BY <1>2 DEF RouteQueryIntent, At
  <2> QED
    BY <2>1, FaultTypes DEF Falls, Stages
<1>3. CASE QueryTradableAssistant(t)
  <2>1. /\ UNCHANGED <<provider, room, acting, emitted, runs, handlers, answer>>
        /\ stage[t] = "tradable" /\ NoFault
    BY <1>3 DEF QueryTradableAssistant, At
  <2>2. \/ Goto(t, "answered") /\ Counts(t, "tradable")
        \/ Goto(t, "connecting") /\ UNCHANGED <<tally, served>>
    BY <1>3 DEF QueryTradableAssistant, Serve, Counts
  <2> QED
    BY <2>1, <2>2, FaultTypes DEF Falls, Stages, Tiers
<1>4. CASE QueryChainGPT(t) \/ QueryDeepSeek(t)
  <2>1. /\ UNCHANGED <<provider, room, acting, emitted, runs, handlers, answer>>
        /\ stage[t] \in {"chaingpt", "deepseek"} /\ NoFault
    BY <1>4 DEF QueryChainGPT, QueryDeepSeek, At
  <2>2. \/ Goto(t, "answered") /\ \E tier \in {"chaingpt", "deepseek", "none"} : Counts(t, tier)
        \/ Goto(t, "deepseek") /\ UNCHANGED <<tally, served>>
    BY <1>4 DEF QueryChainGPT, QueryDeepSeek, Serve, Counts
  <2> QED
    BY <2>1, <2>2, FaultTypes DEF Falls, Stages, Tiers
<1>5. CASE ConnectFails(t)
  <2>1. /\ UNCHANGED <<provider, room, acting, emitted, runs, handlers, answer, tally, served>>
        /\ stage[t] = "connecting" /\ Fault /\ Goto(t, "chaingpt")
    BY <1>5 DEF ConnectFails, At
  <2> QED
    BY <2>1, FaultTypes DEF Falls, Stages
<1>6. CASE HandleMessage(t)
  <2> DEFINE new == [Off EXCEPT !.at = "thinking"]
  <2>1. new \in ActRec /\ new.at = "thinking" /\ new.action = None /\ ~new.told
    <3>1. 0 \in 0 .. MaxActions
      BY TurnAssumption
    <3> QED
      BY <3>1 DEF Off, ActRec
  <2>2. acting' = [acting EXCEPT ![t] = new]
    BY <1>6 DEF HandleMessage
  <2> HIDE DEF new
  <2>3. /\ acting' \in [Turns -> ActRec] /\ acting'[t] = new
        /\ \A u \in Turns \ {t} : acting'[u] = acting[u]
    BY <1>0, <2>1, <2>2
  <2>4. /\ UNCHANGED <<provider, room, emitted, tally, answer, served>>
        /\ stage[t] = "connecting" /\ Goto(t, "running") /\ BeginRun(t)
    BY <1>6 DEF HandleMessage, At
  <2>5. UNCHANGED handlers \/ (handlers = {"unasked"} /\ handlers' \in Subscribed)
    BY <1>6 DEF HandleMessage, RegisterProvenanceHandlers, Subscribed
  <2>6. Fault \/ NoFault
    BY <1>6 DEF HandleMessage, RegisterProvenanceHandlers
  <2> QED
    BY <2>1, <2>3, <2>4, <2>5, <2>6, FaultTypes DEF Joins
<1>7. CASE RuntimeFails(t)
  <2>1. UNCHANGED acting \/ Halts(t)
    BY <1>0, <1>7, OffIsAct DEF RuntimeFails, Halts
  <2>2. /\ UNCHANGED <<provider, room, handlers, tally, answer, served>>
        /\ stage[t] = "running" /\ Fault /\ Finish(t) /\ Dropped(t) /\ Goto(t, "chaingpt")
    BY <1>7 DEF RuntimeFails, Reject, At
  <2> QED
    BY <2>1, <2>2, FaultTypes DEF Drops
<1>8. CASE OnComplete(t)
  <2> DEFINE new == [Off EXCEPT !.told = acting[t].told]
  <2>1. new \in ActRec /\ new.at = "off" /\ new.action = None /\ new.told = acting[t].told
    <3>1. 0 \in 0 .. MaxActions
      BY TurnAssumption
    <3> QED
      BY <1>0, <3>1 DEF Off, ActRec
  <2>2. acting' = [acting EXCEPT ![t] = new]
    BY <1>8 DEF OnComplete
  <2> HIDE DEF new
  <2>3. Halts(t) /\ acting'[t].told = acting[t].told
    BY <1>0, <2>1, <2>2 DEF Halts
  <2>4. UNCHANGED <<provider, room, handlers, tally, served>> /\ NoFault
        /\ acting[t].at = "ready"
    BY <1>8 DEF OnComplete
  <2> DEFINE text == SelectAnswer(emitted[t])
  <2>5. \/ stage[t] # "running" /\ UNCHANGED <<stage, runs, emitted, answer>>
        \/ /\ stage[t] = "running" /\ Finish(t) /\ Dropped(t) /\ Goto(t, "chaingpt")
           /\ UNCHANGED answer
        \/ /\ stage[t] = "running" /\ text # NoAnswer /\ Goto(t, "sanitizing")
           /\ answer' = [answer EXCEPT ![t] = text] /\ UNCHANGED <<runs, emitted>>
    <3> HIDE DEF text
    <3> QED
      BY <1>8 DEF OnComplete, Reject, At, text
  <2> QED
    BY <2>3, <2>4, <2>5, FaultTypes DEF Drops, Completes, EndsLate
<1>9. CASE ResolveAnswer(t)
  <2>1. Halts(t)
    BY <1>0, <1>9, OffIsAct DEF ResolveAnswer, Halts
  <2>2. /\ UNCHANGED <<provider, room, handlers>> /\ NoFault
        /\ stage[t] = "sanitizing" /\ Finish(t) /\ Dropped(t) /\ Goto(t, "answered")
        /\ Counts(t, "elizaos") /\ answer' = [answer EXCEPT ![t] = NoAnswer]
    BY <1>9 DEF ResolveAnswer, Serve, Counts, At
  <2> QED
    BY <2>1, <2>2, FaultTypes DEF Resolves
<1> QED
  BY <1>1, <1>2, <1>3, <1>4, <1>5, <1>6, <1>7, <1>8, <1>9 DEF QueryStep

\* Every step is a step of one query or of the runtime for one query.
StepKinds(t) ==
  \/ Falls(t) \/ Joins(t) \/ Drops(t) \/ Completes(t) \/ EndsLate(t) \/ Resolves(t)
  \/ /\ UNCHANGED <<stage, handlers, tally, answer, served>>
     /\ Acts(t) /\ Speaks(t)

LEMMA NextKinds ==
  ASSUME TypeOK, Next
  PROVE  /\ UNCHANGED <<provider, room>> /\ faults' \in 0 .. MaxFaults
         /\ \E t \in Turns : StepKinds(t)
<1>1. ASSUME NEW t \in Turns, QueryStep(t) \/ RuntimeFails(t)
      PROVE  UNCHANGED <<provider, room>> /\ faults' \in 0 .. MaxFaults /\ StepKinds(t)
  BY <1>1, QueryKinds DEF StepKinds
<1>2. ASSUME NEW t \in Turns, RuntimeStep(t)
      PROVE  UNCHANGED <<provider, room>> /\ faults' \in 0 .. MaxFaults /\ StepKinds(t)
  BY <1>2, RuntimeEffect DEF StepKinds
<1> QED
  BY <1>1, <1>2 DEF Next, Step

-------------------------------------------------------------------------------
(* The answer among the texts.                                             *)

LEMMA LeastOf ==
  ASSUME NEW S \in SUBSET Nat, S # {}
  PROVE  \E m \in S : \A n \in S : m <= n
<1>1. PICK m \in S : \A n \in S : <<n, m>> \notin OpToRel(<, Nat)
  BY NatLessThanWellFounded, WFMin
<1>2. \A n \in S : ~(n < m)
  BY <1>1 DEF OpToRel
<1> QED
  BY <1>2

LEMMA MaxOf ==
  ASSUME NEW n \in Nat, NEW S \in SUBSET (1 .. n), S # {}
  PROVE  Max(S) \in S
<1> DEFINE D == {n - i : i \in S}
<1>1. D \in SUBSET Nat /\ D # {}
  <2>1. PICK k \in S : TRUE
    OBVIOUS
  <2>2. n - k \in D
    BY <2>1
  <2>3. \A i \in S : n - i \in Nat
    OBVIOUS
  <2> QED
    BY <2>2, <2>3
<1>2. PICK d \in D : \A e \in D : d <= e
  BY <1>1, LeastOf
<1>3. PICK m \in S : d = n - m
  OBVIOUS
<1>4. \A i \in S : m >= i
  <2>1. \A i \in S : n - m <= n - i
    BY <1>2, <1>3
  <2> QED
    BY <2>1
<1> QED
  BY <1>4 DEF Max

\* The answer is one of the texts, and one of ours if one of ours is prose.
LEMMA SelectEffect ==
  ASSUME NEW texts \in Seq(Texts)
  PROVE  /\ SelectAnswer(texts) \in Texts
         /\ (\E x \in Range(texts) : x.ours /\ x.kind # "payload")
              => SelectAnswer(texts).ours
<1> DEFINE ours  == {i \in DOMAIN texts : IsOurs(texts[i])}
           prose == {i \in DOMAIN texts : IsProse(texts[i])}
           cands == IF ours # {} THEN ours ELSE IF prose # {} THEN prose ELSE DOMAIN texts
<1>1. /\ Len(texts) \in Nat /\ DOMAIN texts = 1 .. Len(texts)
      /\ \A i \in DOMAIN texts : texts[i] \in Texts
  BY SeqFacts
<1>2. SelectAnswer(texts) = IF cands = {} THEN NoAnswer ELSE texts[Max(cands)]
  BY DEF SelectAnswer
<1>3. cands \in SUBSET (1 .. Len(texts))
  BY <1>1
<1>4. cands # {} => Max(cands) \in cands
  <2> HIDE DEF cands
  <2> QED
    BY <1>1, <1>3, MaxOf
<1>5. SelectAnswer(texts) \in Texts
  <2> HIDE DEF cands
  <2> QED
    BY <1>1, <1>2, <1>3, <1>4, TextTypes
<1>6. ASSUME NEW x \in Range(texts), x.ours, x.kind # "payload"
      PROVE  SelectAnswer(texts).ours
  <2>1. PICK i \in DOMAIN texts : texts[i] = x
    BY DEF Range
  <2>2. i \in ours
    BY <1>6, <2>1 DEF IsOurs, IsProse, LooksLikeToolPayload
  <2>3. cands = ours /\ cands # {}
    BY <2>2
  <2>4. SelectAnswer(texts) = texts[Max(cands)] /\ Max(cands) \in ours
    BY <1>2, <1>4, <2>3
  <2> HIDE DEF cands
  <2> QED
    BY <2>4 DEF IsOurs
<1> QED
  BY <1>5, <1>6

-------------------------------------------------------------------------------
(* Types and the tally.                                                    *)

LEMMA GotoEffect ==
  ASSUME TypeOK, NEW t \in Turns, NEW s \in Stages, Goto(t, s)
  PROVE  /\ stage' \in [Turns -> Stages] /\ stage'[t] = s
         /\ \A u \in Turns \ {t} : stage'[u] = stage[u]
  BY DEF TypeOK, Goto

LEMMA DroppedEffect ==
  ASSUME TypeOK, NEW t \in Turns, Dropped(t)
  PROVE  /\ emitted' \in [Turns -> Seq(Texts)]
         /\ \A u \in Turns \ {t} : emitted'[u] = emitted[u]
<1>1. <<>> \in Seq(Texts)
  OBVIOUS
<1> QED
  BY <1>1 DEF TypeOK, Dropped

ServedBy(tier) == {t \in Turns : At(t, "answered") /\ served[t] = tier}

LEMMA ServedFinite ==
  ASSUME NEW S \in SUBSET Turns
  PROVE  /\ IsFiniteSet(S) /\ Cardinality(S) \in Nat /\ Cardinality(Turns) \in Nat
         /\ Cardinality(S) <= Cardinality(Turns)
  BY TurnAssumption, FS_Subset, FS_CardinalityType

LEMMA CountedOnce ==
  ASSUME TypeOK, TallyAgrees, NEW t \in Turns, NEW tier \in Tiers,
         stage[t] # "answered", Goto(t, "answered"), Counts(t, tier)
  PROVE  /\ TallyAgrees' /\ tally' \in [Tiers -> 0 .. Cardinality(Turns)]
         /\ served' \in [Turns -> Tiers \cup {None}]
<1>1. stage'[t] = "answered" /\ \A u \in Turns \ {t} : stage'[u] = stage[u]
  BY GotoEffect DEF Stages
<1>2. /\ served' \in [Turns -> Tiers \cup {None}]
      /\ served'[t] = tier /\ \A u \in Turns \ {t} : served'[u] = served[u]
  BY DEF Counts, TypeOK
<1>3. tally \in [Tiers -> Int]
  BY DEF TypeOK
<1>4. /\ tally' \in [Tiers -> Int] /\ tally'[tier] = tally[tier] + 1
      /\ \A x \in Tiers \ {tier} : tally'[x] = tally[x]
  BY <1>3 DEF Counts
<1>5. \A x \in Tiers : tally[x] = Cardinality(ServedBy(x))
  BY DEF TallyAgrees, ServedBy
<1>6. t \notin ServedBy(tier) /\ ServedBy(tier)' = ServedBy(tier) \cup {t}
  BY <1>1, <1>2 DEF ServedBy, At
<1>7. Cardinality(ServedBy(tier)') = Cardinality(ServedBy(tier)) + 1
  <2>1. IsFiniteSet(ServedBy(tier))
    BY ServedFinite DEF ServedBy
  <2> QED
    BY <1>6, <2>1, FS_AddElement
<1>8. \A x \in Tiers \ {tier} : ServedBy(x)' = ServedBy(x)
  BY <1>1, <1>2 DEF ServedBy, At
<1>9. \A x \in Tiers : tally'[x] = Cardinality(ServedBy(x)')
  BY <1>4, <1>5, <1>7, <1>8
<1>10. TallyAgrees'
  BY <1>9 DEF TallyAgrees, ServedBy
<1>11. \A x \in Tiers : tally'[x] \in 0 .. Cardinality(Turns)
  <2>1. \A x \in Tiers : ServedBy(x)' \in SUBSET Turns
    BY DEF ServedBy
  <2> QED
    BY <1>9, <2>1, ServedFinite
<1> QED
  BY <1>2, <1>4, <1>10, <1>11

LEMMA NotCounted ==
  ASSUME TypeOK, TallyAgrees, UNCHANGED <<tally, served>>,
         \A u \in Turns : stage[u] = "answered" <=> stage'[u] = "answered"
  PROVE  /\ TallyAgrees' /\ tally' \in [Tiers -> 0 .. Cardinality(Turns)]
         /\ served' \in [Turns -> Tiers \cup {None}]
<1>1. \A x : ServedBy(x)' = ServedBy(x)
  BY DEF ServedBy, At
<1>2. TallyAgrees'
  BY <1>1 DEF TallyAgrees, ServedBy
<1> QED
  BY <1>2 DEF TypeOK

LEMMA StageTally ==
  ASSUME TypeOK, TallyAgrees, NEW t \in Turns, StepKinds(t)
  PROVE  /\ stage' \in [Turns -> Stages] /\ TallyAgrees'
         /\ tally' \in [Tiers -> 0 .. Cardinality(Turns)]
         /\ served' \in [Turns -> Tiers \cup {None}]
<1>1. ASSUME NEW s \in Stages \ {"answered"}, Goto(t, s), stage[t] # "answered",
             UNCHANGED <<tally, served>>
      PROVE  /\ stage' \in [Turns -> Stages] /\ TallyAgrees'
             /\ tally' \in [Tiers -> 0 .. Cardinality(Turns)]
             /\ served' \in [Turns -> Tiers \cup {None}]
  <2>1. /\ stage' \in [Turns -> Stages] /\ stage'[t] = s
        /\ \A u \in Turns \ {t} : stage'[u] = stage[u]
    BY <1>1, GotoEffect
  <2>2. \A u \in Turns : stage[u] = "answered" <=> stage'[u] = "answered"
    BY <1>1, <2>1
  <2> QED
    BY <1>1, <2>1, <2>2, NotCounted
<1>2. ASSUME NEW tier \in Tiers, Goto(t, "answered"), stage[t] # "answered", Counts(t, tier)
      PROVE  /\ stage' \in [Turns -> Stages] /\ TallyAgrees'
             /\ tally' \in [Tiers -> 0 .. Cardinality(Turns)]
             /\ served' \in [Turns -> Tiers \cup {None}]
  <2>1. stage' \in [Turns -> Stages]
    BY <1>2, GotoEffect DEF Stages
  <2> QED
    BY <1>2, <2>1, CountedOnce
<1>3. CASE Falls(t)
  BY <1>1, <1>2, <1>3 DEF Falls
<1>4. CASE Joins(t) \/ Drops(t) \/ Completes(t)
  BY <1>1, <1>4 DEF Joins, Drops, Completes, Stages
<1>5. CASE Resolves(t)
  BY <1>2, <1>5 DEF Resolves, Tiers
<1>6. CASE UNCHANGED <<stage, tally, served>>
  BY <1>6, NotCounted DEF TypeOK
<1> QED
  BY <1>3, <1>4, <1>5, <1>6 DEF StepKinds, EndsLate

\* Of the texts, the runs and the answer, in one step.
LEMMA DataTypes ==
  ASSUME TypeOK, NEW t \in Turns, StepKinds(t)
  PROVE  /\ acting' \in [Turns -> ActRec] /\ emitted' \in [Turns -> Seq(Texts)]
         /\ runs' \in Seq(RunRec) /\ answer' \in [Turns -> Texts]
<1>1. /\ acting \in [Turns -> ActRec] /\ emitted \in [Turns -> Seq(Texts)]
      /\ runs \in Seq(RunRec) /\ answer \in [Turns -> Texts]
  BY ActFacts DEF TypeOK, RunRec
<1>2. Finish(t) => runs' \in Seq(RunRec)
  BY <1>1, ForgetEffect DEF Finish
<1>3. Dropped(t) => emitted' \in [Turns -> Seq(Texts)]
  BY DroppedEffect
<1>4. CASE Falls(t)
  BY <1>1, <1>4 DEF Falls
<1>5. CASE Joins(t)
  BY <1>1, <1>5, BeginTypes DEF Joins
<1>6. CASE Drops(t)
  BY <1>1, <1>2, <1>3, <1>6 DEF Drops, Halts
<1>7. CASE Completes(t)
  <2>1. SelectAnswer(emitted[t]) \in Texts
    BY <1>1, SelectEffect
  <2> QED
    BY <1>1, <1>7, <2>1 DEF Completes, Halts
<1>8. CASE EndsLate(t)
  BY <1>1, <1>8 DEF EndsLate, Halts
<1>9. CASE Resolves(t)
  <2>1. answer' \in [Turns -> Texts]
    BY <1>1, <1>9, TextTypes DEF Resolves
  <2> QED
    BY <1>2, <1>3, <1>9, <2>1 DEF Resolves, Halts
<1>10. CASE UNCHANGED answer /\ Acts(t) /\ Speaks(t)
  <2>1. \A label \in Labels : Attribute(room[t], label) => runs' \in Seq(RunRec)
    BY AttributeEffect
  <2>2. Thinks(t) => runs' \in Seq(RunRec)
    BY <1>1, ThoughtEffect DEF Thinks
  <2>3. Begins(t) => runs' \in Seq(RunRec)
    BY <1>1, <2>1 DEF Begins, ActionStarted, Labels
  <2>4. Ends(t) => runs' \in Seq(RunRec)
    BY <1>1, <2>1, NoLabelIsLabel DEF Ends, ActionCompleted
  <2> QED
    BY <1>1, <1>10, <2>2, <2>3, <2>4 DEF Acts, Speaks
<1> QED
  BY <1>4, <1>5, <1>6, <1>7, <1>8, <1>9, <1>10 DEF StepKinds

HandlersOK ==
  /\ handlers \subseteq {"unasked", "ACTION_STARTED", "ACTION_COMPLETED"}
  /\ "ACTION_STARTED" \in handlers => "ACTION_COMPLETED" \in handlers

LEMMA HandlerTypes ==
  ASSUME HandlersOK, NEW t \in Turns, StepKinds(t)
  PROVE  HandlersOK'
<1>1. CASE UNCHANGED handlers
  BY <1>1 DEF HandlersOK
<1>2. CASE handlers' \in Subscribed
  BY <1>2 DEF HandlersOK, Subscribed
<1>3. UNCHANGED handlers \/ handlers' \in Subscribed
  BY DEF StepKinds, Falls, Joins, Drops, Completes, EndsLate, Resolves
<1> QED
  BY <1>1, <1>2, <1>3

TypesAndTally == TypeOK /\ TallyAgrees

LEMMA InitTypes == Init => TypesAndTally
<1> SUFFICES ASSUME Init PROVE TypesAndTally
  OBVIOUS
<1>1. \A tier \in Tiers : ServedBy(tier) = {}
  BY DEF Init, ServedBy, At
<1>2. Cardinality({}) = 0
  BY FS_EmptySet
<1>3. TallyAgrees
  BY <1>1, <1>2 DEF Init, TallyAgrees, ServedBy
<1>4. 0 \in 0 .. Cardinality(Turns) /\ 0 \in 0 .. MaxFaults
  BY TurnAssumption, FS_CardinalityType
<1>5. Off \in ActRec /\ NoAnswer \in Texts
  BY OffIsAct, TextTypes
<1>6. runs \in Seq(RunRec) /\ <<>> \in Seq(Texts)
  BY DEF Init
<1>7. TypeOK
  BY <1>4, <1>5, <1>6 DEF Init, TypeOK, ActRec, RunRec, Stages
<1> QED
  BY <1>3, <1>7 DEF TypesAndTally

LEMMA StepTypes == TypesAndTally /\ [Next]_vars => TypesAndTally'
<1> SUFFICES ASSUME TypeOK, TallyAgrees, [Next]_vars PROVE TypeOK' /\ TallyAgrees'
  BY DEF TypesAndTally
<1>1. CASE UNCHANGED vars
  BY <1>1 DEF vars, TypeOK, TallyAgrees, At
<1>2. CASE Next
  <2>1. /\ UNCHANGED <<provider, room>> /\ faults' \in 0 .. MaxFaults
        /\ \E t \in Turns : StepKinds(t)
    BY <1>2, NextKinds
  <2>2. PICK t \in Turns : StepKinds(t)
    BY <2>1
  <2>3. /\ stage' \in [Turns -> Stages] /\ TallyAgrees'
        /\ tally' \in [Tiers -> 0 .. Cardinality(Turns)]
        /\ served' \in [Turns -> Tiers \cup {None}]
    BY <2>2, StageTally
  <2>4. /\ acting' \in [Turns -> ActRec] /\ emitted' \in [Turns -> Seq(Texts)]
        /\ runs' \in Seq(RunRec) /\ answer' \in [Turns -> Texts]
    BY <2>2, DataTypes
  <2>5. HandlersOK'
    BY <2>2, HandlerTypes DEF TypeOK, HandlersOK
  <2>6. provider' \in Providers /\ room' \in [Turns -> Rooms]
    BY <2>1 DEF TypeOK
  <2> QED
    BY <2>1, <2>3, <2>4, <2>5, <2>6 DEF TypeOK, HandlersOK, ActRec, RunRec
<1> QED
  BY <1>1, <1>2

\* The oracle keeps every part of the state of a turn in its type, and the
\* handler that labels a run is never on the runtime without the one that
\* clears the label (registerProvenanceHandlers).
THEOREM TurnTypes == Spec => []TypeOK
<1>1. Spec => []TypesAndTally
  BY InitTypes, StepTypes, PTL DEF Spec
<1> QED
  BY <1>1, PTL DEF TypesAndTally

\* Every answer is counted under the tier that gave it, once, whichever
\* provider gave it after which failures (providerTally.js).
THEOREM EveryAnswerTallied == Spec => []TallyAgrees
<1>1. Spec => []TypesAndTally
  BY InitTypes, StepTypes, PTL DEF Spec
<1> QED
  BY <1>1, PTL DEF TypesAndTally

-------------------------------------------------------------------------------
(* What the runtime does for a query, and what it reported.                *)

\* The runtime works for a query only while the query waits for it, or after
\* the query was given up.
WorksForLive == \A t \in Turns : acting[t].at # "off" => At(t, "running") \/ GivenUp(t)

ActsInAction ==
  \A t \in Turns : acting[t].at \in {"off", "thinking", "ready"} => acting[t].action = None

\* A query that waits and was told its report has it among its texts.
Reported ==
  \A t \in Turns : At(t, "running") /\ acting[t].told => \E x \in Range(emitted[t]) : x.ours

WorkInv == WorksForLive /\ ActsInAction /\ Reported /\ AnswerIsReport

\* A step of one query leaves the others where they are.
LEMMA OthersKept ==
  ASSUME TypeOK, NEW t \in Turns, StepKinds(t), NEW u \in Turns \ {t}
  PROVE  /\ stage'[u] = stage[u] /\ acting'[u] = acting[u] /\ served'[u] = served[u]
         /\ answer'[u] = answer[u] /\ Range(emitted[u]) \subseteq Range(emitted'[u])
         /\ GivenUp(u) <=> GivenUp(u)'
<1>1. stage'[u] = stage[u]
  BY GotoEffect, SMT DEF StepKinds, Falls, Joins, Drops, Completes, EndsLate, Resolves, Stages
<1>2. acting'[u] = acting[u]
  BY SMT DEF StepKinds, Falls, Joins, Drops, Completes, EndsLate, Resolves, Halts, Acts
<1>3. served'[u] = served[u]
  <2>1. \A tier : Counts(t, tier) => served'[u] = served[u]
    BY DEF Counts, TypeOK
  <2> QED
    BY <2>1 DEF StepKinds, Falls, Joins, Drops, Completes, EndsLate, Resolves
<1>4. answer'[u] = answer[u]
  BY SMT DEF StepKinds, Falls, Joins, Drops, Completes, EndsLate, Resolves, TypeOK
<1>5. Range(emitted[u]) \subseteq Range(emitted'[u])
  <2>1. Dropped(t) => emitted'[u] = emitted[u]
    BY DroppedEffect
  <2> QED
    BY <2>1 DEF StepKinds, Falls, Joins, Drops, Completes, EndsLate, Resolves, Speaks
<1>6. GivenUp(u) <=> GivenUp(u)'
  BY <1>1, <1>3 DEF GivenUp, At
<1> QED
  BY <1>1, <1>2, <1>3, <1>4, <1>5, <1>6

\* Where the query of the step goes.
LEMMA StageMoves ==
  ASSUME TypeOK, NEW t \in Turns
  PROVE  /\ Falls(t) => /\ stage'[t] \in Stages \ {"queued", "running", "sanitizing"}
                        /\ stage[t] \in {"chaingpt", "deepseek"} => GivenUp(t)'
         /\ Joins(t) => stage'[t] = "running"
         /\ Drops(t) => stage'[t] = "chaingpt" /\ GivenUp(t)'
         /\ Completes(t) => stage'[t] = "sanitizing"
         /\ Resolves(t) => stage'[t] = "answered"
<1>1. ASSUME Falls(t)
      PROVE  /\ stage'[t] \in Stages \ {"queued", "running", "sanitizing"}
             /\ stage[t] \in {"chaingpt", "deepseek"} => GivenUp(t)'
  <2>1. PICK s \in Stages \ {"queued", "running", "sanitizing"} :
          /\ Goto(t, s)
          /\ stage[t] \in {"chaingpt", "deepseek"} => s \in {"deepseek", "answered"}
          /\ \/ s # "answered" /\ UNCHANGED <<tally, served>>
             \/ s = "answered" /\ \E tier \in Tiers \ {"elizaos"} : Counts(t, tier)
    BY <1>1 DEF Falls
  <2>2. stage'[t] = s
    BY <2>1, GotoEffect
  <2>3. s = "answered" => served'[t] # "elizaos"
    BY <2>1 DEF Counts, TypeOK
  <2> QED
    BY <2>1, <2>2, <2>3 DEF GivenUp, At
<1>2. Joins(t) => stage'[t] = "running"
  BY GotoEffect DEF Joins, Stages
<1>3. Drops(t) => stage'[t] = "chaingpt" /\ GivenUp(t)'
  BY GotoEffect DEF Drops, Stages, GivenUp
<1>4. Completes(t) => stage'[t] = "sanitizing"
  BY GotoEffect DEF Completes, Stages
<1>5. Resolves(t) => stage'[t] = "answered"
  BY GotoEffect DEF Resolves, Stages
<1> QED
  BY <1>1, <1>2, <1>3, <1>4, <1>5

\* A query that is given up stays given up.
LEMMA GivenUpStays ==
  ASSUME TypeOK, NEW t \in Turns, StepKinds(t), NEW u \in Turns, GivenUp(u)
  PROVE  GivenUp(u)'
<1>1. CASE u # t
  BY <1>1, OthersKept
<1>2. CASE u = t
  <2>1. stage[t] \in {"chaingpt", "deepseek", "answered"}
    BY <1>2 DEF GivenUp, At
  <2>2. CASE Falls(t)
    <3>1. stage[t] \in {"chaingpt", "deepseek"}
      BY <2>1, <2>2 DEF Falls
    <3> QED
      BY <1>2, <2>2, <3>1, StageMoves
  <2>3. CASE UNCHANGED <<stage, served>>
    BY <2>3 DEF GivenUp, At
  <2> QED
    BY <2>1, <2>2, <2>3 DEF StepKinds, Joins, Drops, Completes, EndsLate, Resolves
<1> QED
  BY <1>1, <1>2

LEMMA WorksStep ==
  ASSUME TypeOK, WorksForLive, ActsInAction, NEW t \in Turns, StepKinds(t)
  PROVE  WorksForLive' /\ ActsInAction'
<1>1. ASSUME NEW u \in Turns, u # t
      PROVE  /\ acting'[u].at # "off" => At(u, "running")' \/ GivenUp(u)'
             /\ acting'[u].at \in {"off", "thinking", "ready"} => acting'[u].action = None
  BY <1>1, OthersKept DEF WorksForLive, ActsInAction, At
<1>2. /\ acting[t].at # "off" => stage[t] = "running" \/ GivenUp(t)
      /\ acting[t].at \in {"off", "thinking", "ready"} => acting[t].action = None
  BY DEF WorksForLive, ActsInAction, At
<1>3. acting'[t].at # "off" => At(t, "running")' \/ GivenUp(t)'
  <2>1. CASE GivenUp(t)
    BY <2>1, GivenUpStays
  <2>2. CASE Falls(t) /\ acting[t].at # "off"
    BY <1>2, <2>2, GivenUpStays DEF Falls
  <2>3. CASE Falls(t) /\ acting[t].at = "off"
    BY <2>3 DEF Falls
  <2>4. CASE Joins(t) \/ Drops(t)
    BY <2>4, StageMoves DEF At
  <2>5. CASE Halts(t)
    BY <2>5 DEF Halts
  <2>6. CASE UNCHANGED stage /\ Acts(t) /\ ~GivenUp(t)
    BY <1>2, <2>6 DEF Acts, At
  <2> QED
    BY <2>1, <2>2, <2>3, <2>4, <2>5, <2>6 DEF StepKinds, Completes, EndsLate, Resolves
<1>4. acting'[t].at \in {"off", "thinking", "ready"} => acting'[t].action = None
  <2>1. CASE UNCHANGED acting
    BY <1>2, <2>1
  <2>2. CASE Joins(t) \/ Halts(t)
    BY <2>2 DEF Joins, Halts
  <2>3. CASE Acts(t)
    BY <1>2, <2>3 DEF Acts, Thinks, Begins, Ends
  <2> QED
    BY <2>1, <2>2, <2>3 DEF StepKinds, Falls, Drops, Completes, EndsLate, Resolves
<1> QED
  BY <1>1, <1>3, <1>4 DEF WorksForLive, ActsInAction

LEMMA ReportStep ==
  ASSUME TypeOK, WorkInv, NEW t \in Turns, StepKinds(t)
  PROVE  Reported' /\ AnswerIsReport'
<1>1. ASSUME NEW u \in Turns, u # t
      PROVE  /\ At(u, "running")' /\ acting'[u].told => \E x \in Range(emitted'[u]) : x.ours
             /\ At(u, "sanitizing")' /\ acting'[u].told =>
                  answer'[u].ours \/ Tagged("payload") \in Range(emitted'[u])
  <2>1. /\ At(u, "running") /\ acting[u].told => \E x \in Range(emitted[u]) : x.ours
        /\ At(u, "sanitizing") /\ acting[u].told =>
             answer[u].ours \/ Tagged("payload") \in Range(emitted[u])
    BY DEF WorkInv, Reported, AnswerIsReport
  <2> QED
    BY <1>1, <2>1, OthersKept DEF At
<1>2. At(t, "running")' /\ acting'[t].told => \E x \in Range(emitted'[t]) : x.ours
  <2>1. ASSUME UNCHANGED stage, Speaks(t), stage[t] = "running", acting'[t].told
        PROVE  \E x \in Range(emitted'[t]) : x.ours
    <3>1. acting'[t].told = acting[t].told => \E x \in Range(emitted[t]) : x.ours
      BY <2>1 DEF WorkInv, Reported, At
    <3>2. Range(emitted[t]) \subseteq Range(emitted'[t])
      BY <2>1 DEF Speaks
    <3> QED
      BY <2>1, <3>1, <3>2 DEF Speaks, At
  <2>2. CASE Falls(t) \/ Drops(t) \/ Completes(t) \/ Resolves(t) \/ EndsLate(t)
    BY <2>2, StageMoves DEF At, EndsLate
  <2>3. CASE Joins(t)
    BY <2>3 DEF Joins
  <2> QED
    BY <2>1, <2>2, <2>3 DEF StepKinds, At
<1>3. ASSUME Completes(t), acting'[t].told
      PROVE  answer'[t].ours \/ Tagged("payload") \in Range(emitted'[t])
  <2>1. /\ stage[t] = "running" /\ acting[t].told /\ emitted' = emitted
        /\ answer'[t] = SelectAnswer(emitted[t]) /\ emitted[t] \in Seq(Texts)
    BY <1>3 DEF Completes, TypeOK
  <2>2. PICK x \in Range(emitted[t]) : x.ours
    BY <2>1 DEF WorkInv, Reported, At
  <2>3. x \in Texts
    BY <2>1, SeqFacts DEF Range
  <2>4. CASE x.kind = "payload"
    <3>1. x = Tagged("payload")
      BY <2>2, <2>3, <2>4 DEF Texts, Tagged
    <3> QED
      BY <2>1, <2>2, <3>1
  <2>5. CASE x.kind # "payload"
    BY <2>1, <2>2, <2>5, SelectEffect
  <2> QED
    BY <2>4, <2>5
<1>4. At(t, "sanitizing")' /\ acting'[t].told =>
        answer'[t].ours \/ Tagged("payload") \in Range(emitted'[t])
  <2>1. stage[t] = "sanitizing" => acting[t].at = "off"
    BY DEF WorkInv, WorksForLive, GivenUp, At
  <2>2. CASE UNCHANGED stage /\ acting[t].at # "off"
    BY <2>1, <2>2 DEF At
  <2>3. CASE Falls(t) \/ Drops(t) \/ Joins(t) \/ Resolves(t)
    BY <2>3, StageMoves DEF At
  <2> QED
    BY <1>3, <2>2, <2>3 DEF StepKinds, EndsLate, Acts
<1> QED
  BY <1>1, <1>2, <1>4 DEF Reported, AnswerIsReport

LEMMA InitWorks == Init => WorkInv
  BY DEF Init, WorkInv, WorksForLive, ActsInAction, Reported, AnswerIsReport, Off, At

LEMMA StepWorks == TypeOK /\ WorkInv /\ [Next]_vars => WorkInv'
<1> SUFFICES ASSUME TypeOK, WorkInv, [Next]_vars PROVE WorkInv'
  OBVIOUS
<1>1. CASE UNCHANGED vars
  BY <1>1 DEF vars, WorkInv, WorksForLive, ActsInAction, Reported, AnswerIsReport,
              At, GivenUp
<1>2. CASE Next
  <2>1. PICK t \in Turns : StepKinds(t)
    BY <1>2, NextKinds
  <2> QED
    BY <2>1, WorksStep, ReportStep DEF WorkInv
<1> QED
  BY <1>1, <1>2

\* When an action read its ledger as the step that reports, the answer is its
\* report and not the text of another action or a progress message
\* (answerSelection.js), unless the report was never composed or was a bare
\* payload, whatever else the runtime emitted before and after it.
THEOREM ReportWins == Spec => []AnswerIsReport
<1>1. Spec => []TypeOK
  BY TurnTypes
<1>2. Spec => []WorkInv
  BY <1>1, InitWorks, StepWorks, PTL DEF Spec
<1> QED
  BY <1>2, PTL DEF WorkInv

-------------------------------------------------------------------------------
(* The runs and the slots of the queue.                                    *)

OneRunPerTurn == Distinct(runs)
TrackedWhileLive == \A t \in Turns : Live(t) <=> stage[t] \in {"running", "sanitizing"}
WithinQueue == Cardinality(Busy) <= Concurrency

RunInv == OneRunPerTurn /\ TrackedWhileLive /\ WithinQueue

LEMMA InjectiveBound ==
  ASSUME NEW n \in Nat, NEW S, IsFiniteSet(S), NEW f \in [1 .. n -> S],
         \A i, j \in 1 .. n : f[i] = f[j] => i = j
  PROVE  n <= Cardinality(S)
<1>1. IsFiniteSet(1 .. n) /\ Cardinality(1 .. n) = n
  BY FS_Interval
<1>2. Cardinality(S) \in Nat
  BY FS_CardinalityType
<1> DEFINE D == 1 .. n
<1> HIDE DEF D
<1>3. ASSUME Cardinality(S) < Cardinality(D) PROVE FALSE
  <2>1. IsFiniteSet(D) /\ f \in [D -> S]
    BY <1>1 DEF D
  <2>2. \E i, j \in D : i # j /\ f[i] = f[j]
    BY <1>3, <2>1, FS_PigeonHole
  <2> QED
    BY <2>2 DEF D
<1> QED
  BY <1>1, <1>2, <1>3 DEF D

\* There are no more runs than queries that wait for the runtime or its answer.
LEMMA RunsWithin ==
  ASSUME TypeOK, OneRunPerTurn, NEW S \in SUBSET Turns,
         \A i \in DOMAIN runs : runs[i].turn \in S
  PROVE  Len(runs) <= Cardinality(S)
<1> DEFINE n == Len(runs)
           f == [i \in 1 .. n |-> runs[i].turn]
<1>1. n \in Nat /\ DOMAIN runs = 1 .. n
  BY RunFacts
<1>2. IsFiniteSet(S) /\ Cardinality(S) \in Nat
  BY ServedFinite
<1>3. f \in [1 .. n -> S] /\ \A i \in 1 .. n : f[i] = runs[i].turn
  BY <1>1
<1>4. \A i, j \in 1 .. n : f[i] = f[j] => i = j
  BY <1>1, <1>3 DEF OneRunPerTurn, Distinct
<1> HIDE DEF f, n
<1>5. n <= Cardinality(S)
  BY <1>1, <1>2, <1>3, <1>4, InjectiveBound
<1> QED
  BY <1>5 DEF n

LEMMA LiveBusy ==
  ASSUME TypeOK, TrackedWhileLive
  PROVE  /\ \A i \in DOMAIN runs : stage[runs[i].turn] \in {"running", "sanitizing"}
         /\ \A i \in DOMAIN runs : runs[i].turn \in Busy
         /\ Busy \in SUBSET Turns
<1>1. ASSUME NEW i \in DOMAIN runs
      PROVE  runs[i].turn \in Turns /\ stage[runs[i].turn] \in {"running", "sanitizing"}
  BY RunFacts DEF TrackedWhileLive, Live
<1> QED
  BY <1>1 DEF Busy

\* A query that joins finds room for its run: no live run is evicted.
LEMMA RoomForRun ==
  ASSUME TypeOK, RunInv, Concurrency <= MaxRuns, NEW t \in Turns, stage[t] = "connecting"
  PROVE  /\ Len(runs) < MaxRuns
         /\ \A i \in DOMAIN runs : runs[i].turn # t
<1>1. \A i \in DOMAIN runs : runs[i].turn # t
  BY LiveBusy DEF RunInv
<1>2. /\ \A i \in DOMAIN runs : runs[i].turn \in Busy \ {t}
      /\ Busy \in SUBSET Turns /\ Busy \ {t} \in SUBSET Turns
  BY <1>1, LiveBusy DEF RunInv
<1>3. Len(runs) <= Cardinality(Busy \ {t})
  BY <1>2, RunsWithin DEF RunInv
<1>4. IsFiniteSet(Busy) /\ Cardinality(Busy) \in Nat
  BY <1>2, ServedFinite
<1>5. t \in Busy
  BY DEF Busy
<1>6. Cardinality(Busy \ {t}) = Cardinality(Busy) - 1
  BY <1>4, <1>5, FS_RemoveElement
<1>7. Len(runs) \in Nat /\ Concurrency \in Nat /\ MaxRuns \in Nat
  BY RunFacts, TurnAssumption
<1>8. Cardinality(Busy) <= Concurrency
  BY DEF RunInv, WithinQueue
<1> QED
  BY <1>1, <1>3, <1>4, <1>6, <1>7, <1>8

LEMMA QueueStep ==
  ASSUME TypeOK, WithinQueue, NEW t \in Turns, StepKinds(t)
  PROVE  WithinQueue'
<1>1. IsFiniteSet(Busy) /\ Cardinality(Busy) \in Nat /\ Concurrency \in Nat
  <2>1. Busy \in SUBSET Turns
    BY DEF Busy
  <2> QED
    BY <2>1, ServedFinite, TurnAssumption
<1>2. \A u \in Turns \ {t} : stage'[u] = stage[u]
  BY OthersKept
<1>3. CASE Busy' \in SUBSET Busy
  <2>1. Cardinality(Busy') <= Cardinality(Busy) /\ Cardinality(Busy') \in Nat
    BY <1>1, <1>3, FS_Subset, FS_CardinalityType
  <2> QED
    BY <1>1, <2>1 DEF WithinQueue
<1>4. CASE Cardinality(Busy) < Concurrency
  <2>1. Busy' \in SUBSET (Busy \cup {t})
    BY <1>2 DEF Busy
  <2>2. /\ IsFiniteSet(Busy \cup {t}) /\ Cardinality(Busy \cup {t}) \in Nat
        /\ Cardinality(Busy \cup {t}) <= Cardinality(Busy) + 1
    BY <1>1, FS_AddElement, FS_CardinalityType
  <2>3. Cardinality(Busy') <= Cardinality(Busy \cup {t}) /\ Cardinality(Busy') \in Nat
    BY <2>1, <2>2, FS_Subset, FS_CardinalityType
  <2> QED
    BY <1>1, <1>4, <2>2, <2>3 DEF WithinQueue
<1>5. CASE t \in Busy
  BY <1>2, <1>3, <1>5 DEF Busy
<1>6. CASE UNCHANGED stage
  BY <1>3, <1>6 DEF Busy
<1>7. ASSUME Falls(t), t \notin Busy PROVE Cardinality(Busy) < Concurrency
  BY <1>7 DEF Falls, Busy
<1> QED
  BY <1>4, <1>5, <1>6, <1>7
    DEF StepKinds, Joins, Drops, Completes, EndsLate, Resolves, Busy

\* A list that keeps its turns keeps its runs apart.
LEMMA SameTurns ==
  ASSUME DOMAIN runs' = DOMAIN runs, \A i \in DOMAIN runs : runs'[i].turn = runs[i].turn
  PROVE  /\ OneRunPerTurn => OneRunPerTurn'
         /\ \A u \in Turns : Live(u)' <=> Live(u)
  BY DEF OneRunPerTurn, Distinct, Live

\* A step of the runtime relabels runs and changes their thoughts, no more.
LEMMA ActsOnRuns ==
  ASSUME TypeOK, NEW t \in Turns, Acts(t)
  PROVE  /\ DOMAIN runs' = DOMAIN runs
         /\ \A i \in DOMAIN runs : runs'[i].turn = runs[i].turn
<1>1. \A label \in Labels : Attribute(room[t], label) =>
        /\ DOMAIN runs' = DOMAIN runs
        /\ \A i \in DOMAIN runs : runs'[i].turn = runs[i].turn
  BY AttributeEffect
<1>2. CASE Thinks(t)
  BY <1>2, ThoughtEffect DEF Thinks
<1>3. CASE Begins(t)
  BY <1>1, <1>3 DEF Begins, ActionStarted, Labels
<1>4. CASE Ends(t)
  BY <1>1, <1>4, NoLabelIsLabel DEF Ends, ActionCompleted
<1> QED
  BY <1>2, <1>3, <1>4 DEF Acts

LEMMA RunStep ==
  ASSUME TypeOK, RunInv, Concurrency <= MaxRuns, NEW t \in Turns, StepKinds(t)
  PROVE  RunInv'
<1>1. OneRunPerTurn /\ TrackedWhileLive /\ WithinQueue
  BY DEF RunInv
<1>2. \A u \in Turns \ {t} : stage'[u] = stage[u]
  BY OthersKept
<1>3. ASSUME DOMAIN runs' = DOMAIN runs,
             \A i \in DOMAIN runs : runs'[i].turn = runs[i].turn,
             stage[t] \in {"running", "sanitizing"} <=> stage'[t] \in {"running", "sanitizing"}
      PROVE  OneRunPerTurn' /\ TrackedWhileLive'
  <2>1. OneRunPerTurn' /\ \A u \in Turns : Live(u)' <=> Live(u)
    BY <1>1, <1>3, SameTurns
  <2> QED
    BY <1>1, <1>2, <1>3, <2>1 DEF TrackedWhileLive
<1>4. ASSUME Finish(t), stage'[t] \notin {"running", "sanitizing"}
      PROVE  OneRunPerTurn' /\ TrackedWhileLive'
  <2>1. runs \in Seq(RunRec) /\ runs' = Forget(t, runs)
    BY <1>4, RunFacts DEF Finish
  <2>2. /\ Distinct(runs')
        /\ \A i \in DOMAIN runs' : \E j \in DOMAIN runs : runs'[i] = runs[j]
        /\ \A i \in DOMAIN runs' : runs'[i].turn # t
        /\ \A j \in DOMAIN runs : runs[j].turn # t => \E i \in DOMAIN runs' : runs'[i] = runs[j]
    BY <1>1, <2>1, ForgetEffect DEF OneRunPerTurn
  <2>3. \A u \in Turns \ {t} : Live(u)' <=> Live(u)
    BY <2>2 DEF Live
  <2>4. ~Live(t)'
    BY <2>2 DEF Live
  <2> QED
    BY <1>1, <1>2, <1>4, <2>2, <2>3, <2>4 DEF TrackedWhileLive, OneRunPerTurn
<1>5. ASSUME Joins(t) PROVE OneRunPerTurn' /\ TrackedWhileLive'
  <2>1. BeginRun(t) /\ stage[t] = "connecting" /\ stage'[t] = "running"
    BY <1>5, StageMoves DEF Joins
  <2>2. Len(runs) < MaxRuns /\ \A i \in DOMAIN runs : runs[i].turn # t
    BY <2>1, RoomForRun
  <2>3. /\ Len(runs) + 1 \notin DOMAIN runs
        /\ DOMAIN runs' = DOMAIN runs \cup {Len(runs) + 1}
        /\ runs'[Len(runs) + 1].turn = t
        /\ \A i \in DOMAIN runs : runs'[i].turn = runs[i].turn
    BY <2>1, <2>2, BeginEffect
  <2>4. OneRunPerTurn'
    BY <1>1, <2>2, <2>3 DEF OneRunPerTurn, Distinct
  <2>5. Live(t)' /\ \A u \in Turns \ {t} : Live(u)' <=> Live(u)
    BY <2>3 DEF Live
  <2> QED
    BY <1>1, <1>2, <2>1, <2>4, <2>5 DEF TrackedWhileLive
<1>6. ASSUME Falls(t) PROVE OneRunPerTurn' /\ TrackedWhileLive'
  BY <1>3, <1>6, StageMoves DEF Falls
<1>7. ASSUME Drops(t) \/ Resolves(t) PROVE OneRunPerTurn' /\ TrackedWhileLive'
  BY <1>4, <1>7, StageMoves DEF Drops, Resolves
<1>8. ASSUME Completes(t) PROVE OneRunPerTurn' /\ TrackedWhileLive'
  BY <1>3, <1>8, StageMoves DEF Completes
<1>9. ASSUME EndsLate(t) PROVE OneRunPerTurn' /\ TrackedWhileLive'
  BY <1>3, <1>9 DEF EndsLate
<1>10. ASSUME UNCHANGED stage /\ Acts(t) PROVE OneRunPerTurn' /\ TrackedWhileLive'
  BY <1>3, <1>10, ActsOnRuns
<1>11. OneRunPerTurn' /\ TrackedWhileLive'
  BY <1>5, <1>6, <1>7, <1>8, <1>9, <1>10 DEF StepKinds
<1> QED
  BY <1>1, <1>11, QueueStep DEF RunInv

-------------------------------------------------------------------------------
(* Whom the labels and the thoughts belong to.                             *)

\* The run of query u carries no label, that of its own action in flight, or
\* that of a query which was given up.
OwnLabel(u, label) ==
  \/ label = NoLabel
  \/ /\ label.turn = u /\ acting[u].action = label.action
     /\ acting[u].at \notin {"off", "thinking", "ready"}
  \/ label.turn # u /\ GivenUp(label.turn)

OwnThought(u, thought) ==
  \/ thought.label = NoLabel
  \/ thought.label = [turn |-> u, action |-> thought.by]
  \/ thought.label.turn # u /\ GivenUp(thought.label.turn)

OwnIn(i) == OwnLabel(runs[i].turn, runs[i].action)

LabelsOwn == \A i \in DOMAIN runs : OwnIn(i)

RunsApart ==
  \A i, j \in DOMAIN runs :
    runs[i].turn # runs[j].turn /\ room[runs[i].turn] = room[runs[j].turn]
      => runs[i].action = NoLabel

LabelsNeedHandlers ==
  (\E i \in DOMAIN runs : runs[i].action # NoLabel) => "ACTION_STARTED" \in handlers

LabelInv == LabelsOwn /\ RunsApart /\ LabelsNeedHandlers

\* A label stays right as long as its query stays in its action.
LEMMA LabelStays ==
  ASSUME TypeOK, NEW t \in Turns, StepKinds(t), NEW u \in Turns, NEW label \in Labels,
         OwnLabel(u, label),
         \/ u # t \/ UNCHANGED acting \/ acting[t].at = "ready"
         \/ Acts(t) /\ Thinks(t)
  PROVE  OwnLabel(u, label)'
<1>1. CASE label = NoLabel
  BY <1>1 DEF OwnLabel
<1>2. CASE label # NoLabel /\ label.turn # u /\ GivenUp(label.turn)
  <2>1. label.turn \in Turns
    BY <1>2 DEF Labels
  <2>2. GivenUp(label.turn)'
    BY <1>2, <2>1, GivenUpStays
  <2> QED
    BY <1>2, <2>2 DEF OwnLabel
<1>3. CASE /\ label.turn = u /\ acting[u].action = label.action
           /\ acting[u].at \notin {"off", "thinking", "ready"}
  <2>1. CASE u # t
    BY <1>3, <2>1, OthersKept DEF OwnLabel
  <2>2. CASE UNCHANGED acting
    BY <1>3, <2>2 DEF OwnLabel
  <2>3. CASE u = t /\ Acts(t) /\ Thinks(t)
    BY <1>3, <2>3 DEF OwnLabel, Acts, Thinks
  <2> QED
    BY <1>3, <2>1, <2>2, <2>3
<1> QED
  BY <1>1, <1>2, <1>3 DEF OwnLabel

\* A run that was there before, with its label or none.
Kept(i) ==
  \E j \in DOMAIN runs :
    /\ runs'[i].turn = runs[j].turn
    /\ runs'[i].action \in {runs[j].action, NoLabel}

\* The label that an action which starts gives to the one run of its room.
Labelled(t, k) ==
  /\ Begins(t) /\ "ACTION_STARTED" \in handlers
  /\ RunsIn(room[t]) = {k}
  /\ runs'[k].turn = runs[k].turn
  /\ runs'[k].action = [turn |-> t, action |-> acting'[t].action]

Fresh(t, i) ==
  /\ Joins(t) /\ runs'[i].turn = t /\ runs'[i].action = NoLabel
  /\ runs'[i].thought = NoThought

\* The runs of a step and where they come from.
LEMMA RunSources ==
  ASSUME TypeOK, RunInv, Concurrency <= MaxRuns, NEW t \in Turns, StepKinds(t),
         NEW i \in DOMAIN runs'
  PROVE  Kept(i) \/ Fresh(t, i) \/ (i \in DOMAIN runs /\ Labelled(t, i))
<1>1. CASE UNCHANGED runs
  BY <1>1 DEF Kept
<1>2. CASE Joins(t)
  <2>1. BeginRun(t) /\ stage[t] = "connecting"
    BY <1>2 DEF Joins
  <2>2. Len(runs) < MaxRuns
    BY <2>1, RoomForRun
  <2>3. /\ DOMAIN runs' = DOMAIN runs \cup {Len(runs) + 1}
        /\ /\ runs'[Len(runs) + 1].turn = t
           /\ runs'[Len(runs) + 1].thought = NoThought
           /\ runs'[Len(runs) + 1].action = NoLabel
        /\ \A j \in DOMAIN runs :
             runs'[j].turn = runs[j].turn /\ runs'[j].action \in {runs[j].action, NoLabel}
    BY <2>1, <2>2, BeginEffect
  <2> QED
    BY <1>2, <2>3 DEF Kept, Fresh
<1>3. CASE Finish(t)
  <2>1. \A j \in DOMAIN Forget(t, runs) : \E k \in DOMAIN runs : Forget(t, runs)[j] = runs[k]
    BY RunFacts, ForgetEffect
  <2>2. runs' = Forget(t, runs)
    BY <1>3 DEF Finish
  <2>3. PICK k \in DOMAIN runs : runs'[i] = runs[k]
    BY <2>1, <2>2
  <2> QED
    BY <2>3 DEF Kept
<1>4. CASE Thinks(t)
  BY <1>1, <1>4, ThoughtEffect DEF Thinks, Kept
<1>5. CASE Begins(t)
  <2> DEFINE label == [turn |-> t, action |-> acting'[t].action]
  <2>1. label \in Labels
    BY <1>5 DEF Begins, Labels
  <2>2. CASE "ACTION_STARTED" \notin handlers
    BY <1>1, <1>5, <2>2 DEF Begins, ActionStarted
  <2>3. CASE "ACTION_STARTED" \in handlers /\ ~UNCHANGED runs
    <3>1. Attribute(room[t], label)
      BY <1>5, <2>3 DEF Begins, ActionStarted
    <3> HIDE DEF label
    <3>2. /\ DOMAIN runs' = DOMAIN runs
          /\ \E k \in DOMAIN runs :
               /\ RunsIn(room[t]) = {k} /\ runs'[k].action = label
               /\ runs'[k].turn = runs[k].turn
               /\ \A j \in DOMAIN runs \ {k} : runs'[j] = runs[j]
      BY <2>1, <2>3, <3>1, AttributeEffect
    <3> QED
      BY <1>5, <2>3, <3>2 DEF Labelled, Kept, label
  <2> QED
    BY <1>1, <2>2, <2>3
<1>6. CASE Ends(t)
  <2>1. CASE "ACTION_COMPLETED" \notin handlers
    BY <1>1, <1>6, <2>1 DEF Ends, ActionCompleted
  <2>2. CASE "ACTION_COMPLETED" \in handlers
    <3>1. Attribute(room[t], NoLabel)
      BY <1>6, <2>2 DEF Ends, ActionCompleted
    <3> QED
      BY <1>1, <3>1, AttributeEffect, NoLabelIsLabel DEF Kept
  <2> QED
    BY <2>1, <2>2
<1> QED
  BY <1>1, <1>2, <1>3, <1>4, <1>5, <1>6
    DEF StepKinds, Falls, Drops, Completes, EndsLate, Resolves, Acts

LEMMA HandlersKept ==
  ASSUME NEW t \in Turns, StepKinds(t), "ACTION_STARTED" \in handlers
  PROVE  UNCHANGED handlers
<1>1. handlers # {"unasked"}
  OBVIOUS
<1> QED
  BY <1>1 DEF StepKinds, Falls, Joins, Drops, Completes, EndsLate, Resolves

LEMMA NeedStep ==
  ASSUME TypeOK, RunInv, LabelsNeedHandlers, Concurrency <= MaxRuns,
         NEW t \in Turns, StepKinds(t)
  PROVE  LabelsNeedHandlers'
<1> SUFFICES ASSUME NEW i \in DOMAIN runs', runs'[i].action # NoLabel
             PROVE  "ACTION_STARTED" \in handlers'
  BY DEF LabelsNeedHandlers
<1>1. "ACTION_STARTED" \in handlers
  BY RunSources DEF Kept, Fresh, Labelled, LabelsNeedHandlers
<1> QED
  BY <1>1, HandlersKept

LEMMA ApartStep ==
  ASSUME TypeOK, RunInv, RunsApart, Concurrency <= MaxRuns,
         NEW t \in Turns, StepKinds(t), UNCHANGED room
  PROVE  RunsApart'
<1> SUFFICES ASSUME NEW i \in DOMAIN runs', NEW j \in DOMAIN runs',
                    runs'[i].turn # runs'[j].turn,
                    room[runs'[i].turn] = room[runs'[j].turn]
             PROVE  runs'[i].action = NoLabel
  BY DEF RunsApart
<1>1. CASE Joins(t)
  <2>1. BeginRun(t) /\ stage[t] = "connecting"
    BY <1>1 DEF Joins
  <2>2. Len(runs) < MaxRuns
    BY <2>1, RoomForRun
  <2> DEFINE n == Len(runs) + 1
  <2>3. /\ DOMAIN runs' = DOMAIN runs \cup {n}
        /\ runs'[n].turn = t /\ runs'[n].action = NoLabel
        /\ \A k \in DOMAIN runs :
             /\ runs'[k].turn = runs[k].turn
             /\ runs'[k].action \in {runs[k].action, NoLabel}
             /\ room[runs[k].turn] = room[t] => runs'[k].action = NoLabel
    BY <2>1, <2>2, BeginEffect
  <2> HIDE DEF n
  <2> QED
    BY <2>3 DEF RunsApart
<1>2. CASE ~Joins(t)
  <2>1. ASSUME NEW k \in DOMAIN runs', k \in DOMAIN runs, Labelled(t, k),
               NEW l \in DOMAIN runs', Kept(l) \/ (l \in DOMAIN runs /\ Labelled(t, l)),
               room[runs'[k].turn] = room[runs'[l].turn]
        PROVE  runs'[k].turn = runs'[l].turn
    <3>1. RunsIn(room[t]) = {k} /\ runs'[k].turn = runs[k].turn
      BY <2>1 DEF Labelled
    <3>2. PICK m \in DOMAIN runs : runs'[l].turn = runs[m].turn
      BY <2>1 DEF Kept, Labelled
    <3>3. room[runs[k].turn] = room[t]
      BY <3>1 DEF RunsIn
    <3>4. m \in RunsIn(room[t])
      BY <2>1, <3>1, <3>2, <3>3 DEF RunsIn
    <3> QED
      BY <3>1, <3>2, <3>4
  <2>2. /\ Kept(i) \/ (i \in DOMAIN runs /\ Labelled(t, i))
        /\ Kept(j) \/ (j \in DOMAIN runs /\ Labelled(t, j))
    BY <1>2, RunSources DEF Fresh
  <2>3. Kept(i) /\ Kept(j)
    BY <2>1, <2>2
  <2> QED
    BY <2>3 DEF Kept, RunsApart
<1> QED
  BY <1>1, <1>2

LEMMA OwnStep ==
  ASSUME TypeOK, RunInv, WorksForLive, LabelInv, Concurrency <= MaxRuns,
         NEW t \in Turns, StepKinds(t)
  PROVE  LabelsOwn'
<1>0. /\ \A i \in DOMAIN runs : runs[i].turn \in Turns /\ runs[i].action \in Labels
      /\ \A i \in DOMAIN runs : OwnLabel(runs[i].turn, runs[i].action)
  BY RunFacts DEF RunRec, LabelInv, LabelsOwn, OwnIn
<1> SUFFICES ASSUME NEW i \in DOMAIN runs' PROVE OwnIn(i)'
  BY DEF LabelsOwn
<1>1. CASE runs'[i].action = NoLabel
  BY <1>1 DEF OwnIn, OwnLabel
<1>2. ASSUME NEW j \in DOMAIN runs, runs'[i].turn = runs[j].turn,
             runs'[i].action = runs[j].action,
             \/ runs[j].turn # t \/ UNCHANGED acting \/ acting[t].at = "ready"
             \/ Acts(t) /\ Thinks(t)
      PROVE  OwnIn(i)'
  <2>1. PICK u \in Turns, label \in Labels : u = runs[j].turn /\ label = runs[j].action
    BY <1>0
  <2>2. OwnLabel(u, label)'
    BY <1>0, <1>2, <2>1, LabelStays
  <2> QED
    BY <1>2, <2>1, <2>2 DEF OwnIn, OwnLabel, GivenUp, At
<1>3. CASE Labelled(t, i) /\ i \in DOMAIN runs
  <2>1. /\ acting[t].at = "ready" /\ acting'[t].at = "started"
        /\ runs'[i].action = [turn |-> t, action |-> acting'[t].action]
        /\ RunsIn(room[t]) = {i} /\ runs'[i].turn = runs[i].turn
    BY <1>3 DEF Labelled, Begins
  <2>2. CASE runs[i].turn = t
    <3>1. /\ runs'[i].turn = t /\ runs'[i].action.turn = t
          /\ runs'[i].action.action = acting'[t].action
      BY <2>1, <2>2
    <3> QED
      BY <2>1, <3>1 DEF OwnIn, OwnLabel
  <2>3. CASE runs[i].turn # t
    <3>1. ~Live(t)
      <4>1. SUFFICES ASSUME NEW k \in DOMAIN runs, runs[k].turn = t PROVE FALSE
        BY DEF Live
      <4>2. k \in RunsIn(room[t])
        BY <4>1 DEF RunsIn
      <4> QED
        BY <2>1, <2>3, <4>1, <4>2
    <3>2. GivenUp(t)
      BY <2>1, <3>1 DEF WorksForLive, RunInv, TrackedWhileLive, At
    <3>3. GivenUp(t)'
      BY <3>2, GivenUpStays
    <3> QED
      BY <2>1, <2>3, <3>3 DEF OwnIn, OwnLabel, GivenUp, At
  <2> QED
    BY <2>2, <2>3
<1>4. CASE Kept(i) /\ ~Ends(t) /\ ~Finish(t) /\ ~Joins(t)
  <2>1. UNCHANGED acting \/ acting[t].at = "ready" \/ (Acts(t) /\ Thinks(t))
    BY <1>4 DEF StepKinds, Falls, Drops, Completes, EndsLate, Resolves, Acts, Begins
  <2> QED
    BY <1>1, <1>2, <1>4, <2>1 DEF Kept
<1>5. CASE Finish(t)
  <2>1. runs \in Seq(RunRec) /\ runs' = Forget(t, runs) /\ Distinct(runs)
    BY <1>5, RunFacts DEF Finish, RunInv, OneRunPerTurn
  <2>2. /\ \A k \in DOMAIN runs' : runs'[k].turn # t
        /\ \A k \in DOMAIN runs' : \E j \in DOMAIN runs : runs'[k] = runs[j]
    BY <2>1, ForgetEffect
  <2>3. PICK j \in DOMAIN runs : runs'[i] = runs[j] /\ runs'[i].turn # t
    BY <2>2
  <2> QED
    BY <1>2, <2>3
<1>6. CASE Joins(t)
  <2>1. \A k \in DOMAIN runs : runs[k].turn # t
    BY <1>6, RoomForRun DEF Joins
  <2>2. Kept(i) \/ Fresh(t, i)
    BY <1>3, <1>6, RunSources DEF Labelled, Begins, Joins
  <2> QED
    BY <1>1, <1>2, <2>1, <2>2 DEF Kept, Fresh
<1>7. CASE Ends(t)
  <2>1. CASE "ACTION_COMPLETED" \notin handlers
    <3>1. "ACTION_STARTED" \notin handlers
      BY <2>1 DEF TypeOK
    <3>2. UNCHANGED runs /\ \A k \in DOMAIN runs : runs[k].action = NoLabel
      BY <1>7, <2>1, <3>1 DEF Ends, ActionCompleted, LabelInv, LabelsNeedHandlers
    <3> QED
      BY <1>1, <3>2
  <2>2. CASE "ACTION_COMPLETED" \in handlers
    <3>1. Attribute(room[t], NoLabel)
      BY <1>7, <2>2 DEF Ends, ActionCompleted
    <3>2. /\ DOMAIN runs' = DOMAIN runs
          /\ \/ UNCHANGED runs /\ ~(\E k \in DOMAIN runs : RunsIn(room[t]) = {k})
             \/ \E k \in DOMAIN runs :
                  /\ RunsIn(room[t]) = {k} /\ runs'[k].action = NoLabel
                  /\ \A m \in DOMAIN runs \ {k} : runs'[m] = runs[m]
      BY <3>1, AttributeEffect, NoLabelIsLabel
    <3>3. CASE runs'[i] = runs[i] /\ runs[i].turn # t
      BY <1>2, <3>2, <3>3
    <3>4. CASE runs[i].turn = t /\ UNCHANGED runs /\ runs'[i].action # NoLabel
      <4>1. i \in RunsIn(room[t]) /\ ~(RunsIn(room[t]) = {i})
        BY <3>2, <3>4 DEF RunsIn
      <4>2. PICK k \in RunsIn(room[t]) : k # i
        BY <4>1
      <4>3. runs[k].turn # t /\ room[runs[k].turn] = room[t] /\ k \in DOMAIN runs
        BY <3>2, <3>4, <4>2 DEF RunInv, OneRunPerTurn, Distinct, RunsIn
      <4>4. runs[i].action = NoLabel
        BY <3>2, <3>4, <4>3 DEF LabelInv, RunsApart
      <4> QED
        BY <1>1, <3>4, <4>4
    <3>5. CASE runs[i].turn = t /\ ~UNCHANGED runs
      <4>1. i \in RunsIn(room[t])
        BY <3>2, <3>5 DEF RunsIn
      <4> QED
        BY <1>1, <3>2, <3>5, <4>1
    <3> QED
      BY <1>1, <3>2, <3>3, <3>4, <3>5
  <2> QED
    BY <2>1, <2>2
<1> QED
  BY <1>1, <1>3, <1>4, <1>5, <1>6, <1>7, RunSources DEF Fresh

ThoughtIn(i) == OwnThought(runs[i].turn, runs[i].thought)

ThoughtInv == \A i \in DOMAIN runs : ThoughtIn(i)

\* A thought comes with its run, or is had in the step, under the run's label.
LEMMA ThoughtSources ==
  ASSUME TypeOK, RunInv, Concurrency <= MaxRuns, NEW t \in Turns, StepKinds(t),
         NEW i \in DOMAIN runs'
  PROVE  \/ \E j \in DOMAIN runs :
              runs'[i].turn = runs[j].turn /\ runs'[i].thought = runs[j].thought
         \/ runs'[i].thought = NoThought
         \/ /\ i \in DOMAIN runs /\ runs[i].turn = t /\ runs'[i].turn = t
            /\ runs'[i].thought = [by |-> acting[t].action, label |-> runs[i].action]
<1>1. CASE UNCHANGED runs
  BY <1>1
<1>2. CASE Joins(t)
  <2>1. BeginRun(t) /\ stage[t] = "connecting"
    BY <1>2 DEF Joins
  <2>2. Len(runs) < MaxRuns
    BY <2>1, RoomForRun
  <2>3. /\ DOMAIN runs' = DOMAIN runs \cup {Len(runs) + 1}
        /\ runs'[Len(runs) + 1].thought = NoThought
        /\ \A j \in DOMAIN runs :
             runs'[j].turn = runs[j].turn /\ runs'[j].thought = runs[j].thought
    BY <2>1, <2>2, BeginEffect
  <2> QED
    BY <2>3
<1>3. CASE Finish(t)
  <2>1. runs \in Seq(RunRec) /\ runs' = Forget(t, runs)
    BY <1>3, RunFacts DEF Finish
  <2>2. \E j \in DOMAIN runs : runs'[i] = runs[j]
    BY <2>1, ForgetEffect
  <2> QED
    BY <2>2
<1>4. CASE RecordThought(t)
  BY <1>4, ThoughtEffect
<1>5. ASSUME NEW label \in Labels, Attribute(room[t], label)
      PROVE  \E j \in DOMAIN runs :
               runs'[i].turn = runs[j].turn /\ runs'[i].thought = runs[j].thought
  BY <1>5, AttributeEffect
<1>6. CASE Begins(t)
  <2>1. [turn |-> t, action |-> acting'[t].action] \in Labels
    BY <1>6 DEF Begins, Labels
  <2> QED
    BY <1>1, <1>5, <1>6, <2>1 DEF Begins, ActionStarted
<1>7. CASE Ends(t)
  BY <1>1, <1>5, <1>7, NoLabelIsLabel DEF Ends, ActionCompleted
<1> QED
  BY <1>1, <1>2, <1>3, <1>4, <1>6, <1>7
    DEF StepKinds, Falls, Drops, Completes, EndsLate, Resolves, Acts, Thinks

LEMMA ThoughtStays ==
  ASSUME TypeOK, NEW t \in Turns, StepKinds(t), NEW u \in Turns, NEW thought \in Thoughts,
         OwnThought(u, thought)
  PROVE  OwnThought(u, thought)'
<1>1. CASE /\ thought.label # NoLabel
           /\ thought.label.turn # u /\ GivenUp(thought.label.turn)
  <2>1. thought.label.turn \in Turns
    BY <1>1 DEF Thoughts, Labels
  <2>2. GivenUp(thought.label.turn)'
    BY <1>1, <2>1, GivenUpStays
  <2> QED
    BY <1>1, <2>2 DEF OwnThought
<1> QED
  BY <1>1 DEF OwnThought

LEMMA ThoughtStep ==
  ASSUME TypeOK, RunInv, LabelInv, ThoughtInv, Concurrency <= MaxRuns,
         NEW t \in Turns, StepKinds(t)
  PROVE  ThoughtInv'
<1> SUFFICES ASSUME NEW i \in DOMAIN runs' PROVE ThoughtIn(i)'
  BY DEF ThoughtInv
<1>1. \A j \in DOMAIN runs : /\ runs[j].turn \in Turns /\ runs[j].thought \in Thoughts
                             /\ runs[j].action \in Labels
  BY RunFacts DEF RunRec
<1>2. ASSUME NEW j \in DOMAIN runs,
             runs'[i].turn = runs[j].turn /\ runs'[i].thought = runs[j].thought
      PROVE  ThoughtIn(i)'
  <2>1. PICK u \in Turns, thought \in Thoughts : u = runs[j].turn /\ thought = runs[j].thought
    BY <1>1
  <2>2. OwnThought(u, thought)
    BY <2>1 DEF ThoughtInv, ThoughtIn
  <2>3. OwnThought(u, thought)'
    BY <2>2, ThoughtStays
  <2> QED
    BY <1>2, <2>1, <2>3 DEF ThoughtIn, OwnThought, GivenUp, At
<1>3. CASE runs'[i].thought = NoThought
  BY <1>3 DEF ThoughtIn, OwnThought, NoThought
<1>4. CASE /\ i \in DOMAIN runs /\ runs[i].turn = t /\ runs'[i].turn = t
           /\ runs'[i].thought = [by |-> acting[t].action, label |-> runs[i].action]
  <2>1. PICK label \in Labels : label = runs[i].action
    BY <1>1, <1>4
  <2>2. runs'[i].thought.by = acting[t].action /\ runs'[i].thought.label = label
    BY <1>4, <2>1
  <2>3. OwnLabel(t, label)
    BY <1>4, <2>1 DEF LabelInv, LabelsOwn, OwnIn
  <2>4. CASE label = NoLabel
    BY <1>4, <2>2, <2>4 DEF ThoughtIn, OwnThought
  <2>5. CASE label # NoLabel /\ label.turn = t /\ acting[t].action = label.action
    <3>1. label = [turn |-> t, action |-> acting[t].action]
      BY <2>5 DEF Labels
    <3> QED
      BY <1>4, <2>2, <3>1 DEF ThoughtIn, OwnThought
  <2>6. CASE label # NoLabel /\ label.turn # t /\ GivenUp(label.turn)
    <3>1. label.turn \in Turns
      BY <2>6 DEF Labels
    <3>2. GivenUp(label.turn)'
      BY <2>6, <3>1, GivenUpStays
    <3> QED
      BY <1>4, <2>2, <2>6, <3>2 DEF ThoughtIn, OwnThought, GivenUp, At
  <2> QED
    BY <2>3, <2>4, <2>5, <2>6 DEF OwnLabel
<1> QED
  BY <1>2, <1>3, <1>4, ThoughtSources

ProvenanceInv == RunInv /\ LabelInv /\ ThoughtInv

LEMMA InitProvenance == Init => ProvenanceInv
<1> SUFFICES ASSUME Init PROVE ProvenanceInv
  OBVIOUS
<1>1. DOMAIN runs = {}
  BY DEF Init
<1>2. OneRunPerTurn /\ LabelInv /\ ThoughtInv
  BY <1>1 DEF OneRunPerTurn, Distinct, LabelInv, LabelsOwn, RunsApart, LabelsNeedHandlers,
              ThoughtInv
<1>3. TrackedWhileLive
  BY <1>1 DEF Init, TrackedWhileLive, Live
<1>4. WithinQueue
  <2>1. Busy = {}
    BY DEF Init, Busy
  <2>2. Cardinality(Busy) = 0
    BY <2>1, FS_EmptySet
  <2> QED
    BY <2>2, TurnAssumption DEF WithinQueue
<1> QED
  BY <1>2, <1>3, <1>4 DEF ProvenanceInv, RunInv

LEMMA StepProvenance ==
  ASSUME Concurrency <= MaxRuns
  PROVE  TypeOK /\ WorkInv /\ ProvenanceInv /\ [Next]_vars => ProvenanceInv'
<1> SUFFICES ASSUME TypeOK, WorkInv, ProvenanceInv, [Next]_vars PROVE ProvenanceInv'
  OBVIOUS
<1>1. CASE UNCHANGED vars
  BY <1>1 DEF vars, ProvenanceInv, RunInv, OneRunPerTurn, TrackedWhileLive, Live, WithinQueue,
       Busy, LabelInv, LabelsOwn, OwnIn, OwnLabel, RunsApart, LabelsNeedHandlers, ThoughtInv,
       ThoughtIn, OwnThought, GivenUp, At
<1>2. CASE Next
  <2>1. UNCHANGED room /\ \E t \in Turns : StepKinds(t)
    BY <1>2, NextKinds
  <2>2. PICK t \in Turns : StepKinds(t)
    BY <2>1
  <2>3. RunInv /\ LabelInv /\ ThoughtInv /\ WorksForLive
    BY DEF ProvenanceInv, WorkInv
  <2>4. RunInv'
    BY <2>2, <2>3, RunStep
  <2>5. LabelInv'
    BY <2>1, <2>2, <2>3, NeedStep, ApartStep, OwnStep DEF LabelInv
  <2>6. ThoughtInv'
    BY <2>2, <2>3, ThoughtStep
  <2> QED
    BY <2>4, <2>5, <2>6 DEF ProvenanceInv
<1> QED
  BY <1>1, <1>2

\* One run for every query that waits for the runtime, its label the action in
\* flight of that run or of a turn that was given up: the inductive invariant.
THEOREM ProvenanceInvariant ==
  ASSUME Concurrency <= MaxRuns
  PROVE  Spec => []ProvenanceInv
<1>1. Spec => []TypeOK
  BY TurnTypes
<1>2. Spec => []WorkInv
  BY <1>1, InitWorks, StepWorks, PTL DEF Spec
<1> QED
  BY <1>1, <1>2, InitProvenance, StepProvenance, PTL DEF Spec

LEMMA RunsReleasedFromInv ==
  ASSUME Concurrency <= MaxRuns
  PROVE  TypeOK /\ ProvenanceInv => RunsReleased
<1> SUFFICES ASSUME TypeOK, ProvenanceInv PROVE RunsReleased
  OBVIOUS
<1>1. /\ \A i \in DOMAIN runs : runs[i].turn \in Busy
      /\ Busy \in SUBSET Turns
  BY LiveBusy DEF ProvenanceInv, RunInv
<1>2. Len(runs) <= Cardinality(Busy)
  BY <1>1, RunsWithin DEF ProvenanceInv, RunInv
<1>3. Len(runs) \in Nat /\ Cardinality(Busy) \in Nat
  BY <1>1, RunFacts, ServedFinite
<1>4. Len(runs) <= Concurrency /\ Len(runs) <= MaxRuns
  BY <1>2, <1>3, TurnAssumption DEF ProvenanceInv, RunInv, WithinQueue
<1>5. Min({Concurrency, MaxRuns}) \in {Concurrency, MaxRuns}
  <2>1. \A y \in {Concurrency, MaxRuns} : Concurrency =< y
    BY TurnAssumption
  <2> QED
    BY <2>1 DEF Min
<1> QED
  BY <1>4, <1>5 DEF RunsReleased, ProvenanceInv, RunInv, TrackedWhileLive

\* A run is tracked exactly while its query waits for the runtime or its answer,
\* whichever way queryElizaOS ends, and no live run is ever evicted: for any
\* slots of the queue up to the runs that runProvenance keeps (5 and 256).
THEOREM RunsAreReleased ==
  ASSUME Concurrency <= MaxRuns
  PROVE  Spec => []RunsReleased
<1>1. Spec => []TypeOK
  BY TurnTypes
<1>2. Spec => []ProvenanceInv
  BY ProvenanceInvariant
<1> QED
  BY <1>1, <1>2, RunsReleasedFromInv, PTL

LEMMA ThoughtsFromInv == TypeOK /\ ProvenanceInv => ThoughtsOwn
<1> SUFFICES ASSUME TypeOK, ProvenanceInv, NEW r \in Range(runs)
             PROVE  \/ r.thought.label = NoLabel
                    \/ r.thought.label = [turn |-> r.turn, action |-> r.thought.by]
                    \/ r.thought.label.turn # r.turn /\ GivenUp(r.thought.label.turn)
  BY DEF ThoughtsOwn
<1>1. PICK i \in DOMAIN runs : r = runs[i]
  BY RunFacts
<1> QED
  BY <1>1 DEF ProvenanceInv, ThoughtInv, ThoughtIn, OwnThought

\* A thought is titled by the action of its own turn that had it, by none, or
\* by a turn that was given up while the runtime worked on: although action
\* events name only a room, and whichever turns share one (runProvenance.js).
THEOREM ThoughtsAttributed ==
  ASSUME Concurrency <= MaxRuns
  PROVE  Spec => []ThoughtsOwn
<1>1. Spec => []TypeOK
  BY TurnTypes
<1>2. Spec => []ProvenanceInv
  BY ProvenanceInvariant
<1> QED
  BY <1>1, <1>2, ThoughtsFromInv, PTL

================================================================================
