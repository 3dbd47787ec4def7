------------------------ MODULE ConversationStoreProofs ------------------------
(***************************************************************************)
(* Theorems on ConversationStore for any conversations, requests, limits,  *)
(* storage modes and faults: types, the record and the key file of every   *)
(* conversation that has an answer, and the thread that the files of an    *)
(* answer lead through.                                                    *)
(***************************************************************************)
EXTENDS ConversationStore, SequenceTheorems, FiniteSetTheorems, WellFoundedInduction, TLAPS

Bundles == [conversation : Cids, prompt : Cids, answer : Cids]

\* The types of what the handlers and the client change, without the files.
StoreTypes ==
  /\ mode \in Modes
  /\ asked \in Seq(RequestType) /\ Len(asked) <= MaxRequests
  /\ \A q \in Requests : asked[q].parent < q
  /\ keyOf \in [Places -> 0 .. MaxRequests]
  /\ pc \in [1 .. MaxRequests -> Pcs]
  /\ creates \in [1 .. MaxRequests -> BOOLEAN]
  /\ tagIndex \in Seq(KeyFiles)
  /\ bundle \in [1 .. MaxRequests -> Bundles]
  /\ shortened \cup misled \subseteq Requests
  /\ stray \subseteq Places
  /\ restarted \in BOOLEAN

-------------------------------------------------------------------------------
(* Sequences and least numbers.                                            *)

LEMMA SeqFacts ==
  ASSUME NEW S, NEW s \in Seq(S)
  PROVE  /\ Len(s) \in Nat /\ DOMAIN s = 1 .. Len(s)
         /\ \A i \in DOMAIN s : s[i] \in S
  BY LenProperties, ElementOfSeq

LEMMA AppendFacts ==
  ASSUME NEW S, NEW s \in Seq(S), NEW x \in S, NEW new, new = Append(s, x)
  PROVE  /\ new \in Seq(S) /\ Len(new) = Len(s) + 1 /\ Len(s) \in Nat
         /\ DOMAIN new = DOMAIN s \cup {Len(s) + 1} /\ Len(s) + 1 \notin DOMAIN s
         /\ \A i \in DOMAIN s : new[i] = s[i]
         /\ new[Len(s) + 1] = x
<1>1. /\ Len(s) \in Nat /\ DOMAIN s = 1 .. Len(s)
  BY SeqFacts
<1>2. /\ new \in Seq(S) /\ Len(new) = Len(s) + 1
      /\ \A i \in 1 .. Len(s) : new[i] = s[i]
      /\ new[Len(s) + 1] = x
  BY AppendProperties
<1>3. DOMAIN new = 1 .. Len(s) + 1
  BY <1>2, SeqFacts
<1> QED
  BY <1>1, <1>2, <1>3

LEMMA LeastOf ==
  ASSUME NEW S \in SUBSET Nat, S # {}
  PROVE  \E m \in S : \A n \in S : m <= n
<1>1. PICK m \in S : \A n \in S : <<n, m>> \notin OpToRel(<, Nat)
  BY NatLessThanWellFounded, WFMin
<1>2. \A n \in S : ~(n < m)
  BY <1>1 DEF OpToRel
<1> QED
  BY <1>2

LEMMA GreatestOf ==
  ASSUME NEW n \in Nat, NEW S \in SUBSET (1 .. n), S # {}
  PROVE  \E m \in S : \A i \in S : i <= m
<1> DEFINE D == {n - i : i \in S}
<1>1. D \in SUBSET Nat /\ D # {}
  <2>1. PICK k \in S : TRUE
    OBVIOUS
  <2>2. n - k \in D
    BY <2>1
  <2>3. \A i \in S : n - i \in Nat
    OBVIOUS
  <2> QED
    BY <2>2, <2>3
<1>2. PICK d \in D : \A e \in D : d <= e
  BY <1>1, LeastOf
<1>3. PICK m \in S : d = n - m
  OBVIOUS
<1>4. \A i \in S : n - m <= n - i
  BY <1>2, <1>3
<1> QED
  BY <1>4

-------------------------------------------------------------------------------
(* Requests and their types.                                               *)

LEMMA AskedFacts ==
  ASSUME StoreTypes
  PROVE  /\ MaxRequests \in Nat /\ Len(asked) \in Nat /\ Len(asked) <= MaxRequests
         /\ Requests = DOMAIN asked /\ Requests \subseteq 1 .. MaxRequests
         /\ \A q \in Requests : asked[q] \in RequestType
         /\ \A q \in Requests :
              /\ q \in 1 .. MaxRequests
              /\ asked[q].kind \in {"prompt", "regeneration", "branch"}
              /\ asked[q].conv \in Places /\ asked[q].target \in Places
              /\ asked[q].parent \in Nat /\ asked[q].parent < q
              /\ asked[q].parent # 0 => asked[q].parent \in Requests
              /\ asked[q].isNew \in BOOLEAN /\ asked[q].withKey \in BOOLEAN
<1>1. /\ Len(asked) \in Nat /\ DOMAIN asked = 1 .. Len(asked)
      /\ \A q \in DOMAIN asked : asked[q] \in RequestType
  BY SeqFacts DEF StoreTypes
<1>2. MaxRequests \in Nat /\ Len(asked) <= MaxRequests /\ Requests = 1 .. Len(asked)
  BY StoreAssumption DEF StoreTypes, Requests
<1>3. \A q \in Requests : asked[q].parent < q
  BY DEF StoreTypes
<1>4. ASSUME NEW q \in Requests
      PROVE  /\ asked[q].kind \in {"prompt", "regeneration", "branch"}
             /\ asked[q].conv \in Places /\ asked[q].target \in Places
             /\ asked[q].parent \in Nat
             /\ asked[q].isNew \in BOOLEAN /\ asked[q].withKey \in BOOLEAN
  BY <1>1, <1>2 DEF RequestType
<1>5. \A q \in Requests : asked[q].parent # 0 => asked[q].parent \in Requests
  BY <1>1, <1>2, <1>3, <1>4
<1> QED
  BY <1>1, <1>2, <1>3, <1>4, <1>5

LEMMA CidFacts ==
  ASSUME NEW q \in 0 .. MaxRequests
  PROVE  /\ \A kind \in {"prompt", "answer", "conversation"} :
              Cid(kind, q) \in Cids /\ Cid(kind, q) # None
         /\ None \in Cids
<1>1. 0 \in 0 .. MaxRequests
  BY StoreAssumption
<1> QED
  BY <1>1 DEF Cid, Cids, None

LEMMA BundleTypes ==
  ASSUME StoreTypes, NEW q \in Requests
  PROVE  BundleOf(q) \in Bundles /\ BundleOf(q) # NoBundle
<1>1. q \in 0 .. MaxRequests
  BY AskedFacts
<1>2. asked[q].kind \in {"prompt", "regeneration", "branch"}
  BY AskedFacts
<1>3. /\ None \in Cids
      /\ Cid("prompt", q) \in Cids /\ Cid("answer", q) \in Cids /\ Cid("conversation", q) \in Cids
      /\ Cid("answer", q) # None /\ Cid("conversation", q) # None
  BY <1>1, CidFacts
<1>4. BundleOf(q) \in Bundles
  BY <1>3 DEF BundleOf, Bundles
<1>5. BundleOf(q).conversation # None \/ BundleOf(q).answer # None
  BY <1>2, <1>3 DEF BundleOf
<1> QED
  BY <1>4, <1>5 DEF NoBundle

LEMMA KeyFileTypes ==
  ASSUME StoreTypes, NEW q \in Requests
  PROVE  /\ KeyFile(q) \in KeyFiles /\ KeyFile(q).conv = asked[q].target
         /\ KeyFile(q).key = keyOf[asked[q].target]
         /\ asked[q].kind # "branch" /\ asked[q].withKey => KeyFile(q).form = "hex"
<1>1. asked[q].target \in Places
  BY AskedFacts
<1>2. keyOf[asked[q].target] \in 0 .. MaxRequests
  BY <1>1 DEF StoreTypes
<1> QED
  BY <1>1, <1>2 DEF KeyFile, KeyFiles

-------------------------------------------------------------------------------
(* What a request is, and how far it can be.                               *)

Shape(q) ==
  /\ asked[q].kind # "branch" => asked[q].target = asked[q].conv
  /\ asked[q].kind = "branch" =>
       asked[q].target \in BranchTargets /\ keyOf[asked[q].target] = keyOf[asked[q].conv]
  /\ asked[q].kind # "prompt" => asked[q].parent # 0
  /\ asked[q].isNew => asked[q].withKey
  /\ asked[q].parent # 0 =>
       /\ asked[q].parent \in Answered
       /\ asked[q].conv = asked[asked[q].parent].target
       /\ asked[q].kind # "prompt" => asked[asked[q].parent].kind # "branch"
  /\ keyOf[asked[q].target] # 0

Progress(q) ==
  /\ creates[q] => asked[q].kind = "prompt"
  /\ asked[q].kind = "branch" => pc[q] \in {"asked", "upload", "submit", "ended", "failed"}
  /\ asked[q].kind = "regeneration" => pc[q] \notin {"upload", "files"}
  /\ q \in Answered => pc[q] = "ended" /\ bundle[q] = BundleOf(q)

Unasked(q) == pc[q] = "asked" /\ ~creates[q] /\ bundle[q] = NoBundle

LogInv ==
  /\ \A q \in Requests : Shape(q)
  /\ \A q \in Requests : Progress(q)
  /\ \A q \in 1 .. MaxRequests : q > Len(asked) => Unasked(q)

\* A client's step: what it may ask, and the key it chooses.
AskedRight(r) ==
  /\ r.kind # "branch" => r.target = r.conv
  /\ r.kind = "branch" => r.target \in BranchTargets
  /\ r.kind # "prompt" => r.parent # 0
  /\ r.isNew => r.withKey
  /\ r.parent # 0 => /\ r.parent \in Answered
                     /\ r.conv = asked[r.parent].target
                     /\ r.kind # "prompt" => asked[r.parent].kind # "branch"
  /\ r.parent = 0 => \/ r.conv \in Conversations
                     \/ \E p \in Requests : asked[p].conv = r.conv /\ asked[p].kind = "prompt"

KeyKept(r) ==
  /\ keyOf' \in [Places -> 0 .. MaxRequests]
  /\ \A c \in Places : keyOf[c] # 0 => keyOf'[c] = keyOf[c]
  /\ keyOf'[r.target] # 0
  /\ r.kind = "branch" => keyOf'[r.target] = keyOf'[r.conv]

Asks(r) ==
  /\ Ask(r)
  /\ r.parent <= Len(asked)
  /\ AskedRight(r)
  /\ KeyKept(r)

\* The key of a place where something was asked stays.
LEMMA KeysOf ==
  ASSUME StoreTypes, LogInv, NEW q \in Requests
  PROVE  /\ keyOf[asked[q].target] # 0 /\ keyOf[asked[q].conv] # 0
         /\ keyOf[asked[q].target] = keyOf[asked[q].conv]
  BY AskedFacts DEF LogInv, Shape

LEMMA ClientKinds ==
  ASSUME StoreTypes, LogInv, Client
  PROVE  \E r \in RequestType : Asks(r)
<1>0. /\ keyOf \in [Places -> 0 .. MaxRequests] /\ MaxRequests \in Nat
      /\ Len(asked) \in Nat /\ Answered \subseteq Requests
      /\ \A q \in Requests : q \in 0 .. MaxRequests /\ q <= Len(asked) /\ q # 0
      /\ Conversations \subseteq Places /\ BranchTargets \subseteq Places
  BY AskedFacts DEF StoreTypes, Answered, Requests, Places
<1>1. ASSUME NEW c \in Conversations, AskFirst(c)
      PROVE  \E r \in RequestType : Asks(r)
  <2> DEFINE r == Request("prompt", c, c, 0, TRUE, TRUE)
  <2>1. /\ r \in RequestType /\ r.kind = "prompt" /\ r.conv = c /\ r.target = c /\ r.parent = 0
        /\ r.withKey
    <3>1. c \in Places /\ 0 \in 0 .. MaxRequests
      BY <1>0
    <3>2. r.withKey
      BY DEF Request
    <3> QED
      BY <3>1, <3>2 DEF Request, RequestType
  <2>2. /\ Ask(r) /\ keyOf[c] = 0 /\ keyOf' = [keyOf EXCEPT ![c] = Len(asked) + 1]
        /\ Len(asked) < MaxRequests
    BY <1>1 DEF AskFirst, Ask
  <2> HIDE DEF r
  <2>3. KeyKept(r)
    BY <1>0, <2>1, <2>2 DEF KeyKept
  <2> QED
    BY <1>0, <2>1, <2>2, <2>3 DEF Asks, AskedRight
<1>2. ASSUME NEW c \in Places, AskAgain(c)
      PROVE  \E r \in RequestType : Asks(r)
  <2>1. PICK p \in Requests : asked[p].conv = c /\ asked[p].kind = "prompt"
    BY <1>2 DEF AskAgain
  <2>2. PICK isNew \in BOOLEAN, withKey \in BOOLEAN :
          (isNew => withKey) /\ Ask(Request("prompt", c, c, 0, isNew, withKey))
    BY <1>2 DEF AskAgain
  <2> DEFINE r == Request("prompt", c, c, 0, isNew, withKey)
  <2>3. /\ r \in RequestType /\ r.kind = "prompt" /\ r.conv = c /\ r.target = c /\ r.parent = 0
        /\ r.isNew => r.withKey
    <3>1. r.isNew => r.withKey
      BY <2>2, Zenon DEF Request
    <3>2. 0 \in 0 .. MaxRequests
      BY <1>0
    <3>3. /\ r \in RequestType /\ r.kind = "prompt" /\ r.conv = c /\ r.target = c
          /\ r.parent = 0
      BY <1>0, <3>2 DEF Request, RequestType
    <3> QED
      BY <3>1, <3>3
  <2>4. Ask(r) /\ keyOf' = keyOf
    BY <1>2, <2>2 DEF AskAgain
  <2> HIDE DEF r
  <2>5. KeyKept(r)
    BY <1>0, <2>1, <2>3, <2>4, KeysOf DEF KeyKept
  <2> QED
    BY <1>0, <2>1, <2>2, <2>3, <2>4, <2>5 DEF Asks, AskedRight
<1>3. ASSUME NEW p \in Requests, AskFollowUp(p)
      PROVE  \E r \in RequestType : Asks(r)
  <2> DEFINE c == asked[p].target
  <2>1. c \in Places /\ p \in Answered
    BY <1>3, AskedFacts DEF AskFollowUp
  <2>2. PICK withKey \in BOOLEAN : Ask(Request("prompt", c, c, p, FALSE, withKey))
    BY <1>3 DEF AskFollowUp
  <2> DEFINE r == Request("prompt", c, c, p, FALSE, withKey)
  <2>3. /\ r \in RequestType /\ r.kind = "prompt" /\ r.conv = c /\ r.target = c /\ r.parent = p
        /\ ~r.isNew
    <3>1. p \in 0 .. MaxRequests
      BY <1>0
    <3> HIDE DEF c
    <3> QED
      BY <2>1, <3>1 DEF Request, RequestType, Places
  <2>4. Ask(r) /\ keyOf' = keyOf
    BY <1>3, <2>2 DEF AskFollowUp
  <2> HIDE DEF r
  <2>5. KeyKept(r)
    BY <1>0, <2>3, <2>4, KeysOf DEF KeyKept
  <2> QED
    BY <1>0, <2>1, <2>3, <2>4, <2>5 DEF Asks, AskedRight
<1>4. ASSUME NEW p \in Requests, AskRegeneration(p)
      PROVE  \E r \in RequestType : Asks(r)
  <2> DEFINE c == asked[p].conv
  <2>1. c \in Places /\ p \in Answered /\ asked[p].kind # "branch" /\ c = asked[p].target
    BY <1>4, AskedFacts DEF AskRegeneration, LogInv, Shape
  <2>2. PICK withKey \in BOOLEAN : Ask(Request("regeneration", c, c, p, FALSE, withKey))
    BY <1>4 DEF AskRegeneration
  <2> DEFINE r == Request("regeneration", c, c, p, FALSE, withKey)
  <2>3. /\ r \in RequestType /\ r.kind = "regeneration" /\ r.conv = c /\ r.target = c
        /\ r.parent = p /\ ~r.isNew
    <3>1. p \in 0 .. MaxRequests
      BY <1>0
    <3> HIDE DEF c
    <3> QED
      BY <2>1, <3>1 DEF Request, RequestType, Places
  <2>4. Ask(r) /\ keyOf' = keyOf
    BY <1>4, <2>2 DEF AskRegeneration
  <2> HIDE DEF r
  <2>5. KeyKept(r)
    BY <1>0, <2>3, <2>4, KeysOf DEF KeyKept
  <2> QED
    BY <1>0, <2>1, <2>3, <2>4, <2>5 DEF Asks, AskedRight
<1>5. ASSUME NEW p \in Requests, NEW d \in BranchTargets, AskBranch(p, d)
      PROVE  \E r \in RequestType : Asks(r)
  <2> DEFINE c == asked[p].conv
  <2>1. /\ c \in Places /\ p \in Answered /\ asked[p].kind # "branch" /\ c = asked[p].target
        /\ keyOf[c] # 0
    BY <1>5, AskedFacts, KeysOf DEF AskBranch, LogInv, Shape
  <2>2. PICK withKey \in BOOLEAN : Ask(Request("branch", c, d, p, FALSE, withKey))
    BY <1>5 DEF AskBranch
  <2> DEFINE r == Request("branch", c, d, p, FALSE, withKey)
  <2>3. /\ r \in RequestType /\ r.kind = "branch" /\ r.conv = c /\ r.target = d
        /\ r.parent = p /\ ~r.isNew
    <3>1. p \in 0 .. MaxRequests
      BY <1>0
    <3> HIDE DEF c
    <3> QED
      BY <2>1, <3>1 DEF Request, RequestType, Places
  <2>4. Ask(r) /\ keyOf[d] = 0 /\ keyOf' = [keyOf EXCEPT ![d] = keyOf[c]]
    BY <1>5, <2>2 DEF AskBranch
  <2> HIDE DEF r
  <2>5. KeyKept(r)
    <3> HIDE DEF c
    <3> QED
      BY <1>0, <2>1, <2>3, <2>4 DEF KeyKept
  <2> QED
    BY <1>0, <2>1, <2>3, <2>4, <2>5 DEF Asks, AskedRight
<1> QED
  BY <1>1, <1>2, <1>3, <1>4, <1>5 DEF Client, Places

-------------------------------------------------------------------------------
(* The kinds of a handler's steps.                                         *)

log == <<mode, asked, keyOf, restarted>>

\* The key is there: it came with the request, or its file opens.
Resolves(q) ==
  /\ pc[q] = "asked" /\ Goto(q, AfterKey(q))
  /\ asked[q].withKey \/ Lookup(asked[q].conv).form = "hex"
  /\ UNCHANGED <<log, history, creates, storageVars, bundle, ghostVars>>

Gathers(q) == asked[q].kind # "branch" /\ GatherHistory(q)

\* The decision to put the conversation on the chain.
Decides(q) ==
  /\ asked[q].kind = "prompt" /\ pc[q] = "upload" /\ Goto(q, "files")
  /\ \/ /\ creates' = [creates EXCEPT ![q] =
             ShouldInitialize(q, Lookup(asked[q].conv) # NoKeyFile)]
        /\ UNCHANGED misled
     \/ /\ creates' = [creates EXCEPT ![q] = ShouldInitialize(q, FALSE)]
        /\ asked[q].parent = 0 /\ misled' = misled \cup {q}
  /\ UNCHANGED <<log, history, storageVars, bundle, shortened, stray>>

KeyUpload(q) == tagIndex' = IF creates[q] THEN IndexedTags(KeyFile(q)) ELSE tagIndex

Uploads(q) ==
  /\ asked[q].kind = "prompt" /\ pc[q] = "files" /\ Goto(q, "answer")
  /\ files' = files \cup {PromptFile(q)}
                    \cup (IF creates[q] THEN {ConversationFile(q)} ELSE {})
  /\ cache' = Cached(PromptFile(q))
  /\ KeyUpload(q)
  /\ UNCHANGED <<log, history, creates, bundle, ghostVars>>

Replies(q) ==
  /\ asked[q].kind # "branch" /\ pc[q] = "answer" /\ Goto(q, "submit")
  /\ files' = files \cup {AnswerFile(q)}
  /\ cache' = Cached(AnswerFile(q))
  /\ UNCHANGED <<log, history, creates, tagIndex, bundle, ghostVars>>

Branches(q) ==
  /\ asked[q].kind = "branch" /\ pc[q] = "upload" /\ Goto(q, "submit")
  /\ files' = files \cup {ConversationFile(q)}
  /\ tagIndex' = IndexedTags(KeyFile(q))
  /\ UNCHANGED <<log, history, creates, cache, bundle, ghostVars>>

\* The handler stops short of its answer.  What it uploaded stays.
StopsAt(q) ==
  /\ pc[q] \notin {"ended", "failed"}
  /\ \E to \in {"asked", "ended", "failed"} : Goto(q, to)
  /\ misled' \in {misled, misled \cup {q}}
  /\ stray' \in {stray, stray \cup {asked[q].conv}}
  /\ creates[q] /\ asked[q].kind = "prompt" /\ pc[q] \in {"answer", "submit"}
       => asked[q].conv \in stray'
  /\ UNCHANGED <<log, creates, cache, bundle, shortened>>

Stops(q) ==
  /\ StopsAt(q)
  /\ history' \in {history, [history EXCEPT ![q] = <<>>]}
  /\ \/ UNCHANGED <<files, tagIndex>>
     \/ /\ asked[q].kind = "prompt" /\ pc[q] = "files"
        /\ \E some \in SUBSET {PromptFile(q), ConversationFile(q)} : files' = files \cup some
        /\ KeyUpload(q)
        /\ creates[q] => asked[q].conv \in stray'
     \/ /\ asked[q].kind = "branch" /\ UNCHANGED files
        /\ tagIndex' = IndexedTags(KeyFile(q))

HandlerStep(q) ==
  \/ Resolves(q) \/ Gathers(q) \/ Decides(q) \/ Uploads(q) \/ Replies(q) \/ Branches(q)
  \/ Submit(q) \/ Stops(q)

LEMMA HandlerKinds ==
  ASSUME StoreTypes, NEW q \in Requests,
         HandlePrompt(q) \/ HandleRegeneration(q) \/ HandleBranch(q)
  PROVE  HandlerStep(q)
<1> USE DEF log, requestVars, storageVars, taskVars, ghostVars
<1>1. CASE ResolveKey(q)
  <2>1. /\ pc[q] = "asked"
        /\ UNCHANGED <<log, history, creates, storageVars, bundle, shortened, stray>>
    BY <1>1 DEF ResolveKey
  <2>2. \/ /\ asked[q].withKey \/ Lookup(asked[q].conv).form = "hex"
           /\ Goto(q, AfterKey(q)) /\ UNCHANGED misled
        \/ /\ \E to \in {"asked", "failed"} : Goto(q, to)
           /\ misled' \in {misled, misled \cup {q}}
    BY <1>1 DEF ResolveKey, LookupFails, CallFails
  <2>3. CASE /\ asked[q].withKey \/ Lookup(asked[q].conv).form = "hex"
             /\ Goto(q, AfterKey(q)) /\ UNCHANGED misled
    BY <2>1, <2>3 DEF Resolves, HandlerStep
  <2>4. CASE /\ \E to \in {"asked", "failed"} : Goto(q, to)
             /\ misled' \in {misled, misled \cup {q}}
    BY <2>1, <2>4 DEF Stops, StopsAt, HandlerStep
  <2> QED
    BY <2>2, <2>3, <2>4
<1>2. CASE GatherHistory(q) /\ asked[q].kind # "branch"
  BY <1>2 DEF Gathers, HandlerStep
<1>3. CASE DecideInit(q)
  <2>1. /\ asked[q].kind = "prompt" /\ pc[q] = "upload" /\ Goto(q, "files")
        /\ UNCHANGED <<log, history, storageVars, bundle, shortened, stray>>
    BY <1>3 DEF DecideInit
  <2>2. \/ /\ creates' = [creates EXCEPT ![q] =
                ShouldInitialize(q, Lookup(asked[q].conv) # NoKeyFile)]
           /\ UNCHANGED misled
        \/ /\ creates' = [creates EXCEPT ![q] = ShouldInitialize(q, FALSE)]
           /\ asked[q].parent = 0 /\ misled' = misled \cup {q}
    BY <1>3 DEF DecideInit, LookupFails
  <2> QED
    BY <2>1, <2>2 DEF Decides, HandlerStep
<1>4. CASE UploadFiles(q) /\ asked[q].kind = "prompt"
  <2> DEFINE new == {PromptFile(q)} \cup (IF creates[q] THEN {ConversationFile(q)} ELSE {})
             tags == IF creates[q] THEN IndexedTags(KeyFile(q)) ELSE tagIndex
  <2>1. /\ pc[q] = "files" /\ UNCHANGED <<log, history, creates, bundle, shortened, misled>>
        /\ \/ /\ files' = files \cup new /\ cache' = Cached(PromptFile(q))
              /\ tagIndex' = tags /\ Goto(q, "answer") /\ UNCHANGED stray
           \/ /\ CallFails(q)
              /\ \E some \in SUBSET new : files' = files \cup some
              /\ tagIndex' = tags /\ UNCHANGED cache /\ Stray(q)
           \/ CallFails(q) /\ UNCHANGED <<storageVars, stray>>
    BY <1>4 DEF UploadFiles
  <2>2. CASE /\ files' = files \cup new /\ cache' = Cached(PromptFile(q))
             /\ tagIndex' = tags /\ Goto(q, "answer") /\ UNCHANGED stray
    BY <1>4, <2>1, <2>2 DEF Uploads, KeyUpload, HandlerStep
  <2>3. CASE /\ CallFails(q)
             /\ \E some \in SUBSET new : files' = files \cup some
             /\ tagIndex' = tags /\ UNCHANGED cache /\ Stray(q)
    <3>1. \E to \in {"asked", "ended", "failed"} : Goto(q, to)
      BY <2>3 DEF CallFails
    <3>2. \E some \in SUBSET {PromptFile(q), ConversationFile(q)} : files' = files \cup some
      BY <2>3
    <3>3. stray' \in {stray, stray \cup {asked[q].conv}}
          /\ (creates[q] => asked[q].conv \in stray')
      BY <2>3 DEF Stray
    <3> QED
      BY <1>4, <2>1, <2>3, <3>1, <3>2, <3>3 DEF Stops, StopsAt, KeyUpload, HandlerStep
  <2>4. CASE CallFails(q) /\ UNCHANGED <<storageVars, stray>>
    BY <2>1, <2>4 DEF CallFails, Stops, StopsAt, HandlerStep
  <2> QED
    BY <2>1, <2>2, <2>3, <2>4
<1>5. CASE UploadAnswer(q) /\ asked[q].kind # "branch"
  <2>1. /\ pc[q] = "answer"
        /\ UNCHANGED <<log, history, creates, tagIndex, bundle, shortened, misled>>
    BY <1>5 DEF UploadAnswer
  <2>2. CASE CallFails(q) /\ Stray(q) /\ UNCHANGED <<files, cache>>
    BY <2>1, <2>2 DEF CallFails, Stray, Stops, StopsAt, HandlerStep
  <2> QED
    BY <1>5, <2>1, <2>2 DEF UploadAnswer, Replies, HandlerStep
<1>6. CASE UploadBranch(q)
  <2>1. /\ pc[q] = "upload" /\ asked[q].kind = "branch"
        /\ UNCHANGED <<log, history, creates, cache, bundle, ghostVars>>
    BY <1>6 DEF UploadBranch
  <2>2. CASE /\ CallFails(q) /\ UNCHANGED files
             /\ tagIndex' = IndexedTags(KeyFile(q)) \/ UNCHANGED tagIndex
    BY <2>1, <2>2 DEF CallFails, Stops, StopsAt, HandlerStep
  <2> QED
    BY <1>6, <2>1, <2>2 DEF UploadBranch, Branches, HandlerStep
<1>7. CASE Submit(q)
  BY <1>7 DEF HandlerStep
<1>8. CASE SkipCancelled(q)
  <2>1. /\ asked[q].kind # "branch"
        /\ pc[q] \in {"asked", "submit",
                      IF asked[q].kind = "regeneration" THEN "answer" ELSE "upload"}
        /\ Goto(q, "ended") /\ history' = [history EXCEPT ![q] = <<>>]
        /\ IF pc[q] = "submit" THEN Stray(q) ELSE UNCHANGED stray
        /\ UNCHANGED <<log, creates, storageVars, bundle, shortened, misled>>
    BY <1>8 DEF SkipCancelled
  <2>2. /\ stray' \in {stray, stray \cup {asked[q].conv}}
        /\ pc[q] = "submit" /\ creates[q] => asked[q].conv \in stray'
    BY <2>1 DEF Stray
  <2> QED
    BY <2>1, <2>2 DEF Stops, StopsAt, HandlerStep
<1> QED
  BY <1>1, <1>2, <1>3, <1>4, <1>5, <1>6, <1>7, <1>8
    DEF HandlePrompt, HandleRegeneration, HandleBranch

-------------------------------------------------------------------------------
(* Types of the log and what the requests can be.                          *)

\* What a step of a handler leaves to the other requests.
LEMMA HandlerFacts ==
  ASSUME StoreTypes, NEW q \in Requests, HandlerStep(q)
  PROVE  /\ UNCHANGED log
         /\ pc' \in [1 .. MaxRequests -> Pcs] /\ creates' \in [1 .. MaxRequests -> BOOLEAN]
         /\ bundle' \in [1 .. MaxRequests -> Bundles]
         /\ \A u \in 1 .. MaxRequests \ {q} :
              pc'[u] = pc[u] /\ creates'[u] = creates[u] /\ bundle'[u] = bundle[u]
         /\ tagIndex' \in {tagIndex, Append(tagIndex, KeyFile(q))}
         /\ tagIndex' \in Seq(KeyFiles)
         /\ misled \subseteq misled' /\ misled' \subseteq Requests /\ shortened' \subseteq Requests
         /\ stray \subseteq stray' /\ stray' \subseteq Places
         /\ creates' = creates \/ Decides(q)
         /\ bundle' = bundle \/ (Submit(q) /\ bundle'[q] = BundleOf(q))
<1> USE DEF log, requestVars, storageVars, taskVars, ghostVars
<1>0. /\ pc \in [1 .. MaxRequests -> Pcs] /\ creates \in [1 .. MaxRequests -> BOOLEAN]
      /\ bundle \in [1 .. MaxRequests -> Bundles] /\ tagIndex \in Seq(KeyFiles)
      /\ q \in 1 .. MaxRequests /\ asked[q].conv \in Places
      /\ misled \subseteq Requests /\ shortened \subseteq Requests /\ stray \subseteq Places
  BY AskedFacts DEF StoreTypes
<1>1. UNCHANGED log
  BY DEF HandlerStep, Resolves, Gathers, GatherHistory, Decides, Uploads, Replies, Branches,
         Submit, Stops, StopsAt
<1>2. \E to \in Pcs : Goto(q, to)
  BY DEF HandlerStep, Resolves, Gathers, GatherHistory, Decides, Uploads, Replies, Branches,
         Submit, Stops, StopsAt, AfterKey, Pcs
<1>3. /\ pc' \in [1 .. MaxRequests -> Pcs]
      /\ \A u \in 1 .. MaxRequests \ {q} : pc'[u] = pc[u]
  BY <1>0, <1>2 DEF Goto
<1>4. creates' = creates \/ Decides(q)
  BY DEF HandlerStep, Resolves, Gathers, GatherHistory, Uploads, Replies, Branches,
         Submit, Stops, StopsAt
<1>5. \A keyExists \in BOOLEAN : ShouldInitialize(q, keyExists) \in BOOLEAN
  BY AskedFacts DEF ShouldInitialize
<1>6. /\ creates' \in [1 .. MaxRequests -> BOOLEAN]
      /\ \A u \in 1 .. MaxRequests \ {q} : creates'[u] = creates[u]
  BY <1>0, <1>4, <1>5 DEF Decides
<1>7. bundle' = bundle \/ (Submit(q) /\ bundle'[q] = BundleOf(q))
  BY <1>0 DEF HandlerStep, Resolves, Gathers, GatherHistory, Decides, Uploads, Replies,
              Branches, Submit, Stops, StopsAt
<1>8. /\ bundle' \in [1 .. MaxRequests -> Bundles]
      /\ \A u \in 1 .. MaxRequests \ {q} : bundle'[u] = bundle[u]
  <2>1. BundleOf(q) \in Bundles
    BY BundleTypes
  <2> QED
    BY <1>0, <1>7, <2>1 DEF Submit
<1>9. tagIndex' \in {tagIndex, Append(tagIndex, KeyFile(q))}
  BY DEF HandlerStep, Resolves, Gathers, GatherHistory, Decides, Uploads, Replies, Branches,
         Submit, Stops, StopsAt, KeyUpload, IndexedTags
<1>10. tagIndex' \in Seq(KeyFiles)
  <2>1. Append(tagIndex, KeyFile(q)) \in Seq(KeyFiles)
    BY <1>0, KeyFileTypes, AppendProperties
  <2> QED
    BY <1>0, <1>9, <2>1
<1>11. misled' \in {misled, misled \cup {q}}
  BY DEF HandlerStep, Resolves, Gathers, GatherHistory, Decides, Uploads, Replies, Branches,
         Submit, Stops, StopsAt
<1>12. stray' \in {stray, stray \cup {asked[q].conv}}
  BY DEF HandlerStep, Resolves, Gathers, GatherHistory, Decides, Uploads, Replies, Branches,
         Submit, Stops, StopsAt
<1>13. shortened' \in {shortened, shortened \cup {q}}
  BY DEF HandlerStep, Resolves, Gathers, GatherHistory, Decides, Uploads, Replies, Branches,
         Submit, Stops, StopsAt
<1> QED
  BY <1>0, <1>1, <1>3, <1>4, <1>6, <1>7, <1>8, <1>9, <1>10, <1>11, <1>12, <1>13

LEMMA AskEffect ==
  ASSUME StoreTypes, LogInv, NEW r \in RequestType, Asks(r)
  PROVE  /\ asked' \in Seq(RequestType) /\ Len(asked') = Len(asked) + 1
         /\ Len(asked') <= MaxRequests
         /\ \A q \in Requests : asked'[q] = asked[q] /\ q \in Requests'
         /\ asked'[Len(asked) + 1] = r
         /\ Requests' = Requests \cup {Len(asked) + 1} /\ Len(asked) + 1 \notin Requests
         /\ Len(asked) + 1 \in 1 .. MaxRequests
         /\ Unasked(Len(asked) + 1)
         /\ Answered' = Answered
         /\ UNCHANGED <<mode, taskVars, storageVars, bundle, ghostVars, restarted>>
<1>1. /\ asked' = Append(asked, r) /\ Len(asked) < MaxRequests
      /\ UNCHANGED <<mode, taskVars, storageVars, bundle, ghostVars, restarted>>
  BY DEF Asks, Ask
<1>2. asked \in Seq(RequestType) /\ MaxRequests \in Nat
  BY StoreAssumption DEF StoreTypes
<1>3. /\ asked' \in Seq(RequestType) /\ Len(asked') = Len(asked) + 1 /\ Len(asked) \in Nat
      /\ DOMAIN asked' = DOMAIN asked \cup {Len(asked) + 1} /\ Len(asked) + 1 \notin DOMAIN asked
      /\ \A i \in DOMAIN asked : asked'[i] = asked[i]
      /\ asked'[Len(asked) + 1] = r
  BY <1>1, <1>2, AppendFacts
<1>4. /\ Requests = DOMAIN asked /\ Requests' = DOMAIN asked'
      /\ Len(asked) + 1 \in 1 .. MaxRequests /\ Len(asked) + 1 > Len(asked)
      /\ Len(asked') <= MaxRequests
  <2>1. DOMAIN asked = 1 .. Len(asked) /\ DOMAIN asked' = 1 .. Len(asked')
    BY <1>2, <1>3, SeqFacts
  <2> QED
    BY <1>1, <1>2, <1>3, <2>1 DEF Requests
<1>5. Unasked(Len(asked) + 1)
  BY <1>4 DEF LogInv
<1>6. bundle' = bundle
  BY <1>1
<1>7. Answered' = Answered
  BY <1>3, <1>4, <1>5, <1>6 DEF Answered, Unasked
<1> QED
  BY <1>1, <1>3, <1>4, <1>5, <1>7

LEMMA RestartFacts ==
  ASSUME StoreTypes, Restart
  PROVE  /\ UNCHANGED <<mode, asked, keyOf, history, creates, bundle, shortened, misled>>
         /\ restarted' = TRUE
         /\ pc' \in [1 .. MaxRequests -> Pcs]
         /\ \A q \in 1 .. MaxRequests :
              pc'[q] = IF pc[q] \in {"ended", "failed"} THEN pc[q] ELSE "asked"
         /\ tagIndex' = IF InMemory THEN <<>> ELSE tagIndex
         /\ files' = IF mode = "memory" THEN {} ELSE files
         /\ cache' = {}
         /\ stray \subseteq stray' /\ stray' \subseteq Places
         /\ \A p \in Requests : creates[p] /\ pc[p] \in {"answer", "submit"} =>
              asked[p].conv \in stray'
<1>1. DOMAIN pc = 1 .. MaxRequests
  BY DEF StoreTypes
<1>2. \A p \in Requests : asked[p].conv \in Places
  BY AskedFacts
<1> QED
  BY <1>1, <1>2 DEF Restart, requestVars, StoreTypes, Pcs

LEMMA AskTypes ==
  ASSUME StoreTypes, LogInv, NEW r \in RequestType, Asks(r)
  PROVE  StoreTypes'
<1> DEFINE n == Len(asked) + 1
<1>1. /\ asked' \in Seq(RequestType) /\ Len(asked') = n /\ n <= MaxRequests
      /\ \A q \in Requests : asked'[q] = asked[q]
      /\ asked'[n] = r /\ Requests' = Requests \cup {n}
      /\ UNCHANGED <<mode, taskVars, storageVars, bundle, ghostVars, restarted>>
  BY AskEffect
<1>2. r.parent < n
  <2>1. r.parent \in Int /\ Len(asked) \in Nat /\ r.parent <= Len(asked)
    BY AskedFacts DEF Asks, RequestType
  <2> QED
    BY <2>1
<1>3. \A q \in Requests' : asked'[q].parent < q
  BY <1>1, <1>2 DEF StoreTypes
<1>4. keyOf' \in [Places -> 0 .. MaxRequests]
  BY DEF Asks, KeyKept
<1>5. UNCHANGED <<mode, pc, creates, tagIndex, bundle, shortened, misled, stray, restarted>>
  BY <1>1 DEF taskVars, storageVars, ghostVars
<1> HIDE DEF n
<1> QED
  BY <1>1, <1>3, <1>4, <1>5 DEF StoreTypes

LEMMA HandlerTypes ==
  ASSUME StoreTypes, NEW q \in Requests, HandlerStep(q)
  PROVE  StoreTypes'
<1>1. /\ UNCHANGED <<mode, asked, keyOf, restarted>>
      /\ pc' \in [1 .. MaxRequests -> Pcs] /\ creates' \in [1 .. MaxRequests -> BOOLEAN]
      /\ bundle' \in [1 .. MaxRequests -> Bundles] /\ tagIndex' \in Seq(KeyFiles)
      /\ misled' \subseteq Requests /\ shortened' \subseteq Requests /\ stray' \subseteq Places
  BY HandlerFacts DEF log
<1>2. Requests' = Requests
  BY <1>1 DEF Requests
<1> QED
  BY <1>1, <1>2 DEF StoreTypes

LEMMA RestartTypes ==
  ASSUME StoreTypes, Restart
  PROVE  StoreTypes'
<1>1. /\ UNCHANGED <<mode, asked, keyOf, creates, bundle, shortened, misled>>
      /\ restarted' = TRUE /\ pc' \in [1 .. MaxRequests -> Pcs] /\ stray' \subseteq Places
      /\ tagIndex' = IF InMemory THEN <<>> ELSE tagIndex
  BY RestartFacts
<1>2. Requests' = Requests /\ tagIndex' \in Seq(KeyFiles)
  BY <1>1 DEF Requests, StoreTypes
<1> QED
  BY <1>1, <1>2 DEF StoreTypes

\* Whom a new request follows, and that the others keep what they follow.
LEMMA AskLog ==
  ASSUME StoreTypes, LogInv, NEW r \in RequestType, Asks(r)
  PROVE  LogInv'
<1>0. PICK n \in 1 .. MaxRequests : n = Len(asked) + 1
  BY AskEffect
<1>1. /\ Len(asked') = n /\ Len(asked) \in Nat
      /\ \A q \in Requests : asked'[q] = asked[q]
      /\ asked'[n] = r /\ Requests' = Requests \cup {n} /\ n \notin Requests
      /\ Unasked(n) /\ Answered' = Answered
      /\ UNCHANGED <<pc, creates, bundle>>
  BY <1>0, AskEffect, AskedFacts DEF taskVars
<1>2. Answered \subseteq Requests
  BY DEF Answered
<1>3. AskedRight(r) /\ KeyKept(r)
  BY DEF Asks
<1>4. ASSUME NEW q \in Requests PROVE Shape(q)' /\ Progress(q)'
  <2>1. Shape(q) /\ Progress(q)
    BY DEF LogInv
  <2>2. /\ asked[q].conv \in Places /\ asked[q].target \in Places
        /\ keyOf[asked[q].target] # 0 /\ keyOf[asked[q].conv] # 0
    BY AskedFacts, KeysOf
  <2>3. /\ keyOf'[asked[q].target] = keyOf[asked[q].target]
        /\ keyOf'[asked[q].conv] = keyOf[asked[q].conv]
    BY <1>3, <2>2 DEF KeyKept
  <2>4. Shape(q)'
    BY <1>1, <1>2, <2>1, <2>2, <2>3 DEF Shape
  <2>5. BundleOf(q)' = BundleOf(q)
    BY <1>1 DEF BundleOf
  <2>6. Progress(q)'
    BY <1>1, <2>1, <2>5 DEF Progress
  <2> QED
    BY <2>4, <2>6
<1>5. Shape(n)'
  BY <1>1, <1>2, <1>3 DEF Shape, AskedRight, KeyKept
<1>6. Progress(n)'
  BY <1>1, <1>2 DEF Progress, Unasked
<1>7. \A q \in 1 .. MaxRequests : q > Len(asked') => Unasked(q)'
  <2>1. \A q \in 1 .. MaxRequests : q > Len(asked') => q > Len(asked)
    BY <1>0, <1>1
  <2> QED
    BY <1>1, <2>1 DEF LogInv, Unasked
<1> QED
  BY <1>1, <1>4, <1>5, <1>6, <1>7 DEF LogInv

LEMMA HandlerLog ==
  ASSUME StoreTypes, LogInv, NEW q \in Requests, HandlerStep(q)
  PROVE  LogInv'
<1> USE DEF log, requestVars, storageVars, taskVars, ghostVars
<1>1. /\ UNCHANGED <<mode, asked, keyOf, restarted>>
      /\ \A u \in 1 .. MaxRequests \ {q} :
           pc'[u] = pc[u] /\ creates'[u] = creates[u] /\ bundle'[u] = bundle[u]
      /\ creates' = creates \/ Decides(q)
      /\ bundle' = bundle \/ (Submit(q) /\ bundle'[q] = BundleOf(q))
  BY HandlerFacts
<1>2. /\ Requests' = Requests /\ q \in 1 .. MaxRequests /\ Requests \subseteq 1 .. MaxRequests
      /\ asked[q].kind \in {"prompt", "regeneration", "branch"}
  BY <1>1, AskedFacts DEF Requests
<1>3. Answered \subseteq Answered'
  BY <1>1, <1>2, BundleTypes DEF Answered
<1>4. \A u \in Requests : Shape(u)'
  BY <1>1, <1>2, <1>3 DEF LogInv, Shape
<1>5. ASSUME NEW u \in Requests, u # q PROVE Progress(u)'
  <2>1. Progress(u) /\ u \in 1 .. MaxRequests \ {q}
    BY <1>2, <1>5 DEF LogInv
  <2>2. BundleOf(u)' = BundleOf(u)
    BY <1>1, <2>1 DEF BundleOf
  <2>3. u \in Answered' => u \in Answered
    BY <1>1, <1>2, <2>1 DEF Answered
  <2> QED
    BY <1>1, <2>1, <2>2, <2>3 DEF Progress
<1>6. Progress(q)'
  <2>1. Progress(q) /\ Shape(q)
    BY DEF LogInv
  <2>2. q \in Answered => pc[q] = "ended"
    BY <2>1 DEF Progress
  <2>3. pc[q] # "ended"
    BY DEF HandlerStep, Resolves, Gathers, GatherHistory, Decides, Uploads, Replies,
           Branches, Submit, Stops, StopsAt
  <2>4. CASE Submit(q)
    <3>1. /\ pc' = [pc EXCEPT ![q] = "ended"] /\ creates' = creates
          /\ bundle' = [bundle EXCEPT ![q] = BundleOf(q)]
      BY <2>4 DEF Submit, Goto
    <3>2. pc'[q] = "ended" /\ bundle'[q] = BundleOf(q)
      BY <1>2, <3>1 DEF StoreTypes
    <3>3. BundleOf(q)' = BundleOf(q)
      BY <1>1, <3>1 DEF BundleOf
    <3> QED
      BY <1>1, <2>1, <3>1, <3>2, <3>3 DEF Progress
  <2>5. CASE ~Submit(q)
    <3>1. bundle' = bundle /\ q \notin Answered'
      BY <1>1, <1>2, <2>2, <2>3, <2>5 DEF Answered
    <3>2. \E to \in Pcs : /\ pc'[q] = to
                          /\ asked[q].kind = "branch" =>
                               to \in {"asked", "upload", "submit", "ended", "failed"}
                          /\ asked[q].kind = "regeneration" => to \notin {"upload", "files"}
      <4>1. \A to \in Pcs : Goto(q, to) => pc'[q] = to
        BY <1>2 DEF Goto, StoreTypes
      <4> QED
        BY <1>2, <2>5, <4>1 DEF HandlerStep, Resolves, Gathers, GatherHistory, Decides,
           Uploads, Replies, Branches, Stops, StopsAt, AfterKey, Pcs
    <3>3. creates'[q] => asked[q].kind = "prompt"
      BY <1>1, <2>1 DEF Progress, Decides
    <3> QED
      BY <1>1, <3>1, <3>2, <3>3 DEF Progress
  <2> QED
    BY <2>4, <2>5
<1>7. ASSUME NEW u \in 1 .. MaxRequests, u > Len(asked) PROVE Unasked(u)'
  <2>1. u # q
    BY <1>7, AskedFacts DEF Requests
  <2> QED
    BY <1>1, <1>7, <2>1 DEF LogInv, Unasked
<1> QED
  BY <1>1, <1>2, <1>4, <1>5, <1>6, <1>7 DEF LogInv

LEMMA RestartLog ==
  ASSUME StoreTypes, LogInv, Restart
  PROVE  LogInv'
<1>1. /\ UNCHANGED <<mode, asked, keyOf, creates, bundle>>
      /\ \A q \in 1 .. MaxRequests :
           pc'[q] = IF pc[q] \in {"ended", "failed"} THEN pc[q] ELSE "asked"
  BY RestartFacts
<1>2. Requests' = Requests /\ Answered' = Answered /\ Requests \subseteq 1 .. MaxRequests
  BY <1>1, AskedFacts DEF Requests, Answered
<1>3. \A q \in Requests : Shape(q)'
  BY <1>1, <1>2 DEF LogInv, Shape
<1>4. ASSUME NEW q \in Requests PROVE Progress(q)'
  <2>1. Progress(q) /\ BundleOf(q)' = BundleOf(q)
    BY <1>1 DEF LogInv, BundleOf
  <2> QED
    BY <1>1, <1>2, <2>1 DEF Progress
<1>5. \A q \in 1 .. MaxRequests : q > Len(asked) => Unasked(q)'
  BY <1>1 DEF LogInv, Unasked
<1> QED
  BY <1>1, <1>2, <1>3, <1>4, <1>5 DEF LogInv

LEMMA InitLog == Init => StoreTypes /\ LogInv
<1> SUFFICES ASSUME Init PROVE StoreTypes /\ LogInv
  OBVIOUS
<1> USE DEF Init
<1>1. /\ asked = <<>> /\ Len(asked) = 0 /\ Requests = {}
      /\ asked \in Seq(RequestType) /\ tagIndex \in Seq(KeyFiles)
  BY DEF Requests
<1>2. MaxRequests \in Nat /\ 0 \in 0 .. MaxRequests
  BY StoreAssumption
<1>3. NoBundle \in Bundles
  BY <1>2, CidFacts DEF NoBundle, Bundles
<1>4. bundle \in [1 .. MaxRequests -> Bundles]
  BY <1>3
<1>5. /\ keyOf \in [Places -> 0 .. MaxRequests] /\ pc \in [1 .. MaxRequests -> Pcs]
      /\ creates \in [1 .. MaxRequests -> BOOLEAN]
  BY <1>2 DEF Places, Pcs
<1>6. StoreTypes
  <2>1. /\ mode \in Modes /\ shortened \cup misled \subseteq Requests /\ stray \subseteq Places
        /\ Len(asked) <= MaxRequests /\ \A q \in Requests : asked[q].parent < q
    BY <1>1, <1>2
  <2>2. restarted \in BOOLEAN
    OBVIOUS
  <2> QED
    BY <1>1, <1>4, <1>5, <2>1, <2>2 DEF StoreTypes
<1>7. LogInv
  BY <1>1 DEF LogInv, Unasked
<1> QED
  BY <1>6, <1>7

LEMMA StepKinds ==
  ASSUME StoreTypes, LogInv, Next
  PROVE  \/ \E r \in RequestType : Asks(r)
         \/ \E q \in Requests : HandlerStep(q)
         \/ Restart
  BY ClientKinds, HandlerKinds DEF Next

LEMMA StepLog == StoreTypes /\ LogInv /\ [Next]_vars => StoreTypes' /\ LogInv'
<1> SUFFICES ASSUME StoreTypes, LogInv, [Next]_vars PROVE StoreTypes' /\ LogInv'
  OBVIOUS
<1>1. CASE UNCHANGED vars
  BY <1>1 DEF vars, requestVars, taskVars, storageVars, ghostVars, StoreTypes, LogInv, Requests,
     Shape, Progress, Unasked, Answered, BundleOf
<1>2. CASE Next
  BY <1>2, StepKinds, AskTypes, AskLog, HandlerTypes, HandlerLog, RestartTypes, RestartLog
<1> QED
  BY <1>1, <1>2

\* The types of the log, whatever is asked, fails or is delivered again, and
\* what a request can be: where it can follow on, and how far it can be.
THEOREM LogInvariant == Spec => [](StoreTypes /\ LogInv)
  BY InitLog, StepLog, PTL DEF Spec

-------------------------------------------------------------------------------
(* A conversation that has an answer is itself on the chain.               *)

Recorded(c) ==
  \/ \E p \in Answered : asked[p].target = c /\ bundle[p].conversation # None
  \/ c \in stray
  \/ \E p \in Requests : asked[p].conv = c /\ creates[p] /\ pc[p] \in {"answer", "submit"}

\* A request that follows another, or goes to a branch, is of a recorded
\* conversation; so is every answer.
Follows(q) ==
  asked[q].kind # "branch" /\ (asked[q].parent # 0 \/ asked[q].conv \in BranchTargets)
    => Recorded(asked[q].conv)

\* What a key file found by its tag tells the backstop.
TagRecorded(i) == Recorded(tagIndex[i].conv) \/ tagIndex[i].conv \in BranchTargets

\* A prompt that was decided to append does so to a recorded conversation.
Appends(q) ==
  asked[q].kind = "prompt" /\ pc[q] \in {"files", "answer", "submit"} /\ ~creates[q]
    => Recorded(asked[q].conv)

RecordInv ==
  /\ \A q \in Requests : Follows(q)
  /\ \A q \in Answered : Recorded(asked[q].target)
  /\ \A i \in DOMAIN tagIndex : TagRecorded(i)
  /\ \A q \in Requests : Appends(q)

LEMMA LookupFacts ==
  ASSUME StoreTypes, NEW c
  PROVE  \/ /\ Lookup(c) = NoKeyFile
            /\ \A i \in DOMAIN tagIndex : tagIndex[i].conv # c
         \/ \E i \in DOMAIN tagIndex : tagIndex[i].conv = c /\ Lookup(c) = tagIndex[i]
<1> DEFINE found == {i \in DOMAIN tagIndex : tagIndex[i].conv = c}
<1>1. CASE found = {}
  BY <1>1 DEF Lookup
<1>2. CASE found # {}
  <2>1. Len(tagIndex) \in Nat /\ found \in SUBSET (1 .. Len(tagIndex))
    BY SeqFacts DEF StoreTypes
  <2>2. \E m \in found : \A i \in found : i <= m
    BY <1>2, <2>1, GreatestOf
  <2> DEFINE m == CHOOSE i \in found : \A j \in found : j <= i
  <2>3. m \in found
    BY <2>2
  <2>4. Lookup(c) = tagIndex[m]
    BY <1>2 DEF Lookup
  <2> QED
    BY <2>3, <2>4
<1> QED
  BY <1>1, <1>2

LEMMA RecordedStays ==
  ASSUME StoreTypes, LogInv, NEW c, Recorded(c),
         \/ \E r \in RequestType : Asks(r)
         \/ \E q \in Requests : HandlerStep(q)
         \/ Restart
  PROVE  Recorded(c)'
<1>0. /\ Requests \subseteq 1 .. MaxRequests /\ Answered \subseteq Requests
  BY AskedFacts DEF Answered
<1>1. CASE \E r \in RequestType : Asks(r)
  <2>1. PICK r \in RequestType : Asks(r)
    BY <1>1
  <2>2. /\ \A q \in Requests : asked'[q] = asked[q] /\ q \in Requests'
        /\ Answered' = Answered /\ UNCHANGED <<bundle, stray, creates, pc>>
    BY <2>1, AskEffect DEF taskVars, ghostVars
  <2> QED
    BY <1>0, <2>2 DEF Recorded
<1>2. ASSUME NEW q \in Requests, HandlerStep(q) PROVE Recorded(c)'
  <2>1. /\ UNCHANGED asked /\ Requests' = Requests
        /\ \A u \in 1 .. MaxRequests \ {q} :
             pc'[u] = pc[u] /\ creates'[u] = creates[u] /\ bundle'[u] = bundle[u]
        /\ stray \subseteq stray'
        /\ bundle' = bundle \/ (Submit(q) /\ bundle'[q] = BundleOf(q))
    BY <1>2, HandlerFacts DEF log, Requests
  <2>2. CASE c \in stray
    BY <2>1, <2>2 DEF Recorded
  <2>3. CASE \E p \in Answered : asked[p].target = c /\ bundle[p].conversation # None
    <3>1. PICK p \in Answered : asked[p].target = c /\ bundle[p].conversation # None
      BY <2>3
    <3>2. bundle'[p] = bundle[p]
      <4>1. pc[p] = "ended" /\ bundle[p] = BundleOf(p)
        BY <1>0, <3>1 DEF LogInv, Progress
      <4>2. Submit(q) => pc[q] = "submit"
        BY DEF Submit
      <4> QED
        BY <1>0, <2>1, <4>1, <4>2
    <3> QED
      BY <1>0, <2>1, <3>1, <3>2 DEF Recorded, Answered
  <2>4. CASE \E p \in Requests :
               asked[p].conv = c /\ creates[p] /\ pc[p] \in {"answer", "submit"}
    <3>1. PICK p \in Requests :
            asked[p].conv = c /\ creates[p] /\ pc[p] \in {"answer", "submit"}
      BY <2>4
    <3>2. CASE p # q
      <4>1. pc'[p] = pc[p] /\ creates'[p] = creates[p]
        BY <1>0, <2>1, <3>2
      <4> QED
        BY <2>1, <3>1, <4>1 DEF Recorded
    <3>3. CASE p = q
      <4>1. asked[q].kind = "prompt" /\ asked[q].target = c
        BY <3>1, <3>3 DEF LogInv, Progress, Shape
      <4>2. \A to : Goto(q, to) => pc'[q] = to
        BY <1>0 DEF Goto, StoreTypes
      <4>3. CASE Submit(q)
        <5>1. bundle'[q] = BundleOf(q)
          BY <1>0, <4>3 DEF Submit, StoreTypes
        <5>2. BundleOf(q).conversation = Cid("conversation", q)
          BY <3>1, <3>3 DEF BundleOf
        <5>3. q \in 0 .. MaxRequests /\ BundleOf(q) # NoBundle
          BY <1>0, BundleTypes
        <5>4. Cid("conversation", q) # None
          BY <5>3, CidFacts
        <5>5. q \in Answered'
          BY <2>1, <5>1, <5>3 DEF Answered, NoBundle, BundleOf
        <5> QED
          BY <2>1, <4>1, <5>1, <5>2, <5>4, <5>5 DEF Recorded
      <4>4. CASE Replies(q)
        <5>1. creates'[q] = creates[q] /\ pc'[q] = "submit"
          BY <4>2, <4>4 DEF Replies
        <5> QED
          BY <2>1, <3>1, <3>3, <5>1 DEF Recorded
      <4>5. CASE Stops(q)
        BY <3>1, <3>3, <4>1, <4>5 DEF Stops, StopsAt, Recorded
      <4> QED
        BY <1>2, <3>1, <3>3, <4>1, <4>3, <4>4, <4>5 DEF HandlerStep, Resolves, Gathers,
           GatherHistory, Decides, Uploads, Branches
    <3> QED
      BY <3>2, <3>3
  <2> QED
    BY <2>2, <2>3, <2>4 DEF Recorded
<1>3. CASE Restart
  <2>1. /\ UNCHANGED <<asked, bundle, creates>> /\ Requests' = Requests
        /\ stray \subseteq stray'
        /\ \A p \in Requests : creates[p] /\ pc[p] \in {"answer", "submit"} =>
             asked[p].conv \in stray'
    BY <1>3, RestartFacts DEF Requests
  <2>2. Answered' = Answered
    BY <2>1 DEF Answered
  <2> QED
    BY <2>1, <2>2 DEF Recorded
<1> QED
  BY <1>1, <1>2, <1>3

LEMMA AskRecords ==
  ASSUME StoreTypes, LogInv, RecordInv, NEW r \in RequestType, Asks(r)
  PROVE  RecordInv'
<1>0. PICK n \in 1 .. MaxRequests : n = Len(asked) + 1
  BY AskEffect
<1>1. /\ \A q \in Requests : asked'[q] = asked[q]
      /\ asked'[n] = r /\ Requests' = Requests \cup {n} /\ Answered' = Answered
      /\ Unasked(n) /\ UNCHANGED <<pc, creates, bundle, tagIndex>>
  BY <1>0, AskEffect DEF taskVars, storageVars
<1>2. \A c : Recorded(c) => Recorded(c)'
  BY RecordedStays
<1>3. /\ \A q \in Requests : Follows(q) /\ Appends(q)
      /\ \A q \in Answered : Recorded(asked[q].target) /\ q \in Requests
      /\ \A i \in DOMAIN tagIndex : TagRecorded(i)
  BY DEF RecordInv, Answered
<1>4. \A q \in Requests : Follows(q)' /\ Appends(q)'
  BY <1>1, <1>2, <1>3 DEF Follows, Appends
<1>5. Follows(n)'
  <2>1. SUFFICES ASSUME r.kind # "branch", r.parent # 0 \/ r.conv \in BranchTargets
                 PROVE  Recorded(r.conv)
    BY <1>1, <1>2 DEF Follows
  <2>2. CASE r.parent # 0
    BY <1>3, <2>2 DEF Asks, AskedRight
  <2>3. CASE r.parent = 0
    <3>1. r.conv \notin Conversations
      BY <2>1, <2>3, StoreAssumption
    <3>2. PICK p \in Requests : asked[p].conv = r.conv /\ asked[p].kind = "prompt"
      BY <2>3, <3>1 DEF Asks, AskedRight
    <3> QED
      BY <1>3, <2>1, <2>3, <3>2 DEF Follows
  <2> QED
    BY <2>2, <2>3
<1>6. Appends(n)'
  BY <1>1 DEF Appends, Unasked
<1>7. \A q \in Answered : Recorded(asked[q].target)'
  BY <1>1, <1>2, <1>3
<1>8. \A i \in DOMAIN tagIndex : TagRecorded(i)'
  BY <1>1, <1>2, <1>3 DEF TagRecorded
<1> QED
  BY <1>1, <1>4, <1>5, <1>6, <1>7, <1>8 DEF RecordInv

LEMMA HandlerRecords ==
  ASSUME StoreTypes, LogInv, RecordInv, NEW q \in Requests, HandlerStep(q)
  PROVE  RecordInv'
<1>0. /\ q \in 1 .. MaxRequests /\ Requests \subseteq 1 .. MaxRequests
      /\ asked[q].kind \in {"prompt", "regeneration", "branch"}
      /\ Shape(q) /\ Progress(q) /\ tagIndex \in Seq(KeyFiles)
      /\ KeyFile(q) \in KeyFiles /\ KeyFile(q).conv = asked[q].target
  BY AskedFacts, KeyFileTypes DEF LogInv, StoreTypes
<1>1. /\ UNCHANGED asked /\ Requests' = Requests
      /\ \A u \in 1 .. MaxRequests \ {q} :
           pc'[u] = pc[u] /\ creates'[u] = creates[u] /\ bundle'[u] = bundle[u]
      /\ tagIndex' \in {tagIndex, Append(tagIndex, KeyFile(q))}
      /\ creates' = creates \/ Decides(q)
      /\ bundle' = bundle \/ (Submit(q) /\ bundle'[q] = BundleOf(q))
  BY HandlerFacts DEF log, Requests
<1>2. \A c : Recorded(c) => Recorded(c)'
  BY RecordedStays
<1>3. /\ \A u \in Requests : Follows(u) /\ Appends(u)
      /\ \A u \in Answered : Recorded(asked[u].target) /\ u \in Requests
      /\ \A i \in DOMAIN tagIndex : TagRecorded(i)
  BY DEF RecordInv, Answered
<1>4. \A u \in Requests : Follows(u)'
  BY <1>1, <1>2, <1>3 DEF Follows
<1>5. \A to : Goto(q, to) => pc'[q] = to
  BY <1>0 DEF Goto, StoreTypes
<1>6. Appends(q)'
  <2>1. SUFFICES ASSUME asked[q].kind = "prompt", pc'[q] \in {"files", "answer", "submit"},
                        ~creates'[q]
                 PROVE  Recorded(asked[q].conv)
    BY <1>1, <1>2 DEF Appends
  <2>2. CASE Decides(q)
    <3>1. PICK keyExists \in BOOLEAN :
            /\ creates' = [creates EXCEPT ![q] = ShouldInitialize(q, keyExists)]
            /\ keyExists => Lookup(asked[q].conv) # NoKeyFile
      BY <2>2 DEF Decides
    <3>2. ~ShouldInitialize(q, keyExists)
      BY <1>0, <2>1, <3>1 DEF StoreTypes
    <3>3. CASE asked[q].parent # 0
      BY <1>3, <2>1, <3>3 DEF Follows
    <3>4. CASE asked[q].parent = 0
      <4>1. Lookup(asked[q].conv) # NoKeyFile
        BY <3>1, <3>2, <3>4 DEF ShouldInitialize
      <4>2. PICK i \in DOMAIN tagIndex : tagIndex[i].conv = asked[q].conv
        BY <4>1, LookupFacts
      <4> QED
        BY <1>3, <2>1, <4>2 DEF TagRecorded, Follows
    <3> QED
      BY <3>3, <3>4
  <2>3. CASE ~Decides(q)
    <3>1. creates' = creates
      BY <1>1, <2>3
    <3>2. pc[q] \in {"files", "answer", "submit"}
      BY <1>5, <2>1, <2>3 DEF HandlerStep, Resolves, Gathers, GatherHistory, Uploads, Replies,
         Branches, Submit, Stops, StopsAt, AfterKey
    <3> QED
      BY <1>3, <2>1, <3>1, <3>2 DEF Appends
  <2> QED
    BY <2>2, <2>3
<1>7. \A u \in Requests : Appends(u)'
  <2>1. ASSUME NEW u \in Requests, u # q PROVE Appends(u)'
    <3>1. pc'[u] = pc[u] /\ creates'[u] = creates[u]
      BY <1>0, <1>1, <2>1
    <3> QED
      BY <1>1, <1>2, <1>3, <3>1 DEF Appends
  <2> QED
    BY <1>6, <2>1
<1>8. \A u \in Answered' : Recorded(asked[u].target)'
  <2>1. ASSUME NEW u \in Answered PROVE Recorded(asked[u].target)'
    BY <1>1, <1>2, <1>3
  <2>2. ASSUME NEW u \in Answered', u \notin Answered
        PROVE  u = q /\ Submit(q) /\ bundle'[q] = BundleOf(q)
    BY <1>0, <1>1, <2>2 DEF Answered
  <2>3. ASSUME Submit(q), bundle'[q] = BundleOf(q), q \in Answered'
        PROVE  Recorded(asked[q].target)'
    <3>1. CASE creates[q] \/ asked[q].kind = "branch"
      <4>1. bundle'[q].conversation = Cid("conversation", q)
        BY <2>3, <3>1 DEF BundleOf
      <4>2. q \in 0 .. MaxRequests
        BY <1>0
      <4>3. Cid("conversation", q) # None
        BY <4>2, CidFacts
      <4> QED
        BY <1>1, <2>3, <4>1, <4>3 DEF Recorded
    <3>2. CASE ~creates[q] /\ asked[q].kind # "branch"
      <4>1. asked[q].target = asked[q].conv /\ pc[q] = "submit"
        BY <1>0, <2>3, <3>2 DEF Shape, Submit
      <4>2. Recorded(asked[q].conv)
        BY <1>0, <1>3, <3>2, <4>1 DEF Shape, Follows, Appends
      <4> QED
        BY <1>1, <1>2, <4>1, <4>2
    <3> QED
      BY <3>1, <3>2
  <2> QED
    BY <2>1, <2>2, <2>3
<1>9. \A i \in DOMAIN tagIndex' : TagRecorded(i)'
  <2>1. CASE tagIndex' = tagIndex
    BY <1>2, <1>3, <2>1 DEF TagRecorded
  <2>2. CASE tagIndex' = Append(tagIndex, KeyFile(q)) /\ tagIndex' # tagIndex
    <3>1. PICK n : /\ DOMAIN tagIndex' = DOMAIN tagIndex \cup {n} /\ n \notin DOMAIN tagIndex
                   /\ \A i \in DOMAIN tagIndex : tagIndex'[i] = tagIndex[i]
                   /\ tagIndex'[n] = KeyFile(q)
      BY <1>0, <2>2, AppendFacts
    <3>2. \A i \in DOMAIN tagIndex : TagRecorded(i)'
      BY <1>2, <1>3, <3>1 DEF TagRecorded
    <3>3. tagIndex'[n].conv = asked[q].target
      BY <1>0, <3>1
    <3>4. SUFFICES \/ Recorded(asked[q].target)'
                   \/ asked[q].target \in BranchTargets
      BY <1>1, <3>1, <3>2, <3>3 DEF TagRecorded, Recorded
    <3>5. CASE asked[q].kind = "branch"
      BY <1>0, <3>5 DEF Shape
    <3>6. CASE asked[q].kind # "branch"
      <4>1. asked[q].target = asked[q].conv
        BY <1>0, <3>6 DEF Shape
      <4>2. CASE Uploads(q)
        <5>1. creates[q] /\ creates' = creates /\ pc'[q] = "answer"
          BY <1>5, <2>2, <4>2 DEF Uploads, KeyUpload
        <5>2. Recorded(asked[q].conv)'
          BY <1>1, <5>1 DEF Recorded
        <5>3. Recorded(asked[q].target)'
          BY <1>1, <4>1, <5>2
        <5> QED
          BY <5>3
      <4>3. CASE Stops(q)
        <5>1. asked[q].conv \in stray'
          BY <2>2, <3>6, <4>3 DEF Stops, KeyUpload
        <5>2. Recorded(asked[q].target)'
          BY <1>1, <4>1, <5>1 DEF Recorded
        <5> QED
          BY <5>2
      <4>4. Uploads(q) \/ Stops(q)
        <5> USE DEF storageVars
        <5> QED
          BY <2>2, <3>6 DEF HandlerStep, Resolves, Gathers, GatherHistory, Decides, Replies,
             Branches, Submit
      <4> QED
        BY <3>1, <3>2, <4>2, <4>3, <4>4
    <3> QED
      BY <3>1, <3>2, <3>5, <3>6
  <2> QED
    BY <1>1, <2>1, <2>2
<1> QED
  BY <1>1, <1>4, <1>7, <1>8, <1>9 DEF RecordInv

LEMMA RestartRecords ==
  ASSUME StoreTypes, LogInv, RecordInv, Restart
  PROVE  RecordInv'
<1>1. /\ UNCHANGED <<asked, creates, bundle>>
      /\ \A q \in 1 .. MaxRequests :
           pc'[q] = IF pc[q] \in {"ended", "failed"} THEN pc[q] ELSE "asked"
      /\ tagIndex' \in {<<>>, tagIndex}
  BY RestartFacts
<1>2. Requests' = Requests /\ Answered' = Answered /\ Requests \subseteq 1 .. MaxRequests
  BY <1>1, AskedFacts DEF Requests, Answered
<1>3. \A c : Recorded(c) => Recorded(c)'
  BY RecordedStays
<1>4. \A q \in Requests : Follows(q)' /\ Appends(q)'
  BY <1>1, <1>2, <1>3 DEF RecordInv, Follows, Appends
<1>5. \A q \in Answered : Recorded(asked[q].target)'
  BY <1>1, <1>3 DEF RecordInv
<1>6. \A i \in DOMAIN tagIndex' : TagRecorded(i)'
  BY <1>1, <1>3 DEF RecordInv, TagRecorded
<1> QED
  BY <1>2, <1>4, <1>5, <1>6 DEF RecordInv

LEMMA StepRecords ==
  StoreTypes /\ LogInv /\ RecordInv /\ [Next]_vars => RecordInv'
<1> SUFFICES ASSUME StoreTypes, LogInv, RecordInv, [Next]_vars PROVE RecordInv'
  OBVIOUS
<1>1. CASE UNCHANGED vars
  BY <1>1 DEF vars, requestVars, taskVars, storageVars, ghostVars, RecordInv, Requests,
     Answered, Follows, Appends, TagRecorded, Recorded
<1>2. CASE Next
  BY <1>2, StepKinds, AskRecords, HandlerRecords, RestartRecords
<1> QED
  BY <1>1, <1>2

LEMMA InitRecords == Init => RecordInv
<1> SUFFICES ASSUME Init PROVE RecordInv
  OBVIOUS
<1>1. Requests = {} /\ Answered = {} /\ DOMAIN tagIndex = {}
  BY DEF Init, Requests, Answered
<1> QED
  BY <1>1 DEF RecordInv

LEMMA RecordsSuffice ==
  StoreTypes /\ LogInv /\ RecordInv => AnsweredMeansInitialized
<1> SUFFICES ASSUME StoreTypes, LogInv, RecordInv, NEW q \in Answered
             PROVE  \/ \E p \in Answered : /\ asked[p].target = asked[q].target
                                           /\ bundle[p].conversation # None
                    \/ asked[q].conv \in stray
                    \/ \E p \in Requests : /\ asked[p].conv = asked[q].conv /\ creates[p]
                                           /\ pc[p] \in {"answer", "submit"}
  BY DEF AnsweredMeansInitialized
<1>1. q \in Requests /\ bundle[q] = BundleOf(q) /\ Shape(q) /\ Recorded(asked[q].target)
  BY DEF Answered, LogInv, Progress, RecordInv
<1>2. CASE asked[q].kind = "branch"
  <2>1. bundle[q].conversation = Cid("conversation", q)
    BY <1>1, <1>2 DEF BundleOf
  <2>2. q \in 0 .. MaxRequests
    BY <1>1, AskedFacts
  <2> QED
    BY <2>1, <2>2, CidFacts
<1>3. CASE asked[q].kind # "branch"
  BY <1>1, <1>3 DEF Shape, Recorded
<1> QED
  BY <1>2, <1>3

LEMMA RecordInvariant == Spec => [](StoreTypes /\ LogInv /\ RecordInv)
<1>1. Init => StoreTypes /\ LogInv /\ RecordInv
  BY InitLog, InitRecords
<1>2. StoreTypes /\ LogInv /\ RecordInv /\ [Next]_vars
        => (StoreTypes /\ LogInv /\ RecordInv)'
  BY StepLog, StepRecords
<1> QED
  BY <1>1, <1>2, PTL DEF Spec

\* Every conversation with an answer on the chain was put on the chain itself,
\* or a handler uploaded its key file and did not submit, or is about to: the
\* backstop of shouldInitializeConversation leaves no other gap, whatever
\* fails, is retried or is cancelled.
THEOREM AnswersHaveConversation == Spec => []AnsweredMeansInitialized
  BY RecordInvariant, RecordsSuffice, PTL

-------------------------------------------------------------------------------
(* The key file of a conversation that has an answer.                      *)

HasKey(c) == \E i \in DOMAIN tagIndex : tagIndex[i].conv = c

\* A branch stores its key as raw bytes, and a lookup that failed let a prompt
\* without a key store an empty one.
Excused(c) ==
  \/ \E p \in Requests : asked[p].kind = "branch" /\ asked[p].target = c
  \/ \E p \in misled : asked[p].conv = c /\ ~asked[p].withKey

Opens(i) ==
  \/ tagIndex[i].form = "hex" /\ tagIndex[i].key = keyOf[tagIndex[i].conv]
  \/ Excused(tagIndex[i].conv)

\* A prompt that brought no key found one.
FoundKey(q) ==
  asked[q].kind = "prompt" /\ ~asked[q].withKey
      /\ pc[q] \in {"history", "upload", "files", "answer", "submit"}
    => HasKey(asked[q].conv)

\* One that nevertheless opens the conversation was misled.
StoresEmpty(q) ==
  creates[q] /\ ~asked[q].withKey /\ pc[q] \in {"files", "answer", "submit"}
    => Excused(asked[q].conv)

LeavesKey(q) ==
  asked[q].kind = "prompt" /\ pc[q] \in {"files", "answer", "submit"}
    => HasKey(asked[q].conv) \/ Excused(asked[q].conv) \/ (creates[q] /\ pc[q] = "files")

\* What has an answer, or follows one, is of a conversation with a key file.
LeftKey(q) ==
  asked[q].kind # "branch" /\ (q \in Answered \/ asked[q].parent # 0)
    => HasKey(asked[q].conv) \/ Excused(asked[q].conv)

Keyed(q) == FoundKey(q) /\ StoresEmpty(q) /\ LeavesKey(q) /\ LeftKey(q)

KeyInv ==
  /\ \A i \in DOMAIN tagIndex : keyOf[tagIndex[i].conv] # 0
  /\ TagsKept => /\ \A i \in DOMAIN tagIndex : Opens(i)
                 /\ \A q \in Requests : Keyed(q)

\* What a step keeps of the index and of the excuses.
LEMMA KeysStay ==
  ASSUME StoreTypes, LogInv, KeyInv, TagsKept',
         \/ \E r \in RequestType : Asks(r)
         \/ \E q \in Requests : HandlerStep(q)
         \/ Restart
  PROVE  /\ TagsKept
         /\ \A i \in DOMAIN tagIndex :
              /\ i \in DOMAIN tagIndex' /\ tagIndex'[i] = tagIndex[i]
              /\ keyOf'[tagIndex[i].conv] = keyOf[tagIndex[i].conv]
         /\ \A c : HasKey(c) => HasKey(c)'
         /\ \A c : Excused(c) => Excused(c)'
<1>0. /\ tagIndex \in Seq(KeyFiles) /\ misled \subseteq Requests /\ restarted \in BOOLEAN
      /\ \A i \in DOMAIN tagIndex : tagIndex[i].conv \in Places
      /\ \A i \in DOMAIN tagIndex : keyOf[tagIndex[i].conv] # 0
  <2>1. \A i \in DOMAIN tagIndex : tagIndex[i] \in KeyFiles
    BY SeqFacts DEF StoreTypes
  <2> QED
    BY <2>1 DEF KeyFiles, StoreTypes, KeyInv
<1>1. ASSUME NEW r \in RequestType, Asks(r)
      PROVE  /\ TagsKept /\ tagIndex' = tagIndex /\ misled' = misled
             /\ \A q \in Requests : q \in Requests' /\ asked'[q] = asked[q]
             /\ \A c \in Places : keyOf[c] # 0 => keyOf'[c] = keyOf[c]
  <2>1. /\ UNCHANGED <<mode, restarted, tagIndex, misled>>
        /\ \A q \in Requests : q \in Requests' /\ asked'[q] = asked[q]
    BY <1>1, AskEffect DEF storageVars, ghostVars
  <2>2. \A c \in Places : keyOf[c] # 0 => keyOf'[c] = keyOf[c]
    BY <1>1 DEF Asks, KeyKept
  <2> QED
    BY <2>1, <2>2 DEF TagsKept, InMemory
<1>2. ASSUME NEW q \in Requests, HandlerStep(q)
      PROVE  /\ TagsKept /\ misled \subseteq misled' /\ UNCHANGED <<asked, keyOf>>
             /\ tagIndex' \in {tagIndex, Append(tagIndex, KeyFile(q))}
  BY <1>2, HandlerFacts DEF log, TagsKept, InMemory
<1>3. ASSUME Restart
      PROVE  TagsKept /\ UNCHANGED <<asked, keyOf, tagIndex, misled>>
  BY <1>3, RestartFacts DEF TagsKept, InMemory
<1>4. ASSUME NEW q \in Requests
      PROVE  \A i \in DOMAIN tagIndex : /\ i \in DOMAIN Append(tagIndex, KeyFile(q))
                                        /\ Append(tagIndex, KeyFile(q))[i] = tagIndex[i]
  BY <1>0, KeyFileTypes, AppendFacts
<1>5. /\ TagsKept /\ misled \subseteq misled'
      /\ \A q \in Requests : q \in Requests' /\ asked'[q] = asked[q]
      /\ \A c \in Places : keyOf[c] # 0 => keyOf'[c] = keyOf[c]
      /\ \A i \in DOMAIN tagIndex : i \in DOMAIN tagIndex' /\ tagIndex'[i] = tagIndex[i]
  BY <1>1, <1>2, <1>3, <1>4 DEF Requests
<1>6. \A c : HasKey(c) => HasKey(c)'
  BY <1>5 DEF HasKey
<1>7. \A c : Excused(c) => Excused(c)'
  BY <1>0, <1>5 DEF Excused
<1> QED
  BY <1>0, <1>5, <1>6, <1>7

\* An entry that was already there opens as before.
LEMMA OpensStay ==
  ASSUME StoreTypes, LogInv, KeyInv, TagsKept',
         \/ \E r \in RequestType : Asks(r)
         \/ \E q \in Requests : HandlerStep(q)
         \/ Restart,
         NEW i \in DOMAIN tagIndex
  PROVE  Opens(i)'
<1>1. /\ TagsKept /\ tagIndex'[i] = tagIndex[i]
      /\ keyOf'[tagIndex[i].conv] = keyOf[tagIndex[i].conv]
      /\ \A c : Excused(c) => Excused(c)'
  BY KeysStay
<1>2. Opens(i)
  BY <1>1 DEF KeyInv
<1>3. CASE tagIndex[i].form = "hex" /\ tagIndex[i].key = keyOf[tagIndex[i].conv]
  BY <1>1, <1>3 DEF Opens
<1>4. CASE Excused(tagIndex[i].conv)
  BY <1>1, <1>4 DEF Opens, Excused
<1> QED
  BY <1>2, <1>3, <1>4 DEF Opens

LEMMA AskKeys ==
  ASSUME StoreTypes, LogInv, KeyInv, NEW r \in RequestType, Asks(r)
  PROVE  KeyInv'
<1>0. PICK n \in 1 .. MaxRequests : n = Len(asked) + 1
  BY AskEffect
<1>1. /\ \A q \in Requests : asked'[q] = asked[q]
      /\ asked'[n] = r /\ Requests' = Requests \cup {n} /\ n \notin Requests
      /\ Answered' = Answered
      /\ Unasked(n) /\ UNCHANGED <<pc, creates, bundle, tagIndex>>
  BY <1>0, AskEffect DEF taskVars, storageVars
<1>2. \A i \in DOMAIN tagIndex : keyOf'[tagIndex[i].conv] # 0
  <2>1. \A i \in DOMAIN tagIndex : tagIndex[i].conv \in Places
    <3>1. \A i \in DOMAIN tagIndex : tagIndex[i] \in KeyFiles
      BY SeqFacts DEF StoreTypes
    <3> QED
      BY <3>1 DEF KeyFiles
  <2> QED
    BY <2>1 DEF KeyInv, Asks, KeyKept
<1>3. ASSUME TagsKept'
      PROVE  /\ \A i \in DOMAIN tagIndex' : Opens(i)'
             /\ \A q \in Requests' : Keyed(q)'
  <2>1. /\ TagsKept
        /\ \A c : HasKey(c) => HasKey(c)'
        /\ \A c : Excused(c) => Excused(c)'
    BY <1>3, KeysStay
  <2>2. \A i \in DOMAIN tagIndex' : Opens(i)'
    BY <1>1, <1>3, OpensStay
  <2>3. \A q \in Requests : Keyed(q)
    BY <2>1 DEF KeyInv
  <2>4. \A q \in Requests : Keyed(q)'
    BY <1>1, <2>1, <2>3 DEF Keyed, FoundKey, StoresEmpty, LeavesKey, LeftKey
  <2>5. FoundKey(n)' /\ StoresEmpty(n)' /\ LeavesKey(n)'
    BY <1>1 DEF Unasked, FoundKey, StoresEmpty, LeavesKey
  <2>6. LeftKey(n)'
    <3>1. n \notin Answered'
      BY <1>1 DEF Answered
    <3>2. SUFFICES ASSUME r.parent # 0, r.kind # "branch"
                   PROVE  HasKey(r.conv) \/ Excused(r.conv)
      BY <1>1, <2>1, <3>1 DEF LeftKey
    <3>3. /\ r.parent \in Answered /\ r.conv = asked[r.parent].target
          /\ r.parent \in Requests
      BY <3>2 DEF Asks, AskedRight, Answered
    <3>4. CASE asked[r.parent].kind = "branch"
      BY <3>3, <3>4 DEF Excused
    <3>5. CASE asked[r.parent].kind # "branch"
      <4>1. asked[r.parent].target = asked[r.parent].conv
        BY <3>3, <3>5 DEF LogInv, Shape
      <4> QED
        BY <2>3, <3>3, <3>5, <4>1 DEF Keyed, LeftKey
    <3> QED
      BY <3>4, <3>5
  <2> QED
    BY <1>1, <2>2, <2>4, <2>5, <2>6 DEF Keyed
<1> QED
  BY <1>1, <1>2, <1>3 DEF KeyInv

LEMMA RestartKeys ==
  ASSUME StoreTypes, LogInv, KeyInv, Restart
  PROVE  KeyInv'
<1>1. /\ UNCHANGED <<asked, keyOf, creates, bundle>>
      /\ \A q \in 1 .. MaxRequests :
           pc'[q] = IF pc[q] \in {"ended", "failed"} THEN pc[q] ELSE "asked"
      /\ tagIndex' = IF InMemory THEN <<>> ELSE tagIndex
  BY RestartFacts
<1>2. Requests' = Requests /\ Answered' = Answered /\ Requests \subseteq 1 .. MaxRequests
  BY <1>1, AskedFacts DEF Requests, Answered
<1>3. \A i \in DOMAIN tagIndex' : keyOf'[tagIndex'[i].conv] # 0
  BY <1>1 DEF KeyInv
<1>4. ASSUME TagsKept'
      PROVE  /\ \A i \in DOMAIN tagIndex' : Opens(i)'
             /\ \A q \in Requests' : Keyed(q)'
  <2>1. /\ TagsKept
        /\ \A c : HasKey(c) => HasKey(c)'
        /\ \A c : Excused(c) => Excused(c)'
    BY <1>4, KeysStay
  <2>2. \A i \in DOMAIN tagIndex' : Opens(i)'
    BY <1>1, <1>4, OpensStay
  <2>3. \A q \in Requests : Keyed(q)
    BY <2>1 DEF KeyInv
  <2>4. \A q \in Requests : Keyed(q)'
    BY <1>1, <1>2, <2>1, <2>3 DEF Keyed, FoundKey, StoresEmpty, LeavesKey, LeftKey
  <2> QED
    BY <1>2, <2>2, <2>4
<1> QED
  BY <1>3, <1>4 DEF KeyInv

\* The one entry a handler adds is of a prompt that opens the conversation, or
\* of a branch.
LEMMA KeyUploads ==
  ASSUME StoreTypes, LogInv, NEW q \in Requests, HandlerStep(q), tagIndex' # tagIndex
  PROVE  \/ asked[q].kind = "branch"
         \/ asked[q].kind = "prompt" /\ creates[q] /\ pc[q] = "files"
<1> USE DEF storageVars
<1> QED
  BY DEF HandlerStep, Resolves, Gathers, GatherHistory, Decides, Uploads, Replies, Branches,
     Submit, Stops, KeyUpload

LEMMA HandlerKeys ==
  ASSUME StoreTypes, LogInv, KeyInv, NEW q \in Requests, HandlerStep(q)
  PROVE  KeyInv'
<1>0. /\ q \in 1 .. MaxRequests /\ Requests \subseteq 1 .. MaxRequests
      /\ asked[q].kind \in {"prompt", "regeneration", "branch"}
      /\ Shape(q) /\ Progress(q) /\ tagIndex \in Seq(KeyFiles)
      /\ KeyFile(q) \in KeyFiles /\ KeyFile(q).conv = asked[q].target
      /\ KeyFile(q).key = keyOf[asked[q].target]
      /\ asked[q].kind # "branch" /\ asked[q].withKey => KeyFile(q).form = "hex"
      /\ keyOf[asked[q].target] # 0
  BY AskedFacts, KeyFileTypes, KeysOf DEF LogInv, StoreTypes
<1>1. /\ UNCHANGED <<asked, keyOf>> /\ Requests' = Requests
      /\ \A u \in 1 .. MaxRequests \ {q} :
           pc'[u] = pc[u] /\ creates'[u] = creates[u] /\ bundle'[u] = bundle[u]
      /\ tagIndex' \in {tagIndex, Append(tagIndex, KeyFile(q))}
      /\ creates' = creates \/ Decides(q)
      /\ bundle' = bundle \/ (Submit(q) /\ bundle'[q] = BundleOf(q))
  BY HandlerFacts DEF log, Requests
<1>2. ASSUME tagIndex' # tagIndex
      PROVE  \E n : /\ DOMAIN tagIndex' = DOMAIN tagIndex \cup {n} /\ n \notin DOMAIN tagIndex
                    /\ \A i \in DOMAIN tagIndex : tagIndex'[i] = tagIndex[i]
                    /\ tagIndex'[n] = KeyFile(q)
  <2>1. tagIndex' = Append(tagIndex, KeyFile(q))
    BY <1>1, <1>2
  <2> DEFINE m == Len(tagIndex) + 1
  <2>2. /\ DOMAIN tagIndex' = DOMAIN tagIndex \cup {m} /\ m \notin DOMAIN tagIndex
        /\ \A i \in DOMAIN tagIndex : tagIndex'[i] = tagIndex[i]
        /\ tagIndex'[m] = KeyFile(q)
    BY <1>0, <2>1, AppendFacts
  <2> HIDE DEF m
  <2> QED
    BY <2>2
<1>3. \A i \in DOMAIN tagIndex' : keyOf'[tagIndex'[i].conv] # 0
  BY <1>0, <1>1, <1>2 DEF KeyInv
<1>4. \A to : Goto(q, to) => pc'[q] = to
  BY <1>0 DEF Goto, StoreTypes
<1>5. ASSUME TagsKept'
      PROVE  /\ \A i \in DOMAIN tagIndex' : Opens(i)'
             /\ \A u \in Requests' : Keyed(u)'
  <2>1. /\ TagsKept
        /\ \A c : HasKey(c) => HasKey(c)'
        /\ \A c : Excused(c) => Excused(c)'
    BY <1>5, KeysStay
  <2>2. \A u \in Requests : Keyed(u)
    BY <2>1 DEF KeyInv
  <2>3. ASSUME tagIndex' # tagIndex
        PROVE  (asked[q].kind = "prompt" /\ asked[q].withKey) \/ Excused(asked[q].target)
    <3>1. CASE asked[q].kind = "branch"
      BY <3>1 DEF Excused
    <3>2. CASE asked[q].kind = "prompt" /\ creates[q] /\ pc[q] = "files"
      <4>1. asked[q].target = asked[q].conv
        BY <1>0, <3>2 DEF Shape
      <4> QED
        BY <2>2, <3>2, <4>1 DEF Keyed, StoresEmpty
    <3> QED
      BY <2>3, <3>1, <3>2, KeyUploads
  <2>4. \A i \in DOMAIN tagIndex' : Opens(i)'
    <3>1. \A i \in DOMAIN tagIndex : Opens(i)'
      BY <1>5, OpensStay
    <3>2. CASE tagIndex' = tagIndex
      BY <3>1, <3>2
    <3>3. CASE tagIndex' # tagIndex
      <4>1. PICK n : /\ DOMAIN tagIndex' = DOMAIN tagIndex \cup {n}
                     /\ tagIndex'[n] = KeyFile(q)
        BY <1>2, <3>3
      <4>2. CASE asked[q].kind = "prompt" /\ asked[q].withKey
        BY <1>0, <1>1, <3>1, <4>1, <4>2 DEF Opens
      <4>3. CASE Excused(asked[q].target)
        <5>1. Excused(asked[q].target)'
          BY <1>1, <2>1, <4>3 DEF Excused
        <5>2. Opens(n)'
          BY <1>0, <1>1, <4>1, <5>1 DEF Opens, Excused
        <5> QED
          BY <3>1, <4>1, <5>2
      <4> QED
        BY <2>3, <3>3, <4>2, <4>3
    <3> QED
      BY <3>2, <3>3
  <2>5. ASSUME NEW u \in Requests, u # q PROVE Keyed(u)'
    <3>1. /\ pc'[u] = pc[u] /\ creates'[u] = creates[u]
          /\ u \in Answered' => u \in Answered
      BY <1>0, <1>1, <2>5 DEF Answered
    <3> QED
      BY <1>1, <2>1, <2>2, <3>1 DEF Keyed, FoundKey, StoresEmpty, LeavesKey, LeftKey
  <2>6. FoundKey(q)'
    <3>1. CASE Resolves(q) /\ ~asked[q].withKey
      <4>1. Lookup(asked[q].conv).form = "hex"
        BY <3>1 DEF Resolves
      <4>2. Lookup(asked[q].conv) # NoKeyFile
        BY <4>1 DEF NoKeyFile
      <4>3. HasKey(asked[q].conv)
        BY <4>2, LookupFacts DEF HasKey
      <4> QED
        BY <1>1, <2>1, <4>3 DEF FoundKey
    <3>2. CASE ~Resolves(q) \/ asked[q].withKey
      <4>1. pc'[q] \in {"history", "upload", "files", "answer", "submit"} /\ ~asked[q].withKey
              /\ asked[q].kind = "prompt"
            => pc[q] \in {"history", "upload", "files", "answer", "submit"}
        BY <1>4, <3>2 DEF HandlerStep, Gathers, GatherHistory, Decides, Uploads, Replies,
           Branches, Submit, Stops, StopsAt
      <4> QED
        BY <1>1, <2>1, <2>2, <4>1 DEF Keyed, FoundKey
    <3> QED
      BY <3>1, <3>2
  <2>7. StoresEmpty(q)'
    <3>1. CASE Decides(q)
      <4>1. PICK keyExists \in BOOLEAN :
              /\ creates' = [creates EXCEPT ![q] = ShouldInitialize(q, keyExists)]
              /\ \/ keyExists = (Lookup(asked[q].conv) # NoKeyFile)
                 \/ misled' = misled \cup {q}
        BY <3>1 DEF Decides
      <4>2. SUFFICES ASSUME ShouldInitialize(q, keyExists), ~asked[q].withKey
                     PROVE  Excused(asked[q].conv)'
        BY <1>0, <1>1, <4>1 DEF StoresEmpty, StoreTypes
      <4>3. ~keyExists
        BY <1>0, <4>2 DEF Shape, ShouldInitialize
      <4>4. Lookup(asked[q].conv) # NoKeyFile
        <5>1. asked[q].kind = "prompt" /\ pc[q] = "upload"
          BY <3>1 DEF Decides
        <5>2. HasKey(asked[q].conv)
          BY <2>2, <4>2, <5>1 DEF Keyed, FoundKey
        <5>3. \A i \in DOMAIN tagIndex : tagIndex[i] # NoKeyFile
          <6>1. \A i \in DOMAIN tagIndex : tagIndex[i] \in KeyFiles
            BY <1>0, SeqFacts
          <6> QED
            BY <6>1 DEF KeyFiles, NoKeyFile
        <5> QED
          BY <5>2, <5>3, LookupFacts DEF HasKey
      <4>5. misled' = misled \cup {q}
        BY <4>1, <4>3, <4>4
      <4> QED
        BY <1>1, <4>2, <4>5 DEF Excused
    <3>2. CASE ~Decides(q)
      <4>1. creates' = creates
        BY <1>1, <3>2
      <4>2. pc'[q] \in {"files", "answer", "submit"} /\ creates[q]
              => pc[q] \in {"files", "answer", "submit"}
        BY <1>0, <1>4, <3>2 DEF HandlerStep, Resolves, AfterKey, Gathers, GatherHistory,
           Uploads, Replies, Branches, Submit, Stops, StopsAt, Progress
      <4> QED
        BY <1>1, <2>1, <2>2, <4>1, <4>2 DEF Keyed, StoresEmpty
    <3> QED
      BY <3>1, <3>2
  <2>8. LeavesKey(q)'
    <3>1. CASE Decides(q)
      <4>1. PICK keyExists \in BOOLEAN :
              /\ creates' = [creates EXCEPT ![q] = ShouldInitialize(q, keyExists)]
              /\ keyExists => Lookup(asked[q].conv) # NoKeyFile
        BY <3>1 DEF Decides
      <4>2. pc'[q] = "files" /\ asked[q].kind = "prompt"
        BY <1>4, <3>1 DEF Decides
      <4>3. CASE ShouldInitialize(q, keyExists)
        BY <1>0, <4>1, <4>2, <4>3 DEF LeavesKey, StoreTypes
      <4>4. CASE ~ShouldInitialize(q, keyExists) /\ asked[q].parent # 0
        BY <1>1, <2>1, <2>2, <4>2, <4>4 DEF Keyed, LeftKey, LeavesKey
      <4>5. CASE ~ShouldInitialize(q, keyExists) /\ asked[q].parent = 0
        <5>1. Lookup(asked[q].conv) # NoKeyFile
          BY <4>1, <4>5 DEF ShouldInitialize
        <5>2. HasKey(asked[q].conv)
          BY <5>1, LookupFacts DEF HasKey
        <5> QED
          BY <1>1, <2>1, <5>2 DEF LeavesKey
      <4> QED
        BY <4>3, <4>4, <4>5
    <3>2. CASE Uploads(q) /\ creates[q]
      <4>1. tagIndex' = Append(tagIndex, KeyFile(q))
        BY <2>1, <3>2 DEF Uploads, KeyUpload, IndexedTags, TagsKept, InMemory
      <4>2. PICK n \in DOMAIN tagIndex' : tagIndex'[n] = KeyFile(q)
        BY <1>0, <4>1, AppendFacts
      <4>3. asked[q].target = asked[q].conv
        BY <1>0, <3>2 DEF Uploads, Shape
      <4> QED
        BY <1>0, <1>1, <4>2, <4>3 DEF LeavesKey, HasKey
    <3>3. CASE ~Decides(q) /\ ~(Uploads(q) /\ creates[q])
      <4>1. creates' = creates
        BY <1>1, <3>3
      <4>2. pc'[q] \in {"files", "answer", "submit"} /\ asked[q].kind = "prompt"
              => /\ pc[q] \in {"files", "answer", "submit"}
                 /\ ~(creates[q] /\ pc[q] = "files")
        BY <1>0, <1>4, <3>3 DEF HandlerStep, Resolves, AfterKey, Gathers, GatherHistory,
           Uploads, Replies, Branches, Submit, Stops, StopsAt
      <4> QED
        BY <1>1, <2>1, <2>2, <4>1, <4>2 DEF Keyed, LeavesKey
    <3> QED
      BY <3>1, <3>2, <3>3
  <2>9. LeftKey(q)'
    <3>1. q \in Answered' => q \in Answered \/ Submit(q)
      BY <1>0, <1>1 DEF Answered
    <3>2. Submit(q) => pc[q] = "submit"
      BY DEF Submit
    <3>3. CASE asked[q].kind = "prompt" /\ Submit(q)
      BY <1>1, <2>1, <2>2, <3>2, <3>3 DEF Keyed, LeavesKey, LeftKey
    <3>4. CASE asked[q].kind # "prompt" \/ ~Submit(q)
      BY <1>0, <1>1, <2>1, <2>2, <3>1, <3>4 DEF Keyed, LeftKey, Shape
    <3> QED
      BY <3>3, <3>4
  <2> QED
    BY <1>1, <2>4, <2>5, <2>6, <2>7, <2>8, <2>9 DEF Keyed
<1> QED
  BY <1>3, <1>5 DEF KeyInv

LEMMA StepKeys ==
  StoreTypes /\ LogInv /\ KeyInv /\ [Next]_vars => KeyInv'
<1> SUFFICES ASSUME StoreTypes, LogInv, KeyInv, [Next]_vars PROVE KeyInv'
  OBVIOUS
<1>1. CASE UNCHANGED vars
  BY <1>1 DEF vars, requestVars, taskVars, storageVars, ghostVars, KeyInv, TagsKept, InMemory,
     Requests, Answered, Keyed, FoundKey, StoresEmpty, LeavesKey, LeftKey, Opens, HasKey, Excused
<1>2. CASE Next
  BY <1>2, StepKinds, AskKeys, HandlerKeys, RestartKeys
<1> QED
  BY <1>1, <1>2

LEMMA KeysSuffice ==
  StoreTypes /\ LogInv /\ KeyInv => KeyFileOpens
<1> SUFFICES ASSUME StoreTypes, LogInv, KeyInv, TagsKept,
                    NEW q \in Answered, asked[q].kind = "prompt"
             PROVE  \/ /\ Lookup(asked[q].conv).form = "hex"
                       /\ Lookup(asked[q].conv).key = keyOf[asked[q].conv]
                    \/ Excused(asked[q].conv)
  BY DEF KeyFileOpens, Excused
<1>1. HasKey(asked[q].conv) \/ Excused(asked[q].conv)
  BY DEF KeyInv, Keyed, LeftKey, Answered
<1>2. CASE HasKey(asked[q].conv)
  <2>1. PICK i \in DOMAIN tagIndex :
          tagIndex[i].conv = asked[q].conv /\ Lookup(asked[q].conv) = tagIndex[i]
    BY <1>2, LookupFacts DEF HasKey
  <2>2. Opens(i)
    BY DEF KeyInv
  <2> QED
    BY <2>1, <2>2 DEF Opens
<1> QED
  BY <1>1, <1>2

\* A conversation that has an answer has a key file its tag finds and that
\* opens, so that a message need not bring the key; not so for a branch, and
\* not after a lookup failed for a prompt that brought no key.
THEOREM KeyFilesOpen == Spec => []KeyFileOpens
<1>1. Init => StoreTypes /\ LogInv /\ KeyInv
  <2>1. Init => KeyInv
    <3> SUFFICES ASSUME Init PROVE KeyInv
      OBVIOUS
    <3>1. Requests = {} /\ DOMAIN tagIndex = {}
      BY DEF Init, Requests
    <3> QED
      BY <3>1 DEF KeyInv
  <2> QED
    BY <2>1, InitLog
<1>2. StoreTypes /\ LogInv /\ KeyInv /\ [Next]_vars => (StoreTypes /\ LogInv /\ KeyInv)'
  BY StepLog, StepKeys
<1> QED
  BY <1>1, <1>2, KeysSuffice, PTL DEF Spec

-------------------------------------------------------------------------------
(* What the user sees.                                                     *)

ViewStep(r, q, seen) ==
  CASE r.kind = "prompt" -> seen \o <<Cid("prompt", q), Cid("answer", q)>>
    [] r.kind = "regeneration" -> [seen EXCEPT ![Len(seen)] = Cid("answer", q)]
    [] r.kind = "branch" -> seen

\* v is what is seen up to each of the first n requests of rs.
IsViews(v, rs, n) ==
  v = [q \in 0 .. n |-> IF q = 0 THEN <<>> ELSE ViewStep(rs[q], q, v[rs[q].parent])]

LEMMA ViewsExist ==
  ASSUME NEW n \in Nat, NEW rs,
         \A q \in 1 .. n : rs[q].parent \in Nat /\ rs[q].parent < q
  PROVE  \E v : IsViews(v, rs, n)
<1> DEFINE Bad == {m \in 0 .. n : ~\E v : IsViews(v, rs, m)}
<1>1. SUFFICES ASSUME Bad # {} PROVE FALSE
  OBVIOUS
<1>2. PICK m \in Bad : \A k \in Bad : m <= k
  <2>1. Bad \in SUBSET Nat
    OBVIOUS
  <2> HIDE DEF Bad
  <2> QED
    BY <1>1, <2>1, LeastOf
<1>3. m # 0
  <2>1. IsViews([q \in 0 .. 0 |-> <<>>], rs, 0)
    BY DEF IsViews
  <2> QED
    BY <1>2, <2>1
<1>4. m - 1 \in 0 .. n /\ m - 1 \notin Bad
  BY <1>2, <1>3
<1>5. PICK v : IsViews(v, rs, m - 1)
  BY <1>4
<1> DEFINE w == [q \in 0 .. m |->
                   IF q = m THEN ViewStep(rs[m], m, v[rs[m].parent]) ELSE v[q]]
<1>6. ASSUME NEW q \in 0 .. m
      PROVE  w[q] = IF q = 0 THEN <<>> ELSE ViewStep(rs[q], q, w[rs[q].parent])
  <2>1. CASE q = 0
    BY <1>3, <1>4, <1>5, <2>1 DEF IsViews
  <2>2. CASE q # 0
    <3>1. q \in 1 .. n /\ rs[q].parent \in 0 .. m - 1 /\ rs[q].parent # m
      BY <1>2, <1>4, <2>2
    <3>2. w[rs[q].parent] = v[rs[q].parent]
      BY <3>1
    <3>3. CASE q = m
      BY <1>3, <3>2, <3>3
    <3>4. CASE q # m
      <4>1. q \in 0 .. m - 1
        BY <1>4, <3>4
      <4>2. v[q] = ViewStep(rs[q], q, v[rs[q].parent])
        BY <1>5, <2>2, <4>1 DEF IsViews
      <4> QED
        BY <2>2, <3>2, <3>4, <4>2
    <3> QED
      BY <3>3, <3>4
  <2> QED
    BY <2>1, <2>2
<1>7. IsViews(w, rs, m)
  <2>1. w = [q \in 0 .. m |-> w[q]]
    OBVIOUS
  <2> HIDE DEF w
  <2> QED
    BY <1>6, <2>1 DEF IsViews
<1> QED
  BY <1>2, <1>7

\* Requests that follow change nothing of what is seen up to an earlier one.
LEMMA ViewsAgree ==
  ASSUME NEW n \in Nat, NEW m \in Nat, m <= n, NEW rs, NEW more, NEW v, NEW w,
         \A q \in 1 .. m : rs[q].parent \in Nat /\ rs[q].parent < q /\ more[q] = rs[q],
         IsViews(v, rs, m), IsViews(w, more, n)
  PROVE  \A q \in 0 .. m : w[q] = v[q]
<1> DEFINE Bad == {q \in 0 .. m : w[q] # v[q]}
<1>1. SUFFICES ASSUME Bad # {} PROVE FALSE
  OBVIOUS
<1>2. PICK q \in Bad : \A k \in Bad : q <= k
  <2>1. Bad \in SUBSET Nat
    OBVIOUS
  <2> HIDE DEF Bad
  <2> QED
    BY <1>1, <2>1, LeastOf
<1>3. CASE q = 0
  BY <1>2, <1>3 DEF IsViews
<1>4. CASE q # 0
  <2>1. q \in 1 .. m /\ q \in 0 .. n /\ rs[q].parent \in 0 .. m /\ ~(q <= rs[q].parent)
        /\ more[q] = rs[q]
    BY <1>2, <1>4
  <2>2. w[rs[q].parent] = v[rs[q].parent]
    BY <1>2, <2>1
  <2>3. v[q] = ViewStep(rs[q], q, v[rs[q].parent])
    BY <1>4, <2>1 DEF IsViews
  <2>4. w[q] = ViewStep(more[q], q, w[more[q].parent])
    BY <1>4, <2>1 DEF IsViews
  <2> QED
    BY <1>2, <2>1, <2>2, <2>3, <2>4
<1> QED
  BY <1>3, <1>4

-------------------------------------------------------------------------------
(* The walk through the files.                                             *)

WalkStep(prev, source, key) ==
  IF \E f \in source : f.cid = prev.next /\ f.key = key
    THEN [path |-> <<prev.next>> \o prev.path, next |-> FileOf(source, prev.next).parent]
    ELSE prev

IsWalk(w, n, start, source, key) ==
  w = [i \in 0 .. n |-> IF i = 0 THEN [path |-> <<>>, next |-> start]
                        ELSE WalkStep(w[i - 1], source, key)]

LEMMA WalkExists ==
  ASSUME NEW n \in Nat, NEW start, NEW source, NEW key
  PROVE  \E w : IsWalk(w, n, start, source, key)
<1> DEFINE Bad == {m \in 0 .. n : ~\E w : IsWalk(w, m, start, source, key)}
<1>1. SUFFICES ASSUME Bad # {} PROVE FALSE
  OBVIOUS
<1>2. PICK m \in Bad : \A k \in Bad : m <= k
  <2>1. Bad \in SUBSET Nat
    OBVIOUS
  <2> HIDE DEF Bad
  <2> QED
    BY <1>1, <2>1, LeastOf
<1>3. m # 0
  <2>1. IsWalk([i \in 0 .. 0 |-> [path |-> <<>>, next |-> start]], 0, start, source, key)
    BY DEF IsWalk
  <2> QED
    BY <1>2, <2>1
<1>4. m - 1 \in 0 .. n /\ m - 1 \notin Bad
  BY <1>2, <1>3
<1>5. PICK v : IsWalk(v, m - 1, start, source, key)
  BY <1>4
<1> DEFINE w == [i \in 0 .. m |-> IF i = m THEN WalkStep(v[m - 1], source, key) ELSE v[i]]
<1>6. ASSUME NEW i \in 0 .. m
      PROVE  w[i] = IF i = 0 THEN [path |-> <<>>, next |-> start]
                    ELSE WalkStep(w[i - 1], source, key)
  <2>1. CASE i = 0
    BY <1>3, <1>4, <1>5, <2>1 DEF IsWalk
  <2>2. CASE i # 0
    <3>1. i - 1 \in 0 .. m - 1 /\ i - 1 # m
      BY <1>2, <2>2
    <3>2. w[i - 1] = v[i - 1]
      BY <3>1
    <3>3. CASE i = m
      BY <1>3, <3>2, <3>3
    <3>4. CASE i # m
      <4>1. i \in 0 .. m - 1
        BY <1>4, <3>4
      <4>2. v[i] = WalkStep(v[i - 1], source, key)
        BY <1>5, <2>2, <4>1 DEF IsWalk
      <4> QED
        BY <2>2, <3>2, <3>4, <4>2
    <3> QED
      BY <3>3, <3>4
  <2> QED
    BY <2>1, <2>2
<1>7. IsWalk(w, m, start, source, key)
  <2>1. w = [i \in 0 .. m |-> w[i]]
    OBVIOUS
  <2> HIDE DEF w
  <2> QED
    BY <1>6, <2>1 DEF IsWalk
<1> QED
  BY <1>2, <1>7

LEMMA WalkUnfolds ==
  ASSUME NEW n \in Nat, NEW start, NEW source, NEW key
  PROVE  \E w : /\ IsWalk(w, n, start, source, key)
                /\ Walk(start, source, key, n) = w[n]
<1> DEFINE w == CHOOSE w : IsWalk(w, n, start, source, key)
<1>1. IsWalk(w, n, start, source, key)
  BY WalkExists
<1>2. Walk(start, source, key, n) = w[n]
  BY DEF Walk, IsWalk, WalkStep
<1> QED
  BY <1>1, <1>2

\* Where a walk is that went k messages up a thread.
After(seen, k) ==
  [path |-> SubSeq(seen, Len(seen) - k + 1, Len(seen)),
   next |-> IF k < Len(seen) THEN seen[Len(seen) - k] ELSE None]

Links(source, seen) ==
  /\ \A f \in source : f.cid # None
  /\ \A f \in source : \A i \in 1 .. Len(seen) :
       f.cid = seen[i] => f.parent = IF i = 1 THEN None ELSE seen[i - 1]

GoesUp(start, source, key, n, seen) ==
  \E k \in 0 .. Len(seen) :
    /\ k <= n
    /\ Walk(start, source, key, n) = After(seen, k)
    /\ \/ k = n \/ k = Len(seen)
       \/ \E i \in 1 .. Len(seen) : ~\E f \in source : f.cid = seen[i] /\ f.key = key

\* A walk from the last message of a thread stays in the thread, and goes up to
\* the first message or as far as it is let when no file is missing.
LEMMA WalkFollows ==
  ASSUME NEW n \in Nat, NEW seen \in Seq(Cids), NEW source, NEW key, NEW start,
         start = IF seen = <<>> THEN None ELSE seen[Len(seen)],
         Links(source, seen)
  PROVE  GoesUp(start, source, key, n, seen)
<1> DEFINE Missing == \E i \in 1 .. Len(seen) : ~\E f \in source : f.cid = seen[i] /\ f.key = key
<1>1. PICK w : IsWalk(w, n, start, source, key) /\ Walk(start, source, key, n) = w[n]
  BY WalkUnfolds
<1>2. Len(seen) \in Nat
  BY LenProperties
<1> DEFINE Good(i) == \E k \in 0 .. Len(seen) : /\ k <= i /\ w[i] = After(seen, k)
                                                /\ k = i \/ k = Len(seen) \/ Missing
           Bad == {i \in 0 .. n : ~Good(i)}
<1>3. SUFFICES Bad = {}
  <2>1. n \in 0 .. n
    OBVIOUS
  <2>2. Good(n)
    BY <1>3, <2>1
  <2> QED
    BY <1>1, <2>2 DEF GoesUp
<1>4. SUFFICES ASSUME Bad # {} PROVE FALSE
  OBVIOUS
<1>5. PICK m \in Bad : \A j \in Bad : m <= j
  <2>1. Bad \in SUBSET Nat
    OBVIOUS
  <2> HIDE DEF Bad
  <2> QED
    BY <1>4, <2>1, LeastOf
<1>6. Good(0)
  <2>1. w[0] = [path |-> <<>>, next |-> start]
    BY <1>1 DEF IsWalk
  <2>2. SubSeq(seen, Len(seen) - 0 + 1, Len(seen)) = <<>>
    BY <1>2, SubSeqEmpty
  <2>3. start = IF 0 < Len(seen) THEN seen[Len(seen) - 0] ELSE None
    BY <1>2, EmptySeq
  <2> QED
    BY <1>2, <2>1, <2>2, <2>3 DEF After
<1>7. ASSUME NEW i \in 1 .. n, Good(i - 1) PROVE Good(i)
  <2>1. PICK k \in 0 .. Len(seen) : /\ k <= i - 1 /\ w[i - 1] = After(seen, k)
                                    /\ k = i - 1 \/ k = Len(seen) \/ Missing
    BY <1>7
  <2>2. w[i] = WalkStep(w[i - 1], source, key)
    BY <1>1 DEF IsWalk
  <2>3. CASE k = Len(seen)
    <3>1. After(seen, k).next = None
      BY <1>2, <2>3 DEF After
    <3>2. w[i] = w[i - 1]
      BY <2>1, <2>2, <3>1 DEF WalkStep, Links
    <3> QED
      BY <1>2, <2>1, <2>3, <3>2
  <2>4. CASE k # Len(seen)
    <3>1. /\ k < Len(seen) /\ Len(seen) - k \in 1 .. Len(seen)
          /\ After(seen, k).next = seen[Len(seen) - k]
          /\ After(seen, k).path = SubSeq(seen, Len(seen) - k + 1, Len(seen))
      <4>1. k < Len(seen) /\ Len(seen) - k \in 1 .. Len(seen)
        BY <1>2, <2>1, <2>4
      <4> QED
        BY <4>1 DEF After
    <3>2. CASE \E f \in source : f.cid = seen[Len(seen) - k] /\ f.key = key
      <4>1. /\ FileOf(source, seen[Len(seen) - k]) \in source
            /\ FileOf(source, seen[Len(seen) - k]).cid = seen[Len(seen) - k]
        BY <3>2 DEF FileOf
      <4>2. FileOf(source, seen[Len(seen) - k]).parent =
              IF Len(seen) - k = 1 THEN None ELSE seen[Len(seen) - k - 1]
        BY <3>1, <4>1 DEF Links
      <4>3. w[i] = [path |-> <<seen[Len(seen) - k]>> \o SubSeq(seen, Len(seen) - k + 1, Len(seen)),
                    next |-> IF Len(seen) - k = 1 THEN None ELSE seen[Len(seen) - k - 1]]
        BY <2>1, <2>2, <3>1, <3>2, <4>2 DEF WalkStep
      <4>4. SubSeq(seen, Len(seen) - k, Len(seen))
              = <<seen[Len(seen) - k]>> \o SubSeq(seen, Len(seen) - k + 1, Len(seen))
        <5>1. \A j \in Len(seen) - k .. Len(seen) : seen[j] \in Cids
          BY <1>2, <3>1, ElementOfSeq
        <5>2. Len(seen) - k \in Int /\ Len(seen) \in Int /\ Len(seen) - k <= Len(seen)
          BY <1>2, <3>1
        <5> QED
          BY <5>1, <5>2, SubSeqRecursiveFirst
      <4>5. w[i] = After(seen, k + 1)
        <5>1. /\ Len(seen) - (k + 1) + 1 = Len(seen) - k
              /\ Len(seen) - (k + 1) = Len(seen) - k - 1
              /\ (Len(seen) - k = 1) <=> ~(k + 1 < Len(seen))
          BY <1>2, <3>1
        <5> QED
          BY <4>3, <4>4, <5>1 DEF After
      <4>6. k + 1 \in 0 .. Len(seen) /\ k + 1 <= i
        BY <1>2, <2>1, <3>1
      <4> QED
        BY <2>1, <2>4, <4>5, <4>6
    <3>3. CASE ~\E f \in source : f.cid = seen[Len(seen) - k] /\ f.key = key
      <4>1. w[i] = w[i - 1]
        BY <2>1, <2>2, <3>1, <3>3 DEF WalkStep
      <4>2. Missing
        BY <3>1, <3>3
      <4> QED
        BY <2>1, <4>1, <4>2
    <3> QED
      BY <3>2, <3>3
  <2> QED
    BY <2>3, <2>4
<1>8. m # 0 /\ m \in 1 .. n /\ m - 1 \in 0 .. n
  BY <1>5, <1>6
<1>9. Good(m - 1)
  BY <1>5, <1>8
<1> QED
  BY <1>5, <1>7, <1>8, <1>9

-------------------------------------------------------------------------------
(* Threads: what the user sees is a chain of parents.                      *)

LEMMA ViewsFacts ==
  ASSUME StoreTypes
  PROVE  /\ IsViews(Views, asked, Len(asked))
         /\ Views[0] = <<>>
         /\ \A q \in Requests : Views[q] = ViewStep(asked[q], q, Views[asked[q].parent])
<1>1. /\ Len(asked) \in Nat /\ Requests = 1 .. Len(asked)
      /\ \A q \in 1 .. Len(asked) : asked[q].parent \in Nat /\ asked[q].parent < q
  BY AskedFacts DEF Requests
<1>2. Views = CHOOSE v : IsViews(v, asked, Len(asked))
  BY DEF Views, IsViews, ViewStep
<1>3. IsViews(Views, asked, Len(asked))
  BY <1>1, <1>2, ViewsExist
<1> QED
  BY <1>1, <1>3 DEF IsViews

LEMMA ViewsStay ==
  ASSUME StoreTypes, LogInv, NEW r \in RequestType, Asks(r)
  PROVE  \A q \in 0 .. Len(asked) : Views'[q] = Views[q]
<1>1. /\ Len(asked) \in Nat /\ Requests = 1 .. Len(asked)
      /\ \A q \in 1 .. Len(asked) : asked[q].parent \in Nat /\ asked[q].parent < q
  BY AskedFacts DEF Requests
<1>2. /\ Len(asked') = Len(asked) + 1 /\ \A q \in 1 .. Len(asked) : asked'[q] = asked[q]
      /\ asked'[Len(asked) + 1] = r
  BY <1>1, AskEffect
<1>3. r.parent \in Nat /\ r.parent < Len(asked) + 1
  BY <1>1 DEF Asks, RequestType
<1>4. \A q \in 1 .. Len(asked') : asked'[q].parent \in Nat /\ asked'[q].parent < q
  BY <1>1, <1>2, <1>3
<1>5. Views' = CHOOSE v : IsViews(v, asked', Len(asked'))
  BY DEF Views, IsViews, ViewStep
<1>6. IsViews(Views', asked', Len(asked')) /\ Len(asked') \in Nat /\ Len(asked) <= Len(asked')
  BY <1>1, <1>2, <1>4, <1>5, ViewsExist
<1>7. IsViews(Views, asked, Len(asked))
  BY ViewsFacts
<1> QED
  BY <1>1, <1>2, <1>6, <1>7, ViewsAgree

Before(seen, i) == IF i = 1 THEN None ELSE seen[i - 1]

\* The i-th message of a thread that ends with q is of a request that has its
\* answer, or of q; its file names the message before as its parent.
Linked(seen, q, i) ==
  \E k \in Requests :
    /\ k = q \/ k \in Answered
    /\ asked[k].kind # "branch"
    /\ keyOf[asked[k].target] = keyOf[asked[q].target]
    /\ \/ /\ seen[i] = Cid("prompt", k) /\ asked[k].kind = "prompt"
          /\ PromptFile(k).parent = Before(seen, i)
       \/ /\ seen[i] = Cid("answer", k)
          /\ AnswerFile(k).parent = Before(seen, i)

Thread(seen, q) ==
  /\ seen \in Seq(Cids)
  /\ asked[q].kind # "branch" => Len(seen) >= 2 /\ seen[Len(seen)] = Cid("answer", q)
  /\ \A i \in 1 .. Len(seen) : Linked(seen, q, i)

\* What a thread keeps when q goes on where p ended.
LEMMA ThreadGoesOn ==
  ASSUME StoreTypes, LogInv, NEW q \in Requests, NEW p \in Requests, p = asked[q].parent,
         NEW seen, NEW new, Thread(seen, p),
         NEW n \in 0 .. Len(seen), \A i \in 1 .. n : new[i] = seen[i]
  PROVE  \A i \in 1 .. n : Linked(new, q, i)
<1>1. /\ p # 0 /\ p \in Answered /\ asked[q].conv = asked[p].target
      /\ keyOf[asked[q].target] = keyOf[asked[q].conv]
  BY AskedFacts, KeysOf DEF LogInv, Shape, Requests
<1>2. Len(seen) \in Nat
  BY LenProperties DEF Thread
<1>3. ASSUME NEW i \in 1 .. n PROVE Linked(new, q, i)
  <2>1. new[i] = seen[i] /\ Before(new, i) = Before(seen, i) /\ i \in 1 .. Len(seen)
    BY <1>2 DEF Before
  <2>2. Linked(seen, p, i)
    BY <2>1 DEF Thread
  <2> QED
    BY <1>1, <2>1, <2>2 DEF Linked
<1> QED
  BY <1>3

LEMMA PromptThread ==
  ASSUME StoreTypes, LogInv, NEW q \in Requests, asked[q].kind = "prompt",
         asked[q].parent # 0 => Thread(Views[asked[q].parent], asked[q].parent)
  PROVE  Thread(Views[q], q)
<1> DEFINE seen == Views[asked[q].parent]
           pair == <<Cid("prompt", q), Cid("answer", q)>>
<1>1. q \in 0 .. MaxRequests /\ Cid("prompt", q) \in Cids /\ Cid("answer", q) \in Cids
  BY AskedFacts, CidFacts
<1>2. pair \in Seq(Cids) /\ Len(pair) = 2
      /\ pair[1] = Cid("prompt", q) /\ pair[2] = Cid("answer", q)
  BY <1>1
<1>3. seen \in Seq(Cids)
  <2>1. CASE asked[q].parent = 0
    <3>1. seen = <<>>
      BY <2>1, ViewsFacts
    <3> QED
      BY <3>1
  <2>2. CASE asked[q].parent # 0
    BY <2>2 DEF Thread
  <2> QED
    BY <2>1, <2>2
<1>4. Views[q] = seen \o pair
  BY ViewsFacts DEF ViewStep
<1>5. PromptFile(q).parent = IF seen = <<>> THEN None ELSE seen[Len(seen)]
  BY DEF PromptFile, Message, ParentCid
<1>6. AnswerFile(q).parent = Cid("prompt", q)
  BY DEF AnswerFile, Message
<1>7. \A i \in 1 .. Len(seen) : Linked(seen \o pair, q, i)
  <2>1. CASE asked[q].parent = 0
    <3>1. Len(seen) = 0
      BY <2>1, ViewsFacts
    <3> QED
      BY <3>1
  <2>2. CASE asked[q].parent # 0
    <3>1. asked[q].parent \in Requests /\ Len(seen) \in 0 .. Len(seen)
      BY <1>3, <2>2, AskedFacts, LenProperties
    <3>2. \A i \in 1 .. Len(seen) : (seen \o pair)[i] = seen[i]
      BY <1>2, <1>3, ConcatProperties, LenProperties
    <3> HIDE DEF seen, pair
    <3>3. seen = Views[asked[q].parent]
      BY DEF seen
    <3> QED
      BY <2>2, <3>1, <3>2, <3>3, ThreadGoesOn
  <2> QED
    BY <2>1, <2>2
<1> HIDE DEF seen, pair
<1>8. /\ seen \o pair \in Seq(Cids) /\ Len(seen \o pair) = Len(seen) + 2 /\ Len(seen) \in Nat
      /\ (seen \o pair)[Len(seen) + 1] = Cid("prompt", q)
      /\ (seen \o pair)[Len(seen) + 2] = Cid("answer", q)
      /\ \A i \in 1 .. Len(seen) : (seen \o pair)[i] = seen[i]
  <2>1. /\ seen \o pair \in Seq(Cids) /\ Len(seen \o pair) = Len(seen) + Len(pair)
        /\ \A i \in 1 .. Len(seen) + Len(pair) :
             (seen \o pair)[i] = IF i <= Len(seen) THEN seen[i] ELSE pair[i - Len(seen)]
    BY <1>2, <1>3, ConcatProperties
  <2>2. Len(seen) \in Nat
    BY <1>3, LenProperties
  <2>3. Len(seen) + 1 - Len(seen) = 1 /\ Len(seen) + 2 - Len(seen) = 2
    BY <2>2
  <2> QED
    BY <1>2, <2>1, <2>2, <2>3
<1>9. Linked(seen \o pair, q, Len(seen) + 1)
  <2>1. Before(seen \o pair, Len(seen) + 1) = IF seen = <<>> THEN None ELSE seen[Len(seen)]
    <3>1. CASE seen = <<>>
      BY <1>8, <3>1 DEF Before
    <3>2. CASE seen # <<>>
      <4>1. Len(seen) \in 1 .. Len(seen) /\ Len(seen) + 1 # 1 /\ Len(seen) + 1 - 1 = Len(seen)
        BY <1>3, <1>8, <3>2, EmptySeq
      <4> QED
        BY <1>8, <3>2, <4>1 DEF Before
    <3> QED
      BY <3>1, <3>2
  <2>2. PromptFile(q).parent = Before(seen \o pair, Len(seen) + 1)
    BY <1>5, <2>1
  <2> QED
    BY <1>8, <2>2 DEF Linked
<1>10. Linked(seen \o pair, q, Len(seen) + 2)
  <2>1. Before(seen \o pair, Len(seen) + 2) = Cid("prompt", q)
    <3>1. Len(seen) + 2 # 1 /\ Len(seen) + 2 - 1 = Len(seen) + 1
      BY <1>8
    <3> QED
      BY <1>8, <3>1 DEF Before
  <2>2. AnswerFile(q).parent = Before(seen \o pair, Len(seen) + 2)
    BY <1>6, <2>1
  <2> QED
    BY <1>8, <2>2 DEF Linked
<1>11. \A i \in 1 .. Len(seen \o pair) : i \in 1 .. Len(seen) \/ i = Len(seen) + 1
                                         \/ i = Len(seen) + 2
  BY <1>8
<1>12. Len(seen \o pair) >= 2
  BY <1>8
<1> QED
  BY <1>4, <1>7, <1>8, <1>9, <1>10, <1>11, <1>12 DEF Thread

LEMMA RegenerationThread ==
  ASSUME StoreTypes, LogInv, NEW q \in Requests, asked[q].kind = "regeneration",
         Thread(Views[asked[q].parent], asked[q].parent)
  PROVE  Thread(Views[q], q)
<1> DEFINE seen == Views[asked[q].parent]
           new  == [seen EXCEPT ![Len(seen)] = Cid("answer", q)]
<1>1. /\ q \in 0 .. MaxRequests /\ Cid("answer", q) \in Cids
      /\ asked[q].parent # 0 /\ asked[q].parent \in Requests
      /\ asked[asked[q].parent].kind # "branch"
  BY AskedFacts, CidFacts DEF LogInv, Shape
<1>2. Views[q] = new
  BY ViewsFacts DEF ViewStep
<1>3. seen \in Seq(Cids) /\ Len(seen) >= 2 /\ Len(seen) \in Nat
  BY <1>1, LenProperties DEF Thread
<1>4. AnswerFile(q).parent = seen[Len(seen) - 1]
  BY DEF AnswerFile, Message, PromptCid
<1>5. /\ new \in Seq(Cids) /\ Len(new) = Len(seen) /\ new[Len(seen)] = Cid("answer", q)
      /\ \A i \in 1 .. Len(seen) - 1 : new[i] = seen[i]
  <2>1. Len(seen) \in 1 .. Len(seen)
    BY <1>3
  <2>2. /\ new \in Seq(Cids) /\ Len(new) = Len(seen)
        /\ \A j \in 1 .. Len(seen) : new[j] = IF j = Len(seen) THEN Cid("answer", q) ELSE seen[j]
    BY <1>1, <1>3, <2>1, ExceptSeq
  <2> HIDE DEF new, seen
  <2>3. \A i \in 1 .. Len(seen) - 1 : i \in 1 .. Len(seen) /\ i # Len(seen)
    BY <1>3
  <2> QED
    BY <2>1, <2>2, <2>3
<1>6. \A i \in 1 .. Len(seen) - 1 : Linked(new, q, i)
  <2>1. Len(seen) - 1 \in 0 .. Len(seen)
    BY <1>3
  <2> HIDE DEF new, seen
  <2>2. seen = Views[asked[q].parent]
    BY DEF seen
  <2> QED
    BY <1>1, <1>5, <2>1, <2>2, ThreadGoesOn
<1> HIDE DEF new, seen
<1>7. Linked(new, q, Len(seen))
  <2>1. Before(new, Len(seen)) = seen[Len(seen) - 1]
    BY <1>3, <1>5 DEF Before
  <2> QED
    BY <1>4, <1>5, <2>1 DEF Linked
<1>8. \A i \in 1 .. Len(new) : i \in 1 .. Len(seen) - 1 \/ i = Len(seen)
  BY <1>3, <1>5
<1> QED
  BY <1>2, <1>3, <1>5, <1>6, <1>7, <1>8 DEF Thread

LEMMA BranchThread ==
  ASSUME StoreTypes, LogInv, NEW q \in Requests, asked[q].kind = "branch",
         Thread(Views[asked[q].parent], asked[q].parent)
  PROVE  Thread(Views[q], q)
<1>1. asked[q].parent # 0 /\ asked[q].parent \in Requests
  BY AskedFacts DEF LogInv, Shape
<1>2. Views[q] = Views[asked[q].parent]
  BY ViewsFacts DEF ViewStep
<1>3. Views[q] \in Seq(Cids) /\ Len(Views[q]) \in 0 .. Len(Views[q])
  BY <1>2, LenProperties DEF Thread
<1>4. \A i \in 1 .. Len(Views[q]) : Linked(Views[q], q, i)
  BY <1>1, <1>2, <1>3, ThreadGoesOn
<1> QED
  BY <1>3, <1>4 DEF Thread

\* By the least request that would break it.
LEMMA Threads ==
  ASSUME StoreTypes, LogInv
  PROVE  \A q \in Requests : Thread(Views[q], q)
<1> DEFINE Bad == {q \in Requests : ~Thread(Views[q], q)}
<1>1. SUFFICES ASSUME Bad # {} PROVE FALSE
  OBVIOUS
<1>2. PICK q \in Bad : \A k \in Bad : q <= k
  <2>1. Bad \in SUBSET Nat
    BY DEF Requests
  <2> HIDE DEF Bad
  <2> QED
    BY <1>1, <2>1, LeastOf
<1>3. /\ q \in Requests /\ ~Thread(Views[q], q)
      /\ asked[q].kind \in {"prompt", "regeneration", "branch"}
      /\ asked[q].kind # "prompt" => asked[q].parent # 0
      /\ asked[q].parent # 0 => asked[q].parent \in Requests /\ ~(q <= asked[q].parent)
  <2>1. q \in Requests /\ ~Thread(Views[q], q)
    BY <1>2
  <2>2. q \in Nat /\ asked[q].parent \in Nat /\ asked[q].parent < q
    BY <2>1, AskedFacts DEF Requests
  <2>3. ~(q <= asked[q].parent)
    BY <2>2
  <2> QED
    BY <2>1, <2>3, AskedFacts DEF LogInv, Shape
<1>4. asked[q].parent # 0 => Thread(Views[asked[q].parent], asked[q].parent)
  BY <1>2, <1>3
<1> QED
  BY <1>3, <1>4, PromptThread, RegenerationThread, BranchThread

-------------------------------------------------------------------------------
(* The files of the requests.                                              *)

FileTypes == [cid : Cids, parent : Cids, key : 0 .. MaxRequests]

IsFileOf(f, q) ==
  \/ asked[q].kind = "prompt" /\ f = PromptFile(q)
  \/ asked[q].kind # "branch" /\ f = AnswerFile(q)
  \/ f = ConversationFile(q)

LEMMA ParentTypes ==
  ASSUME StoreTypes, LogInv, NEW q \in Requests
  PROVE  /\ Views[asked[q].parent] \in Seq(Cids)
         /\ ParentCid(q) \in Cids
         /\ asked[q].kind = "regeneration" => PromptCid(q) \in Cids
<1> DEFINE seen == Views[asked[q].parent]
<1>1. CASE asked[q].parent = 0
  <2>1. seen = <<>> /\ asked[q].kind # "regeneration"
    BY <1>1, ViewsFacts DEF LogInv, Shape
  <2>2. None \in Cids
    BY CidFacts, AskedFacts
  <2> QED
    BY <2>1, <2>2 DEF ParentCid
<1>2. CASE asked[q].parent # 0
  <2>1. asked[q].parent \in Requests
    BY <1>2, AskedFacts
  <2>2. Thread(seen, asked[q].parent)
    BY <2>1, Threads
  <2>3. None \in Cids
    BY CidFacts, AskedFacts
  <2>4. seen \in Seq(Cids) /\ Len(seen) \in Nat /\ (seen # <<>> => Len(seen) \in 1 .. Len(seen))
        /\ (asked[q].kind = "regeneration" => Len(seen) - 1 \in 1 .. Len(seen))
    <3>1. seen \in Seq(Cids) /\ Len(seen) \in Nat
      BY <2>2, LenProperties DEF Thread
    <3>2. seen # <<>> => Len(seen) \in 1 .. Len(seen)
      BY <3>1, EmptySeq
    <3>3. asked[q].kind = "regeneration" => Len(seen) >= 2
      BY <2>2, <1>2 DEF LogInv, Shape, Thread
    <3> HIDE DEF seen
    <3> QED
      BY <3>1, <3>2, <3>3
  <2>5. \A i \in 1 .. Len(seen) : seen[i] \in Cids
    BY <2>4, ElementOfSeq
  <2> QED
    BY <2>3, <2>4, <2>5 DEF ParentCid, PromptCid
<1> QED
  BY <1>1, <1>2

LEMMA FileFacts ==
  ASSUME StoreTypes, LogInv, NEW q \in Requests
  PROVE  /\ PromptFile(q).cid = Cid("prompt", q) /\ AnswerFile(q).cid = Cid("answer", q)
         /\ ConversationFile(q).cid = Cid("conversation", q)
         /\ PromptFile(q).key = keyOf[asked[q].target]
         /\ AnswerFile(q).key = keyOf[asked[q].target]
         /\ \A f : IsFileOf(f, q) => f \in FileTypes /\ f.cid # None
<1>1. q \in 0 .. MaxRequests /\ asked[q].kind \in {"prompt", "regeneration", "branch"}
      /\ asked[q].target \in Places
  BY AskedFacts
<1>2. keyOf[asked[q].target] \in 0 .. MaxRequests
  BY <1>1 DEF StoreTypes
<1>3. /\ Cid("prompt", q) \in Cids /\ Cid("answer", q) \in Cids /\ Cid("conversation", q) \in Cids
      /\ Cid("prompt", q) # None /\ Cid("answer", q) # None /\ Cid("conversation", q) # None
      /\ None \in Cids
  BY <1>1, CidFacts
<1>4. /\ PromptFile(q) = [cid |-> Cid("prompt", q), parent |-> ParentCid(q),
                          key |-> keyOf[asked[q].target]]
      /\ ConversationFile(q) = [cid |-> Cid("conversation", q), parent |-> None,
                                key |-> keyOf[asked[q].target]]
  BY DEF PromptFile, ConversationFile, Message
<1>5. AnswerFile(q) = [cid |-> Cid("answer", q),
                       parent |-> IF asked[q].kind = "prompt" THEN Cid("prompt", q)
                                  ELSE PromptCid(q),
                       key |-> keyOf[asked[q].target]]
  BY DEF AnswerFile, Message
<1>6. ParentCid(q) \in Cids /\ (asked[q].kind = "regeneration" => PromptCid(q) \in Cids)
  BY ParentTypes
<1>7. PromptFile(q) \in FileTypes /\ ConversationFile(q) \in FileTypes
  BY <1>2, <1>3, <1>4, <1>6 DEF FileTypes
<1>8. asked[q].kind # "branch" => AnswerFile(q) \in FileTypes
  BY <1>1, <1>2, <1>3, <1>5, <1>6 DEF FileTypes
<1> QED
  BY <1>3, <1>4, <1>5, <1>7, <1>8 DEF IsFileOf

\* A CID names one file.
LEMMA OneFile ==
  ASSUME StoreTypes, LogInv, NEW q \in Requests, NEW p \in Requests, NEW f, NEW g,
         IsFileOf(f, q), IsFileOf(g, p), f.cid = g.cid
  PROVE  f = g
<1>1. \A k1, k2, n1, n2 : Cid(k1, n1) = Cid(k2, n2) => k1 = k2 /\ n1 = n2
  BY DEF Cid
<1> QED
  BY <1>1, FileFacts DEF IsFileOf

\* What is stored of a request that has its answer, or is that far.
Stored(q) ==
  /\ asked[q].kind = "prompt" /\ (q \in Answered \/ pc[q] \in {"answer", "submit"})
       => PromptFile(q) \in files
  /\ asked[q].kind # "branch" /\ (q \in Answered \/ pc[q] = "submit")
       => AnswerFile(q) \in files

FilesInv ==
  /\ \A f \in files \cup cache : \E q \in Requests : IsFileOf(f, q)
  /\ FilesKept => \A q \in Requests : Stored(q)

\* A file that is written names the same parent and has the same key for good.
LEMMA FilesStay ==
  ASSUME StoreTypes, LogInv,
         \/ \E r \in RequestType : Asks(r)
         \/ \E q \in Requests : HandlerStep(q)
         \/ Restart
  PROVE  \A q \in Requests :
           /\ q \in Requests' /\ asked'[q] = asked[q]
           /\ Views'[asked[q].parent] = Views[asked[q].parent]
           /\ keyOf'[asked[q].target] = keyOf[asked[q].target]
           /\ keyOf'[asked[q].conv] = keyOf[asked[q].conv]
           /\ PromptFile(q)' = PromptFile(q) /\ AnswerFile(q)' = AnswerFile(q)
           /\ ConversationFile(q)' = ConversationFile(q)
<1>1. ASSUME NEW r \in RequestType, Asks(r), NEW q \in Requests
      PROVE  /\ q \in Requests' /\ asked'[q] = asked[q]
             /\ Views'[asked[q].parent] = Views[asked[q].parent]
             /\ keyOf'[asked[q].target] = keyOf[asked[q].target]
             /\ keyOf'[asked[q].conv] = keyOf[asked[q].conv]
  <2>1. asked[q].parent \in 0 .. Len(asked)
    BY AskedFacts DEF Requests
  <2>2. /\ asked[q].conv \in Places /\ asked[q].target \in Places
        /\ keyOf[asked[q].target] # 0 /\ keyOf[asked[q].conv] # 0
    BY AskedFacts, KeysOf
  <2> QED
    BY <1>1, <2>1, <2>2, AskEffect, ViewsStay DEF Asks, KeyKept
<1>2. ASSUME UNCHANGED <<asked, keyOf>>, NEW q \in Requests
      PROVE  /\ q \in Requests' /\ asked'[q] = asked[q]
             /\ Views'[asked[q].parent] = Views[asked[q].parent]
             /\ keyOf'[asked[q].target] = keyOf[asked[q].target]
             /\ keyOf'[asked[q].conv] = keyOf[asked[q].conv]
  BY <1>2 DEF Requests, Views
<1>3. ASSUME NEW q \in Requests, HandlerStep(q) PROVE UNCHANGED <<asked, keyOf>>
  BY <1>3, HandlerFacts DEF log
<1>4. Restart => UNCHANGED <<asked, keyOf>>
  BY RestartFacts
<1>5. ASSUME NEW q \in Requests
      PROVE  /\ q \in Requests' /\ asked'[q] = asked[q]
             /\ Views'[asked[q].parent] = Views[asked[q].parent]
             /\ keyOf'[asked[q].target] = keyOf[asked[q].target]
             /\ keyOf'[asked[q].conv] = keyOf[asked[q].conv]
  BY <1>1, <1>2, <1>3, <1>4
<1>6. ASSUME NEW q \in Requests
      PROVE  ParentCid(q)' = ParentCid(q) /\ PromptCid(q)' = PromptCid(q)
  BY <1>5 DEF ParentCid, PromptCid
<1> QED
  BY <1>5, <1>6 DEF PromptFile, AnswerFile, ConversationFile, Message

LEMMA FilesKeptBefore ==
  ASSUME StoreTypes, LogInv, FilesKept',
         \/ \E r \in RequestType : Asks(r)
         \/ \E q \in Requests : HandlerStep(q)
         \/ Restart
  PROVE  FilesKept /\ files \subseteq files'
<1>1. ASSUME NEW r \in RequestType, Asks(r)
      PROVE  UNCHANGED <<mode, restarted, files>>
  BY <1>1, AskEffect DEF storageVars
<1>2. ASSUME NEW q \in Requests, HandlerStep(q)
      PROVE  UNCHANGED <<mode, restarted>> /\ files \subseteq files'
  <2>1. files \subseteq files'
    BY <1>2 DEF HandlerStep, Resolves, Gathers, GatherHistory, Decides, Uploads, Replies,
       Branches, Submit, Stops, storageVars
  <2> QED
    BY <1>2, <2>1, HandlerFacts DEF log
<1>3. ASSUME Restart
      PROVE  UNCHANGED mode /\ restarted' /\ (mode # "memory" => files' = files)
  BY <1>3, RestartFacts
<1> QED
  BY <1>1, <1>2, <1>3 DEF FilesKept

LEMMA AskFiles ==
  ASSUME StoreTypes, LogInv, FilesInv, NEW r \in RequestType, Asks(r)
  PROVE  FilesInv'
<1>0. PICK n \in 1 .. MaxRequests : n = Len(asked) + 1
  BY AskEffect
<1>1. /\ Requests' = Requests \cup {n} /\ Answered' = Answered
      /\ Unasked(n) /\ UNCHANGED <<pc, files, cache>>
  BY <1>0, AskEffect DEF taskVars, storageVars
<1>2. \A q \in Requests : /\ asked'[q] = asked[q]
                          /\ PromptFile(q)' = PromptFile(q) /\ AnswerFile(q)' = AnswerFile(q)
                          /\ ConversationFile(q)' = ConversationFile(q)
  BY FilesStay
<1>3. \A q \in Requests : \A f : IsFileOf(f, q) => IsFileOf(f, q)'
  BY <1>2 DEF IsFileOf
<1>4. \A f \in files' \cup cache' : \E q \in Requests' : IsFileOf(f, q)'
  BY <1>1, <1>3 DEF FilesInv
<1>5. ASSUME FilesKept' PROVE \A q \in Requests' : Stored(q)'
  <2>1. FilesKept
    BY <1>5, FilesKeptBefore
  <2>2. \A q \in Requests : Stored(q)'
    BY <1>1, <1>2, <2>1 DEF FilesInv, Stored
  <2>3. n \notin Answered
    BY <1>1 DEF Answered, Unasked
  <2>4. Stored(n)'
    BY <1>1, <2>3 DEF Stored, Unasked
  <2> QED
    BY <1>1, <2>2, <2>4
<1> QED
  BY <1>4, <1>5 DEF FilesInv

\* The step of GatherHistory with what is left of the cache and the CID whose
\* fetch fails.
Reads(q, kept, lost) == Source(kept, {f \in files : f.cid # lost})

Path(q, kept, lost) ==
  Walk(ParentCid(q), Reads(q, kept, lost), keyOf[asked[q].conv], Limit).path

GathersFrom(q, kept, lost) ==
  /\ IF lost = None THEN UNCHANGED shortened ELSE shortened' = shortened \cup {q}
  /\ history' = [history EXCEPT ![q] = Path(q, kept, lost)]
  /\ cache' = kept \cup {f \in Reads(q, kept, lost) :
                           \E i \in DOMAIN Path(q, kept, lost) : Path(q, kept, lost)[i] = f.cid}

LEMMA GatherKinds ==
  ASSUME NEW q \in Requests, Gathers(q)
  PROVE  \E kept \in {cache, {}} : \E lost : GathersFrom(q, kept, lost)
<1>1. PICK kept \in {cache, {}} :
        \E lost \in {None} \cup {f.cid : f \in files \ kept} :
          /\ IF lost = None THEN NoFault /\ UNCHANGED shortened
                            ELSE Fault /\ shortened' = shortened \cup {q}
          /\ history' = [history EXCEPT ![q] = Path(q, kept, lost)]
          /\ cache' = kept \cup {f \in Reads(q, kept, lost) :
                 \E i \in DOMAIN Path(q, kept, lost) : Path(q, kept, lost)[i] = f.cid}
  BY Zenon DEF Gathers, GatherHistory, Reads, Path
<1> QED
  BY <1>1 DEF GathersFrom

\* What a handler writes, and what the cache holds after it.
LEMMA HandlerWrites ==
  ASSUME StoreTypes, LogInv, NEW q \in Requests, HandlerStep(q)
  PROVE  \A f \in files' \cup cache' : f \in files \cup cache \/ IsFileOf(f, q)
<1>1. CASE Gathers(q)
  <2>0. PICK kept \in {cache, {}} : \E lost : GathersFrom(q, kept, lost)
    BY <1>1, GatherKinds
  <2>1. PICK lost : GathersFrom(q, kept, lost)
    BY <2>0
  <2>2. Reads(q, kept, lost) \subseteq cache \cup files
    BY DEF Reads, Source
  <2>3. cache' \subseteq cache \cup files
    BY <2>1, <2>2 DEF GathersFrom
  <2> QED
    BY <1>1, <2>3 DEF Gathers, GatherHistory
<1>2. CASE Uploads(q)
  BY <1>2 DEF Uploads, Cached, IsFileOf
<1>3. CASE Replies(q)
  BY <1>3 DEF Replies, Cached, IsFileOf
<1>4. CASE Branches(q)
  BY <1>4 DEF Branches, IsFileOf
<1>5. CASE Stops(q)
  BY <1>5 DEF Stops, StopsAt, IsFileOf
<1>6. CASE Resolves(q) \/ Decides(q) \/ Submit(q)
  BY <1>6 DEF Resolves, Decides, Submit, storageVars
<1> QED
  BY <1>1, <1>2, <1>3, <1>4, <1>5, <1>6 DEF HandlerStep

LEMMA HandlerFiles ==
  ASSUME StoreTypes, LogInv, FilesInv, NEW q \in Requests, HandlerStep(q)
  PROVE  FilesInv'
<1>0. /\ q \in 1 .. MaxRequests /\ Requests \subseteq 1 .. MaxRequests
      /\ asked[q].kind \in {"prompt", "regeneration", "branch"} /\ Progress(q)
  BY AskedFacts DEF LogInv
<1>1. /\ UNCHANGED asked /\ Requests' = Requests
      /\ \A u \in 1 .. MaxRequests \ {q} : pc'[u] = pc[u] /\ bundle'[u] = bundle[u]
      /\ bundle' = bundle \/ (Submit(q) /\ bundle'[q] = BundleOf(q))
  BY HandlerFacts DEF log, Requests
<1>2. \A u \in Requests : /\ PromptFile(u)' = PromptFile(u) /\ AnswerFile(u)' = AnswerFile(u)
                          /\ ConversationFile(u)' = ConversationFile(u)
  BY FilesStay
<1>3. \A u \in Requests : \A f : IsFileOf(f, u) => IsFileOf(f, u)'
  BY <1>1, <1>2 DEF IsFileOf
<1>4. \A f \in files' \cup cache' : \E u \in Requests' : IsFileOf(f, u)'
  BY <1>1, <1>3, HandlerWrites DEF FilesInv
<1>5. \A to : Goto(q, to) => pc'[q] = to
  BY <1>0 DEF Goto, StoreTypes
<1>6. ASSUME FilesKept' PROVE \A u \in Requests' : Stored(u)'
  <2>1. FilesKept /\ files \subseteq files'
    BY <1>6, FilesKeptBefore
  <2>2. \A u \in Requests : Stored(u)
    BY <2>1 DEF FilesInv
  <2>3. ASSUME NEW u \in Requests, u # q PROVE Stored(u)'
    <3>1. /\ pc'[u] = pc[u]
          /\ u \in Answered' => u \in Answered
      BY <1>0, <1>1, <2>3 DEF Answered
    <3> QED
      BY <1>1, <1>2, <2>1, <2>2, <3>1 DEF Stored
  <2>4. Stored(q)'
    <3>1. q \in Answered' => q \in Answered \/ Submit(q)
      BY <1>0, <1>1 DEF Answered
    <3>2. Submit(q) => pc[q] = "submit"
      BY DEF Submit
    <3>3. asked[q].kind = "prompt" /\ pc'[q] \in {"answer", "submit"}
            => pc[q] = "answer" \/ PromptFile(q) \in files'
      BY <1>5 DEF HandlerStep, Resolves, AfterKey, Gathers, GatherHistory, Decides, Uploads,
         Replies, Branches, Submit, Stops, StopsAt
    <3>4. asked[q].kind # "branch" /\ pc'[q] = "submit" => AnswerFile(q) \in files'
      BY <1>5 DEF HandlerStep, Resolves, AfterKey, Gathers, GatherHistory, Decides, Uploads,
         Replies, Branches, Submit, Stops, StopsAt
    <3> QED
      BY <1>1, <1>2, <2>1, <2>2, <3>1, <3>2, <3>3, <3>4 DEF Stored
  <2> QED
    BY <1>1, <2>3, <2>4
<1> QED
  BY <1>4, <1>6 DEF FilesInv

LEMMA RestartFiles ==
  ASSUME StoreTypes, LogInv, FilesInv, Restart
  PROVE  FilesInv'
<1>1. /\ UNCHANGED <<asked, bundle>> /\ cache' = {} /\ files' \subseteq files
      /\ \A q \in 1 .. MaxRequests :
           pc'[q] = IF pc[q] \in {"ended", "failed"} THEN pc[q] ELSE "asked"
  BY RestartFacts
<1>2. Requests' = Requests /\ Answered' = Answered /\ Requests \subseteq 1 .. MaxRequests
  BY <1>1, AskedFacts DEF Requests, Answered
<1>3. \A q \in Requests : /\ PromptFile(q)' = PromptFile(q) /\ AnswerFile(q)' = AnswerFile(q)
                          /\ ConversationFile(q)' = ConversationFile(q)
  BY FilesStay
<1>4. \A f \in files' \cup cache' : \E q \in Requests' : IsFileOf(f, q)'
  BY <1>1, <1>2, <1>3 DEF FilesInv, IsFileOf
<1>5. ASSUME FilesKept' PROVE \A q \in Requests' : Stored(q)'
  <2>1. FilesKept /\ files \subseteq files'
    BY <1>5, FilesKeptBefore
  <2> QED
    BY <1>1, <1>2, <1>3, <2>1 DEF FilesInv, Stored
<1> QED
  BY <1>4, <1>5 DEF FilesInv

LEMMA StepFiles ==
  StoreTypes /\ LogInv /\ FilesInv /\ [Next]_vars => FilesInv'
<1> SUFFICES ASSUME StoreTypes, LogInv, FilesInv, [Next]_vars PROVE FilesInv'
  OBVIOUS
<1>1. CASE UNCHANGED vars
  <2>1. UNCHANGED <<mode, restarted, asked, keyOf, pc, files, cache, bundle>>
    BY <1>1 DEF vars, requestVars, taskVars, storageVars, ghostVars
  <2>2. /\ Requests' = Requests /\ Answered' = Answered /\ Views' = Views
        /\ (FilesKept)' = FilesKept
    BY <2>1 DEF Requests, Answered, Views, FilesKept
  <2>3. \A q \in Requests : /\ PromptFile(q)' = PromptFile(q) /\ AnswerFile(q)' = AnswerFile(q)
                            /\ ConversationFile(q)' = ConversationFile(q)
    BY <2>1, <2>2 DEF PromptFile, AnswerFile, ConversationFile, Message, ParentCid, PromptCid
  <2> QED
    BY <2>1, <2>2, <2>3 DEF FilesInv, IsFileOf, Stored
<1>2. CASE Next
  BY <1>2, StepKinds, AskFiles, HandlerFiles, RestartFiles
<1> QED
  BY <1>1, <1>2

-------------------------------------------------------------------------------
(* The walk from a message of a thread, over the files there are.          *)

\* Nothing on storage leads out of a thread.
LEMMA LinksOf ==
  ASSUME StoreTypes, LogInv, FilesInv, NEW source, source \subseteq files \cup cache,
         NEW q \in Requests
  PROVE  Links(source, Views[q])
<1> DEFINE seen == Views[q]
<1>1. \A f \in source : \E k \in Requests : IsFileOf(f, k)
  BY DEF FilesInv
<1>2. \A f \in source : f.cid # None
  BY <1>1, FileFacts
<1>3. ASSUME NEW f \in source, NEW i \in 1 .. Len(seen), f.cid = seen[i]
      PROVE  f.parent = IF i = 1 THEN None ELSE seen[i - 1]
  <2>1. Linked(seen, q, i)
    BY Threads DEF Thread
  <2> HIDE DEF seen
  <2>2. PICK k \in Requests :
          /\ asked[k].kind # "branch"
          /\ \/ /\ seen[i] = Cid("prompt", k) /\ asked[k].kind = "prompt"
                /\ PromptFile(k).parent = Before(seen, i)
             \/ /\ seen[i] = Cid("answer", k)
                /\ AnswerFile(k).parent = Before(seen, i)
    BY <2>1 DEF Linked
  <2>3. \/ /\ IsFileOf(PromptFile(k), k) /\ f.cid = PromptFile(k).cid
           /\ PromptFile(k).parent = Before(seen, i)
        \/ /\ IsFileOf(AnswerFile(k), k) /\ f.cid = AnswerFile(k).cid
           /\ AnswerFile(k).parent = Before(seen, i)
    BY <1>3, <2>2, FileFacts DEF IsFileOf
  <2>4. f.parent = Before(seen, i)
    BY <1>1, <2>3, OneFile
  <2> QED
    BY <2>4 DEF Before
<1> QED
  BY <1>2, <1>3 DEF Links

\* Every message of a thread that ends with an answer is stored.
LEMMA ThreadStored ==
  ASSUME StoreTypes, LogInv, FilesInv, FilesKept, NEW q \in Answered
  PROVE  \A i \in 1 .. Len(Views[q]) :
           \E f \in files : f.cid = Views[q][i] /\ f.key = keyOf[asked[q].target]
<1>1. q \in Requests
  BY DEF Answered
<1>2. ASSUME NEW i \in 1 .. Len(Views[q])
      PROVE  \E f \in files : f.cid = Views[q][i] /\ f.key = keyOf[asked[q].target]
  <2>1. Linked(Views[q], q, i)
    BY <1>1, Threads DEF Thread
  <2>2. PICK k \in Requests :
          /\ k \in Answered /\ asked[k].kind # "branch"
          /\ keyOf[asked[k].target] = keyOf[asked[q].target]
          /\ \/ Views[q][i] = Cid("prompt", k) /\ asked[k].kind = "prompt"
             \/ Views[q][i] = Cid("answer", k)
    BY <2>1 DEF Linked
  <2>3. Stored(k)
    BY DEF FilesInv
  <2> QED
    BY <2>2, <2>3, FileFacts DEF Stored
<1> QED
  BY <1>2

\* From every answer the parents lead through the thread.
LEMMA FilesSuffice ==
  StoreTypes /\ LogInv /\ FilesInv => ThreadOnStorage
<1> SUFFICES ASSUME StoreTypes, LogInv, FilesInv, FilesKept,
                    NEW q \in Answered, asked[q].kind # "branch"
             PROVE  Walk(Cid("answer", q), files, keyOf[asked[q].conv], Len(Views[q]) + 1)
                      = [path |-> Views[q], next |-> None]
  BY DEF ThreadOnStorage
<1> DEFINE seen == Views[q]
           key  == keyOf[asked[q].conv]
<1>1. q \in Requests /\ key = keyOf[asked[q].target]
  BY KeysOf DEF Answered
<1>2. /\ seen \in Seq(Cids) /\ Len(seen) \in Nat /\ Len(seen) >= 2
      /\ seen[Len(seen)] = Cid("answer", q)
  BY <1>1, Threads, LenProperties DEF Thread
<1>3. Links(files, seen)
  BY <1>1, LinksOf
<1>4. \A i \in 1 .. Len(seen) : \E f \in files : f.cid = seen[i] /\ f.key = key
  BY <1>1, ThreadStored
<1> HIDE DEF seen, key
<1>5. seen # <<>> /\ Len(seen) + 1 \in Nat
  BY <1>2
<1>6. Cid("answer", q) = IF seen = <<>> THEN None ELSE seen[Len(seen)]
  BY <1>2, <1>5
<1>7. GoesUp(Cid("answer", q), files, key, Len(seen) + 1, seen)
  BY <1>2, <1>3, <1>5, <1>6, WalkFollows
<1>8. PICK k \in 0 .. Len(seen) :
        /\ k <= Len(seen) + 1
        /\ Walk(Cid("answer", q), files, key, Len(seen) + 1) = After(seen, k)
        /\ \/ k = Len(seen) + 1 \/ k = Len(seen)
           \/ \E i \in 1 .. Len(seen) : ~\E f \in files : f.cid = seen[i] /\ f.key = key
  BY <1>7 DEF GoesUp
<1>9. k = Len(seen) /\ Len(seen) - Len(seen) + 1 = 1
  BY <1>2, <1>4, <1>8
<1>10. After(seen, Len(seen)) = [path |-> seen, next |-> None]
  BY <1>2, <1>9, SubSeqFull DEF After
<1> QED
  BY <1>8, <1>9, <1>10 DEF seen, key

-------------------------------------------------------------------------------
(* What the model is asked with.                                           *)

HistoryTypes ==
  /\ history \in [1 .. MaxRequests -> Seq(Cids)]
  /\ \A q \in 1 .. MaxRequests : Len(history[q]) <= Limit

\* past is the end of a thread, and all of it or Limit messages of it unless a
\* fetch failed.
EndOf(past, seen, complete) ==
  /\ Len(past) <= Limit /\ Len(past) <= Len(seen)
  /\ past = SubSeq(seen, Len(seen) - Len(past) + 1, Len(seen))
  /\ complete => Len(past) = Limit \/ Len(past) = Len(seen)

Heard(q) ==
  asked[q].kind # "branch" /\ pc[q] \in {"upload", "files", "answer", "submit"} =>
    EndOf(history[q], Views[asked[q].parent], FilesKept /\ q \notin shortened)

HistoryInv == HistoryTypes /\ \A q \in Requests : Heard(q)

LEMMA PathFollows ==
  ASSUME StoreTypes, LogInv, FilesInv, NEW q \in Requests, asked[q].kind # "branch",
         NEW kept \in {cache, {}}, NEW lost
  PROVE  /\ Path(q, kept, lost) \in Seq(Cids)
         /\ EndOf(Path(q, kept, lost), Views[asked[q].parent], FilesKept /\ lost = None)
<1> DEFINE seen   == Views[asked[q].parent]
           source == Reads(q, kept, lost)
           key    == keyOf[asked[q].conv]
<1>1. source \subseteq files \cup cache
  BY DEF Reads, Source
<1>2. Limit \in Nat
  BY StoreAssumption
<1>3. seen \in Seq(Cids) /\ Len(seen) \in Nat
  BY ParentTypes, LenProperties
<1>4. ParentCid(q) = IF seen = <<>> THEN None ELSE seen[Len(seen)]
  BY DEF ParentCid
<1>5. Links(source, seen)
  <2>1. CASE asked[q].parent = 0
    <3>1. \A f \in source : \E k \in Requests : IsFileOf(f, k)
      BY <1>1 DEF FilesInv
    <3>2. seen = <<>>
      BY <2>1, ViewsFacts
    <3>3. \A f \in source : f.cid # None
      BY <3>1, FileFacts
    <3>4. 1 .. Len(seen) = {}
      BY <3>2
    <3> QED
      BY <3>3, <3>4 DEF Links
  <2>2. CASE asked[q].parent # 0
    BY <1>1, <2>2, AskedFacts, LinksOf
  <2> QED
    BY <2>1, <2>2
<1>6. ASSUME FilesKept, lost = None, NEW i \in 1 .. Len(seen)
      PROVE  \E f \in source : f.cid = seen[i] /\ f.key = key
  <2>1. asked[q].parent # 0
    BY <1>6, ViewsFacts
  <2>2. asked[q].parent \in Answered /\ asked[q].conv = asked[asked[q].parent].target
    BY <2>1 DEF LogInv, Shape
  <2>3. PICK f \in files : f.cid = seen[i] /\ f.key = key
    BY <1>6, <2>2, ThreadStored
  <2>4. \A g \in files \cup cache : g.cid = f.cid => g = f
    BY OneFile DEF FilesInv
  <2>5. f.cid # None
    BY FileFacts DEF FilesInv
  <2>6. f \in source
    BY <1>6, <2>3, <2>4, <2>5 DEF Reads, Source
  <2> QED
    BY <2>3, <2>6
<1>7. Path(q, kept, lost) = Walk(ParentCid(q), source, key, Limit).path
  BY DEF Path
<1> HIDE DEF seen, source, key
<1>8. GoesUp(ParentCid(q), source, key, Limit, seen)
  BY <1>2, <1>3, <1>4, <1>5, WalkFollows
<1>9. PICK k \in 0 .. Len(seen) :
        /\ k <= Limit
        /\ Walk(ParentCid(q), source, key, Limit) = After(seen, k)
        /\ \/ k = Limit \/ k = Len(seen)
           \/ \E i \in 1 .. Len(seen) : ~\E f \in source : f.cid = seen[i] /\ f.key = key
  BY <1>8 DEF GoesUp
<1>10. Path(q, kept, lost) = SubSeq(seen, Len(seen) - k + 1, Len(seen))
  <2>1. After(seen, k).path = SubSeq(seen, Len(seen) - k + 1, Len(seen))
    BY Zenon DEF After
  <2> QED
    BY <1>7, <1>9, <2>1
<1>11. /\ Path(q, kept, lost) \in Seq(Cids) /\ Len(Path(q, kept, lost)) = k
  <2>1. \A i \in Len(seen) - k + 1 .. Len(seen) : seen[i] \in Cids
    <3>1. \A i \in Len(seen) - k + 1 .. Len(seen) : i \in 1 .. Len(seen)
      BY <1>3
    <3> QED
      BY <1>3, <3>1, ElementOfSeq
  <2>2. /\ Len(seen) - k + 1 \in Int /\ Len(seen) \in Int
        /\ (IF Len(seen) - k + 1 <= Len(seen) THEN Len(seen) - (Len(seen) - k + 1) + 1 ELSE 0) = k
    BY <1>3
  <2> QED
    BY <1>10, <2>1, <2>2, SubSeqProperties
<1>12. FilesKept /\ lost = None => k = Limit \/ k = Len(seen)
  BY <1>6, <1>9
<1>13. k <= Len(seen)
  BY <1>3
<1> QED
  BY <1>9, <1>10, <1>11, <1>12, <1>13 DEF EndOf, seen

LEMMA HandlerHistory ==
  ASSUME StoreTypes, LogInv, FilesInv, HistoryInv, NEW q \in Requests, HandlerStep(q)
  PROVE  HistoryInv'
<1>0. /\ q \in 1 .. MaxRequests /\ Requests \subseteq 1 .. MaxRequests
      /\ asked[q].kind \in {"prompt", "regeneration", "branch"}
      /\ history \in [1 .. MaxRequests -> Seq(Cids)]
      /\ \A u \in 1 .. MaxRequests : Len(history[u]) <= Limit
  BY AskedFacts DEF HistoryInv, HistoryTypes
<1>1. /\ UNCHANGED <<asked, mode, restarted>> /\ Requests' = Requests
      /\ \A u \in 1 .. MaxRequests \ {q} : pc'[u] = pc[u]
  BY HandlerFacts DEF log, Requests
<1>2. \A u \in Requests : Views'[asked[u].parent] = Views[asked[u].parent]
  BY FilesStay
<1>3. FilesKept' = FilesKept
  BY <1>1 DEF FilesKept
<1>4. \A to : Goto(q, to) => pc'[q] = to
  BY <1>0 DEF Goto, StoreTypes
<1>5. CASE Gathers(q)
  <2>0. PICK kept \in {cache, {}} : \E lost : GathersFrom(q, kept, lost)
    BY <1>5, GatherKinds
  <2>1. PICK lost : GathersFrom(q, kept, lost)
    BY <2>0
  <2> DEFINE path == Path(q, kept, lost)
  <2>2. /\ path \in Seq(Cids)
        /\ EndOf(path, Views[asked[q].parent], FilesKept /\ lost = None)
    BY <1>5, PathFollows DEF Gathers
  <2>3. /\ history' = [history EXCEPT ![q] = path]
        /\ shortened \subseteq shortened' /\ (lost = None \/ q \in shortened')
    BY <2>1 DEF GathersFrom
  <2> HIDE DEF path
  <2>4. /\ history' \in [1 .. MaxRequests -> Seq(Cids)] /\ history'[q] = path
        /\ \A u \in 1 .. MaxRequests \ {q} : history'[u] = history[u]
    BY <1>0, <2>2, <2>3
  <2>5. Len(path) <= Limit
    BY <2>2 DEF EndOf
  <2>6. HistoryTypes'
    BY <1>0, <2>4, <2>5 DEF HistoryTypes
  <2>7. Heard(q)'
    <3>1. EndOf(path, Views[asked[q].parent], FilesKept /\ q \notin shortened')
      BY <2>2, <2>3 DEF EndOf
    <3> QED
      BY <1>1, <1>2, <1>3, <2>4, <3>1 DEF Heard, EndOf
  <2>8. ASSUME NEW u \in Requests, u # q PROVE Heard(u)'
    <3>1. /\ Heard(u) /\ history'[u] = history[u] /\ pc'[u] = pc[u]
          /\ u \notin shortened' => u \notin shortened
      BY <1>0, <1>1, <2>3, <2>4, <2>8 DEF HistoryInv
    <3> QED
      BY <1>1, <1>2, <1>3, <3>1 DEF Heard, EndOf
  <2> QED
    BY <1>1, <2>6, <2>7, <2>8 DEF HistoryInv
<1>6. CASE ~Gathers(q)
  <2>1. history' \in {history, [history EXCEPT ![q] = <<>>]} /\ UNCHANGED shortened
    BY <1>6 DEF HandlerStep, Resolves, Decides, Uploads, Replies, Branches, Submit, Stops,
       StopsAt, ghostVars
  <2>2. asked[q].kind # "branch" /\ pc'[q] \in {"upload", "files", "answer", "submit"}
          => pc[q] \in {"upload", "files", "answer", "submit"} /\ history' = history
    BY <1>4, <1>6 DEF HandlerStep, Resolves, AfterKey, Decides, Uploads, Replies, Branches,
       Submit, Stops, StopsAt
  <2>3. /\ history' \in [1 .. MaxRequests -> Seq(Cids)]
        /\ \A u \in 1 .. MaxRequests \ {q} : history'[u] = history[u]
        /\ history'[q] = history[q] \/ history'[q] = <<>>
    <3>1. <<>> \in Seq(Cids)
      OBVIOUS
    <3>2. CASE history' = history
      BY <1>0, <3>2
    <3>3. CASE history' = [history EXCEPT ![q] = <<>>]
      <4> DEFINE none == <<>>
      <4>1. none \in Seq(Cids) /\ history' = [history EXCEPT ![q] = none]
        BY <3>1, <3>3
      <4> HIDE DEF none
      <4>2. /\ history' \in [1 .. MaxRequests -> Seq(Cids)] /\ history'[q] = none
            /\ \A u \in 1 .. MaxRequests \ {q} : history'[u] = history[u]
        BY <1>0, <4>1
      <4> QED
        BY <4>2 DEF none
    <3> QED
      BY <2>1, <3>2, <3>3
  <2>4. HistoryTypes'
    <3>1. Len(<<>>) <= Limit
      BY StoreAssumption
    <3> QED
      BY <1>0, <2>3, <3>1 DEF HistoryTypes
  <2>5. Heard(q)'
    BY <1>1, <1>2, <1>3, <2>1, <2>2 DEF HistoryInv, Heard, EndOf
  <2>6. ASSUME NEW u \in Requests, u # q PROVE Heard(u)'
    <3>1. Heard(u) /\ history'[u] = history[u] /\ pc'[u] = pc[u]
      BY <1>0, <1>1, <2>3, <2>6 DEF HistoryInv
    <3> QED
      BY <1>1, <1>2, <1>3, <2>1, <3>1 DEF Heard, EndOf
  <2> QED
    BY <1>1, <2>4, <2>5, <2>6 DEF HistoryInv
<1> QED
  BY <1>5, <1>6

LEMMA AskHistory ==
  ASSUME StoreTypes, LogInv, HistoryInv, NEW r \in RequestType, Asks(r)
  PROVE  HistoryInv'
<1>0. PICK n \in 1 .. MaxRequests : n = Len(asked) + 1
  BY AskEffect
<1>1. /\ Requests' = Requests \cup {n} /\ Unasked(n)
      /\ \A q \in Requests : asked'[q] = asked[q]
      /\ UNCHANGED <<pc, history, shortened, mode, restarted>>
  BY <1>0, AskEffect DEF taskVars, ghostVars
<1>2. \A q \in Requests : Views'[asked[q].parent] = Views[asked[q].parent]
  BY FilesStay
<1>3. FilesKept' = FilesKept
  BY <1>1 DEF FilesKept
<1>4. \A q \in Requests : Heard(q)'
  BY <1>1, <1>2, <1>3 DEF HistoryInv, Heard, EndOf
<1>5. Heard(n)'
  BY <1>1 DEF Heard, Unasked
<1>6. HistoryTypes'
  BY <1>1 DEF HistoryInv, HistoryTypes
<1> QED
  BY <1>1, <1>4, <1>5, <1>6 DEF HistoryInv

LEMMA RestartHistory ==
  ASSUME StoreTypes, LogInv, HistoryInv, Restart
  PROVE  HistoryInv'
<1>1. /\ UNCHANGED <<asked, history>>
      /\ \A q \in 1 .. MaxRequests :
           pc'[q] = IF pc[q] \in {"ended", "failed"} THEN pc[q] ELSE "asked"
  BY RestartFacts
<1>2. Requests' = Requests /\ Requests \subseteq 1 .. MaxRequests
  BY <1>1, AskedFacts DEF Requests
<1>3. \A q \in Requests : Heard(q)'
  BY <1>1, <1>2 DEF Heard
<1> QED
  BY <1>1, <1>2, <1>3 DEF HistoryInv, HistoryTypes

LEMMA StepHistory ==
  StoreTypes /\ LogInv /\ FilesInv /\ HistoryInv /\ [Next]_vars => HistoryInv'
<1> SUFFICES ASSUME StoreTypes, LogInv, FilesInv, HistoryInv, [Next]_vars PROVE HistoryInv'
  OBVIOUS
<1>1. CASE UNCHANGED vars
  <2>1. UNCHANGED <<mode, restarted, asked, pc, history, shortened>>
    BY <1>1 DEF vars, requestVars, taskVars, storageVars, ghostVars
  <2>2. Requests' = Requests /\ Views' = Views /\ FilesKept' = FilesKept
    BY <2>1 DEF Requests, Views, FilesKept
  <2>3. \A q \in Requests : Heard(q)'
    BY <2>1, <2>2 DEF HistoryInv, Heard, EndOf
  <2> QED
    BY <2>1, <2>2, <2>3 DEF HistoryInv, HistoryTypes
<1>2. CASE Next
  BY <1>2, StepKinds, AskHistory, HandlerHistory, RestartHistory
<1> QED
  BY <1>1, <1>2

LEMMA HistorySuffices ==
  HistoryInv => HistoryAsSeen
<1> SUFFICES ASSUME HistoryInv, NEW q \in Requests, asked[q].kind # "branch",
                    pc[q] \in {"upload", "files", "answer", "submit"}
             PROVE  EndOf(history[q], Views[asked[q].parent], FilesKept /\ q \notin shortened)
  BY DEF HistoryAsSeen, EndOf
<1> QED
  BY DEF HistoryInv, Heard

\* The files, the histories and the log of requests hold together.
StoreInv == StoreTypes /\ LogInv /\ FilesInv /\ HistoryInv

LEMMA TypesSuffice == StoreInv => TypeOK
<1> SUFFICES ASSUME StoreInv PROVE TypeOK
  OBVIOUS
<1>1. StoreTypes /\ LogInv /\ FilesInv /\ HistoryTypes
  BY DEF StoreInv, HistoryInv
<1>2. files \cup cache \subseteq [cid : Cids, parent : Cids, key : 0 .. MaxRequests]
  BY <1>1, FileFacts DEF FilesInv, FileTypes
<1>3. \A f, g \in files \cup cache : f.cid = g.cid => f = g
  BY <1>1, OneFile DEF FilesInv
<1> QED
  BY <1>1, <1>2, <1>3 DEF TypeOK, StoreTypes, HistoryTypes, Bundles

\* The parents of the files make the chain a user sees.  A request that stopped
\* half way left files that nothing leads to.
THEOREM StoreInvariant == Spec => []StoreInv
<1>1. Init => StoreInv
  <2>1. Init => FilesInv /\ HistoryInv
    <3> SUFFICES ASSUME Init PROVE FilesInv /\ HistoryInv
      OBVIOUS
    <3>1. Requests = {} /\ files \cup cache = {}
      BY DEF Init, Requests
    <3>2. <<>> \in Seq(Cids) /\ Len(<<>>) <= Limit
      BY StoreAssumption
    <3>3. HistoryTypes
      BY <3>2 DEF Init, HistoryTypes
    <3> QED
      BY <3>1, <3>3 DEF FilesInv, HistoryInv
  <2> QED
    BY <2>1, InitLog DEF StoreInv
<1>2. StoreInv /\ [Next]_vars => StoreInv'
  BY StepLog, StepFiles, StepHistory DEF StoreInv
<1> QED
  BY <1>1, <1>2, PTL DEF Spec

\* Every variable of the storage model has its type and a CID names one file:
\* what a retry writes again is the file that was there.
THEOREM StorageTypes == Spec => []TypeOK
  BY StoreInvariant, TypesSuffice, PTL

\* From every answer on the chain the parents lead through the thread its user
\* sees, in files that are stored and open with the session key, whatever
\* failed, was retried or was cancelled on the way.
THEOREM ThreadsAreStored == Spec => []ThreadOnStorage
<1>1. StoreInv => ThreadOnStorage
  BY FilesSuffice DEF StoreInv
<1> QED
  BY <1>1, StoreInvariant, PTL

\* The model is asked with the end of that thread: no gap, nothing of another
\* thread, and as many messages as the limit lets unless storage failed.
THEOREM HistoriesAreSeen == Spec => []HistoryAsSeen
<1>1. StoreInv => HistoryAsSeen
  BY HistorySuffices DEF StoreInv
<1> QED
  BY <1>1, StoreInvariant, PTL

===============================================================================
