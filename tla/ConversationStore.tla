--------------------------- MODULE ConversationStore ---------------------------
(***************************************************************************)
(* What the oracle keeps on decentralized storage and what it reads back:  *)
(* key files found by tag, conversation records, message files linked to   *)
(* their parents, the cache of raw messages, and the CIDs it submits.      *)
(* oracle/src/storage/ and the storage parts of the handlers in            *)
(* oracle/src/aiAgentOracle.js.                                            *)
(*                                                                         *)
(* A request is the number of its event.  The client sends what its user   *)
(* sees on the chain.  A file is known by what it is and by the request    *)
(* that wrote it; contents are abstracted to parents and keys.  Encryption *)
(* is modelled by the key that opens a file; a retry writes the files of   *)
(* its request again.                                                      *)
(***************************************************************************)
EXTENDS Integers, Sequences, FiniteSets

CONSTANTS
  Conversations, \* those a first prompt opens
  BranchTargets, \* those that branch off others
  MaxRequests,   \* bound
  Concurrency,   \* the slots of the task queue
  Limit,         \* AI_CONTEXT_MESSAGES_LIMIT
  Modes,         \* storage modes: "memory", "ipfs", "irys", "autonomys"
  MaxFaults      \* bound: calls to storage that fail, and restarts

ASSUME StoreAssumption ==
  /\ MaxRequests \in Nat
  /\ Concurrency \in Nat \ {0}
  /\ Limit \in Nat \ {0}
  /\ Modes \subseteq {"memory", "ipfs", "irys", "autonomys"}
  /\ Conversations \cap BranchTargets = {}
  /\ MaxFaults \in Nat

VARIABLES
  mode,          \* USE_MOCK_STORAGE, LOCAL_IPFS_API_URL, STORAGE_PROVIDER
  asked,         \* the requests, in the order of their events
  keyOf,         \* the session key of each conversation, 0 before its first
  pc,            \* how far the handler of each request is
  history,       \* the messages it gathered for the model
  creates,       \* whether it initializes the conversation
  tagIndex,      \* the key files that can be found by tag, newest last
  files,         \* the message and conversation files on storage
  cache,         \* rawMessageCache: files by CID
  bundle,        \* the CIDs of each request on the chain
  shortened,     \* history: requests whose history met a failing fetch
  misled,        \* history: requests whose lookup of the key file failed
  stray,         \* history: conversations whose key file was uploaded by a
                 \* handler that did not come to submit
  faults,
  restarted      \* history

requestVars == <<mode, asked, keyOf>>
storageVars == <<tagIndex, files, cache>>
taskVars    == <<pc, history, creates>>
ghostVars   == <<shortened, misled, stray>>
vars == <<requestVars, taskVars, storageVars, bundle, ghostVars, faults, restarted>>

Requests == 1 .. Len(asked)
Pcs == {"asked", "history", "upload", "files", "answer", "submit", "ended", "failed"}

\* A CID names a file.  None is the empty string, or null.
None == <<"none", 0>>
Cid(kind, q) == <<kind, q>>

NoBundle == [conversation |-> None, prompt |-> None, answer |-> None]

Answered == {q \in Requests : bundle[q] # NoBundle}

\* What the user sees up to the answer of a request: the messages of the
\* thread, with a regenerated answer in the place of the old one.
Views ==
  LET view[q \in 0 .. Len(asked)] ==
        IF q = 0 THEN <<>>
        ELSE LET r == asked[q]
                 seen == view[r.parent]
             IN CASE r.kind = "prompt" -> seen \o <<Cid("prompt", q), Cid("answer", q)>>
                  [] r.kind = "regeneration" ->
                       [seen EXCEPT ![Len(seen)] = Cid("answer", q)]
                  [] r.kind = "branch" -> seen
  IN view

ParentCid(q) ==
  LET seen == Views[asked[q].parent] IN IF seen = <<>> THEN None ELSE seen[Len(seen)]

\* The promptMessageCID of a regeneration.
PromptCid(q) == LET seen == Views[asked[q].parent] IN seen[Len(seen) - 1]

Init ==
  /\ mode \in Modes
  /\ asked = <<>>
  /\ keyOf = [c \in Conversations \cup BranchTargets |-> 0]
  /\ pc = [q \in 1 .. MaxRequests |-> "asked"]
  /\ history = [q \in 1 .. MaxRequests |-> <<>>]
  /\ creates = [q \in 1 .. MaxRequests |-> FALSE]
  /\ tagIndex = <<>>
  /\ files = {}
  /\ cache = {}
  /\ bundle = [q \in 1 .. MaxRequests |-> NoBundle]
  /\ shortened = {}
  /\ misled = {}
  /\ stray = {}
  /\ faults = 0
  /\ restarted = FALSE

-------------------------------------------------------------------------------
(* The client.                                                             *)

Ask(r) ==
  /\ Len(asked) < MaxRequests
  /\ asked' = Append(asked, r)
  /\ UNCHANGED <<mode, taskVars, storageVars, bundle, ghostVars, faults, restarted>>

Request(kind, c, target, parent, isNew, withKey) ==
  [kind |-> kind, conv |-> c, target |-> target, parent |-> parent,
   isNew |-> isNew, withKey |-> withKey]

\* The first prompt of a conversation brings its session key.
AskFirst(c) ==
  /\ keyOf[c] = 0
  /\ Ask(Request("prompt", c, c, 0, TRUE, TRUE))
  /\ keyOf' = [keyOf EXCEPT ![c] = Len(asked) + 1]

\* A prompt without a parent: a first prompt sent again, which the client may
\* forget to flag new, or an edit of the first message.
AskAgain(c) ==
  /\ \E q \in Requests : asked[q].conv = c /\ asked[q].kind = "prompt"
  /\ \E isNew, withKey \in BOOLEAN :
       /\ isNew => withKey /\ \A q \in Answered : asked[q].conv # c
       /\ Ask(Request("prompt", c, c, 0, isNew, withKey))
  /\ UNCHANGED keyOf

\* A prompt that follows an answer of its conversation, or the branch point.
AskFollowUp(p) ==
  /\ p \in Answered
  /\ \E withKey \in BOOLEAN :
       Ask(Request("prompt", asked[p].target, asked[p].target, p, FALSE, withKey))
  /\ UNCHANGED keyOf

AskRegeneration(p) ==
  /\ p \in Answered
  /\ asked[p].kind # "branch"
  /\ \E withKey \in BOOLEAN :
       Ask(Request("regeneration", asked[p].conv, asked[p].conv, p, FALSE, withKey))
  /\ UNCHANGED keyOf

AskBranch(p, c) ==
  /\ p \in Answered
  /\ asked[p].kind # "branch"
  /\ keyOf[c] = 0
  /\ \E withKey \in BOOLEAN : Ask(Request("branch", asked[p].conv, c, p, FALSE, withKey))
  /\ keyOf' = [keyOf EXCEPT ![c] = keyOf[asked[p].conv]]

-------------------------------------------------------------------------------
(* Storage: storage.js and its providers.                                  *)

NoFault == UNCHANGED faults
Fault   == faults < MaxFaults /\ faults' = faults + 1

InMemory == mode \in {"memory", "ipfs"}

\* Auto Drive drops the tags and names the file by its date.
IndexedTags(keyFile) == IF mode = "autonomys" THEN tagIndex ELSE Append(tagIndex, keyFile)

NoKeyFile == [conv |-> 0, key |-> 0, form |-> "none"]

\* The newest key file with the tag: the index in memory, the search by file
\* name on Auto Drive, then the tags on Arweave.
Lookup(c) ==
  LET found == {i \in DOMAIN tagIndex : tagIndex[i].conv = c}
  IN IF found = {} THEN NoKeyFile
     ELSE tagIndex[CHOOSE i \in found : \A j \in found : j <= i]

\* A remote lookup that fails is logged and taken for no match.
LookupFails(q) == ~InMemory /\ Fault /\ misled' = misled \cup {q}

FileOf(fs, cid) == CHOOSE f \in fs : f.cid = cid

\* Mutation of Cached: a file is cached before it is linked to its parent.
CachedUnlinked(f) == cache \cup {[f EXCEPT !.parent = None]}

\* rawMessageCache.set
Cached(f) == {g \in cache : g.cid # f.cid} \cup {f}

Message(cid, parent, q) == [cid |-> cid, parent |-> parent, key |-> keyOf[asked[q].target]]

PromptFile(q) == Message(Cid("prompt", q), ParentCid(q), q)
\* Mutation of AnswerFile: a new answer follows the old one.
AnswerFileOnOld(q) ==
  Message(Cid("answer", q),
          IF asked[q].kind = "prompt" THEN Cid("prompt", q) ELSE ParentCid(q), q)

AnswerFile(q) ==
  Message(Cid("answer", q),
          IF asked[q].kind = "prompt" THEN Cid("prompt", q) ELSE PromptCid(q), q)
ConversationFile(q) == Message(Cid("conversation", q), None, q)

-------------------------------------------------------------------------------
(* The handlers.                                                           *)

Goto(q, to) == pc' = [pc EXCEPT ![q] = to]

\* A transient error puts the request in the retry queue or gives it up.
CallFails(q) == Fault /\ \E to \in {"asked", "failed"} : Goto(q, to)

AfterKey(q) == IF asked[q].kind = "branch" THEN "upload" ELSE "history"

\* getSessionKey: the key of the payload, or the key file, read as hex text.
ResolveKey(q) ==
  /\ pc[q] = "asked"
  /\ Cardinality({p \in Requests : pc[p] \notin {"asked", "ended", "failed"}}) < Concurrency
  /\ \/ /\ asked[q].withKey
        /\ NoFault
        /\ Goto(q, AfterKey(q))
        /\ UNCHANGED misled
     \/ /\ ~asked[q].withKey
        /\ \/ /\ NoFault
              /\ Goto(q, IF Lookup(asked[q].conv).form = "hex" THEN AfterKey(q) ELSE "failed")
              /\ UNCHANGED misled
           \/ LookupFails(q) /\ Goto(q, "failed")
           \/ CallFails(q) /\ UNCHANGED misled
  /\ UNCHANGED <<requestVars, history, creates, storageVars, bundle, shortened, stray, restarted>>

\* Mutation of Walk: the messages are put in the order they are met.
WalkPushing(start, source, key, upTo) ==
  LET found[i \in 0 .. upTo] ==
        IF i = 0 THEN [path |-> <<>>, next |-> start]
        ELSE LET prev == found[i - 1]
             IN IF \E f \in source : f.cid = prev.next /\ f.key = key
                  THEN [path |-> Append(prev.path, prev.next),
                        next |-> FileOf(source, prev.next).parent]
                  ELSE prev
  IN found[upTo]

\* reconstructHistory: up to Limit messages, from the parent up.  A file comes
\* from the cache or from storage; the walk stops where neither gives it, or
\* where the session key does not open it.
Walk(start, source, key, upTo) ==
  LET found[i \in 0 .. upTo] ==
        IF i = 0 THEN [path |-> <<>>, next |-> start]
        ELSE LET prev == found[i - 1]
             IN IF \E f \in source : f.cid = prev.next /\ f.key = key
                  THEN [path |-> <<prev.next>> \o prev.path,
                        next |-> FileOf(source, prev.next).parent]
                  ELSE prev
  IN found[upTo]

\* What the walk can read: the cache first, then what storage still serves.
Source(kept, served) == kept \cup {f \in served : \A g \in kept : g.cid # f.cid}

\* The time to live of the cache may have passed, and one fetch may fail.
GatherHistory(q) ==
  /\ pc[q] = "history"
  /\ \E kept \in {cache, {}} : \E lost \in {None} \cup {f.cid : f \in files \ kept} :
       LET source == Source(kept, {f \in files : f.cid # lost})
           path   == Walk(ParentCid(q), source, keyOf[asked[q].conv], Limit).path
       IN /\ IF lost = None THEN NoFault /\ UNCHANGED shortened
                            ELSE Fault /\ shortened' = shortened \cup {q}
          /\ history' = [history EXCEPT ![q] = path]
          /\ cache' = kept \cup {f \in source : \E i \in DOMAIN path : path[i] = f.cid}
  /\ Goto(q, IF asked[q].kind = "prompt" THEN "upload" ELSE "answer")
  /\ UNCHANGED <<requestVars, creates, tagIndex, files, bundle, misled, stray, restarted>>

\* Mutation of ShouldInitialize: only the client's flag counts.
ShouldInitializeIfNew(q, keyExists) == asked[q].isNew

\* shouldInitializeConversation
ShouldInitialize(q, keyExists) ==
  asked[q].isNew \/ (asked[q].parent = 0 /\ ~keyExists)

\* The backstop asks for the key file only if the prompt is neither flagged new
\* nor follows a message.
DecideInit(q) ==
  /\ pc[q] = "upload"
  /\ asked[q].kind = "prompt"
  /\ \/ /\ NoFault
        /\ creates' = [creates EXCEPT ![q] =
             ShouldInitialize(q, Lookup(asked[q].conv) # NoKeyFile)]
        /\ UNCHANGED misled
     \/ /\ ~asked[q].isNew /\ asked[q].parent = 0
        /\ LookupFails(q)
        /\ creates' = [creates EXCEPT ![q] = ShouldInitialize(q, FALSE)]
  /\ Goto(q, "files")
  /\ UNCHANGED <<requestVars, history, storageVars, bundle, shortened, stray, restarted>>

\* Mutation of KeyFile: prompts store raw bytes as well.
KeyFileRaw(q) ==
  [conv |-> asked[q].target, key |-> keyOf[asked[q].target], form |-> "raw"]

\* A prompt stores the encrypted key of its event as hex text, a branch its raw
\* bytes, which do not survive being read as text.
KeyFile(q) ==
  [conv |-> asked[q].target, key |-> keyOf[asked[q].target],
   form |-> IF asked[q].kind = "branch" THEN "raw"
            ELSE IF asked[q].withKey THEN "hex" ELSE "empty"]

Stray(q) == stray' = IF creates[q] THEN stray \cup {asked[q].conv} ELSE stray

\* The key file goes up first, if there is one; then the other files go up
\* together, and any of them may have arrived when one fails.
UploadFiles(q) ==
  /\ pc[q] = "files"
  /\ LET new == {PromptFile(q)} \cup (IF creates[q] THEN {ConversationFile(q)} ELSE {})
         tags == IF creates[q] THEN IndexedTags(KeyFile(q)) ELSE tagIndex
     IN \/ /\ NoFault
           /\ files' = files \cup new
           /\ cache' = Cached(PromptFile(q))
           /\ tagIndex' = tags
           /\ Goto(q, "answer")
           /\ UNCHANGED stray
        \/ /\ CallFails(q)
           /\ \E some \in SUBSET new : files' = files \cup some
           /\ tagIndex' = tags
           /\ UNCHANGED cache
           /\ Stray(q)
        \/ /\ creates[q]
           /\ CallFails(q)
           /\ UNCHANGED <<storageVars, stray>>
  /\ UNCHANGED <<requestVars, history, creates, bundle, shortened, misled, restarted>>

UploadAnswer(q) ==
  /\ pc[q] = "answer"
  /\ \/ /\ NoFault
        /\ files' = files \cup {AnswerFile(q)}
        /\ cache' = Cached(AnswerFile(q))
        /\ Goto(q, "submit")
        /\ UNCHANGED stray
     \/ CallFails(q) /\ Stray(q) /\ UNCHANGED <<files, cache>>
  /\ UNCHANGED <<requestVars, history, creates, tagIndex, bundle, shortened, misled, restarted>>

\* handleBranch: the key file and the conversation record of the branch.
UploadBranch(q) ==
  /\ pc[q] = "upload"
  /\ asked[q].kind = "branch"
  /\ \/ /\ NoFault
        /\ tagIndex' = IndexedTags(KeyFile(q))
        /\ files' = files \cup {ConversationFile(q)}
        /\ Goto(q, "submit")
     \/ /\ CallFails(q)
        /\ \/ tagIndex' = IndexedTags(KeyFile(q)) \/ UNCHANGED tagIndex
        /\ UNCHANGED files
  /\ UNCHANGED <<requestVars, history, creates, cache, bundle, ghostVars, restarted>>

\* The bundle of CIDs; a prompt that appends leaves the conversation's empty.
BundleOf(q) ==
  [conversation |-> IF creates[q] \/ asked[q].kind = "branch"
                      THEN Cid("conversation", q) ELSE None,
   prompt |-> IF asked[q].kind = "prompt" THEN Cid("prompt", q) ELSE None,
   answer |-> IF asked[q].kind = "branch" THEN None ELSE Cid("answer", q)]

\* The transaction.
Submit(q) ==
  /\ pc[q] = "submit"
  /\ Goto(q, "ended")
  /\ history' = [history EXCEPT ![q] = <<>>]
  /\ bundle' = [bundle EXCEPT ![q] = BundleOf(q)]
  /\ UNCHANGED <<requestVars, creates, storageVars, ghostVars, faults, restarted>>

\* One of the three checks finds that the user cancelled the request.
SkipCancelled(q) ==
  /\ asked[q].kind # "branch"
  /\ pc[q] \in {"asked", "submit",
                 IF asked[q].kind = "regeneration" THEN "answer" ELSE "upload"}
  /\ Goto(q, "ended")
  /\ history' = [history EXCEPT ![q] = <<>>]
  /\ IF pc[q] = "submit" THEN Stray(q) ELSE UNCHANGED stray
  /\ UNCHANGED <<requestVars, creates, storageVars, bundle, shortened, misled, faults, restarted>>

HandlePrompt(q) ==
  /\ asked[q].kind = "prompt"
  /\ ResolveKey(q) \/ GatherHistory(q) \/ DecideInit(q) \/ UploadFiles(q)
       \/ UploadAnswer(q) \/ Submit(q) \/ SkipCancelled(q)

HandleRegeneration(q) ==
  /\ asked[q].kind = "regeneration"
  /\ ResolveKey(q) \/ GatherHistory(q) \/ UploadAnswer(q) \/ Submit(q) \/ SkipCancelled(q)

HandleBranch(q) ==
  /\ asked[q].kind = "branch"
  /\ ResolveKey(q) \/ UploadBranch(q) \/ Submit(q)

\* initializeStorage clears what is kept in memory; running requests are
\* delivered again.
Restart ==
  /\ Fault
  /\ restarted' = TRUE
  /\ cache' = {}
  /\ tagIndex' = IF InMemory THEN <<>> ELSE tagIndex
  /\ files' = IF mode = "memory" THEN {} ELSE files
  /\ pc' = [q \in DOMAIN pc |-> IF pc[q] \in {"ended", "failed"} THEN pc[q] ELSE "asked"]
  /\ stray' = stray \cup {asked[q].conv : q \in
       {p \in Requests : creates[p] /\ pc[p] \in {"answer", "submit"}}}
  /\ UNCHANGED <<requestVars, history, creates, bundle, shortened, misled>>

Client ==
  \/ \E c \in Conversations : AskFirst(c)
  \/ \E c \in Conversations \cup BranchTargets : AskAgain(c)
  \/ \E p \in Requests : AskFollowUp(p) \/ AskRegeneration(p)
  \/ \E p \in Requests, c \in BranchTargets : AskBranch(p, c)

Next ==
  \/ Client
  \/ \E q \in Requests : HandlePrompt(q) \/ HandleRegeneration(q) \/ HandleBranch(q)
  \/ Restart

Spec == Init /\ [][Next]_vars

-------------------------------------------------------------------------------
(* Properties.                                                             *)

\* The mock storage of tests forgets its files when the process starts.
FilesKept == mode # "memory" \/ ~restarted
TagsKept  == mode = "irys" \/ (InMemory /\ ~restarted)

Places == Conversations \cup BranchTargets
RequestType == [kind : {"prompt", "regeneration", "branch"}, conv : Places, target : Places,
                parent : 0 .. MaxRequests, isNew : BOOLEAN, withKey : BOOLEAN]
KeyFiles == [conv : Places, key : 0 .. MaxRequests, form : {"hex", "raw", "empty"}]
Cids == {"none", "prompt", "answer", "conversation"} \X (0 .. MaxRequests)

\* Every variable has its type, and a CID names one file.
TypeOK ==
  /\ mode \in Modes
  /\ asked \in Seq(RequestType) /\ Len(asked) <= MaxRequests
  /\ \A q \in Requests : asked[q].parent < q
  /\ keyOf \in [Places -> 0 .. MaxRequests]
  /\ pc \in [1 .. MaxRequests -> Pcs]
  /\ history \in [1 .. MaxRequests -> Seq(Cids)]
  /\ \A q \in 1 .. MaxRequests : Len(history[q]) <= Limit
  /\ creates \in [1 .. MaxRequests -> BOOLEAN]
  /\ tagIndex \in Seq(KeyFiles)
  /\ files \cup cache \subseteq [cid : Cids, parent : Cids, key : 0 .. MaxRequests]
  /\ \A f, g \in files \cup cache : f.cid = g.cid => f = g
  /\ bundle \in [1 .. MaxRequests -> [conversation : Cids, prompt : Cids, answer : Cids]]
  /\ shortened \cup misled \subseteq Requests
  /\ stray \subseteq Places
  /\ restarted \in BOOLEAN

\* Whatever failed, was retried or was cancelled on the way: from every answer
\* on the chain the parents lead through the thread its user sees, up to the
\* first message, in files that are stored and open with the session key.
ThreadOnStorage ==
  FilesKept => \A q \in Answered : asked[q].kind # "branch" =>
    LET seen == Views[q]
    IN Walk(Cid("answer", q), files, keyOf[asked[q].conv], Len(seen) + 1) =
         [path |-> seen, next |-> None]

\* The model is asked with the end of the thread the user sees, with no gap and
\* nothing of another thread, and with Limit messages or all there are unless
\* storage failed, whether the messages come from the cache or from storage.
HistoryAsSeen ==
  \A q \in Requests :
    asked[q].kind # "branch" /\ pc[q] \in {"upload", "files", "answer", "submit"} =>
      LET seen == Views[asked[q].parent]
          n    == Len(history[q])
      IN /\ n <= Limit /\ n <= Len(seen)
         /\ history[q] = SubSeq(seen, Len(seen) - n + 1, Len(seen))
         /\ FilesKept /\ q \notin shortened => n = Limit \/ n = Len(seen)

\* A conversation that is on the chain has a key file that its tag finds and
\* that opens, so that a message need not bring the key.  Not so for a branch,
\* and not after a lookup failed for a prompt that brought no key.
KeyFileOpens ==
  TagsKept => \A q \in Answered : asked[q].kind = "prompt" =>
    \/ Lookup(asked[q].conv).form = "hex" /\ Lookup(asked[q].conv).key = keyOf[asked[q].conv]
    \/ \E p \in Requests : asked[p].kind = "branch" /\ asked[p].target = asked[q].conv
    \/ \E p \in misled : asked[p].conv = asked[q].conv /\ ~asked[p].withKey

\* A conversation with an answer on the chain was put on the chain itself, by
\* the client's flag or by the backstop.  The backstop fails only where a
\* handler uploaded the key file and did not submit, or is about to.
AnsweredMeansInitialized ==
  \A q \in Answered :
    \/ \E p \in Answered : asked[p].target = asked[q].target /\ bundle[p].conversation # None
    \/ asked[q].conv \in stray
    \/ \E p \in Requests : asked[p].conv = asked[q].conv /\ creates[p]
                            /\ pc[p] \in {"answer", "submit"}

===============================================================================
