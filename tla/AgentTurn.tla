------------------------------- MODULE AgentTurn -------------------------------
(***************************************************************************)
(* How a prompt becomes an answer: queryAIModel of                         *)
(* oracle/src/aiAgentOracle.js falls from one provider to the next, and    *)
(* queryElizaOS runs a turn of the shared ElizaOS runtime, whose actions   *)
(* are those of plugin-senseai and of other plugins.  The turn emits       *)
(* texts, of which answerSelection.js picks the answer, and thoughts,      *)
(* which runProvenance.js attributes to a run and an action although       *)
(* action events name only a room.                                         *)
(*                                                                         *)
(* A text is abstracted to what the selection tells apart.  The runtime is *)
(* external: it picks the actions, may report an error while an action     *)
(* still runs, and ends an action that hangs.                              *)
(***************************************************************************)
EXTENDS Integers, SequencesExt, FiniteSetsExt

CONSTANTS
  Turns,          \* the queries, numbered in the order of the queue
  Rooms,          \* the conversations they may belong to
  Providers,      \* the settings of AI_PROVIDER; "auto" leaves the choice to the router
  Actions,        \* the actions the runtime may pick
  None,
  Concurrency,    \* of the queue
  MaxRuns,        \* DEFAULT_MAX_RUNS
  MaxActions,     \* bound: actions the runtime picks in all
  MaxFaults       \* bound: calls that fail or hang

SynthesisActions == {"GET_NEWS_DETAILS", "ANALYZE_ASSET_SENTIMENT"}
Tiers == {"tradable", "elizaos", "chaingpt", "deepseek", "mock", "none"}

ASSUME TurnAssumption ==
  /\ Providers \subseteq {"auto", "mock", "ChainGPT", "DeepSeek"}
  /\ Actions \subseteq SynthesisActions \cup {"CALL_MCP_TOOL", "REPLY"}
  /\ Turns \subseteq Nat /\ IsFiniteSet(Turns)
  /\ None \notin Actions
  /\ Concurrency \in Nat \ {0}
  /\ MaxRuns \in Nat \ {0}
  /\ MaxActions \in Nat
  /\ MaxFaults \in Nat

VARIABLES
  provider,   \* AI_PROVIDER
  room,       \* of each turn: the UUID of its conversation
  stage,      \* where each query is
  acting,     \* what the runtime does for it
  emitted,    \* emittedTexts
  runs,       \* runProvenance's runs in insertion order
  handlers,   \* the event handlers of the runtime, and whether they were asked for
  tally,      \* providerTally
  answer,     \* the text that onComplete chose, until the promise resolves
  served,     \* the tier that answered each query
  faults

vars == <<provider, room, stage, acting, emitted, runs, handlers,
          tally, answer, served, faults>>

-------------------------------------------------------------------------------
(* The answer among the texts of a turn.                                   *)

Text(kind)  == [kind |-> kind, ours |-> FALSE]
Tagged(kind) == [kind |-> kind, ours |-> TRUE]
Kinds == {"prose", "payload", "blank"}

LooksLikeToolPayload(e) == e.kind = "payload"
IsProse(e)  == ~LooksLikeToolPayload(e)
IsOurs(e)   == e.ours /\ IsProse(e)
NoAnswer    == Text("blank")

\* Mutation of SelectAnswer: the last text that is no payload, whoever emitted it.
SelectLatest(texts) ==
  LET prose      == {i \in DOMAIN texts : IsProse(texts[i])}
      candidates == IF prose # {} THEN prose ELSE DOMAIN texts
  IN  IF candidates = {} THEN NoAnswer ELSE texts[Max(candidates)]

SelectAnswer(texts) ==
  LET synthesised == {i \in DOMAIN texts : IsOurs(texts[i])}
      prose       == {i \in DOMAIN texts : IsProse(texts[i])}
      candidates  == IF synthesised # {} THEN synthesised
                     ELSE IF prose # {} THEN prose ELSE DOMAIN texts
  IN  IF candidates = {} THEN NoAnswer ELSE texts[Max(candidates)]

-------------------------------------------------------------------------------
(* runProvenance: a run is [turn, thought, action], its last thought and   *)
(* the action in flight.  An event carries the name of an action; the      *)
(* label also holds the turn it came from, for the properties.             *)

NoLabel == [turn |-> 0, action |-> None]
NoThought == [by |-> None, label |-> NoLabel]
Live(t) == \E i \in DOMAIN runs : runs[i].turn = t
RunsIn(rm) == {i \in DOMAIN runs : room[runs[i].turn] = rm}

Forget(t, rs) ==
  LET found == {i \in DOMAIN rs : rs[i].turn = t}
  IN  IF found = {} THEN rs ELSE RemoveAt(rs, CHOOSE i \in found : TRUE)

\* Mutation of Unlabelled: a second run in a room leaves the first its action.
KeptLabels(rm, rs) == rs

\* Two live runs in a room: neither keeps the action in flight.
Unlabelled(rm, rs) ==
  IF Cardinality({i \in DOMAIN rs : room[rs[i].turn] = rm}) < 2 THEN rs
  ELSE [i \in DOMAIN rs |->
         IF room[rs[i].turn] = rm THEN [rs[i] EXCEPT !.action = NoLabel] ELSE rs[i]]

BeginRun(t) ==
  LET kept == IF Len(runs) >= MaxRuns THEN Forget(Head(runs).turn, runs) ELSE runs
  IN  runs' = Unlabelled(room[t], Append(kept,
        [turn |-> t, thought |-> NoThought, action |-> NoLabel]))

\* soleRunIn: an action event of a room with two live runs is dropped.
Attribute(rm, label) ==
  runs' = IF Cardinality(RunsIn(rm)) = 1
          THEN [i \in DOMAIN runs |->
                 IF i \in RunsIn(rm) THEN [runs[i] EXCEPT !.action = label] ELSE runs[i]]
          ELSE runs

ActionStarted(t, a) ==
  IF "ACTION_STARTED" \in handlers
  THEN Attribute(room[t], [turn |-> t, action |-> a]) ELSE UNCHANGED runs

ActionCompleted(t) ==
  IF "ACTION_COMPLETED" \in handlers THEN Attribute(room[t], NoLabel) ELSE UNCHANGED runs

\* A thought of a run that ended is ignored.
RecordThought(t) ==
  runs' = [i \in DOMAIN runs |->
    IF runs[i].turn = t
    THEN [runs[i] EXCEPT !.thought = [by |-> acting[t].action, label |-> runs[i].action]]
    ELSE runs[i]]

\* Mutation of Finish: an answer that fails leaves its run behind.
FinishAnswered(t) == runs' = IF stage[t] = "sanitizing" THEN Forget(t, runs) ELSE runs

Finish(t) == runs' = Forget(t, runs)

Dropped(t) == emitted' = [emitted EXCEPT ![t] = <<>>]

\* Mutation of Subscribed: the handler that sets a label comes first.
SubscribedStartedFirst == {{}, {"ACTION_STARTED"}, {"ACTION_STARTED", "ACTION_COMPLETED"}}

\* What one attempt to register the two handlers leaves on the runtime.
Subscribed == {{}, {"ACTION_COMPLETED"}, {"ACTION_STARTED", "ACTION_COMPLETED"}}

-------------------------------------------------------------------------------
(* queryAIModel.                                                           *)

Off == [at |-> "off", action |-> None, steps |-> 0, length |-> 0, planned |-> FALSE,
        told |-> FALSE]

Init ==
  /\ provider \in Providers
  /\ room \in [Turns -> Rooms]
  /\ stage = [t \in Turns |-> "queued"]
  /\ acting = [t \in Turns |-> Off]
  /\ emitted = [t \in Turns |-> <<>>]
  /\ runs = <<>>
  /\ handlers = {"unasked"}
  /\ tally = [tier \in Tiers |-> 0]
  /\ answer = [t \in Turns |-> NoAnswer]
  /\ served = [t \in Turns |-> None]
  /\ faults = 0

Fault   == faults < MaxFaults /\ faults' = faults + 1
NoFault == UNCHANGED faults

At(t, s)   == stage[t] = s
Goto(t, s) == stage' = [stage EXCEPT ![t] = s]

config    == <<provider, room>>
agentVars == <<acting, emitted, runs, handlers, answer>>

\* recordServed, then return.
Serve(t, tier) ==
  /\ Goto(t, "answered")
  /\ tally' = [tally EXCEPT ![tier] = @ + 1]
  /\ served' = [served EXCEPT ![t] = tier]

\* A slot of the queue takes the first query that waits.
Query(t) ==
  /\ At(t, "queued") /\ \A u \in Turns : At(u, "queued") => t <= u
  /\ Cardinality({u \in Turns : stage[u] \notin {"queued", "answered"}}) < Concurrency
  /\ NoFault
  /\ UNCHANGED <<config, agentVars>>
  /\ \/ provider = "mock" /\ Serve(t, "mock")
     \/ /\ provider # "mock"
        /\ Goto(t, CASE provider = "ChainGPT" -> "chaingpt"
                     [] provider = "DeepSeek" -> "deepseek"
                     [] OTHER -> "routing")
        /\ UNCHANGED <<tally, served>>

\* The classifier never throws: what it cannot decide goes to ElizaOS.
RouteQueryIntent(t) ==
  /\ At(t, "routing")
  /\ \E intent \in {"tradable", "connecting"} : Goto(t, intent)
  /\ NoFault
  /\ UNCHANGED <<config, agentVars, tally, served>>

\* A failing provider is left for the next one.
QueryTradableAssistant(t) ==
  /\ At(t, "tradable")
  /\ NoFault
  /\ UNCHANGED <<config, agentVars>>
  /\ \/ Serve(t, "tradable")
     \/ Goto(t, "connecting") /\ UNCHANGED <<tally, served>>

QueryChainGPT(t) ==
  /\ At(t, "chaingpt")
  /\ NoFault
  /\ UNCHANGED <<config, agentVars>>
  /\ \/ Serve(t, "chaingpt")
     \/ provider = "ChainGPT" /\ Serve(t, "none")
     \/ provider = "auto" /\ Goto(t, "deepseek") /\ UNCHANGED <<tally, served>>

\* Mutation of QueryDeepSeek: the tier is recorded before the await.
QueryDeepSeekCountedFirst(t) ==
  /\ At(t, "deepseek")
  /\ NoFault
  /\ UNCHANGED <<config, agentVars>>
  /\ \/ Serve(t, "deepseek")
     \/ /\ Goto(t, "answered")
        /\ tally' = [tally EXCEPT !["deepseek"] = @ + 1, !["none"] = @ + 1]
        /\ served' = [served EXCEPT ![t] = "none"]

QueryDeepSeek(t) ==
  /\ At(t, "deepseek")
  /\ NoFault
  /\ UNCHANGED <<config, agentVars>>
  /\ Serve(t, "deepseek") \/ Serve(t, "none")

-------------------------------------------------------------------------------
(* queryElizaOS.                                                           *)

\* Mutation of Reject: the run is released but the promise is not settled.
RejectNothing(t) == Finish(t) /\ Dropped(t) /\ UNCHANGED stage

\* The promise rejects: the run is released and the failover goes on.
Reject(t) == Finish(t) /\ Dropped(t) /\ Goto(t, "chaingpt")

\* ensureConnection or the hydration of the room fails before there is a run.
ConnectFails(t) ==
  /\ At(t, "connecting")
  /\ Fault /\ Goto(t, "chaingpt")
  /\ UNCHANGED <<config, agentVars, tally, served>>

RegisterProvenanceHandlers ==
  IF handlers # {"unasked"} THEN UNCHANGED handlers /\ NoFault
  ELSE \/ handlers' = {"ACTION_STARTED", "ACTION_COMPLETED"} /\ NoFault
       \/ handlers' \in Subscribed /\ Fault

\* Begin a run and hand the message to the runtime; a provider never throws.
HandleMessage(t) ==
  /\ At(t, "connecting")
  /\ RegisterProvenanceHandlers
  /\ BeginRun(t)
  /\ Goto(t, "running")
  /\ acting' = [acting EXCEPT ![t] = [Off EXCEPT !.at = "thinking"]]
  /\ UNCHANGED <<config, emitted, tally, answer, served>>

\* onError, or handleMessage throws.  An action under way may run on.
RuntimeFails(t) ==
  /\ At(t, "running")
  /\ Fault
  /\ Reject(t)
  /\ \/ acting' = [acting EXCEPT ![t] = Off]
     \/ UNCHANGED acting
  /\ UNCHANGED <<config, handlers, tally, answer, served>>

\* onComplete: the answer is chosen and handed to the sanitiser.
OnComplete(t) ==
  LET text == SelectAnswer(emitted[t]) IN
  /\ acting[t].at = "ready" /\ acting[t].steps = acting[t].length
  /\ acting' = [acting EXCEPT ![t] = [Off EXCEPT !.told = acting[t].told]]
  /\ \/ ~At(t, "running") /\ UNCHANGED <<stage, runs, emitted, answer>>
     \/ /\ At(t, "running") /\ text = NoAnswer
        /\ Reject(t) /\ UNCHANGED <<answer>>
     \/ /\ At(t, "running") /\ text # NoAnswer
        /\ Goto(t, "sanitizing")
        /\ answer' = [answer EXCEPT ![t] = text]
        /\ UNCHANGED <<runs, emitted>>
  /\ NoFault
  /\ UNCHANGED <<config, handlers, tally, served>>

\* What the sanitiser rejects, or cannot be asked about, stays as it is; the
\* promise resolves with the run's thoughts.
ResolveAnswer(t) ==
  /\ At(t, "sanitizing")
  /\ Finish(t) /\ Dropped(t)
  /\ Serve(t, "elizaos")
  /\ acting' = [acting EXCEPT ![t] = Off]
  /\ answer' = [answer EXCEPT ![t] = NoAnswer]
  /\ NoFault
  /\ UNCHANGED <<config, handlers>>

-------------------------------------------------------------------------------
(* The runtime's turn: it answers at once or picks actions.                *)

Doing(t, a, at)   == acting[t].action = a /\ acting[t].at = at
Advance(t, at)    == acting' = [acting EXCEPT ![t].at = at]
Emit(t, texts)    == emitted' = IF At(t, "running")
                                THEN [emitted EXCEPT ![t] = @ \o texts] ELSE emitted
Silently          == UNCHANGED <<emitted, runs>>
outside           == <<config, stage, handlers, tally, answer, served>>

Picked == FoldSet(LAMBDA u, n : n + acting[u].length, 0, Turns)

Respond(t) ==
  /\ acting[t].at = "thinking"
  /\ \E length \in 0..MaxActions, planned \in BOOLEAN :
       /\ Picked + length <= MaxActions
       /\ length < 2 => ~planned
       /\ acting' = [acting EXCEPT ![t] =
            [@ EXCEPT !.at = "ready", !.length = length, !.planned = planned]]
  /\ Emit(t, <<Text("prose")>>) \/ Emit(t, <<>>)
  /\ RecordThought(t)
  /\ NoFault
  /\ UNCHANGED outside

StartAction(t) ==
  /\ acting[t].at = "ready" /\ acting[t].steps < acting[t].length
  /\ \E a \in Actions :
       /\ acting' = [acting EXCEPT ![t] =
            [@ EXCEPT !.at = "started", !.action = a, !.steps = acting[t].steps + 1]]
       /\ ActionStarted(t, a)
  /\ NoFault
  /\ UNCHANGED <<outside, emitted>>

EndAction(t) ==
  /\ acting[t].at = "done"
  /\ acting' = [acting EXCEPT ![t] = [@ EXCEPT !.at = "ready", !.action = None]]
  /\ ActionCompleted(t)
  /\ NoFault
  /\ UNCHANGED <<outside, emitted>>

\* An action without a plan, or the last of its plan, synthesises the answer.
IsLastStep(t) == acting[t].planned => acting[t].steps = acting[t].length

Told(t) == acting' = [acting EXCEPT ![t] = [@ EXCEPT !.at = "done", !.told = TRUE]]

Fails(t) == Fault /\ Advance(t, "done") /\ Silently

\* handleChainSynthesis, when the ledger was read: another step goes on with
\* the data, or the report is composed, which nothing guards, and written,
\* which has a deadline, a second attempt and a fixed text to fall back on.
HandleChainSynthesis(t) ==
  \/ ~IsLastStep(t) /\ NoFault /\ Advance(t, "done") /\ Silently
  \/ /\ IsLastStep(t)
     /\ \/ /\ NoFault /\ Told(t)
           /\ \E kind \in {"prose", "payload"} : Emit(t, <<Tagged(kind)>>)
           /\ RecordThought(t)
        \/ /\ NoFault /\ Told(t)
           /\ Emit(t, <<Tagged("prose")>>)
           /\ UNCHANGED runs
        \/ Fails(t)

\* The intent has a deadline and a broad search to fall back on.
ExtractIntent(t) ==
  /\ Doing(t, "GET_NEWS_DETAILS", "started")
  /\ \/ NoFault /\ Advance(t, "fetching") /\ Silently
     \/ Fails(t)
  /\ UNCHANGED outside

\* A search that never ran is an error, not an empty ledger.
SearchThrows(t) == Fails(t)

SearchNews(t) ==
  /\ Doing(t, "GET_NEWS_DETAILS", "fetching")
  /\ HandleChainSynthesis(t) \/ SearchThrows(t)
  /\ UNCHANGED outside

\* The extraction has no deadline; the text that follows it carries no tag.
ExtractTickers(t) ==
  /\ Doing(t, "ANALYZE_ASSET_SENTIMENT", "started")
  /\ \/ /\ NoFault
        /\ Advance(t, "fetching")
        /\ Emit(t, <<Text("prose")>>)
        /\ RecordThought(t)
     \/ NoFault /\ Advance(t, "done") /\ Silently
     \/ Fails(t)
     \/ Fault /\ Advance(t, "hung") /\ Silently
  /\ UNCHANGED outside

\* No data for an asset is a reading too, also when the Brain is away.
GetAssetSentiment(t) == HandleChainSynthesis(t) \/ Fails(t)

FetchSentiment(t) ==
  /\ Doing(t, "ANALYZE_ASSET_SENTIMENT", "fetching")
  /\ GetAssetSentiment(t)
  /\ UNCHANGED outside

\* Actions of other plugins: a tool says that it works, then shows its result.
OtherAction(t) ==
  /\ acting[t].at = "started"
  /\ acting[t].action \in {"CALL_MCP_TOOL", "REPLY"}
  /\ \E kind \in {"prose", "payload"} :
       /\ acting[t].action = "REPLY" => kind = "prose"
       /\ \/ NoFault /\ Emit(t, <<Text("prose"), Text(kind)>>)
          \/ Fault /\ Emit(t, <<Text(kind)>>)
  /\ Advance(t, "done")
  /\ RecordThought(t)
  /\ UNCHANGED outside

\* ElizaOS gives up on an action that hangs.
GiveUp(t) ==
  /\ acting[t].at = "hung"
  /\ Advance(t, "done") /\ Silently
  /\ NoFault
  /\ UNCHANGED outside

-------------------------------------------------------------------------------
QueryStep(t) ==
  \/ Query(t) \/ RouteQueryIntent(t) \/ QueryTradableAssistant(t)
  \/ QueryChainGPT(t) \/ QueryDeepSeek(t)
  \/ ConnectFails(t) \/ HandleMessage(t) \/ OnComplete(t) \/ ResolveAnswer(t)

RuntimeStep(t) ==
  \/ Respond(t) \/ StartAction(t) \/ EndAction(t)
  \/ ExtractIntent(t) \/ SearchNews(t) \/ ExtractTickers(t) \/ FetchSentiment(t)
  \/ OtherAction(t) \/ GiveUp(t)

Step == \E t \in Turns : QueryStep(t) \/ RuntimeStep(t)

Next == Step \/ \E t \in Turns : RuntimeFails(t)

\* Some handler or the runtime goes on as long as one can; a call to a provider
\* ends, since fetch has deadlines of its own.
Fairness == WF_vars(Step)

Spec == Init /\ [][Next]_vars /\ Fairness

-------------------------------------------------------------------------------
(* Properties.                                                             *)

Stages == {"queued", "routing", "tradable", "connecting", "running", "sanitizing",
           "chaingpt", "deepseek", "answered"}
Texts  == [kind : Kinds, ours : BOOLEAN]
Labels == {NoLabel} \cup [turn : Turns, action : Actions]
Thoughts == [by : Actions \cup {None}, label : Labels]

\* Types; what sets a label is never without what clears it
\* (registerProvenanceHandlers).
TypeOK ==
  /\ provider \in Providers /\ room \in [Turns -> Rooms]
  /\ stage \in [Turns -> Stages]
  /\ acting \in [Turns -> [at : {"off", "thinking", "ready", "started", "fetching",
                                 "hung", "done"},
                           action : Actions \cup {None}, steps : 0..MaxActions,
                           length : 0..MaxActions, planned : BOOLEAN,
                           told : BOOLEAN]]
  /\ emitted \in [Turns -> Seq(Texts)]
  /\ runs \in Seq([turn : Turns, thought : Thoughts, action : Labels])
  /\ handlers \subseteq {"unasked", "ACTION_STARTED", "ACTION_COMPLETED"}
  /\ "ACTION_STARTED" \in handlers => "ACTION_COMPLETED" \in handlers
  /\ tally \in [Tiers -> 0..Cardinality(Turns)]
  /\ answer \in [Turns -> Texts]
  /\ served \in [Turns -> Tiers \cup {None}]
  /\ faults \in 0..MaxFaults

\* The turn was given up while the runtime worked for it.
GivenUp(t) ==
  stage[t] \in {"chaingpt", "deepseek"} \/ (At(t, "answered") /\ served[t] # "elizaos")

\* A thought is titled by the action of its own turn that had it, or by none
\* (runProvenance.js: wrong attribution is a permanent lie in immutable
\* storage).  The exception: a turn whose promise was rejected while the
\* runtime works on is no longer a live run, and its action events reach the
\* one run that is left in the room.
ThoughtsOwn ==
  \A r \in Range(runs) :
    \/ r.thought.label = NoLabel
    \/ r.thought.label = [turn |-> r.turn, action |-> r.thought.by]
    \/ r.thought.label.turn # r.turn /\ GivenUp(r.thought.label.turn)

\* A run is tracked exactly while its query waits for the runtime or its
\* answer (queryElizaOS: every exit releases the run), so the cap of
\* runProvenance never evicts a live one.
RunsReleased ==
  /\ \A t \in Turns : Live(t) <=> stage[t] \in {"running", "sanitizing"}
  /\ Len(runs) <= Min({Concurrency, MaxRuns})

\* When an action read its ledger as the step that reports, the answer is its
\* report and not the text of another action or a progress message
\* (answerSelection.js).  The exceptions: the report could not be composed,
\* which handleChainSynthesis does not guard, or it was a bare payload.
AnswerIsReport ==
  \A t \in Turns :
    At(t, "sanitizing") /\ acting[t].told =>
      answer[t].ours \/ Tagged("payload") \in Range(emitted[t])

\* Every answer is counted under the tier that gave it, once (providerTally.js).
TallyAgrees ==
  \A tier \in Tiers :
    tally[tier] = Cardinality({t \in Turns : At(t, "answered") /\ served[t] = tier})

\* Every query is answered, whatever fails and whatever hangs: the slots of
\* the queue are never all held (queryElizaOS: a promise left pending forever
\* holds its slot against a prompt that has already been paid for).
EveryQueryAnswered == <>(\A t \in Turns : At(t, "answered"))

===============================================================================
