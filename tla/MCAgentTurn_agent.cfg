\* Two queries of one conversation, two actions between them; a failing call.
SPECIFICATION Spec

CONSTANTS
  Turns = {1, 2}
  Rooms = {1}
  Providers = {"auto", "mock", "ChainGPT", "DeepSeek"}
  Actions = {"GET_NEWS_DETAILS", "ANALYZE_ASSET_SENTIMENT", "CALL_MCP_TOOL"}
  None = None
  Concurrency = 2
  MaxRuns = 3
  MaxActions = 2
  MaxFaults = 1

\* Every query ends.
CHECK_DEADLOCK FALSE

INVARIANTS
  TypeOK
  ThoughtsOwn
  RunsReleased
  AnswerIsReport
  TallyAgrees


  
