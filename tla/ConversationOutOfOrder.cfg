SPECIFICATION Spec
CONSTANTS
  Calls = {c1, c2}
  NoCall = NoCall
  Streams = {s1}
  Scopes = {call}
  NoHistory = NoHistory
  Confirmable = {}
  SystemPrompt = TRUE
  Agents = {a1}
  WithSystem = {a1}
  NoAgent = NoAgent
  DefaultAgent = NoAgent
  MaxHistory = 3
  MaxTokens = 0
  SystemWords = 1
  UserWords = 1
  AssistantWords = 1
  ToolWords = 1
  MaxFrames = 2
  Workers = {w1, w2}
  NoWorker = NoWorker
  TaskCap = 2
  InCap = 1
  Retries = 0
  HasTimeout = FALSE
  SerializeByStream = TRUE
  ScopeOf <- OneScope
  AgentMetas = {NoAgent, a1}
  SystemNames = {"greeting", "call_end", "other"}
  MaxCalls = 2
INVARIANT StartedInOrder
CHECK_DEADLOCK FALSE
