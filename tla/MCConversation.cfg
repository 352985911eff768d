SPECIFICATION Spec
CONSTANTS
  Calls = {c1, c2}
  NoCall = NoCall
  Streams = {s1, s2}
  Scopes = {call}
  NoHistory = NoHistory
  Confirmable = {c2}
  SystemPrompt = TRUE
  Agents = {a1}
  WithSystem = {a1}
  NoAgent = NoAgent
  DefaultAgent = NoAgent
  MaxHistory = 3
  MaxTokens = 0
  SystemWords = 1
  UserWords = 1
  AssistantWords = 1
  ToolWords = 1
  MaxFrames = 3
  Workers = {w1, w2}
  NoWorker = NoWorker
  TaskCap = 1
  InCap = 1
  Retries = 1
  HasTimeout = TRUE
  SerializeByStream = TRUE
  ScopeOf <- OneScope
  AgentMetas = {a1}
  SystemNames = {"greeting", "call_end", "other"}
  MaxCalls = 2
INVARIANTS TypeOK HistoryBounded ToolMessagesPaired ConfirmationIsExplicit StreamSerialized RetriesEnforced
PROPERTIES SystemMessagesStay EveryCallIsAnswered
CHECK_DEADLOCK FALSE
