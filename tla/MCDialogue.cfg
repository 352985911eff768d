SPECIFICATION Spec
CONSTANTS
  Streams = {s1, s2}
  Call = call
  Nameless = {s2}
  Facts <- SomeFacts
  NoFact = NoFact
  Nothing = Nothing
  HasPrompt = TRUE
  MinLen = 2
  Agents = {a1}
  NoAgent = NoAgent
  Langs = {id, en}
  NoLang = NoLang
  Mode = "bootstrap"
  MaxTurns = 1
  CodeSwitching = FALSE
  Scenarios <- SomeLoads
INVARIANTS TextsArriveOnceInOrder TextsFindTheirContext RoutingStops
CHECK_DEADLOCK FALSE
