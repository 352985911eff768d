SPECIFICATION Spec
CONSTANTS
  Threshold = 2
  MaxRetries = 1
  Streams = {s1, s2}
  NoStream = NoStream
  LastItem = 2
  Langs = {NoLang, id}
  NoLang = NoLang
  MaxSessions = 3
  CodeSwitching = FALSE
  ReplayCap = 2
  OutCap = 1
  WriteCap = 1
  AudioCap = 1
  Controls = {"interruption", "flush", "cancel", "empty"}
  Scenarios <- SomeLoads
INVARIANTS TypeOK ReplacedStreamsAreClosed TeardownClosesAll SpokenOnceInOrder
PROPERTIES SilencedStaysSilent EveryFrameReturns
CHECK_DEADLOCK FALSE
