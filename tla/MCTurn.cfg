SPECIFICATION Spec
CONSTANTS
  NoStream = NoStream
  Streams = {s1, s2}
  BargeInEnabled = TRUE
  EndOfTurn = TRUE
  MaxAttempts = 2
  EmitCap = 2
  Scenarios <- SomeScenarios
  MaxTimers = 6
INVARIANTS TypeOK SpeechIsTimed SilenceTimerIsHeld InterruptionsAreReal
PROPERTY EveryTurnEnds
CHECK_DEADLOCK FALSE
