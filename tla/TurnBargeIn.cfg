SPECIFICATION Spec
CONSTANTS
  NoStream = NoStream
  Streams = {s1}
  BargeInEnabled = TRUE
  EndOfTurn = FALSE
  MaxAttempts = 0
  EmitCap = 2
  Scenarios <- BargeIn
  MaxTimers = 4
PROPERTY BargeInCancels
CHECK_DEADLOCK FALSE
