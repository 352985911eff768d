SPECIFICATION Spec
CONSTANTS
  NoFrame = NoFrame
  ControlFrames = {c1}
  OtherFrames = {d1, a1}
  AudioFrames = {a1}
  Spare = {s1}
  HighCap = 1
  LowCap = 1
  NProcs = 1
  StageBuffer = 1
  Configs <- AllConfigs
INVARIANTS TypeOK Conservation ControlPassedAtMostOnce
PROPERTIES ImplementsChannel WaitLosesOnlyAtTheQueue EveryFrameSettles
CHECK_DEADLOCK FALSE
