SPECIFICATION Spec
CONSTANTS
  NoFrame = NoFrame
  ControlFrames = {c1}
  OtherFrames = {}
  AudioFrames = {}
  Spare = {}
  HighCap = 1
  LowCap = 1
  NProcs = 0
  StageBuffer = 1
  Configs <- AllConfigs
PROPERTY StopEndsThePopper
CHECK_DEADLOCK FALSE
