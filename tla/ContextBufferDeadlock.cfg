SPECIFICATION Spec
CONSTANTS
  Listeners = {turn}
  Stage = stage
  NoOne = NoOne
  Texts = {t1, t2}
  NoText = NoText
  MaxBufferSize = 1
PROPERTY FlushReturns
CHECK_DEADLOCK FALSE
