SPECIFICATION Spec
CONSTANTS
  NoCall = NoCall
  Calls = {k1}
  NoStream = NoStream
  Streams = {s1, s2}
  CallOf <- OneCall
  RecvCap = 2
  EventSets <- SomeEvents
  MaxSessions = 2
  Workers = {router, drainer}
  Router = router
  Drainer = drainer
INVARIANTS TypeOK MapsAgree EndedCallsAreRemoved
PROPERTIES DetachedHandlersEnd EveryoneReturns CallEndIsServed
CHECK_DEADLOCK FALSE
