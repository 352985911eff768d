SPECIFICATION RegistrySpec
CONSTANTS
  NoCall = NoCall
  Calls = {k1, k2}
  Workers = {w1, w2}
  MaxSessions = 3
SYMMETRY Symmetry
INVARIANTS
  RegistryTypeOK CountMatchesSessions EverySessionIsOwned
  ReturnsTheSharedSession CloseAllRemovesWhatItFound
