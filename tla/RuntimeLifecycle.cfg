CONSTANTS
  s1 = s1
  s2 = s2
  Shells = {s1, s2}
  MaxStart = 2
  MaxCut = 2
SPECIFICATION LiveSpec
INVARIANTS
  NoDaemonLost
PROPERTIES
  StartTruthful
  CommandsEnd
