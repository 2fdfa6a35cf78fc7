CONSTANTS
  r1 = r1
  r2 = r2
  Runs = {r1, r2}
  MaxRun = 2
  MaxCut = 1
SYMMETRY Consoles
SPECIFICATION Spec
INVARIANTS
  TypeOK
  NeverToAzure
  ServedByOwn
  QuietIsClean
