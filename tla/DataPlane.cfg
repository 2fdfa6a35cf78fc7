SPECIFICATION Spec
CONSTANTS
  c1 = c1
  c2 = c2
  g1 = g1
  g2 = g2
  n1 = n1
  n2 = n2
  v1 = v1
  v2 = v2
  Client = {c1, c2}
  Group = {g1, g2}
  Name = {n1, n2}
  Leaf = {l1}
  Zone <- MCZones
  Relative <- MCRelatives
  Value = {v1, v2}
  Address = {x1}
SYMMETRY Renamings
INVARIANTS NoOrphans AnswersAddUp OneAnswer
PROPERTIES LossHasCause DeleteTellsWhatItRemoved
