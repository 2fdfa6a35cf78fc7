CONSTANTS
  a = a
  b = b
  f = f
  c1 = c1
  c2 = c2
  Client = {c1, c2}
  Group = rg
  Plain = {a, b}
  Networks = {vnet}
  SecurityGroups = {nsg}
  Children = {x, y}
  Priorities = {99, 100, 4096}
  Deployments = {d}
  Templates <- MCTemplates
  MaxRequest = 4
SYMMETRY Clients
SPECIFICATION Spec
INVARIANTS
  PrioritiesUnique
  DeletedOnce
  OperationsTruthful
PROPERTY
  OperationsKept
