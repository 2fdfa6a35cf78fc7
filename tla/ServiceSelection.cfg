CONSTANTS
  Backends = {"process", "docker"}
  Updates <- MCUpdates
  StartServices <- MCStart
  StartEnv <- MCEnv
  ShellValues <- MCShell
  MaxCommand = 5
SPECIFICATION SelectionSpec
INVARIANTS
  SelectionTypeOK
  UpdatesHonoured
  DescribedAsServed
PROPERTY
  RestartKeepsServices
