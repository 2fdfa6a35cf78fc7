CONSTANTS
  Parents = {"virtual_networks", "network_security_groups"}
  Name = {n1}
  Proc = {daemon}
  Daemon = daemon
  MayFail = FALSE
SPECIFICATION Spec
PROPERTY
  ResetEmptiesStore
