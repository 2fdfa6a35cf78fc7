CONSTANTS
  Parents = {"virtual_networks", "network_security_groups"}
  Name = {n1}
  Proc = {daemon, cli}
  Daemon = daemon
  MayFail = TRUE
SPECIFICATION Spec
INVARIANTS
  TypeOK
  NoOrphans
PROPERTIES
  NothingLostUnasked
  RestoreBracketed
