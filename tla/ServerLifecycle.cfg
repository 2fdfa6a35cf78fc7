CONSTANTS
  managementTLS = managementTLS
  dns = dns
  management = management
  Order <- ShutdownOrder
  Tls = managementTLS
  Dns = dns
  Capacity = 11
  MaxStart = 2
  MaxFault = 1
SPECIFICATION LiveSpec
INVARIANTS
  ExitTellsTruth
  OnlyDnsLingers
  CertificateServed
PROPERTY
  RunReturns
CHECK_DEADLOCK FALSE
