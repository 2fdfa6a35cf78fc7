------------------------- MODULE MCServerLifecycle --------------------------
(* The management service's two listeners and, between them, that of DNS. *)
EXTENDS ServerLifecycle

CONSTANTS managementTLS, dns, management

ShutdownOrder == <<managementTLS, dns, management>>
=============================================================================
