------------------------ MODULE MCRuntimeLifecycle --------------------------
(* Two shells. *)
EXTENDS RuntimeLifecycle

CONSTANTS s1, s2
=============================================================================
