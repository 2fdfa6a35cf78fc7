-------------------------- MODULE MCArmControlPlane --------------------------
(***************************************************************************)
(* Templates cannot be written in a .cfg: two of them ask for a resource   *)
(* that is not supported, at once or after one that is, and the empty one  *)
(* is a deployment without a template.                                     *)
(***************************************************************************)
EXTENDS ArmControlPlane, TLC

CONSTANTS a, b, f, c1, c2

MCTemplates == {<<>>, <<a, b>>, <<a, f>>, <<f, a>>}

Clients == Permutations({c1, c2})
=============================================================================
