----------------------------- MODULE MCDataPlane -----------------------------
(***************************************************************************)
(* Zones and record names are sequences, which a .cfg cannot hold: one     *)
(* zone within the other, so that a name has a record in either.           *)
(***************************************************************************)
EXTENDS DataPlane, TLC

CONSTANTS c1, c2, g1, g2, n1, n2, v1, v2

MCZones == {<<"test">>, <<"corp", "test">>}
MCRelatives == {<<>>, <<"corp">>}

Renamings ==
  Permutations({c1, c2}) \cup Permutations({g1, g2})
    \cup Permutations({n1, n2}) \cup Permutations({v1, v2})
=============================================================================
