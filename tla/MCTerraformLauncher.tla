------------------------ MODULE MCTerraformLauncher -------------------------
(* Two consoles, which nothing but their name tells apart. *)
EXTENDS TerraformLauncher, TLC

CONSTANTS r1, r2

Consoles == Permutations(Runs)
=============================================================================
