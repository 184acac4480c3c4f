--------------------------- MODULE HybridSystemMC ----------------------------
(* HybridSystem for TLC; the .cfg files give the constants their values.   *)
EXTENDS HybridSystem, TLC

\* The devices run the same program: states that differ in their names only
\* are the same.  Used in runs that check safety only.
Symmetry == Permutations(Devices)
==============================================================================
