---------------------------- MODULE MCInventory -----------------------------
(* Inventory for few requests on few rows.                                 *)
EXTENDS Inventory, TLC

CONSTANTS s1, s2, s3

SessionSymmetry == Permutations(Sessions)
=============================================================================
