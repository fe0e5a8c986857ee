----------------------------- MODULE MCAccelTree -----------------------------
(* Instances of AccelTree for TLC: which part of the tree object a run looks *)
(* at is chosen by its constants, empty sets leaving a part out.             *)
EXTENDS AccelTree, TLC

TaskSymmetry == Permutations(Tasks) \cup Permutations(Boxes)
=============================================================================
