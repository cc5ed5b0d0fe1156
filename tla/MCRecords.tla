----------------------------- MODULE MCRecords -----------------------------
(* A small instance of Records. *)
EXTENDS Records, TLC

Symmetry == Permutations(Nodes) \cup Permutations(Callers) \cup Permutations(Providers)

(* Bound: two versions once the owner has changed or a record is gone,      *)
(* MaxVersion before.                                                       *)
FewVersions == "moved" \in seen => puts <= 2 /\ version <= 2
============================================================================
