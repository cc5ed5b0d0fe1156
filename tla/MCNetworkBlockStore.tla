------------------------ MODULE MCNetworkBlockStore ------------------------
(* Small instances of NetworkBlockStore. *)
EXTENDS NetworkBlockStore, FiniteSetsExt, TLC

CONSTANTS k1, k2, r1, r2, w1, w2

(* A block of one byte, and one of two. *)
MCSize == [k \in Keys |-> IF k = k1 THEN 1 ELSE 2]
MCWeight == [S \in SUBSET Keys |-> MapThenSumSet(LAMBDA k : Size[k], S)]

Constant(S) == [w \in Workers |-> S]

OpsRestart == Constant(OpNames \ {"rmroot"})

(* Two writers; only the second one removes roots. *)
OpsOneRemover == (w1 :> {"putroot"}) @@ (w2 :> {"putroot", "rmroot"})

Symmetry == Permutations(Rings) \cup Permutations(Roots)

(* The counters drift upwards without end after some crashes, races and     *)
(* removals: follow them up to what all the blocks can account for, and,    *)
(* on disk, as long as a Close in the middle of an operation has not        *)
(* counted more blocks than bytes.                                          *)
Drift ==
  /\ count <= Cardinality(Keys) /\ disk.count <= disk.used
  /\ disk.ringUsed = disk.ringCount
  /\ \A r \in Rings : ringCount[r] <= Cardinality(Keys) /\ ringUsed[r] <= Weight[Keys]
============================================================================
