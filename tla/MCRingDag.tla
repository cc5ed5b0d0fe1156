----------------------------- MODULE MCRingDag -----------------------------
(* An instance of RingDag for TLC: a DAG of three blocks in which two parents *)
(* share a child, on a ring of three with one replica per block. n2 owns no  *)
(* block and is only ever told of the root by n1.                            *)
EXTENDS RingDag, TLC

CONSTANTS r, a, leaf, n1, n2, n3

MCLinks == (r :> {a, leaf}) @@ (a :> {leaf}) @@ (leaf :> {})
MCOwner == (r :> n1) @@ (a :> n3) @@ (leaf :> n3)
MCReplicas == (n1 :> {n2}) @@ (n2 :> {n3}) @@ (n3 :> {n1})
=============================================================================
