--------------------------- MODULE MCChordLookup ---------------------------
(* Small instances of ChordLookup: a client and a repair loop on node 1,    *)
(* and a repair loop on another node.                                       *)
EXTENDS ChordLookup, TLC

MCHost == [p \in Procs |-> CASE p = "client" -> 1 [] p = "fixer" -> 1 [] p = "other" -> 4]
============================================================================
