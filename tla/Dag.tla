-------------------------------- MODULE Dag --------------------------------
(***************************************************************************)
(* The DAG of blocks that the pipelines of dht/fetch.go walk, and what the *)
(* two pipelines have in common. A block is a model value; Links[c] are    *)
(* the links store.LinksOf reads in it (none when it cannot be decoded).   *)
(***************************************************************************)
EXTENDS Integers, FiniteSets

CONSTANTS
    Blocks,      \* the CIDs of the DAG
    Root,        \* the block the caller shares, fetches or deletes
    Links,       \* Links[c]: the children of block c
    Workers,     \* the worker goroutines of a pipeline
    Faulty,      \* whether a store or the network may return an error
    Impatient,   \* whether the caller may cancel its context
    None         \* no block

ASSUME RootAssumption == Root \in Blocks
ASSUME LinksAssumption == Links \in [Blocks -> SUBSET Blocks]
ASSUME NoneAssumption == None \notin Blocks
ASSUME FiniteAssumption == IsFiniteSet(Blocks) /\ IsFiniteSet(Workers)
ASSUME WorkersAssumption == Workers # {}
ASSUME SwitchAssumption == Faulty \in BOOLEAN /\ Impatient \in BOOLEAN

\* S has the root and the links of each of its blocks.
Closed(S) == Root \in S /\ \A c \in S : Links[c] \subseteq S

\* The blocks reachable from the root: the least such set.
Reachable == {c \in Blocks : \A S \in SUBSET Blocks : Closed(S) => c \in S}
=============================================================================
