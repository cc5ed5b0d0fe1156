---------------------------- MODULE MCNodeStore ----------------------------
(* A small instance of NodeStore. *)
EXTENDS NodeStore, FiniteSetsExt, TLC

CONSTANTS x, leaf, n1, n2, c1, c2, k1, w1

(* A directory with one file, which may be a root of its own. *)
MCLinks == (x :> {leaf}) @@ (leaf :> {})
MCDag == (x :> {x, leaf}) @@ (leaf :> {leaf})
MCOps == [c \in Clients |-> OpNames]

(* Adds of the same file, names of one record, blocks that two roots share, *)
(* DAGs that are fetched, and the ring blocks.                              *)
MCMenus == {
  [cids |-> {leaf}, names |-> {n1}, ids |-> 2, kinds |-> (c1 :> {"ingest"}) @@ (c2 :> {"ingest", "remove"})],
  [cids |-> {leaf}, names |-> {n1, n2}, ids |-> 1,
   kinds |-> (c1 :> {"ingest", "rename"}) @@ (c2 :> {"remove", "rename"})],
  [cids |-> {x, leaf}, names |-> {n1}, ids |-> 2, kinds |-> (c1 :> {"ingest"}) @@ (c2 :> {"remove"})],
  [cids |-> {x}, names |-> {n1}, ids |-> 1, kinds |-> (c1 :> {"get"}) @@ (c2 :> {"remove"})],
  [cids |-> {x}, names |-> {n1}, ids |-> 1, kinds |-> (c1 :> {"fetch"}) @@ (c2 :> {})],
  [cids |-> {}, names |-> {}, ids |-> 0, kinds |-> [c \in Clients |-> {}]]}

MCSize == [k \in Keys |-> 1]
MCWeight == [S \in SUBSET Keys |-> MapThenSumSet(LAMBDA k : Size[k], S)]
MCNetOps == [w \in Workers |-> IF w = w1 THEN {"putroot"} ELSE {"rmroot"}]
============================================================================
