----------------------------- MODULE MCRpcPool -----------------------------
(* A small instance of RpcPool: on the public ring, an address where one    *)
(* peer follows another; on a private ring, a peer that moves.              *)
EXTENDS RpcPool

CONSTANTS a, b, p, q, g1, g2

Calls(i, ad, m) == {[target |-> [id |-> i, addr |-> ad], method |-> m]}
MCWork == [public |-> (g1 :> Calls(a, p, "GetPredecessor")) @@ (g2 :> Calls(a, p, "PutBlock")),
           private |-> (g1 :> Calls(a, p, "Ping")) @@ (g2 :> Calls(a, q, "FetchBlock"))]
MCFaults == [public |-> 2, private |-> 1]
============================================================================
