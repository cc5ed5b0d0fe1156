------------------------------ MODULE RpcPool ------------------------------
(***************************************************************************)
(* The client side of a ring's RPCs: the connections a node keeps to its   *)
(* peers, and the calls its goroutines make over them (dht/rpc.go, type    *)
(* RPCTransport, for the public ring; dht/private.go, type                 *)
(* privateRPCTransport, for a private one).                                *)
(*                                                                         *)
(* The public transport keeps one client for each address, and a stub      *)
(* trusts what answers there, GetPredecessor's excepted.  The private one  *)
(* keeps one client for each peer, which proves its identity when it is    *)
(* dialled.  A call whose client has been shut down is tried once more.    *)
(*                                                                         *)
(* External: package net/rpc.  A client whose connection ends fails the    *)
(* calls that wait on it with the error of the read, and every later one   *)
(* with ErrShutdown; after its Close both fail with ErrShutdown.           *)
(*                                                                         *)
(* Abstractions: arguments and replies; what a handler does is in the      *)
(* modules of the other components.                                        *)
(***************************************************************************)
EXTENDS Naturals, TLC

CONSTANTS
  Kinds,       \* the transports that are modelled, "public" and "private"
  Ids,         \* identities of peers
  Addrs,       \* addresses they listen on
  Goroutines,  \* the callers
  Work,        \* for each transport and goroutine, the targets and methods it calls
  MaxClients,  \* bound: clients in use at the same time
  MaxFaults,   \* bound, for each transport: stops and crashes of peers, timeouts, closes
  None         \* no value

ASSUME KindsAssumption == Kinds \subseteq {"public", "private"} /\ MaxClients \in Nat /\ MaxFaults \in [Kinds -> Nat]
ASSUME WorkAssumption ==
  \A k \in Kinds, g \in Goroutines : \A w \in Work[k][g] : w.target \in [id : Ids, addr : Addrs] /\ w.method \in STRING
ASSUME NoneAssumption == None \notin Ids \cup Goroutines

VARIABLES
  kind,     \* the transport; it does not change
  at,       \* the peer that listens on each address, or None
  client,   \* each rpc.Client: the peer it is connected to and its condition
  pool,     \* the pooled client of each key, 0 for none
  mu,       \* the goroutine that holds the pool's mutex, or None
  faults,   \* the faults so far, for the bound
  calls     \* each goroutine's call: program counter, locals and ghosts

poolVars == <<kind, at, client, pool, mu, faults, calls>>

Clients == 1..MaxClients
Keys == Ids \cup Addrs

(* The stubs: one compares the identity in the reply with the target's;    *)
(* some make an error of a reply without what was asked for, or that they  *)
(* cannot parse; the others hand on what the reply holds.                  *)
RingMethods ==
  [FindSuccessor |-> "plain", ClosestPrecedingNode |-> "plain", GetPredecessor |-> "checked",
   GetSuccessorList |-> "plain", Notify |-> "plain"]
BlockMethods ==
  [PutBlock |-> "plain", PushBlocks |-> "plain", ReconcileBlocks |-> "plain", FetchBlock |-> "found",
   HasBlock |-> "plain", RemoveBlock |-> "plain", TransferKeys |-> "found"]
UpkeepMethods == [DeleteCID |-> "plain", NotifyLeave |-> "plain", Ping |-> "plain"]
RecordMethods ==
  [PutRecord |-> "plain", GetRecord |-> "found", PushRecords |-> "plain", TransferRecords |-> "plain"]

(* A private ring keeps no records; its other stubs do the same. *)
PrivateRingMethods == RingMethods
PrivateBlockMethods == BlockMethods @@ UpkeepMethods
Methods == IF kind = "public" THEN RingMethods @@ BlockMethods @@ UpkeepMethods @@ RecordMethods
           ELSE PrivateRingMethods @@ PrivateBlockMethods
Targets == UNION {{w.target : w \in Work[kind][g]} : g \in Goroutines}

(* res: how the last call ended.  sent: ghost, how often the request was    *)
(* written to a connection that was not closed under the call.             *)
Quiet == [pc |-> "idle", t |-> None, stub |-> None, c |-> 0, try |-> 1, err |-> "none", res |-> "none",
          sent |-> 0]

Free == [peer |-> None, addr |-> None, is |-> "free"]

PoolInit ==
  /\ kind \in Kinds
  /\ at = [a \in Addrs |-> None]
  /\ client = [i \in Clients |-> Free]
  /\ pool = [k \in Keys |-> 0]
  /\ mu = None
  /\ faults = 0
  /\ calls = [g \in Goroutines |-> Quiet]
----------------------------------------------------------------------------
Key(t) == IF kind = "public" THEN t.addr ELSE t.id
Fault == faults < MaxFaults[kind] /\ faults' = faults + 1
Set(g, r) == calls' = [calls EXCEPT ![g] = r]

(* The call returns to its caller, without an answer if the target could    *)
(* not be reached.                                                         *)
CallReturns(g, res) == Set(g, IF res = "unreachable" THEN [Quiet EXCEPT !.t = calls[g].t, !.res = res]
                              ELSE [Quiet EXCEPT !.res = res])

(* A stub is called. *)
Call(g, t, m) ==
  /\ calls[g].pc = "idle"
  /\ Set(g, [Quiet EXCEPT !.pc = "get", !.t = t, !.stub = Methods[m]])
  /\ UNCHANGED <<kind, faults, at, client, pool, mu>>

(* getClient: the pooled client, or a dial under the mutex. *)
getClient(g) ==
  /\ calls[g].pc = "get"
  /\ mu = None
  /\ LET c == pool[Key(calls[g].t)]
     IN IF c # 0 THEN Set(g, [calls[g] EXCEPT !.pc = "send", !.c = c]) /\ UNCHANGED mu
        ELSE Set(g, [calls[g] EXCEPT !.pc = "dial"]) /\ mu' = g
  /\ UNCHANGED <<kind, faults, at, client, pool>>

(* A public dial succeeds when anyone listens.  A private one, when         *)
(* PerformClientAuth finds that the peer at the other end is the target.    *)
Accepts(t) == IF kind = "public" THEN at[t.addr] # None ELSE at[t.addr] = t.id

InUse == {pool[k] : k \in Keys} \cup {calls[g].c : g \in Goroutines}

(* A client that neither the pool nor a call refers to is forgotten. *)
Forget == client' = [i \in Clients |-> IF i \in InUse' THEN client[i] ELSE Free]

Dial(g) ==
  /\ calls[g].pc = "dial"
  /\ Accepts(calls[g].t)
  /\ \E i \in Clients \ InUse :
       /\ \A j \in Clients \ InUse : i <= j
       /\ client' = [client EXCEPT ![i] = [peer |-> at[calls[g].t.addr], addr |-> calls[g].t.addr, is |-> "open"]]
       /\ pool' = [pool EXCEPT ![Key(calls[g].t)] = i]
       /\ Set(g, [calls[g] EXCEPT !.pc = "send", !.c = i])
  /\ mu' = None
  /\ UNCHANGED <<kind, faults, at>>

(* Mutant: the mutex is not released on this path. *)
DialEnds_KeepsLock(g) ==
  /\ calls[g].pc = "dial"
  /\ CallReturns(g, "unreachable")
  /\ UNCHANGED <<kind, at, client, pool, mu>>

(* The dial, or the handshake, fails; the mutex is released.  *)
DialEnds(g) ==
  /\ calls[g].pc = "dial"
  /\ mu' = None
  /\ CallReturns(g, "unreachable")
  /\ UNCHANGED <<kind, at, client, pool>>
DialRefused(g) == DialEnds(g) /\ ~Accepts(calls[g].t) /\ UNCHANGED faults
DialTimesOut(g) == DialEnds(g) /\ Accepts(calls[g].t) /\ Fault

Failed(g, err) == Set(g, [calls[g] EXCEPT !.pc = "drop", !.err = err])

(* client.Call, the request.  A connection that has broken unnoticed either *)
(* takes it or fails.                                                       *)
Send(g) ==
  /\ calls[g].pc = "send"
  /\ LET is == client[calls[g].c].is
     IN \/ /\ is \in {"open", "broken"}
           /\ Set(g, [calls[g] EXCEPT !.pc = "wait", !.sent = @ + 1])
        \/ /\ is = "broken"
           /\ Failed(g, "io")
        \/ /\ is \in {"shut", "closed"}
           /\ Failed(g, "shutdown")
  /\ UNCHANGED <<kind, faults, at, client, pool, mu>>

(* Mutant: the identity in the reply is not compared. *)
Answer_Unchecked(g) == {"ok"}

(* What a stub makes of a reply without an error. *)
Answer(g) ==
  CASE calls[g].stub = "checked" -> {IF client[calls[g].c].peer = calls[g].t.id THEN "ok" ELSE "error"}
    [] calls[g].stub = "found" -> {"ok", "error"}
    [] OTHER -> {"ok"}

(* client.Call, the reply: one without an error, or the error of the handler. *)
Reply(g) ==
  /\ calls[g].pc = "wait"
  /\ client[calls[g].c].is = "open"
  /\ \/ \E res \in Answer(g) : CallReturns(g, res)
     \/ Failed(g, "handler")
  /\ UNCHANGED <<kind, faults, at, pool, mu>>
  /\ Forget

(* client.Call, the end of the connection. *)
NoReply(g) ==
  /\ calls[g].pc = "wait"
  /\ \/ client[calls[g].c].is = "shut" /\ Failed(g, "io")
     \/ client[calls[g].c].is = "closed" /\ Failed(g, "shutdown")
  /\ UNCHANGED <<kind, faults, at, client, pool, mu>>

(* Mutant: every error is worth another attempt. *)
Again_Always(g) == calls[g].try = 1

Again(g) == calls[g].try = 1 /\ calls[g].err = "shutdown"

(* Mutant: the client stays in the pool. *)
drop_Nothing(g) ==
  /\ calls[g].pc = "drop"
  /\ mu = None
  /\ IF Again(g) THEN Set(g, [calls[g] EXCEPT !.pc = "get", !.try = 2, !.c = 0, !.err = "none"])
     ELSE CallReturns(g, IF calls[g].err = "handler" THEN "error" ELSE "unreachable")
  /\ UNCHANGED <<kind, faults, at, pool, mu>>
  /\ Forget

(* Whatever the error, the key's client leaves the pool, be it another one *)
(* by now; it is not closed.                                               *)
drop(g) ==
  /\ calls[g].pc = "drop"
  /\ mu = None
  /\ pool' = [pool EXCEPT ![Key(calls[g].t)] = 0]
  /\ IF Again(g) THEN Set(g, [calls[g] EXCEPT !.pc = "get", !.try = 2, !.c = 0, !.err = "none"])
     ELSE CallReturns(g, IF calls[g].err = "handler" THEN "error" ELSE "unreachable")
  /\ UNCHANGED <<kind, faults, at, mu>>
  /\ Forget

(* Close, when the ring is left. *)
Close ==
  /\ Fault
  /\ mu = None
  /\ \E k \in Keys : pool[k] # 0
  /\ LET closed == {pool[k] : k \in Keys} \ {0}
     IN /\ client' = [i \in Clients |-> IF i \in closed /\ \E g \in Goroutines : calls[g].c = i
                                        THEN [client[i] EXCEPT !.is = "closed"]
                                        ELSE IF i \in closed THEN Free ELSE client[i]]
        /\ calls' = [g \in Goroutines |->
                       [calls[g] EXCEPT !.sent = IF calls[g].pc = "wait" /\ calls[g].c \in closed THEN 0 ELSE @]]
  /\ pool' = [k \in Keys |-> 0]
  /\ UNCHANGED <<kind, at, mu>>
----------------------------------------------------------------------------
(* The peers and the network.                                              *)

(* A peer has one listener for a ring. *)
Listen(a, i) ==
  /\ at[a] = None
  /\ \A other \in Addrs : at[other] # i
  /\ \E t \in Targets : t.addr = a
  /\ at' = [at EXCEPT ![a] = i]
  /\ UNCHANGED <<kind, faults, client, pool, mu, calls>>

(* A public server serves whoever connects; a private one serves the       *)
(* connections that pass PerformServerAuth, see Accepts.                   *)
StartServer(a, i) == kind = "public" /\ Listen(a, i)
startPrivateRPCServer(a, i) == kind = "private" /\ Listen(a, i)

(* RPCServer.Stop closes the listener: connections outlive it. *)
Stop(a) ==
  /\ Fault
  /\ at[a] # None
  /\ at' = [at EXCEPT ![a] = None]
  /\ UNCHANGED <<kind, client, pool, mu, calls>>

(* A process ends, and its connections with it. *)
Crash(a) ==
  /\ Fault
  /\ \/ at[a] # None
     \/ \E i \in Clients : client[i].addr = a /\ client[i].is = "open"
  /\ at' = [at EXCEPT ![a] = None]
  /\ client' = [i \in Clients |-> IF client[i].addr = a /\ client[i].is = "open"
                                  THEN [client[i] EXCEPT !.is = "broken"] ELSE client[i]]
  /\ UNCHANGED <<kind, pool, mu, calls>>

(* The client's reader finds the connection broken. *)
Notice(i) ==
  /\ client[i].is = "broken"
  /\ client' = [client EXCEPT ![i].is = "shut"]
  /\ UNCHANGED <<kind, faults, at, pool, mu, calls>>

CallStep(g) == getClient(g) \/ Dial(g) \/ DialRefused(g) \/ Send(g) \/ Reply(g) \/ NoReply(g) \/ drop(g)
Peers ==
  \/ \E a \in Addrs : Stop(a) \/ Crash(a) \/ \E i \in Ids : StartServer(a, i) \/ startPrivateRPCServer(a, i)

PoolNext ==
  \/ \E g \in Goroutines :
       \/ \E w \in Work[kind][g] : Call(g, w.target, w.method)
       \/ CallStep(g)
       \/ DialTimesOut(g)
  \/ Close
  \/ \E i \in Clients : Notice(i)
  \/ Peers

PoolSpec == PoolInit /\ [][PoolNext]_poolVars

(* A peer that is connected answers, and a broken connection is noticed:    *)
(* the two things that end the wait for a reply, which has no deadline.  A  *)
(* goroutine gets the mutex at last, and makes a next call.                 *)
FairSpec ==
  /\ PoolSpec
  /\ \A g \in Goroutines :
       /\ SF_poolVars(getClient(g) \/ drop(g))
       /\ WF_poolVars(\/ \E w \in Work[kind][g] : Call(g, w.target, w.method)
                  \/ Dial(g) \/ DialRefused(g) \/ Send(g) \/ Reply(g) \/ NoReply(g))
  /\ WF_poolVars(\E i \in Clients : Notice(i))
----------------------------------------------------------------------------
(* A request reaches the peer's handler at most once, whatever breaks: the  *)
(* second attempt of call is made only when the first was not sent.  The    *)
(* one exception is a Close of the transport while the reply was awaited.   *)
AtMostOnce == \A g \in Goroutines : calls[g].sent <= 1

(* A private call that succeeds was answered by the peer it was meant for,  *)
(* and so was a public GetPredecessor: no restart of peers on each other's  *)
(* addresses makes stabilize take one node for another.                     *)
RightPeer ==
  [][\A g \in Goroutines :
       calls[g].pc = "wait" /\ calls'[g].res = "ok" /\ (kind = "private" \/ calls[g].stub = "checked") =>
         client[calls[g].c].peer = calls[g].t.id]_poolVars

(* Once the targets of a goroutine answer dials for good, and no more       *)
(* faults happen (MaxFaults ends them), its calls stop failing: no broken   *)
(* connection, however it came about, stays in the pool.                    *)
Recovers ==
  \A g \in Goroutines :
    <>[](\A w \in Work[kind][g] : Accepts(w.target)) =>
      <>[](calls[g].pc = "idle" => calls[g].res # "unreachable")

(* Every call returns: a dial that fails, an error, a second attempt, or a  *)
(* Close never leaves the mutex of the pool locked.                         *)
CallEnds == \A g \in Goroutines : calls[g].pc # "idle" ~> calls[g].pc = "idle"
============================================================================
