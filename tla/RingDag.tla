------------------------------ MODULE RingDag ------------------------------
(***************************************************************************)
(* The life of a DAG on a private ring: one member shares it               *)
(* (ShareDAGWithTTL, the module DagShare), the owner of each block copies  *)
(* it to its successors in the background (replicateAsync), and afterwards *)
(* another node fetches the DAG (the module DagFetch, which this one       *)
(* extends) or the sharer deletes it (DeleteCID, dht/node.go): a depth-    *)
(* first walk that tells the owner of every block, and through it the      *)
(* owner's successors, to forget the root, and learns the links of a block *)
(* only from the copy the walking node has itself.                         *)
(*                                                                         *)
(* Membership is fixed here: ChordRing and BlockPlacement model its        *)
(* changes. A node's store is the blocks it has listed under the root and  *)
(* the blocks whose bytes it has (NetworkBlockStore has the detail).       *)
(***************************************************************************)
EXTENDS DagFetch, Sequences

CONSTANTS
    Nodes,        \* the members of the ring
    Me,           \* the member that shares the DAG and may delete it
    Owner,        \* Owner[c]: the member responsible for block c
    Replicas,     \* Replicas[n]: the first k-1 successors of n, without n
    Concurrency,  \* DAGShareConcurrency
    Plans         \* what may follow the share: "fetch", "delete"

ASSUME RingAssumption ==
    /\ Me \in Nodes
    /\ Owner \in [Blocks -> Nodes]
    /\ Replicas \in [Nodes -> SUBSET Nodes]
    /\ \A n \in Nodes : n \notin Replicas[n]
    /\ Concurrency \in Nat \ {0}
    /\ Plans \subseteq {"fetch", "delete"}

VARIABLES
    walk, svisited, jobs, sclosed, sworker, shared, scancelled, sabandoned,
    sfailed, sresult,  \* the variables of DagShare
    plan,              \* what follows the share
    held,              \* held[n]: the blocks n lists under the root
    data,              \* data[n]: the blocks whose bytes n has
    pending,           \* <<c, n>>: a copy of c on its way to n (replicationsPending)
    mine,              \* the sharer's local store
    del,               \* the walk of DeleteCID
    missed             \* ghost: an error DeleteCID passes over, or a copy in flight

S == INSTANCE DagShare WITH
        visited <- svisited, closed <- sclosed, worker <- sworker,
        cancelled <- scancelled, abandoned <- sabandoned, failed <- sfailed,
        result <- sresult

shareVars == <<walk, svisited, jobs, sclosed, sworker, shared, scancelled,
               sabandoned, sfailed, sresult>>
storeVars == <<held, data, pending, mine>>
deleteVars == <<del, missed>>

\* pc "off" before the call, "walk", "tell" while an owner passes the deletion
\* on, "read" before the links of a block are read, and "end".
Off == [pc |-> "off", stack |-> <<>>, seen |-> {}, block |-> None, tell |-> {}]

RInit ==
    /\ Init
    /\ S!Init
    /\ plan \in Plans
    /\ held = [n \in Nodes |-> {}]
    /\ data = [n \in Nodes |-> {}]
    /\ pending = {}
    /\ mine = Blocks
    /\ del = Off
    /\ missed = FALSE

-----------------------------------------------------------------------------
\* n's store lists block c under the root.
Keep(n, c) ==
    /\ held' = [held EXCEPT ![n] = @ \cup {c}]
    /\ data' = [data EXCEPT ![n] = @ \cup {c}]

\* The owner keeps the bytes and forgets to list the root.
PutWithRoot_NoRoot(w) ==
    LET c == sworker[w].block IN
    /\ S!Put(w)
    /\ data' = [data EXCEPT ![Owner[c]] = @ \cup {c}]
    /\ \E T \in SUBSET Replicas[Owner[c]] : pending' = pending \cup ({c} \X T)
    /\ UNCHANGED <<held, mine>>

\* PutWithRoot: the owner stores the block and starts a copy to each replica for
\* which replicationSem has room.
PutWithRoot(w) ==
    LET c == sworker[w].block IN
    /\ S!Put(w)
    /\ Keep(Owner[c], c)
    /\ \E T \in SUBSET Replicas[Owner[c]] : pending' = pending \cup ({c} \X T)
    /\ UNCHANGED mine

\* A walk of the share reads the block from the local store.
ShareWalk(e) == S!WalkStep(e) /\ UNCHANGED storeVars

ShareWorker(w) ==
    \/ PutWithRoot(w)
    \/ /\ \/ \E c \in Blocks : S!Receive(w, c)
          \/ S!Check(w)
          \/ S!PutFails(w)
          \/ S!Exit(w)
       /\ UNCHANGED storeVars

ShareCaller == (S!Close \/ S!Return) /\ UNCHANGED storeVars
ShareCancel == S!Cancel /\ UNCHANGED storeVars

\* A copy arrives, or its push fails and stabilization will see to it.
replicateAsync(c, n) ==
    /\ <<c, n>> \in pending
    /\ pending' = pending \ {<<c, n>>}
    /\ Keep(n, c) \/ UNCHANGED <<held, data>>
    /\ UNCHANGED mine

\* The collector of n: bytes no root lists are deleted.
Gc(n) ==
    /\ data[n] # held[n]
    /\ data' = [data EXCEPT ![n] = held[n]]
    /\ UNCHANGED <<held, pending, mine>>

\* The sharer removes the DAG from its own files, and its collector runs.
ForgetLocal ==
    /\ sresult # "none"
    /\ plan = "delete"
    /\ mine # {}
    /\ mine' = {}
    /\ UNCHANGED <<held, data, pending>>

-----------------------------------------------------------------------------
\* RemoveRoot on the nodes of N.
RemoveRoot(N) ==
    held' = [n \in Nodes |-> IF n \in N THEN {} ELSE held[n]]

\* DeleteCID: the sharer's own entries go first.
DeleteCID ==
    /\ plan = "delete"
    /\ sresult # "none"
    /\ del.pc = "off"
    /\ RemoveRoot({Me})
    /\ del' = [Off EXCEPT !.pc = "walk", !.stack = <<Root>>]
    /\ missed' = (pending # {})
    /\ UNCHANGED <<data, pending, mine>>

\* The next block: seen before, or no route to its owner (the walk turns back),
\* or its owner does not answer (the walk goes on), or the owner forgets the
\* root.
deleteCIDWalk ==
    LET c == Head(del.stack)
        popped == [del EXCEPT !.stack = Tail(@)]
        visited_c == [popped EXCEPT !.seen = @ \cup {c}, !.block = c]
    IN  /\ del.pc = "walk"
        /\ del.stack # <<>>
        /\ \/ /\ c \in del.seen
              /\ del' = popped
              /\ UNCHANGED <<held, missed>>
           \/ /\ c \notin del.seen
              /\ del' = visited_c
              /\ missed' = TRUE
              /\ UNCHANGED held
           \/ /\ c \notin del.seen
              /\ del' = [visited_c EXCEPT !.pc = "read"]
              /\ missed' = TRUE
              /\ UNCHANGED held
           \/ /\ c \notin del.seen
              /\ RemoveRoot({Owner[c]})
              /\ del' = [visited_c EXCEPT !.pc = "tell", !.tell = Replicas[Owner[c]]]
              /\ UNCHANGED missed
        /\ UNCHANGED <<data, pending, mine>>

\* The owner tells nobody.
handleDeleteCID_Alone ==
    /\ del.pc = "tell"
    /\ del' = [del EXCEPT !.pc = "read", !.tell = {}]
    /\ UNCHANGED <<held, missed, data, pending, mine>>

\* handleDeleteCID on the owner: each successor is told without propagation, and
\* one that does not answer is passed over.
handleDeleteCID ==
    /\ del.pc = "tell"
    /\ \/ \E n \in del.tell :
            /\ del' = [del EXCEPT !.tell = @ \ {n}]
            /\ \/ RemoveRoot({n}) /\ UNCHANGED missed
               \/ missed' = TRUE /\ UNCHANGED held
       \/ /\ del.tell = {}
          /\ del' = [del EXCEPT !.pc = "read"]
          /\ UNCHANGED <<held, missed>>
    /\ UNCHANGED <<data, pending, mine>>

\* The links of a block one after the other, in whichever order it has them.
Orders(T) == {q \in [1..Cardinality(T) -> T] : \A x \in T : \E i \in DOMAIN q : q[i] = x}

\* The links are read from the sharer's local store or its part of the ring; a
\* block it cannot read ends this branch of the walk, without an error.
ReadLinks ==
    LET c == del.block IN
    /\ del.pc = "read"
    /\ IF c \in mine \cup data[Me]
       THEN /\ \E q \in Orders(Links[c]) : del' = [del EXCEPT !.pc = "walk", !.stack = q \o @]
            /\ UNCHANGED missed
       ELSE /\ del' = [del EXCEPT !.pc = "walk"]
            /\ missed' = TRUE
    /\ UNCHANGED storeVars

DeleteEnds ==
    /\ del.pc = "walk"
    /\ del.stack = <<>>
    /\ del' = [del EXCEPT !.pc = "end"]
    /\ UNCHANGED missed
    /\ UNCHANGED storeVars

DeleteStep == DeleteCID \/ deleteCIDWalk \/ handleDeleteCID \/ ReadLinks \/ DeleteEnds

-----------------------------------------------------------------------------
\* Some member of c's window answers a request for it.
Obtainable(c) ==
    \E n \in {Owner[c]} \cup Replicas[Owner[c]] : c \in data[n]

\* The fetch begins once the share has returned. A block it does not have comes
\* from a member that has it.
Fetching ==
    /\ plan = "fetch"
    /\ sresult # "none"
    /\ \A c \in local' \ local : Obtainable(c)

FetchSender(c) == SenderStep(c) /\ Fetching
FetchWorker(w) == WorkerStep(w) /\ Fetching
FetchCaller == (Close \/ Return) /\ Fetching
FetchCancel == Cancel /\ Fetching

Ended ==
    /\ sresult # "none"
    /\ plan = "fetch" => result # "none"
    /\ plan = "delete" => del.pc = "end"

\* The goroutines of the two pipelines and of the deletion.
Running ==
    \/ /\ \/ \E e \in S!Walks : ShareWalk(e)
          \/ \E w \in Workers : ShareWorker(w)
          \/ ShareCaller
       /\ UNCHANGED <<vars, plan, del, missed>>
    \/ /\ DeleteStep
       /\ UNCHANGED <<vars, shareVars, plan>>
    \/ /\ \/ \E c \in Blocks : FetchSender(c)
          \/ \E w \in Workers : FetchWorker(w)
          \/ FetchCaller
       /\ UNCHANGED <<shareVars, storeVars, deleteVars, plan>>

RNext ==
    \/ Running
    \/ ShareCancel /\ UNCHANGED <<vars, plan, del, missed>>
    \/ FetchCancel /\ UNCHANGED <<shareVars, storeVars, deleteVars, plan>>
    \/ /\ \/ \E c \in Blocks, n \in Nodes : replicateAsync(c, n)
          \/ \E n \in Nodes : Gc(n)
          \/ ForgetLocal
       /\ UNCHANGED <<vars, shareVars, plan, del, missed>>
    \/ /\ Ended
       /\ UNCHANGED <<vars, shareVars, storeVars, deleteVars, plan>>

rvars == <<vars, shareVars, storeVars, deleteVars, plan>>

RSpec == RInit /\ [][RNext]_rvars

\* The Go scheduler runs some goroutine that can run, whichever it likes, and a
\* store or an RPC returns; nothing makes a caller cancel, a collector run or a
\* copy arrive.
RFairSpec == RSpec /\ WF_rvars(Running)

-----------------------------------------------------------------------------
\* The share closes its channel of jobs only when no walk is left that could send
\* into it, and a share that returns nil to a caller that did not cancel has had
\* every block of the DAG acknowledged by its owner (dht/fetch.go 48-176).
ShareSafe ==
    /\ sclosed => S!Alive = {}
    /\ sresult = "ok" /\ ~sabandoned => shared = Reachable

\* What a share acknowledged stays on the ring until it is deleted: whatever
\* copies were dropped and however often the collectors ran since, a member of
\* its window has each block of the DAG, so a fetch can end well (dht/node.go
\* PutWithRoot, dht/fetch.go 48-176).
SharedStays ==
    sresult = "ok" /\ ~sabandoned /\ del.pc = "off" =>
        \A c \in Reachable : Obtainable(c)

\* A deletion that met no error, and began after the background copies had
\* arrived, leaves the root on no member: every owner and every replica is
\* reached through the links, even of a share that stopped half-way, while the
\* collectors delete the blocks the walk reads (dht/node.go 1206-1255,
\* 1343-1365).
DeleteComplete ==
    del.pc = "end" /\ ~missed => \A n \in Nodes : held[n] = {}

\* The share returns, and so does the fetch or the deletion that follows it:
\* neither the bounded channels, nor the semaphore a walk holds while it waits
\* for room, nor an error or a cancellation leaves a caller waiting (dht/fetch.go
\* 48-176, 191-290).
Ends == <>Ended
=============================================================================
