------------------------------ MODULE DagFetch ------------------------------
(***************************************************************************)
(* The pipeline that fetches a DAG of blocks, dht/fetch.go: one goroutine  *)
(* per block waits to send it into the bounded work queue, a fixed pool of *)
(* workers fetches blocks and enqueues their links, a closer goroutine     *)
(* waits for the count of blocks in flight to reach zero and then closes   *)
(* the queue, and the caller waits for the workers.                        *)
(*                                                                         *)
(* The order of the channel plays no part in any property: the queue is   *)
(* the set of blocks it holds.                                             *)
(***************************************************************************)
EXTENDS Dag

CONSTANTS
    Stored,      \* the blocks the local store holds at the start
    QueueSize    \* the capacity of workQueue

ASSUME StoredAssumption == Stored \subseteq Blocks
ASSUME QueueAssumption == QueueSize \in Nat \ {0}

VARIABLES
    local,       \* blocks in the local store
    visited,     \* blocks enqueue has already seen
    senders,     \* blocks whose goroutine waits to send into workQueue
    queue,       \* blocks in workQueue
    closed,      \* workQueue is closed
    inflight,    \* the WaitGroup of blocks not finished
    worker,      \* worker[w]: program counter, block in hand, links to enqueue
    cancelled,   \* pipeCtx is done
    abandoned,   \* the caller cancelled ctx, the parent of pipeCtx
    failed,      \* firstErr is set
    result       \* what fetchDAGPipeline returned: "none" while it runs

vars == <<local, visited, senders, queue, closed, inflight, worker, cancelled,
          abandoned, failed, result>>

Idle == [pc |-> "idle", block |-> None, todo |-> {}]

\* enqueue(root), made before the closer goroutine starts.
Init ==
    /\ local = Stored
    /\ visited = {Root}
    /\ senders = {Root}
    /\ queue = {}
    /\ closed = FALSE
    /\ inflight = 1
    /\ worker = [w \in Workers |-> Idle]
    /\ cancelled = FALSE
    /\ abandoned = FALSE
    /\ failed = FALSE
    /\ result = "none"

-----------------------------------------------------------------------------
\* The goroutine of enqueue: the queue takes the block ...
Send(c) ==
    /\ c \in senders
    /\ Cardinality(queue) < QueueSize
    /\ senders' = senders \ {c}
    /\ queue' = queue \cup {c}
    /\ UNCHANGED <<local, visited, closed, inflight, worker, cancelled,
                   abandoned, failed, result>>

\* The goroutine forgets inflight.Done on the cancelled branch.
GiveUp_NotDone(c) ==
    /\ c \in senders
    /\ cancelled
    /\ senders' = senders \ {c}
    /\ UNCHANGED <<local, visited, queue, closed, inflight, worker, cancelled,
                   abandoned, failed, result>>

\* ... or the context is done first, and the block is given up.
GiveUp(c) ==
    /\ c \in senders
    /\ cancelled
    /\ senders' = senders \ {c}
    /\ inflight' = inflight - 1
    /\ UNCHANGED <<local, visited, queue, closed, worker, cancelled,
                   abandoned, failed, result>>

\* A worker receives a block.
Receive(w, c) ==
    /\ worker[w].pc = "idle"
    /\ c \in queue
    /\ queue' = queue \ {c}
    /\ worker' = [worker EXCEPT ![w] = [pc |-> "check", block |-> c, todo |-> {}]]
    /\ UNCHANGED <<local, visited, senders, closed, inflight, cancelled,
                   abandoned, failed, result>>

\* A cancelled pipeline puts the block back for somebody else.
Check_Requeues(w) ==
    /\ worker[w].pc = "check"
    /\ IF cancelled
       THEN queue' = queue \cup {worker[w].block} /\ worker' = [worker EXCEPT ![w] = Idle]
       ELSE worker' = [worker EXCEPT ![w].pc = "fetch"] /\ UNCHANGED queue
    /\ UNCHANGED <<local, visited, senders, closed, inflight, cancelled,
                   abandoned, failed, result>>

\* pipeCtx.Err(): a cancelled pipeline drops the block and goes on draining.
Check(w) ==
    /\ worker[w].pc = "check"
    /\ worker' = [worker EXCEPT ![w].pc = IF cancelled THEN "done" ELSE "fetch"]
    /\ UNCHANGED <<local, visited, senders, queue, closed, inflight, cancelled,
                   abandoned, failed, result>>

\* fetchOneDAGBlock succeeds: the block is in the local store, read from it or
\* fetched and stored.
fetchOneDAGBlock(w) ==
    /\ worker[w].pc = "fetch"
    /\ local' = local \cup {worker[w].block}
    /\ worker' = [worker EXCEPT ![w].pc = "links",
                                ![w].todo = Links[worker[w].block]]
    /\ UNCHANGED <<visited, senders, queue, closed, inflight, cancelled,
                   abandoned, failed, result>>

\* The error is dropped: the block is skipped as if it had no links.
FetchFails_Ignored(w) ==
    /\ worker[w].pc = "fetch"
    /\ Faulty \/ cancelled
    /\ worker' = [worker EXCEPT ![w].pc = "done"]
    /\ UNCHANGED <<local, visited, senders, queue, closed, inflight, cancelled,
                   abandoned, failed, result>>

\* Has, Get, the fetch or Put returns an error, of its own or because the
\* context is done: setErr keeps the first one and cancels the pipeline.
FetchFails(w) ==
    /\ worker[w].pc = "fetch"
    /\ Faulty \/ cancelled
    /\ failed' = TRUE
    /\ cancelled' = TRUE
    /\ worker' = [worker EXCEPT ![w].pc = "done"]
    /\ UNCHANGED <<local, visited, senders, queue, closed, inflight, abandoned,
                   result>>

\* enqueue(child): a block seen before is not sent again.
enqueue(w, c) ==
    /\ worker[w].pc = "links"
    /\ c \in worker[w].todo
    /\ worker' = [worker EXCEPT ![w].todo = @ \ {c}]
    /\ visited' = visited \cup {c}
    /\ IF c \in visited
       THEN UNCHANGED <<senders, inflight>>
       ELSE senders' = senders \cup {c} /\ inflight' = inflight + 1
    /\ UNCHANGED <<local, queue, closed, cancelled, abandoned, failed, result>>

\* The worker is through with its block.
Done(w) ==
    /\ \/ worker[w].pc = "links" /\ worker[w].todo = {}
       \/ worker[w].pc = "done"
    /\ inflight' = inflight - 1
    /\ worker' = [worker EXCEPT ![w] = Idle]
    /\ UNCHANGED <<local, visited, senders, queue, closed, cancelled,
                   abandoned, failed, result>>

\* The closer waits for the queue to be empty instead of the WaitGroup.
Close_WhenEmpty ==
    /\ queue = {}
    /\ ~closed
    /\ closed' = TRUE
    /\ UNCHANGED <<local, visited, senders, queue, inflight, worker, cancelled,
                   abandoned, failed, result>>

\* The closer goroutine: inflight.Wait(), close(workQueue).
Close ==
    /\ inflight = 0
    /\ ~closed
    /\ closed' = TRUE
    /\ UNCHANGED <<local, visited, senders, queue, inflight, worker, cancelled,
                   abandoned, failed, result>>

\* A worker leaves its loop over the closed and drained queue.
Exit(w) ==
    /\ worker[w].pc = "idle"
    /\ closed
    /\ queue = {}
    /\ worker' = [worker EXCEPT ![w].pc = "exit"]
    /\ UNCHANGED <<local, visited, senders, queue, closed, inflight, cancelled,
                   abandoned, failed, result>>

\* wg.Wait() and the result; the deferred cancel ends pipeCtx.
Return ==
    /\ result = "none"
    /\ \A w \in Workers : worker[w].pc = "exit"
    /\ result' = IF failed THEN "error" ELSE "ok"
    /\ cancelled' = TRUE
    /\ UNCHANGED <<local, visited, senders, queue, closed, inflight, worker,
                   abandoned, failed>>

\* The caller cancels ctx while the pipeline runs.
Cancel ==
    /\ Impatient
    /\ result = "none"
    /\ ~abandoned
    /\ abandoned' = TRUE
    /\ cancelled' = TRUE
    /\ UNCHANGED <<local, visited, senders, queue, closed, inflight, worker,
                   failed, result>>

WorkerStep(w) ==
    \/ \E c \in Blocks : Receive(w, c) \/ enqueue(w, c)
    \/ Check(w)
    \/ fetchOneDAGBlock(w)
    \/ FetchFails(w)
    \/ Done(w)
    \/ Exit(w)

SenderStep(c) == Send(c) \/ GiveUp(c)

\* The caller has its answer and every goroutine has ended.
Terminated == result # "none" /\ UNCHANGED vars

Next ==
    \/ \E c \in Blocks : SenderStep(c)
    \/ \E w \in Workers : WorkerStep(w)
    \/ Close
    \/ Return
    \/ Cancel
    \/ Terminated

Spec == Init /\ [][Next]_vars

-----------------------------------------------------------------------------
Busy == {w \in Workers : worker[w].pc \in {"check", "fetch", "links", "done"}}

WorkerState ==
    [pc : {"idle", "check", "fetch", "links", "done", "exit"},
     block : Blocks \cup {None}, todo : SUBSET Blocks]

\* Every variable keeps its type; the WaitGroup never goes below zero, where Go
\* panics.
TypeOK ==
    /\ local \subseteq Blocks
    /\ visited \subseteq Blocks
    /\ senders \subseteq Blocks
    /\ queue \subseteq Blocks
    /\ closed \in BOOLEAN
    /\ inflight \in Nat
    /\ worker \in [Workers -> WorkerState]
    /\ cancelled \in BOOLEAN
    /\ abandoned \in BOOLEAN
    /\ failed \in BOOLEAN
    /\ result \in {"none", "ok", "error"}

\* The WaitGroup counts exactly the blocks waiting to be sent, in the queue and
\* in the hands of a worker, on the error and cancellation paths too
\* (dht/fetch.go 221-252). One Done too many and Go panics, one too few and
\* the queue is never closed.
InflightExact ==
    inflight = Cardinality(senders) + Cardinality(queue) + Cardinality(Busy)

\* Once the closer has closed workQueue no goroutine waits to send into it and
\* no worker can start one: a send on a closed channel panics
\* (dht/fetch.go 224-234, 257-260).
NoSendOnClosed ==
    closed => senders = {} /\ queue = {} /\ Busy = {}

\* A call that returns nil, and whose caller did not cancel, has put the whole
\* DAG in the local store: no block is forgotten by the race between workers
\* enqueueing links and the closer, nor by two workers meeting one child
\* (dht/fetch.go 191-290).
FetchComplete == result = "ok" /\ ~abandoned => Reachable \subseteq local
=============================================================================
