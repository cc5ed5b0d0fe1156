------------------------------ MODULE DagShare ------------------------------
(***************************************************************************)
(* The pipeline that shares a DAG with a ring, ShareDAGWithTTL of          *)
(* dht/fetch.go: one walk goroutine per link followed reads the block from *)
(* the local store under a semaphore, sends it into the bounded channel of *)
(* jobs and starts a walk for each of its links; a pool of workers puts    *)
(* the jobs into the ring. The caller waits for the walks, closes the      *)
(* channel and waits for the workers.                                      *)
(*                                                                         *)
(* A walk is named by the link it follows, <<parent, child>>: a block is   *)
(* visited once, so each of its links is followed at most once. The order  *)
(* of the channel plays no part: jobs is the set of blocks it holds.       *)
(***************************************************************************)
EXTENDS Dag

CONSTANT Concurrency  \* DAGShareConcurrency: the capacity of jobs and of walkSem

\* None is the parent of the root's walk.
Walks == {<<None, Root>>} \cup {e \in Blocks \X Blocks : e[2] \in Links[e[1]]}

VARIABLES
    walk,        \* walk[e]: how far the goroutine of link e has come
    visited,     \* blocks a walk has claimed
    jobs,        \* blocks in the channel
    closed,      \* jobs is closed
    worker,      \* worker[w]: program counter and block in hand
    shared,      \* blocks the ring has acknowledged
    cancelled,   \* pipeCtx is done
    abandoned,   \* the caller cancelled ctx, the parent of pipeCtx
    failed,      \* firstErr is set
    result       \* what ShareDAGWithTTL returned: "none" while it runs

vars == <<walk, visited, jobs, closed, worker, shared, cancelled, abandoned,
          failed, result>>

Running == {"start", "visit", "acquire", "read", "send"}

\* The permits of walkSem that are taken, and the count of walkWg.
Holders == {e \in Walks : walk[e] \in {"read", "send"}}
Alive == {e \in Walks : walk[e] \in Running}

Idle == [pc |-> "idle", block |-> None]

\* walkWg.Add(1), go walk(root), with the workers already started.
Init ==
    /\ walk = [e \in Walks |-> IF e = <<None, Root>> THEN "start" ELSE "none"]
    /\ visited = {}
    /\ jobs = {}
    /\ closed = FALSE
    /\ worker = [w \in Workers |-> Idle]
    /\ shared = {}
    /\ cancelled = FALSE
    /\ abandoned = FALSE
    /\ failed = FALSE
    /\ result = "none"

-----------------------------------------------------------------------------
\* A walk looks at the context first.
CheckContext(e) ==
    /\ walk[e] = "start"
    /\ walk' = [walk EXCEPT ![e] = IF cancelled THEN "end" ELSE "visit"]
    /\ UNCHANGED <<visited, jobs, closed, worker, shared, cancelled, abandoned,
                   failed, result>>

\* Then it claims its block, under visitedMu.
Visit(e) ==
    /\ walk[e] = "visit"
    /\ walk' = [walk EXCEPT ![e] = IF e[2] \in visited THEN "end" ELSE "acquire"]
    /\ visited' = visited \cup {e[2]}
    /\ UNCHANGED <<jobs, closed, worker, shared, cancelled, abandoned, failed,
                   result>>

\* It takes a permit of walkSem, held until it ends.
Acquire(e) ==
    /\ walk[e] = "acquire"
    /\ Cardinality(Holders) < Concurrency
    /\ walk' = [walk EXCEPT ![e] = "read"]
    /\ UNCHANGED <<visited, jobs, closed, worker, shared, cancelled, abandoned,
                   failed, result>>

\* Waiting for a permit or for room in the channel ends with the context.
Abort(e) ==
    /\ walk[e] \in {"acquire", "send"}
    /\ cancelled
    /\ walk' = [walk EXCEPT ![e] = "end"]
    /\ UNCHANGED <<visited, jobs, closed, worker, shared, cancelled, abandoned,
                   failed, result>>

\* It reads the block from the local store, with the caller's context ...
Read(e) ==
    /\ walk[e] = "read"
    /\ walk' = [walk EXCEPT ![e] = "send"]
    /\ UNCHANGED <<visited, jobs, closed, worker, shared, cancelled, abandoned,
                   failed, result>>

\* ... and an error is kept by setErr, which cancels the pipeline.
ReadFails(e) ==
    /\ walk[e] = "read"
    /\ Faulty \/ abandoned
    /\ walk' = [walk EXCEPT ![e] = "end"]
    /\ failed' = TRUE
    /\ cancelled' = TRUE
    /\ UNCHANGED <<visited, jobs, closed, worker, shared, abandoned, result>>

\* The channel takes the job; the walk starts one walk per link, each added to
\* walkWg before this one is done, and ends.
Send(e) ==
    /\ walk[e] = "send"
    /\ Cardinality(jobs) < Concurrency
    /\ jobs' = jobs \cup {e[2]}
    /\ walk' = [f \in Walks |->
                  IF f = e THEN "end" ELSE IF f[1] = e[2] THEN "start" ELSE walk[f]]
    /\ UNCHANGED <<visited, closed, worker, shared, cancelled, abandoned, failed,
                   result>>

\* The caller does not wait for the walks that still sleep on the semaphore.
Close_Early ==
    /\ ~closed
    /\ Holders = {}
    /\ Alive # {<<None, Root>>}
    /\ closed' = TRUE
    /\ UNCHANGED <<walk, visited, jobs, worker, shared, cancelled, abandoned,
                   failed, result>>

\* walkWg.Wait(), close(jobs).
Close ==
    /\ ~closed
    /\ Alive = {}
    /\ closed' = TRUE
    /\ UNCHANGED <<walk, visited, jobs, worker, shared, cancelled, abandoned,
                   failed, result>>

-----------------------------------------------------------------------------
\* A worker receives a job.
Receive(w, c) ==
    /\ worker[w].pc = "idle"
    /\ c \in jobs
    /\ jobs' = jobs \ {c}
    /\ worker' = [worker EXCEPT ![w] = [pc |-> "check", block |-> c]]
    /\ UNCHANGED <<walk, visited, closed, shared, cancelled, abandoned, failed,
                   result>>

\* It skips the job when the pipeline is cancelled.
Check(w) ==
    /\ worker[w].pc = "check"
    /\ worker' = [worker EXCEPT ![w] =
                     IF cancelled THEN Idle ELSE [@ EXCEPT !.pc = "put"]]
    /\ UNCHANGED <<walk, visited, jobs, closed, shared, cancelled, abandoned,
                   failed, result>>

\* PutWithRoot: the ring has the block.
Put(w) ==
    /\ worker[w].pc = "put"
    /\ shared' = shared \cup {worker[w].block}
    /\ worker' = [worker EXCEPT ![w] = Idle]
    /\ UNCHANGED <<walk, visited, jobs, closed, cancelled, abandoned, failed,
                   result>>

\* PutWithRoot fails, of itself or because the context is done.
PutFails(w) ==
    /\ worker[w].pc = "put"
    /\ Faulty \/ cancelled
    /\ failed' = TRUE
    /\ cancelled' = TRUE
    /\ worker' = [worker EXCEPT ![w] = Idle]
    /\ UNCHANGED <<walk, visited, jobs, closed, shared, abandoned, result>>

\* A worker leaves its loop over the closed and drained channel.
Exit(w) ==
    /\ worker[w].pc = "idle"
    /\ closed
    /\ jobs = {}
    /\ worker' = [worker EXCEPT ![w].pc = "exit"]
    /\ UNCHANGED <<walk, visited, jobs, closed, shared, cancelled, abandoned,
                   failed, result>>

\* wg.Wait() and the result; the deferred cancel ends pipeCtx, and what the walks
\* knew is gone.
Return ==
    /\ result = "none"
    /\ \A w \in Workers : worker[w].pc = "exit"
    /\ result' = IF failed THEN "error" ELSE "ok"
    /\ cancelled' = TRUE
    /\ walk' = [e \in Walks |-> "none"]
    /\ visited' = {}
    /\ failed' = FALSE
    /\ UNCHANGED <<jobs, closed, worker, shared, abandoned>>

\* The caller cancels ctx while the pipeline runs.
Cancel ==
    /\ Impatient
    /\ result = "none"
    /\ ~abandoned
    /\ abandoned' = TRUE
    /\ cancelled' = TRUE
    /\ UNCHANGED <<walk, visited, jobs, closed, worker, shared, failed, result>>

WalkStep(e) ==
    \/ CheckContext(e)
    \/ Visit(e)
    \/ Acquire(e)
    \/ Abort(e)
    \/ Read(e)
    \/ ReadFails(e)
    \/ Send(e)

WorkerStep(w) ==
    \/ \E c \in Blocks : Receive(w, c)
    \/ Check(w)
    \/ Put(w)
    \/ PutFails(w)
    \/ Exit(w)

\* The caller has its answer and every goroutine has ended.
Terminated == result # "none" /\ UNCHANGED vars

Next ==
    \/ \E e \in Walks : WalkStep(e)
    \/ \E w \in Workers : WorkerStep(w)
    \/ Close
    \/ Return
    \/ Cancel
    \/ Terminated

Spec == Init /\ [][Next]_vars
=============================================================================
