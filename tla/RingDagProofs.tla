--------------------------- MODULE RingDagProofs ---------------------------
(***************************************************************************)
(* The fetch and the share of a DAG, each as a pipeline, and the life of   *)
(* the DAG on the ring. The WaitGroup of the fetch counts exactly, nobody  *)
(* sends into a closed channel, and a pipeline that returns nil has walked *)
(* the whole DAG; what a share acknowledged stays obtainable, and a        *)
(* deletion that met no error leaves the root nowhere. All of it for any   *)
(* DAG, any number of workers and walks, any capacity of the queue and any *)
(* assignment of blocks to members.                                        *)
(***************************************************************************)
EXTENDS RingDag, FiniteSetTheorems, TLAPS


\* A block waits in one place at a time and was seen by enqueue first, and a
\* busy worker has a block: without this a send or an enqueue might not add
\* one to what the WaitGroup has to count.
OnePlace ==
    /\ senders \cup queue \subseteq visited
    /\ senders \cap queue = {}
    /\ \A w \in Busy : worker[w].block \in Blocks

\* The inductive invariant.
IInv == TypeOK /\ InflightExact /\ NoSendOnClosed /\ OnePlace

\* The sets that are counted are finite.
LEMMA CountedFinite ==
    ASSUME TypeOK
    PROVE  /\ IsFiniteSet(senders) /\ Cardinality(senders) \in Nat
           /\ IsFiniteSet(queue) /\ Cardinality(queue) \in Nat
           /\ IsFiniteSet(Busy) /\ Cardinality(Busy) \in Nat
<1>1. IsFiniteSet(senders) /\ IsFiniteSet(queue)
  BY FiniteAssumption, FS_Subset, Zenon DEF TypeOK
<1>2. IsFiniteSet(Busy)
  <2>1. Busy \in SUBSET Workers
    BY Zenon DEF Busy
  <2> QED BY <2>1, FiniteAssumption, FS_Subset, Zenon
<1> QED BY <1>1, <1>2, FS_CardinalityType, Zenon

\* A WaitGroup at zero means that nothing is counted.
LEMMA ZeroMeansEmpty ==
    ASSUME TypeOK, InflightExact, inflight = 0
    PROVE  senders = {} /\ queue = {} /\ Busy = {}
<1>1. Cardinality(senders) = 0 /\ Cardinality(queue) = 0 /\ Cardinality(Busy) = 0
  BY CountedFinite DEF InflightExact
<1> QED BY <1>1, CountedFinite, FS_EmptySet, Zenon

\* enqueue(root) counts the root (dht/fetch.go 221-256).
LEMMA InitIInv == Init => IInv
<1> SUFFICES ASSUME Init PROVE IInv
  BY Zenon
<1>1. Busy = {}
  BY Zenon DEF Init, Busy, Idle
<1>2. TypeOK
  BY RootAssumption, StoredAssumption, NoneAssumption, Zenon DEF Init, TypeOK, WorkerState, Idle
<1>3. InflightExact
  <2>1. Cardinality({Root}) = 1 /\ Cardinality({}) = 0
    BY FS_Singleton, FS_EmptySet, Zenon
  <2> QED BY <1>1, <2>1 DEF Init, InflightExact
<1>4. NoSendOnClosed /\ OnePlace
  BY <1>1, Zenon DEF Init, NoSendOnClosed, OnePlace
<1> QED BY <1>2, <1>3, <1>4, Zenon DEF IInv

\* A worker that starts a block joins the busy ones, a worker that is through
\* with one leaves them, and the steps in between change nothing.
LEMMA BusyChange ==
    ASSUME TypeOK, NEW w \in Workers, NEW v \in WorkerState,
           worker' = [worker EXCEPT ![w] = v]
    PROVE  Busy' = IF v.pc \in {"check", "fetch", "links", "done"}
                   THEN Busy \cup {w} ELSE Busy \ {w}
  BY Zenon DEF TypeOK, Busy, WorkerState

\* The goroutine of enqueue sends its block or gives it up (dht/fetch.go 224-233).
LEMMA SenderIInv ==
    ASSUME IInv, NEW c \in Blocks, SenderStep(c)
    PROVE  IInv'
<1> USE DEF IInv
<1>f. /\ IsFiniteSet(senders) /\ Cardinality(senders) \in Nat
      /\ IsFiniteSet(queue) /\ Cardinality(queue) \in Nat
      /\ IsFiniteSet(Busy) /\ Cardinality(Busy) \in Nat
  BY CountedFinite, Zenon
<1>b. Busy' = Busy /\ worker' = worker
  BY Zenon DEF SenderStep, Send, GiveUp, Busy
<1>r. /\ c \in senders /\ senders' = senders \ {c} 
      /\ Cardinality(senders \ {c}) \in Nat
      /\ Cardinality(senders) = Cardinality(senders \ {c}) + 1
  <2>1. c \in senders /\ senders' = senders \ {c}
    BY Zenon DEF SenderStep, Send, GiveUp
  <2>2. IsFiniteSet(senders \ {c}) /\ Cardinality(senders \ {c}) = Cardinality(senders) - 1
    BY <2>1, <1>f, FS_RemoveElement, Zenon
  <2> QED BY <2>1, <2>2, <1>f, FS_CardinalityType
<1>c. ~closed
  BY <1>r, Zenon DEF NoSendOnClosed
<1>1. CASE Send(c)
  <2>1. TypeOK'
    BY <1>1, Zenon DEF Send, TypeOK
  <2>2. c \notin queue
    BY <1>r, Zenon DEF OnePlace
  <2>3. Cardinality(queue') = Cardinality(queue) + 1
    BY <1>1, <1>f, <2>2, FS_AddElement, Zenon DEF Send
  <2>4. InflightExact'
    BY <1>1, <1>b, <1>f, <1>r, <2>3 DEF Send, InflightExact
  <2>5. NoSendOnClosed' /\ OnePlace'
    BY <1>1, <1>b, <1>c, <1>r, Zenon DEF Send, NoSendOnClosed, OnePlace
  <2> QED BY <2>1, <2>4, <2>5, Zenon
<1>2. CASE GiveUp(c)
  <2>1. InflightExact'
    BY <1>2, <1>b, <1>f, <1>r DEF GiveUp, InflightExact
  <2>2. inflight - 1 \in Nat
    BY <1>2, <2>1, <1>b, <1>f, <1>r DEF GiveUp, InflightExact, TypeOK
  <2>3. TypeOK'
    BY <1>2, <2>2, Zenon DEF GiveUp, TypeOK
  <2>4. NoSendOnClosed' /\ OnePlace'
    BY <1>2, <1>b, <1>c, <1>r, Zenon DEF GiveUp, NoSendOnClosed, OnePlace
  <2> QED BY <2>1, <2>3, <2>4, Zenon
<1> QED BY <1>1, <1>2, Zenon DEF SenderStep

\* A worker takes a block from the queue, works on it and leaves the loop
\* (dht/fetch.go 236-256).
LEMMA WorkerIInv ==
    ASSUME IInv, NEW w \in Workers, WorkerStep(w)
    PROVE  IInv'
<1> USE DEF IInv
<1>f. /\ IsFiniteSet(senders) /\ Cardinality(senders) \in Nat
      /\ IsFiniteSet(queue) /\ Cardinality(queue) \in Nat
      /\ IsFiniteSet(Busy) /\ Cardinality(Busy) \in Nat
  BY CountedFinite
<1>w. worker[w] \in WorkerState
  BY Zenon DEF TypeOK
<1>1. ASSUME NEW c \in Blocks, Receive(w, c) PROVE IInv'
  <2> DEFINE v == [pc |-> "check", block |-> c, todo |-> {}]
  <2>1. v \in WorkerState
    BY Zenon DEF WorkerState
  <2>2. worker' = [worker EXCEPT ![w] = v] /\ v.pc = "check"
    BY <1>1, Zenon DEF Receive
  <2>3. Busy' = Busy \cup {w}
    BY <2>1, <2>2, BusyChange, Zenon
  <2>4. w \notin Busy
    BY <1>1, Zenon DEF Receive, Busy
  <2>5. Cardinality(Busy') = Cardinality(Busy) + 1
    BY <2>3, <2>4, <1>f, FS_AddElement, Zenon
  <2>6. Cardinality(queue') = Cardinality(queue) - 1
    BY <1>1, <1>f, FS_RemoveElement, Zenon DEF Receive
  <2>7. TypeOK'
    BY <1>1, <2>1, <2>2, Zenon DEF Receive, TypeOK
  <2>8. InflightExact'
    BY <1>1, <2>5, <2>6, <1>f DEF Receive, InflightExact
  <2>9. NoSendOnClosed'
    BY <1>1, Zenon DEF Receive, NoSendOnClosed
  <2>10. OnePlace'
    BY <1>1, <2>2, <2>3 DEF Receive, OnePlace, TypeOK, Busy
  <2> QED BY <2>7, <2>8, <2>9, <2>10, Zenon
<1>2. ASSUME NEW c \in Blocks, enqueue(w, c) PROVE IInv'
  <2> DEFINE v == [worker[w] EXCEPT !.todo = @ \ {c}]
  <2>1. v \in WorkerState /\ v.pc = "links" /\ v.block = worker[w].block
    BY <1>2, <1>w, Zenon DEF enqueue, WorkerState
  <2>2. worker' = [worker EXCEPT ![w] = v]
    BY <1>2, Zenon DEF enqueue
  <2>3. w \in Busy
    BY <1>2, Zenon DEF enqueue, Busy
  <2> HIDE DEF v
  <2>4. Busy' = Busy
    BY <2>1, <2>2, <2>3, BusyChange, Zenon
  <2>5. TypeOK'
    <3>1. worker' \in [Workers -> WorkerState]
      BY <2>1, <2>2, Zenon DEF TypeOK
    <3>2. senders' \subseteq Blocks /\ visited' \subseteq Blocks /\ inflight' \in Nat
      BY <1>2 DEF enqueue, TypeOK
    <3> QED BY <1>2, <3>1, <3>2, Zenon DEF enqueue, TypeOK
  <2>6. InflightExact'
    <3>1. CASE c \in visited
      BY <1>2, <2>4, <3>1, Zenon DEF enqueue, InflightExact
    <3>2. CASE c \notin visited
      <4>1. c \notin senders
        BY <3>2, Zenon DEF OnePlace
      <4>2. Cardinality(senders') = Cardinality(senders) + 1
        BY <1>2, <1>f, <3>2, <4>1, FS_AddElement, Zenon DEF enqueue
      <4> QED BY <1>2, <1>f, <2>4, <3>2, <4>2 DEF enqueue, InflightExact
    <3> QED BY <3>1, <3>2, Zenon
  <2>7. NoSendOnClosed'
    BY <1>2, <2>3, Zenon DEF enqueue, NoSendOnClosed
  <2>8. OnePlace'
    <3>1. senders' \cup queue' \subseteq visited' /\ senders' \cap queue' = {}
      BY <1>2, Zenon DEF enqueue, OnePlace
    <3>2. \A x \in Busy' : worker'[x].block \in Blocks
      BY <2>1, <2>2, <2>3, <2>4, Zenon DEF OnePlace, Busy, TypeOK
    <3> QED BY <3>1, <3>2, Zenon DEF OnePlace
  <2> QED BY <2>5, <2>6, <2>7, <2>8
<1>3. ASSUME Check(w) \/ fetchOneDAGBlock(w) \/ FetchFails(w) PROVE IInv'
  <2>1. PICK v \in WorkerState :
          /\ worker' = [worker EXCEPT ![w] = v]
          /\ v.pc \in {"check", "fetch", "links", "done"}
          /\ v.block = worker[w].block
    <3>1. worker[w].pc \in {"check", "fetch"}
      BY <1>3, Zenon DEF Check, fetchOneDAGBlock, FetchFails
    <3>2. worker[w].block \in Blocks
      BY <3>1, Zenon DEF OnePlace, Busy
    <3>3. Links[worker[w].block] \in SUBSET Blocks
      BY <3>2, LinksAssumption, Zenon
    <3>4. CASE Check(w)
      <4> DEFINE u == [worker[w] EXCEPT !.pc = IF cancelled THEN "done" ELSE "fetch"]
      <4>1. u \in WorkerState /\ u.pc \in {"fetch", "done"} /\ u.block = worker[w].block
        BY <1>w, Zenon DEF WorkerState
      <4>2. worker' = [worker EXCEPT ![w] = u]
        BY <3>4, Zenon DEF Check
      <4> QED BY <4>1, <4>2, Zenon
    <3>5. CASE fetchOneDAGBlock(w)
      <4> DEFINE u == [worker[w] EXCEPT !.pc = "links", !.todo = Links[worker[w].block]]
      <4>1. u \in WorkerState /\ u.pc = "links" /\ u.block = worker[w].block
        BY <1>w, <3>3, Zenon DEF WorkerState
      <4>2. worker' = [worker EXCEPT ![w] = u]
        BY <3>5, <1>w, Zenon DEF fetchOneDAGBlock, TypeOK, WorkerState
      <4> QED BY <4>1, <4>2, Zenon
    <3>6. CASE FetchFails(w)
      <4> DEFINE u == [worker[w] EXCEPT !.pc = "done"]
      <4>1. u \in WorkerState /\ u.pc = "done" /\ u.block = worker[w].block
        BY <1>w, Zenon DEF WorkerState
      <4>2. worker' = [worker EXCEPT ![w] = u]
        BY <3>6, Zenon DEF FetchFails
      <4> QED BY <4>1, <4>2, Zenon
    <3> QED BY <1>3, <3>4, <3>5, <3>6, Zenon
  <2>2. w \in Busy /\ worker[w].block \in Blocks
    BY <1>3, Zenon DEF Check, fetchOneDAGBlock, FetchFails, Busy, OnePlace
  <2>3. Busy' = Busy
    BY <2>1, <2>2, BusyChange, Zenon
  <2>4. UNCHANGED <<visited, senders, queue, closed, inflight>>
    BY <1>3, Zenon DEF Check, fetchOneDAGBlock, FetchFails
  <2>5. TypeOK'
    BY <1>3, <2>1, <2>2, <2>4, Zenon DEF Check, fetchOneDAGBlock, FetchFails, TypeOK
  <2>6. InflightExact' /\ NoSendOnClosed'
    BY <2>3, <2>4, Zenon DEF InflightExact, NoSendOnClosed
  <2>7. OnePlace'
    BY <2>1, <2>2, <2>3, <2>4, Zenon DEF OnePlace, TypeOK, Busy
  <2> QED BY <2>5, <2>6, <2>7, Zenon
<1>4. ASSUME Done(w) PROVE IInv'
  <2>1. Idle \in WorkerState /\ Idle.pc = "idle" /\ worker' = [worker EXCEPT ![w] = Idle]
    BY <1>4, Zenon DEF Done, Idle, WorkerState
  <2>2. Busy' = Busy \ {w}
    BY <2>1, BusyChange, Zenon
  <2>3. w \in Busy
    BY <1>4, Zenon DEF Done, Busy
  <2>4. IsFiniteSet(Busy') /\ Cardinality(Busy') = Cardinality(Busy) - 1
    BY <2>2, <2>3, <1>f, FS_RemoveElement, Zenon
  <2>5. Cardinality(Busy') \in Nat
    BY <2>4, FS_CardinalityType, Zenon
  <2>6. InflightExact' /\ inflight' \in Nat
    BY <1>4, <1>f, <2>4, <2>5 DEF Done, InflightExact
  <2>7. TypeOK'
    BY <1>4, <2>1, <2>6, Zenon DEF Done, TypeOK
  <2>8. NoSendOnClosed'
    BY <1>4, <2>3, Zenon DEF Done, NoSendOnClosed
  <2>9. OnePlace'
    BY <1>4, <2>1, <2>2, Zenon DEF Done, OnePlace, TypeOK, Busy
  <2> QED BY <2>6, <2>7, <2>8, <2>9, Zenon
<1>5. ASSUME Exit(w) PROVE IInv'
  <2> DEFINE v == [worker[w] EXCEPT !.pc = "exit"]
  <2>1. v \in WorkerState /\ v.pc = "exit" /\ worker' = [worker EXCEPT ![w] = v]
    BY <1>5, <1>w, Zenon DEF Exit, WorkerState
  <2>2. Busy' = Busy
    BY <1>5, <2>1, BusyChange DEF Exit, Busy
  <2>3. UNCHANGED <<visited, senders, queue, closed, inflight>>
    BY <1>5, Zenon DEF Exit
  <2>4. TypeOK'
    BY <1>5, <2>1, Zenon DEF Exit, TypeOK
  <2>5. InflightExact' /\ NoSendOnClosed'
    BY <2>2, <2>3, Zenon DEF InflightExact, NoSendOnClosed
  <2>6. OnePlace'
    BY <1>5, <2>1, <2>2, <2>3, Zenon DEF Exit, OnePlace, TypeOK, Busy
  <2> QED BY <2>4, <2>5, <2>6, Zenon
<1> QED BY <1>1, <1>2, <1>3, <1>4, <1>5, Zenon DEF WorkerStep

\* Every step preserves the invariant; the closer is where NoSendOnClosed is
\* earned: the WaitGroup is exact, so at zero nothing is left to send.
LEMMA NextIInv == IInv /\ [Next]_vars => IInv'
<1> SUFFICES ASSUME IInv, [Next]_vars PROVE IInv'
  BY Zenon
<1> USE DEF IInv
<1>1. ASSUME NEW c \in Blocks, SenderStep(c) PROVE IInv'
  BY <1>1, SenderIInv, Zenon
<1>2. ASSUME NEW w \in Workers, WorkerStep(w) PROVE IInv'
  BY <1>2, WorkerIInv
<1>3. CASE Close
  <2>1. Busy' = Busy /\ senders' = senders /\ queue' = queue
    BY <1>3, Zenon DEF Close, Busy
  <2>2. senders = {} /\ queue = {} /\ Busy = {}
    BY <1>3, ZeroMeansEmpty, Zenon DEF Close
  <2>3. TypeOK' /\ InflightExact' /\ OnePlace'
    BY <1>3, <2>1, Zenon DEF Close, TypeOK, InflightExact, OnePlace
  <2> QED BY <2>1, <2>2, <2>3, Zenon DEF NoSendOnClosed
<1>4. CASE Return \/ Cancel
  <2>1. UNCHANGED <<local, visited, senders, queue, closed, inflight, worker>>
    BY <1>4, Zenon DEF Return, Cancel
  <2>2. Busy' = Busy
    BY <2>1, Zenon DEF Busy
  <2>3. TypeOK'
    BY <1>4, Zenon DEF Return, Cancel, TypeOK
  <2> QED BY <2>1, <2>2, <2>3, Zenon DEF InflightExact, NoSendOnClosed, OnePlace
<1>5. CASE UNCHANGED vars
  <2>1. Busy' = Busy
    BY <1>5, Zenon DEF vars, Busy
  <2> QED BY <1>5, <2>1, Zenon DEF vars, TypeOK, InflightExact, NoSendOnClosed, OnePlace
<1> QED BY <1>1, <1>2, <1>3, <1>4, <1>5, Zenon DEF Next, Terminated

LEMMA SpecIInv == Spec => []IInv
  BY InitIInv, NextIInv, PTL DEF Spec

\* In FetchDAG the variables keep their types and the WaitGroup stays at zero or
\* above, where Go does not panic (dht/fetch.go 191-290).
THEOREM FetchTypeCorrect == Spec => []TypeOK
<1>1. IInv => TypeOK
  BY Zenon DEF IInv
<1> QED BY <1>1, SpecIInv, PTL

\* The WaitGroup of FetchDAG counts exactly the blocks that are waiting to be
\* sent, queued or worked on, on every path (dht/fetch.go 221-252).
THEOREM FetchInflightExact == Spec => []InflightExact
<1>1. IInv => InflightExact
  BY Zenon DEF IInv
<1> QED BY <1>1, SpecIInv, PTL

\* No goroutine of FetchDAG can send on the closed work queue, which would panic
\* (dht/fetch.go 224-234, 257-260).
THEOREM FetchNoSendOnClosed == Spec => []NoSendOnClosed
<1>1. IInv => NoSendOnClosed
  BY Zenon DEF IInv
<1> QED BY <1>1, SpecIInv, PTL

-----------------------------------------------------------------------------
\* A block is dealt with when it is stored and each of its links was seen.
Handled(c) == c \in local /\ Links[c] \subseteq visited

\* While nothing failed and nobody cancelled, a block that was seen is waiting, in
\* the hands of a worker or dealt with: none is lost on the way.
Kept ==
    ~failed /\ ~abandoned /\ result = "none" =>
        /\ ~cancelled
        /\ Root \in visited
        /\ \A w \in Workers : worker[w].pc # "done"
        /\ \A w \in Workers : worker[w].pc = "links" =>
               /\ worker[w].block \in local
               /\ Links[worker[w].block] \subseteq visited \cup worker[w].todo
        /\ \A c \in visited : \/ c \in senders \cup queue
                              \/ \E w \in Busy : worker[w].block = c
                              \/ Handled(c)

\* A worker leaves its loop only when the queue is closed.
ExitClosed == \A w \in Workers : worker[w].pc = "exit" => closed

\* The second inductive invariant, relative to the first.
JInv == Kept /\ ExitClosed /\ FetchComplete

LEMMA InitJInv == Init => JInv
<1> SUFFICES ASSUME Init PROVE JInv
  OBVIOUS
<1>1. Kept /\ ExitClosed
  BY Zenon DEF Init, Kept, ExitClosed, Idle
<1>2. FetchComplete
  BY Zenon DEF Init, FetchComplete
<1> QED BY <1>1, <1>2, Zenon DEF JInv

\* A goroutine of enqueue moves its block on, or drops it after a cancellation.
LEMMA SenderJInv ==
    ASSUME IInv, JInv, NEW c \in Blocks, SenderStep(c)
    PROVE  JInv'
<1>1. UNCHANGED <<local, visited, closed, worker, cancelled, abandoned, failed, result>>
  BY Zenon DEF SenderStep, Send, GiveUp
<1>2. Busy' = Busy
  BY <1>1, Zenon DEF Busy
<1>3. FetchComplete' /\ ExitClosed'
  <2>1. ExitClosed'
    BY <1>1, Zenon DEF JInv, ExitClosed
  <2> QED BY <1>1, <2>1, Zenon DEF JInv, FetchComplete, Reachable, Closed
<1>4. Kept'
  <2>1. CASE Send(c)
    BY <1>1, <1>2, <2>1 DEF Send, JInv, Kept, Handled
  <2>2. CASE GiveUp(c)
    BY <1>1, <2>2 DEF GiveUp, JInv, Kept
  <2> QED BY <2>1, <2>2, Zenon DEF SenderStep
<1> QED BY <1>3, <1>4, Zenon DEF JInv

\* A worker keeps what it takes: the block it has is dealt with before it lets go.
LEMMA WorkerJInv ==
    ASSUME IInv, JInv, NEW w \in Workers, WorkerStep(w)
    PROVE  JInv'
<1> USE DEF IInv, JInv
<1>w. worker[w] \in WorkerState /\ worker \in [Workers -> WorkerState]
  BY Zenon DEF TypeOK
<1>1. ASSUME NEW c \in Blocks, Receive(w, c) PROVE JInv'
  <2> DEFINE v == [pc |-> "check", block |-> c, todo |-> {}]
  <2>1. worker' = [worker EXCEPT ![w] = v] /\ v \in WorkerState
    BY <1>1, Zenon DEF Receive, WorkerState
  <2>2. UNCHANGED <<local, visited, senders, closed, cancelled, abandoned, failed, result>>
    BY <1>1, Zenon DEF Receive
  <2>3. Busy' = Busy \cup {w} /\ w \notin Busy
    BY <1>1, <2>1, BusyChange, Zenon DEF Receive, Busy
  <2>4. \A x \in Workers : x # w => worker'[x] = worker[x]
    BY <1>w, <2>1, Zenon
  <2>5. worker'[w].pc = "check" /\ worker'[w].block = c
    BY <1>w, <2>1, Zenon
  <2>6. FetchComplete'
    BY <2>2, Zenon DEF FetchComplete, Reachable, Closed
  <2>7. ExitClosed'
    BY <2>2, <2>4, <2>5, Zenon DEF ExitClosed
  <2>8. queue = queue' \cup {c}
    BY <1>1, Zenon DEF Receive
  <2>9. Kept'
    <3> HIDE DEF v
    <3> SUFFICES ASSUME ~failed, ~abandoned, result = "none"
                 PROVE Kept'
      BY <2>2, Zenon DEF Kept
    <3>1. \A x \in visited : \/ x \in senders \cup queue'
                             \/ \E y \in Busy' : worker'[y].block = x
                             \/ Handled(x)
      BY <2>3, <2>4, <2>5, <2>8 DEF Kept, Busy
    <3>2. \A x \in Workers : worker'[x].pc # "done"
      BY <2>4, <2>5, Zenon DEF Kept
    <3>3. \A x \in Workers : worker'[x].pc = "links" =>
             /\ worker'[x].block \in local
             /\ Links[worker'[x].block] \subseteq visited \cup worker'[x].todo
      BY <2>4, <2>5, Zenon DEF Kept
    <3> QED BY <2>2, <3>1, <3>2, <3>3, Zenon DEF Kept, Handled
  <2> QED BY <2>6, <2>7, <2>9, Zenon
<1>2. ASSUME NEW c \in Blocks, enqueue(w, c) PROVE JInv'
  <2>1. UNCHANGED <<local, queue, closed, cancelled, abandoned, failed, result>>
    BY <1>2, Zenon DEF enqueue
  <2>2. /\ worker[w].pc = "links" /\ worker'[w].pc = "links"
        /\ worker'[w].block = worker[w].block
        /\ worker'[w].todo = worker[w].todo \ {c}
    BY <1>2, <1>w, Zenon DEF enqueue, WorkerState
  <2>3. \A x \in Workers : x # w => worker'[x] = worker[x]
    BY <1>2, <1>w, Zenon DEF enqueue
  <2>4. Busy' = Busy
    BY <2>2, <2>3, Zenon DEF Busy
  <2>5. visited' = visited \cup {c} /\ senders \subseteq senders' /\ (c \notin visited => c \in senders')
    BY <1>2, Zenon DEF enqueue
  <2>6. FetchComplete'
    BY <2>1, Zenon DEF FetchComplete, Reachable, Closed
  <2>7. ExitClosed'
    BY <2>1, <2>2, <2>3, Zenon DEF ExitClosed
  <2>8. Kept'
    <3> SUFFICES ASSUME ~failed, ~abandoned, result = "none"
                 PROVE Kept'
      BY <2>1, Zenon DEF Kept
    <3>1. \A x \in visited' : \/ x \in senders' \cup queue
                              \/ \E y \in Busy' : worker'[y].block = x
                              \/ x \in local /\ Links[x] \subseteq visited'
      BY <2>2, <2>3, <2>4, <2>5 DEF Kept, Busy, Handled
    <3>2. \A x \in Workers : worker'[x].pc # "done"
      BY <2>2, <2>3, Zenon DEF Kept
    <3>3. \A x \in Workers : worker'[x].pc = "links" =>
             /\ worker'[x].block \in local
             /\ Links[worker'[x].block] \subseteq visited' \cup worker'[x].todo
      BY <2>2, <2>3, <2>5, Zenon DEF Kept
    <3> QED BY <2>1, <2>5, <3>1, <3>2, <3>3, Zenon DEF Kept, Handled
  <2> QED BY <2>6, <2>7, <2>8
<1>3. ASSUME Check(w) PROVE JInv'
  <2>1. UNCHANGED <<local, visited, senders, queue, closed, cancelled, abandoned, failed, result>>
    BY <1>3, Zenon DEF Check
  <2>2. /\ worker[w].pc = "check" /\ worker'[w].block = worker[w].block
        /\ worker'[w].pc = IF cancelled THEN "done" ELSE "fetch"
    BY <1>3, <1>w, Zenon DEF Check, WorkerState
  <2>3. \A x \in Workers : x # w => worker'[x] = worker[x]
    BY <1>3, <1>w, Zenon DEF Check
  <2>4. Busy' = Busy /\ \A x \in Workers : worker'[x].block = worker[x].block
    BY <2>2, <2>3, Zenon DEF Busy
  <2>5. FetchComplete' /\ ExitClosed'
    BY <2>1, <2>2, <2>3, Zenon DEF FetchComplete, Reachable, Closed, ExitClosed
  <2>6. Kept'
    <3> SUFFICES ASSUME ~failed, ~abandoned, result = "none"
                 PROVE Kept'
      BY <2>1, Zenon DEF Kept
    <3>1. worker'[w].pc = "fetch"
      BY <2>2, Zenon DEF Kept
    <3>2. \A x \in visited : \/ x \in senders \cup queue
                             \/ \E y \in Busy' : worker'[y].block = x
                             \/ Handled(x)
      BY <2>4, Zenon DEF Kept, Busy
    <3> QED BY <2>1, <2>3, <3>1, <3>2, Zenon DEF Kept, Handled
  <2> QED BY <2>5, <2>6, Zenon
<1>4. ASSUME fetchOneDAGBlock(w) PROVE JInv'
  <2>1. UNCHANGED <<visited, senders, queue, closed, cancelled, abandoned, failed, result>>
    BY <1>4, Zenon DEF fetchOneDAGBlock
  <2>2. /\ worker[w].pc = "fetch" /\ worker'[w].pc = "links"
        /\ worker'[w].block = worker[w].block
        /\ worker'[w].todo = Links[worker[w].block]
        /\ local' = local \cup {worker[w].block}
    BY <1>4, <1>w, Zenon DEF fetchOneDAGBlock, WorkerState
  <2>3. \A x \in Workers : x # w => worker'[x] = worker[x]
    BY <1>4, <1>w, Zenon DEF fetchOneDAGBlock
  <2>4. Busy' = Busy /\ \A x \in Workers : worker'[x].block = worker[x].block
    BY <2>2, <2>3, Zenon DEF Busy
  <2>5. FetchComplete'
    BY <2>1, <2>2, Zenon DEF FetchComplete, Reachable, Closed
  <2>6. ExitClosed'
    BY <2>1, <2>2, <2>3, Zenon DEF ExitClosed
  <2>7. Kept'
    <3> SUFFICES ASSUME ~failed, ~abandoned, result = "none"
                 PROVE Kept'
      BY <2>1, Zenon DEF Kept
    <3>1. \A x \in visited : \/ x \in senders \cup queue
                             \/ \E y \in Busy' : worker'[y].block = x
                             \/ x \in local' /\ Links[x] \subseteq visited
      BY <2>2, <2>4 DEF Kept, Busy, Handled
    <3>2. \A x \in Workers : worker'[x].pc # "done"
      BY <2>2, <2>3, Zenon DEF Kept
    <3>3. \A x \in Workers : worker'[x].pc = "links" =>
             /\ worker'[x].block \in local'
             /\ Links[worker'[x].block] \subseteq visited \cup worker'[x].todo
      BY <2>2, <2>3, Zenon DEF Kept
    <3> QED BY <2>1, <3>1, <3>2, <3>3, Zenon DEF Kept, Handled
  <2> QED BY <2>5, <2>6, <2>7, Zenon
<1>5. ASSUME FetchFails(w) PROVE JInv'
  <2>1. UNCHANGED <<local, closed, abandoned, result>> /\ failed'
    BY <1>5, Zenon DEF FetchFails
  <2>2. worker'[w].pc = "done" /\ \A x \in Workers : x # w => worker'[x] = worker[x]
    BY <1>5, <1>w, Zenon DEF FetchFails, WorkerState
  <2>3. ExitClosed'
    BY <2>1, <2>2, Zenon DEF ExitClosed
  <2>4. FetchComplete' /\ Kept'
    BY <2>1, Zenon DEF FetchComplete, Reachable, Closed, Kept
  <2> QED BY <2>3, <2>4, Zenon
<1>6. ASSUME Done(w) PROVE JInv'
  <2>1. UNCHANGED <<local, visited, senders, queue, closed, cancelled, abandoned, failed, result>>
    BY <1>6, Zenon DEF Done
  <2>2. worker'[w].pc = "idle" /\ \A x \in Workers : x # w => worker'[x] = worker[x]
    BY <1>6, <1>w, Zenon DEF Done, Idle
  <2>3. FetchComplete' /\ ExitClosed'
    BY <2>1, <2>2, Zenon DEF FetchComplete, Reachable, Closed, ExitClosed
  <2>4. Kept'
    <3> SUFFICES ASSUME ~failed, ~abandoned, result = "none"
                 PROVE Kept'
      BY <2>1 DEF Kept
    <3>1. Handled(worker[w].block)
      BY <1>6, Zenon DEF Done, Kept, Handled
    <3>2. \A y \in Busy : y # w => y \in Busy'
      BY <2>2, Zenon DEF Busy
    <3>3. \A x \in visited : \/ x \in senders \cup queue
                             \/ \E y \in Busy' : worker'[y].block = x
                             \/ Handled(x)
      BY <2>2, <3>1, <3>2, Zenon DEF Kept, Busy
    <3> QED BY <2>1, <2>2, <3>3, Zenon DEF Kept, Handled
  <2> QED BY <2>3, <2>4
<1>7. ASSUME Exit(w) PROVE JInv'
  <2>1. UNCHANGED <<local, visited, senders, queue, closed, cancelled, abandoned, failed, result>>
    BY <1>7, Zenon DEF Exit
  <2>2. /\ closed /\ worker[w].pc = "idle" /\ worker'[w].pc = "exit"
        /\ \A x \in Workers : x # w => worker'[x] = worker[x]
    BY <1>7, <1>w, Zenon DEF Exit, WorkerState
  <2>3. Busy' = Busy /\ \A y \in Busy : worker'[y] = worker[y]
    BY <2>2, Zenon DEF Busy
  <2>4. FetchComplete' /\ ExitClosed'
    BY <2>1, <2>2, Zenon DEF FetchComplete, Reachable, Closed, ExitClosed
  <2>5. Kept'
    BY <2>1, <2>2, <2>3 DEF Kept, Handled
  <2> QED BY <2>4, <2>5
<1> QED BY <1>1, <1>2, <1>3, <1>4, <1>5, <1>6, <1>7, Zenon DEF WorkerStep

\* When every worker has left its loop, the queue is closed and so nothing waits:
\* the blocks that were seen are closed under links, and all of them are stored.
LEMMA ReturnComplete ==
    ASSUME IInv, JInv, Return
    PROVE  FetchComplete'
<1> USE DEF IInv, JInv
<1>1. PICK w \in Workers : worker[w].pc = "exit"
  BY WorkersAssumption, Zenon DEF Return
<1>2. senders = {} /\ queue = {} /\ Busy = {}
  BY <1>1, Zenon DEF ExitClosed, NoSendOnClosed
<1>3. ASSUME ~failed, ~abandoned PROVE Reachable \subseteq local
  <2>1. Root \in visited /\ \A c \in visited : Handled(c)
    BY <1>2, <1>3, Zenon DEF Return, Kept
  <2>2. Closed(visited) /\ visited \subseteq local
    BY <2>1, Zenon DEF Closed, Handled
  <2>3. visited \in SUBSET Blocks
    BY Zenon DEF TypeOK
  <2> QED BY <2>2, <2>3, Zenon DEF Reachable
<1>4. UNCHANGED <<local, abandoned>> /\ (result' = "ok" => ~failed)
  BY Zenon DEF Return
<1> QED BY <1>3, <1>4, Zenon DEF FetchComplete, Reachable, Closed

LEMMA NextJInv == IInv /\ JInv /\ [Next]_vars => JInv'
<1> SUFFICES ASSUME IInv, JInv, [Next]_vars PROVE JInv'
  BY Zenon
<1>1. ASSUME NEW c \in Blocks, SenderStep(c) PROVE JInv'
  BY <1>1, SenderJInv, Zenon
<1>2. ASSUME NEW w \in Workers, WorkerStep(w) PROVE JInv'
  BY <1>2, WorkerJInv
<1>3. CASE Close
  <2>1. Busy' = Busy
    BY <1>3, Zenon DEF Close, Busy
  <2> QED BY <1>3, <2>1, Zenon DEF Close, JInv, Kept, Handled, ExitClosed, FetchComplete, Reachable, Closed
<1>4. CASE Return
  <2>1. Kept' /\ ExitClosed'
    BY <1>4, Zenon DEF Return, JInv, Kept, ExitClosed
  <2> QED BY <1>4, <2>1, ReturnComplete, Zenon DEF JInv
<1>5. CASE Cancel
  <2>1. Kept' /\ ExitClosed' /\ FetchComplete'
    BY <1>5, Zenon DEF Cancel, JInv, Kept, ExitClosed, FetchComplete
  <2> QED BY <2>1, Zenon DEF JInv
<1>6. CASE UNCHANGED vars
  <2>1. Busy' = Busy
    BY <1>6, Zenon DEF vars, Busy
  <2> QED BY <1>6, <2>1, Zenon DEF vars, JInv, Kept, Handled, ExitClosed, FetchComplete, Reachable, Closed
<1> QED BY <1>1, <1>2, <1>3, <1>4, <1>5, <1>6, Zenon DEF Next, Terminated

\* FetchDAG that returns nil to a caller who did not cancel has stored every block
\* reachable from the root, for any DAG, any number of workers and any order
\* in which they meet shared children (dht/fetch.go 191-290).
THEOREM FetchIsComplete == Spec => []FetchComplete
<1>1. JInv => FetchComplete
  BY Zenon DEF JInv
<1> QED BY <1>1, InitJInv, NextJInv, SpecIInv, PTL DEF Spec
-----------------------------------------------------------------------------
\* A walk that has not begun, the steps of one that runs, and its end; and the
\* steps between its claim of a block and the hand-over.
WalkState == S!Running \cup {"none", "end"}
Claiming == {"acquire", "read", "send"}

\* Types of the variables of the share.
ShareType ==
    /\ walk \in [S!Walks -> WalkState]
    /\ svisited \subseteq Blocks /\ jobs \subseteq Blocks /\ shared \subseteq Blocks
    /\ sclosed \in BOOLEAN /\ scancelled \in BOOLEAN
    /\ sabandoned \in BOOLEAN /\ sfailed \in BOOLEAN
    /\ sworker \in [Workers -> [pc : {"idle", "check", "put", "exit"}, block : Blocks \cup {None}]]
    /\ sresult \in {"none", "ok", "error"}

\* A block is claimed by one walk, and its links are followed after that.
ClaimInv ==
    /\ \A e \in S!Walks : walk[e] \in Claiming => e[2] \in svisited
    /\ \A e, f \in S!Walks :
         walk[e] \in Claiming /\ walk[f] \in Claiming /\ e[2] = f[2] => e = f
    /\ \A e, f \in S!Walks : walk[e] \in Claiming /\ f[1] = e[2] => walk[f] = "none"
    /\ \A f \in S!Walks : f[1] \in Blocks \ svisited => walk[f] = "none"

\* The share handles blocks of the DAG only.
ReachInv ==
    /\ \A e \in S!Walks : walk[e] # "none" => e[2] \in Reachable
    /\ jobs \cup shared \subseteq Reachable
    /\ \A w \in Workers : sworker[w].pc \in {"check", "put"} => sworker[w].block \in Reachable

\* The blocks that were sent: in the channel, in a worker's hands or stored.
Sent(j, s, sw) ==
    j \cup s \cup {c \in Blocks : \E w \in Workers : sw[w].pc \in {"check", "put"} /\ sw[w].block = c}

\* No block is forgotten while the pipeline is not cancelled.
ProgressInv ==
    ~scancelled =>
      /\ walk[<<None, Root>>] # "none"
      /\ \A e \in S!Walks : walk[e] = "end" => e[2] \in svisited
      /\ \A c \in svisited : \/ c \in Sent(jobs, shared, sworker)
                             \/ \E e \in S!Walks : walk[e] \in Claiming /\ e[2] = c
      /\ \A e \in S!Walks : e[1] \in Sent(jobs, shared, sworker) => walk[e] # "none"

\* What the channel's end and the return of the call mean.
EndInv ==
    /\ sclosed => S!Alive = {}
    /\ \A w \in Workers : sworker[w].pc = "exit" => sclosed /\ jobs = {}
    /\ sresult # "none" => \A w \in Workers : sworker[w].pc = "exit"
    /\ scancelled /\ sresult = "none" => sfailed \/ sabandoned
    /\ sresult = "ok" /\ ~sabandoned => Reachable \subseteq shared

ShareInv == ShareType /\ ClaimInv /\ ReachInv /\ ProgressInv /\ EndInv

-----------------------------------------------------------------------------
\* The members that may have block c: its owner and the owner's replicas.
Window(c) == {Owner[c]} \cup Replicas[Owner[c]]

\* The stores have blocks of the DAG, where they belong.
StoreInv ==
    /\ held \in [Nodes -> SUBSET Blocks]
    /\ data \in [Nodes -> SUBSET Blocks]
    /\ pending \subseteq Blocks \X Nodes /\ mine \subseteq Blocks
    /\ \A n \in Nodes : held[n] \subseteq data[n]
    /\ \A n \in Nodes : \A c \in held[n] : c \in Reachable /\ n \in Window(c)
    /\ \A p \in pending : p[1] \in Reachable /\ p[2] \in Replicas[Owner[p[1]]]
    /\ del.pc = "off" => \A c \in shared : c \in held[Owner[c]]

\* Block c waits on the stack s.
On(s, c) == \E i \in 1..Len(s) : s[i] = c

\* The states of the walk of DeleteCID.
DelType ==
    [pc : {"off", "walk", "tell", "read", "end"}, stack : Seq(Blocks), seen : SUBSET Blocks,
     block : Blocks \cup {None}, tell : SUBSET Nodes]

\* What the walk of DeleteCID has behind it, if it met no error: the windows of
\* the blocks it has seen are rid of the root, and their links are seen or wait.
WalkInv ==
    /\ del \in DelType
    /\ missed \in BOOLEAN
    /\ del.pc # "off" => sresult # "none"
    /\ del.pc # "off" /\ ~missed =>
         /\ pending = {}
         /\ Root \in del.seen \/ On(del.stack, Root)
         /\ del.pc \in {"tell", "read"} => del.block \in del.seen
         /\ \A c \in del.seen : \A n \in Window(c) :
              held[n] = {} \/ (del.pc = "tell" /\ c = del.block /\ n \in del.tell)
         /\ \A c \in del.seen :
              \/ del.pc \in {"tell", "read"} /\ c = del.block
              \/ \A x \in Links[c] : x \in del.seen \/ On(del.stack, x)
    /\ del.pc = "end" => del.stack = <<>>
-----------------------------------------------------------------------------
\* Links of reachable blocks are reachable, and a closed set has them all.
LEMMA ReachableFacts ==
    /\ Reachable \subseteq Blocks /\ Root \in Reachable
    /\ \A c \in Reachable : Links[c] \subseteq Reachable
    /\ \A T \in SUBSET Blocks : Closed(T) => Reachable \subseteq T
<1>1. Root \in Reachable
  BY RootAssumption, Zenon DEF Reachable, Closed
<1>2. ASSUME NEW c \in Reachable, NEW d \in Links[c] PROVE d \in Reachable
  <2>1. d \in Blocks  BY LinksAssumption, Zenon DEF Reachable
  <2> QED  BY <2>1, Zenon DEF Reachable, Closed
<1> QED  BY <1>1, <1>2, Zenon DEF Reachable

\* A walk follows a link, but for the first.
LEMMA WalksFacts ==
    /\ <<None, Root>> \in S!Walks
    /\ \A e \in S!Walks : e[2] \in Blocks
    /\ \A e \in S!Walks : e[1] \in Blocks => e[2] \in Links[e[1]]
    /\ \A c \in Blocks : \A d \in Links[c] :
         <<c, d>> \in S!Walks /\ <<c, d>>[1] = c /\ <<c, d>>[2] = d
BY RootAssumption, NoneAssumption, LinksAssumption DEF S!Walks

\* The first walk is of the root.
LEMMA ShareInitInv == S!Init => ShareInv
<1> SUFFICES ASSUME S!Init PROVE ShareInv
  OBVIOUS
<1>0. /\ \A e \in S!Walks : walk[e] = IF e = <<None, Root>> THEN "start" ELSE "none"
      /\ \A w \in Workers : sworker[w].pc = "idle"
  BY Zenon DEF S!Init, S!Idle
<1>1. ShareType
  BY Zenon DEF S!Init, S!Idle, ShareType, WalkState, S!Running
<1>2. ClaimInv
  BY <1>0, NoneAssumption DEF ClaimInv, Claiming
<1>3. ReachInv
  BY <1>0, ReachableFacts DEF S!Init, ReachInv
<1>4. ProgressInv
  BY <1>0, WalksFacts, Zenon DEF S!Init, ProgressInv, Sent
<1>5. EndInv
  BY <1>0, Zenon DEF S!Init, EndInv
<1> QED  BY <1>1, <1>2, <1>3, <1>4, <1>5, Zenon DEF ShareInv

\* A walk that moves on without claiming or sending: to a later state of
\* the same kind.
LEMMA WalkMoves ==
    ASSUME ShareInv, NEW e \in S!Walks, NEW q \in WalkState \ {"none"},
           walk[e] \in S!Running, walk' = [walk EXCEPT ![e] = q],
           q \in Claiming => walk[e] \in Claiming,
           q = "end" => scancelled' \/ e[2] \in svisited,
           walk[e] \in Claiming => q \in Claiming \/ scancelled',
           UNCHANGED <<svisited, jobs, sclosed, sworker, shared, sabandoned, sresult>>,
           \/ UNCHANGED <<scancelled, sfailed>>
           \/ scancelled' = TRUE /\ sfailed' = TRUE
    PROVE  ShareInv'
<1> USE DEF ShareInv
<1>0. walk'[e] = q /\ \A f \in S!Walks \ {e} : walk'[f] = walk[f]
  BY Zenon DEF ShareType
<1>n. walk[e] # "none"
  BY Zenon DEF S!Running
<1>1. ShareType'
  BY Zenon DEF ShareType
<1>2. ClaimInv'
  BY <1>0, <1>n DEF ClaimInv
<1>3. ReachInv'
  BY <1>0, <1>n, Zenon DEF ReachInv
<1>4. ProgressInv'
  <2> SUFFICES ASSUME ~scancelled' PROVE ProgressInv'
    BY Zenon DEF ProgressInv
  <2>1. ~scancelled  BY Zenon
  <2>2. \A f \in S!Walks : walk[f] # "none" => walk'[f] # "none"  BY <1>0, Zenon
  <2>3. \A f \in S!Walks : walk[f] \in Claiming => walk'[f] \in Claiming  BY <1>0, Zenon
  <2>4. \A f \in S!Walks : walk'[f] = "end" => walk[f] = "end" \/ f[2] \in svisited  BY <1>0, Zenon
  <2> QED  BY <2>1, <2>2, <2>3, <2>4, WalksFacts, Zenon DEF ProgressInv
<1>5. EndInv'
  <2>1. ~sclosed  BY Zenon DEF EndInv, S!Alive
  <2> QED  BY <2>1, Zenon DEF EndInv, ShareType
<1> QED  BY <1>1, <1>2, <1>3, <1>4, <1>5, Zenon

\* A walk claims its block.
LEMMA VisitStep ==
    ASSUME ShareInv, NEW e \in S!Walks, S!Visit(e)
    PROVE  ShareInv'
<1> USE DEF ShareInv
<1>u. UNCHANGED <<jobs, sclosed, sworker, shared, scancelled, sabandoned, sfailed, sresult>>
  BY Zenon DEF S!Visit
<1>1. CASE e[2] \in svisited
  <2>1. svisited' = svisited /\ walk' = [walk EXCEPT ![e] = "end"] /\ walk[e] = "visit"
    BY <1>1, Zenon DEF S!Visit
  <2> QED  BY <1>1, <1>u, <2>1, WalkMoves, Zenon DEF WalkState, S!Running, Claiming
<1>2. CASE e[2] \notin svisited
  <2>0. walk' = [walk EXCEPT ![e] = "acquire"] /\ walk[e] = "visit" /\ svisited' = svisited \cup {e[2]}
    BY <1>2, Zenon DEF S!Visit
  <2>w. walk'[e] = "acquire" /\ \A f \in S!Walks \ {e} : walk'[f] = walk[f]
    BY <2>0, Zenon DEF ShareType
  <2>b. e[2] \in Blocks  BY WalksFacts, Zenon
  <2>n. \A f \in S!Walks : f[1] = e[2] => walk[f] = "none" /\ f # e
    BY <1>2, <2>0, <2>b, Zenon DEF ClaimInv
  <2>1. ShareType'
    BY <1>u, <2>0, <2>b, Zenon DEF ShareType, WalkState, S!Running
  <2>2. ClaimInv'
    <3>1. \A f \in S!Walks : walk'[f] \in Claiming => f[2] \in svisited'
      BY <2>0, <2>w, Zenon DEF ClaimInv
    <3>2. \A f \in S!Walks : walk[f] \in Claiming => f[2] # e[2]
      BY <1>2, Zenon DEF ClaimInv
    <3>3. \A f, g \in S!Walks : walk'[f] \in Claiming /\ walk'[g] \in Claiming /\ f[2] = g[2] => f = g
      BY <2>w, <3>2 DEF ClaimInv
    <3>4. \A f, g \in S!Walks : walk'[f] \in Claiming /\ g[1] = f[2] => walk'[g] = "none"
      <4> SUFFICES ASSUME NEW f \in S!Walks, NEW g \in S!Walks, walk'[f] \in Claiming, g[1] = f[2]
                  PROVE  walk'[g] = "none"
        BY Zenon
      <4>1. CASE f = e  BY <2>n, <2>w, <4>1, Zenon
      <4>2. CASE f # e
        <5>1. walk[g] = "none"  BY <2>w, <4>2, Zenon DEF ClaimInv
        <5> QED  BY <2>0, <2>w, <5>1, Zenon
      <4> QED  BY <4>1, <4>2, Zenon
    <3>5. \A f \in S!Walks : f[1] \in Blocks \ svisited' => walk'[f] = "none"
      BY <2>0, <2>w, Zenon DEF ClaimInv
    <3> QED  BY <3>1, <3>3, <3>4, <3>5, Zenon DEF ClaimInv
  <2>3. ReachInv'
    BY <1>u, <2>0, <2>w, Zenon DEF ReachInv
  <2>4. ProgressInv'
    <3> SUFFICES ASSUME ~scancelled PROVE ProgressInv'
      BY <1>u, Zenon DEF ProgressInv
    <3>1. \A f \in S!Walks : /\ walk[f] # "none" => walk'[f] # "none"
                             /\ walk[f] \in Claiming => walk'[f] \in Claiming
                             /\ walk'[f] = "end" => walk[f] = "end"
      BY <2>0, <2>w, Zenon DEF Claiming
    <3>2. walk'[e] \in Claiming  BY <2>w, Zenon DEF Claiming
    <3>3. \A c \in svisited' : \/ c \in Sent(jobs, shared, sworker)
                                \/ \E f \in S!Walks : walk'[f] \in Claiming /\ f[2] = c
      BY <2>0, <3>1, <3>2, Zenon DEF ProgressInv
    <3> QED  BY <1>u, <2>0, <3>1, <3>3, WalksFacts, Zenon DEF ProgressInv
  <2>5. EndInv'
    <3>1. ~sclosed  BY <2>0, Zenon DEF EndInv, S!Alive, S!Running
    <3> QED  BY <1>u, <3>1, Zenon DEF EndInv
  <2> QED  BY <2>1, <2>2, <2>3, <2>4, <2>5, Zenon
<1> QED  BY <1>1, <1>2, Zenon

\* A walk hands over its block and starts the walks of its links.
LEMMA SendStep ==
    ASSUME ShareInv, NEW e \in S!Walks, S!Send(e)
    PROVE  ShareInv'
<1> USE DEF ShareInv
<1>u. /\ UNCHANGED <<svisited, sclosed, sworker, shared, scancelled, sabandoned, sfailed, sresult>>
      /\ jobs' = jobs \cup {e[2]} /\ walk[e] = "send"
  BY Zenon DEF S!Send
<1>w. \A f \in S!Walks : walk'[f] = IF f = e THEN "end" ELSE IF f[1] = e[2] THEN "start" ELSE walk[f]
  BY Zenon DEF S!Send
<1>b. e[2] \in Blocks /\ e[2] \in svisited /\ e[2] \in Reachable /\ walk[e] \in Claiming /\ walk[e] # "none"
  BY <1>u, WalksFacts, Zenon DEF ClaimInv, ReachInv, Claiming
<1>n. \A f \in S!Walks : f[1] = e[2] => walk[f] = "none"
  BY <1>b, Zenon DEF ClaimInv
<1>c. \A f \in S!Walks : walk'[f] \in Claiming <=> f # e /\ walk[f] \in Claiming
  BY <1>w, <1>n, Zenon DEF Claiming
<1>d. \A f \in S!Walks : f # e /\ walk[f] \in Claiming => f[2] # e[2]
  BY <1>b, Zenon DEF ClaimInv
<1>1. ShareType'
  <2>1. walk' \in [S!Walks -> WalkState]
    BY Zenon DEF S!Send, ShareType, WalkState, S!Running
  <2> QED  BY <1>u, <1>b, <2>1, Zenon DEF ShareType
<1>2. ClaimInv'
  <2>1. \A f \in S!Walks : walk'[f] \in Claiming => f[2] \in svisited'
    BY <1>c, <1>u, Zenon DEF ClaimInv
  <2>2. \A f, g \in S!Walks : walk'[f] \in Claiming /\ walk'[g] \in Claiming /\ f[2] = g[2] => f = g
    BY <1>c, Zenon DEF ClaimInv
  <2>3. \A f, g \in S!Walks : walk'[f] \in Claiming /\ g[1] = f[2] => walk'[g] = "none"
    <3> SUFFICES ASSUME NEW f \in S!Walks, NEW g \in S!Walks, walk'[f] \in Claiming, g[1] = f[2]
                PROVE  walk'[g] = "none"
      OBVIOUS
    <3>1. walk[g] = "none" /\ f[2] # e[2]  BY <1>c, <1>d, Zenon DEF ClaimInv
    <3> QED  BY <1>b, <1>w, <3>1, Zenon
  <2>4. \A f \in S!Walks : f[1] \in Blocks \ svisited' => walk'[f] = "none"
    BY <1>b, <1>u, <1>w, Zenon DEF ClaimInv
  <2> QED  BY <2>1, <2>2, <2>3, <2>4 DEF ClaimInv
<1>3. ReachInv'
  <2>1. \A f \in S!Walks : f[1] = e[2] => f[2] \in Reachable
    BY <1>b, ReachableFacts, WalksFacts
  <2>2. \A f \in S!Walks : walk'[f] # "none" => f[2] \in Reachable
    BY <1>b, <1>w, <2>1, Zenon DEF ReachInv
  <2> QED  BY <1>b, <1>u, <2>2, Zenon DEF ReachInv
<1>4. ProgressInv'
  <2> SUFFICES ASSUME ~scancelled PROVE ProgressInv'
    BY <1>u, Zenon DEF ProgressInv
  <2>0. Sent(jobs', shared', sworker') = Sent(jobs, shared, sworker) \cup {e[2]}
    BY <1>u, Zenon DEF Sent
  <2>1. \A f \in S!Walks : walk[f] # "none" \/ f[1] = e[2] => walk'[f] # "none"
    BY <1>w, Zenon
  <2>2. \A f \in S!Walks : walk'[f] = "end" => f[2] \in svisited
    BY <1>b, <1>w, Zenon DEF ProgressInv
  <2>3. \A c \in svisited : \/ c \in Sent(jobs', shared', sworker')
                             \/ \E f \in S!Walks : walk'[f] \in Claiming /\ f[2] = c
    BY <1>c, <2>0, Zenon DEF ProgressInv
  <2>4. \A f \in S!Walks : f[1] \in Sent(jobs', shared', sworker') => walk'[f] # "none"
    BY <2>0, <2>1, Zenon DEF ProgressInv
  <2>5. walk'[<<None, Root>>] # "none"
    BY <2>1, WalksFacts, Zenon DEF ProgressInv
  <2> QED  BY <1>u, <2>2, <2>3, <2>4, <2>5, Zenon DEF ProgressInv
<1>5. EndInv'
  <2>1. ~sclosed  BY <1>u, Zenon DEF EndInv, S!Alive, S!Running
  <2> QED  BY <1>u, <2>1, Zenon DEF EndInv
<1> QED  BY <1>1, <1>2, <1>3, <1>4, <1>5

\* The walks of the share keep its invariant, ...
LEMMA WalkStepInv ==
    ASSUME ShareInv, NEW e \in S!Walks, S!WalkStep(e)
    PROVE  ShareInv'
<1>c. walk[e] \in Claiming => e[2] \in svisited  BY Zenon DEF ShareInv, ClaimInv
<1>b. scancelled \in BOOLEAN  BY Zenon DEF ShareInv, ShareType
<1>1. CASE S!CheckContext(e)
  BY <1>1, <1>b, WalkMoves, Zenon DEF S!CheckContext, WalkState, S!Running, Claiming
<1>2. CASE S!Visit(e)  BY <1>2, VisitStep, Zenon
<1>3. CASE S!Acquire(e)
  BY <1>3, WalkMoves, Zenon DEF S!Acquire, WalkState, S!Running, Claiming
<1>4. CASE S!Abort(e)
  BY <1>4, <1>b, WalkMoves, Zenon DEF S!Abort, WalkState, S!Running, Claiming
<1>5. CASE S!Read(e)
  BY <1>5, WalkMoves, Zenon DEF S!Read, WalkState, S!Running, Claiming
<1>6. CASE S!ReadFails(e)
  BY <1>6, WalkMoves, Zenon DEF S!ReadFails, WalkState, S!Running, Claiming
<1>7. CASE S!Send(e)  BY <1>7, SendStep
<1> QED  BY <1>1, <1>2, <1>3, <1>4, <1>5, <1>6, <1>7, Zenon DEF S!WalkStep

\* A worker of the share moves on.
LEMMA WorkerMoves ==
    ASSUME ShareInv, NEW w \in Workers,
           NEW v \in [pc : {"idle", "check", "put", "exit"}, block : Blocks \cup {None}],
           sworker[w].pc # "exit", sworker' = [sworker EXCEPT ![w] = v],
           v.pc \in {"check", "put"} => v.block \in Reachable,
           v.pc = "exit" => sclosed /\ jobs' = {},
           jobs' \subseteq jobs, shared' \subseteq Reachable,
           Sent(jobs', shared', sworker') = Sent(jobs, shared, sworker) \/ scancelled',
           UNCHANGED <<walk, svisited, sclosed, sabandoned, sresult>>,
           \/ UNCHANGED <<scancelled, sfailed>>
           \/ scancelled' = TRUE /\ sfailed' = TRUE
    PROVE  ShareInv'
<1> USE DEF ShareInv
<1>0. sworker'[w] = v /\ \A x \in Workers \ {w} : sworker'[x] = sworker[x]
  BY Zenon DEF ShareType
<1>1. ShareType'
  BY ReachableFacts, Zenon DEF ShareType
<1>2. ClaimInv'
  BY Zenon DEF ClaimInv
<1>3. ReachInv'
  BY <1>0, Zenon DEF ReachInv
<1>4. ProgressInv'
  BY Zenon DEF ProgressInv
<1>5. EndInv'
  <2>1. sresult = "none"  BY Zenon DEF EndInv
  <2>2. S!Alive' = S!Alive  BY Zenon DEF S!Alive
  <2>3. \A x \in Workers : sworker'[x].pc = "exit" => sclosed' /\ jobs' = {}
    BY <1>0, Zenon DEF EndInv
  <2> QED  BY <2>1, <2>2, <2>3, Zenon DEF EndInv
<1> QED  BY <1>1, <1>2, <1>3, <1>4, <1>5, Zenon

\* What is sent stays sent while a block moves from the channel to the store.
LEMMA SentMoves ==
    ASSUME ShareInv, NEW w \in Workers, NEW v, sworker' = [sworker EXCEPT ![w] = v]
    PROVE  \A c \in Blocks :
             (\E x \in Workers : sworker'[x].pc \in {"check", "put"} /\ sworker'[x].block = c) <=>
               \/ v.pc \in {"check", "put"} /\ v.block = c
               \/ \E x \in Workers \ {w} : sworker[x].pc \in {"check", "put"} /\ sworker[x].block = c
BY Zenon DEF ShareInv, ShareType

\* ... and so do its workers, ...
LEMMA ShareWorkerInv ==
    ASSUME ShareInv, NEW w \in Workers, S!WorkerStep(w)
    PROVE  ShareInv'
<1> DEFINE HandType == [pc : {"idle", "check", "put", "exit"}, block : Blocks \cup {None}]
<1>t. /\ sworker \in [Workers -> HandType] /\ jobs \cup shared \subseteq Reachable
      /\ jobs \subseteq Blocks /\ shared \subseteq Blocks /\ scancelled \in BOOLEAN
      /\ sworker[w].pc \in {"check", "put"} => sworker[w].block \in Reachable
  BY Zenon DEF ShareInv, ShareType, ReachInv
<1>i. S!Idle \in HandType /\ S!Idle.pc = "idle"  BY Zenon DEF S!Idle
<1>1. ASSUME NEW c \in Blocks, S!Receive(w, c) PROVE ShareInv'
  <2> DEFINE v == [pc |-> "check", block |-> c]
  <2>1. /\ sworker[w].pc = "idle" /\ c \in jobs /\ jobs' = jobs \ {c}
        /\ sworker' = [sworker EXCEPT ![w] = v]
        /\ UNCHANGED <<walk, svisited, sclosed, shared, scancelled, sabandoned, sfailed, sresult>>
    BY <1>1, Zenon DEF S!Receive
  <2>2. v \in HandType /\ v.pc = "check" /\ v.block = c  BY Zenon
  <2> HIDE DEF v
  <2>3. Sent(jobs', shared', sworker') = Sent(jobs, shared, sworker)
    BY <1>t, <2>1, <2>2, SentMoves DEF Sent
  <2> QED  BY <1>t, <2>1, <2>2, <2>3, WorkerMoves, Zenon
<1>2. CASE S!Check(w)
  <2>1. /\ sworker[w].pc = "check"
        /\ UNCHANGED <<walk, svisited, jobs, sclosed, shared, scancelled, sabandoned, sfailed, sresult>>
        /\ sworker' = [sworker EXCEPT ![w] = IF scancelled THEN S!Idle ELSE [sworker[w] EXCEPT !.pc = "put"]]
    BY <1>2, <1>t, Zenon DEF S!Check
  <2>2. CASE scancelled
    BY <1>i, <1>t, <2>1, <2>2, WorkerMoves, Zenon
  <2>3. CASE ~scancelled
    <3> DEFINE v == [sworker[w] EXCEPT !.pc = "put"]
    <3>1. v \in HandType /\ v.pc = "put" /\ v.block = sworker[w].block  BY <1>t, Zenon
    <3>2. sworker' = [sworker EXCEPT ![w] = v]  BY <2>1, <2>3, Zenon
    <3> HIDE DEF v
    <3>3. Sent(jobs', shared', sworker') = Sent(jobs, shared, sworker)
      BY <1>t, <2>1, <3>1, <3>2, SentMoves DEF Sent
    <3> QED  BY <1>t, <2>1, <3>1, <3>2, <3>3, WorkerMoves
  <2> QED  BY <2>2, <2>3, Zenon
<1>3. CASE S!Put(w)
  <2>1. /\ sworker[w].pc = "put" /\ shared' = shared \cup {sworker[w].block}
        /\ sworker' = [sworker EXCEPT ![w] = S!Idle]
        /\ UNCHANGED <<walk, svisited, jobs, sclosed, scancelled, sabandoned, sfailed, sresult>>
    BY <1>3, Zenon DEF S!Put
  <2>2. sworker[w].block \in Reachable /\ sworker[w].block \in Blocks  BY <1>t, <2>1, ReachableFacts, Zenon
  <2>3. Sent(jobs', shared', sworker') = Sent(jobs, shared, sworker)
    BY <1>t, <1>i, <2>1, <2>2, SentMoves DEF Sent
  <2> QED  BY <1>i, <1>t, <2>1, <2>2, <2>3, WorkerMoves, Zenon
<1>4. CASE S!PutFails(w)
  BY <1>4, <1>i, <1>t, WorkerMoves, Zenon DEF S!PutFails
<1>5. CASE S!Exit(w)
  <2> DEFINE v == [sworker[w] EXCEPT !.pc = "exit"]
  <2>1. /\ sworker[w].pc = "idle" /\ sclosed /\ jobs = {}
        /\ sworker' = [sworker EXCEPT ![w] = v]
        /\ UNCHANGED <<walk, svisited, jobs, sclosed, shared, scancelled, sabandoned, sfailed, sresult>>
    BY <1>5, <1>t, Zenon DEF S!Exit
  <2>2. v \in HandType /\ v.pc = "exit"  BY <1>t, Zenon
  <2> HIDE DEF v
  <2>3. Sent(jobs', shared', sworker') = Sent(jobs, shared, sworker)
    BY <1>t, <2>1, <2>2, SentMoves DEF Sent
  <2> QED  BY <1>t, <2>1, <2>2, <2>3, WorkerMoves, Zenon
<1> QED  BY <1>1, <1>2, <1>3, <1>4, <1>5, Zenon DEF S!WorkerStep

\* When no walk is left and no worker has a block, a pipeline that was not
\* cancelled has stored every reachable block.
LEMMA AllShared ==
    ASSUME ShareInv, ~scancelled, S!Alive = {}, jobs = {},
           \A w \in Workers : sworker[w].pc = "exit"
    PROVE  Reachable \subseteq shared
<1> USE DEF ShareInv
<1>1. \A e \in S!Walks : walk[e] = "none" \/ walk[e] = "end"
  BY Zenon DEF S!Alive, ShareType, WalkState
<1>2. Sent(jobs, shared, sworker) = shared  BY Zenon DEF Sent
<1>3. svisited \subseteq shared
  BY <1>1, <1>2, Zenon DEF ProgressInv, Claiming
<1>4. Root \in svisited
  <2>1. walk[<<None, Root>>] = "end"  BY <1>1, WalksFacts, Zenon DEF ProgressInv
  <2> QED  BY <2>1, WalksFacts, Zenon DEF ProgressInv
<1>5. ASSUME NEW c \in svisited, NEW d \in Links[c] PROVE d \in svisited
  <2>1. c \in Blocks  BY Zenon DEF ShareType
  <2>2. <<c, d>> \in S!Walks /\ <<c, d>>[1] = c /\ <<c, d>>[2] = d  BY <1>5, <2>1, WalksFacts, Zenon
  <2>3. walk[<<c, d>>] = "end"  BY <1>1, <1>2, <1>3, <2>2, Zenon DEF ProgressInv
  <2> QED  BY <2>2, <2>3, Zenon DEF ProgressInv
<1>6. Closed(svisited) /\ svisited \in SUBSET Blocks  BY <1>4, <1>5, Zenon DEF Closed, ShareType
<1> QED  BY <1>3, <1>6, ReachableFacts, Zenon

\* ... its closer and its caller.
LEMMA ShareCallerInv ==
    ASSUME ShareInv, S!Close \/ S!Return \/ S!Cancel
    PROVE  ShareInv'
<1> USE DEF ShareInv
<1>1. CASE S!Close
  <2>1. ShareType' /\ ClaimInv' /\ ReachInv' /\ ProgressInv'
    BY <1>1, Zenon DEF S!Close, ShareType, ClaimInv, ReachInv, ProgressInv
  <2>2. EndInv'
    BY <1>1, Zenon DEF S!Close, EndInv, S!Alive
  <2> QED  BY <2>1, <2>2, Zenon
<1>2. CASE S!Return
  <2>0. /\ \A e \in S!Walks : walk'[e] = "none"
        /\ svisited' = {} /\ scancelled' = TRUE /\ sfailed' = FALSE
        /\ sresult' = IF sfailed THEN "error" ELSE "ok"
        /\ sresult = "none" /\ \A w \in Workers : sworker[w].pc = "exit"
        /\ UNCHANGED <<jobs, sclosed, sworker, shared, sabandoned>>
    BY <1>2, Zenon DEF S!Return
  <2>1. ShareType'
    BY <1>2, <2>0, Zenon DEF S!Return, ShareType, WalkState
  <2>2. ClaimInv' /\ ReachInv' /\ ProgressInv'
    BY <2>0, Zenon DEF ClaimInv, ReachInv, ProgressInv, Claiming
  <2>3. EndInv'
    <3>1. sclosed /\ jobs = {} /\ S!Alive = {}
      BY <2>0, WorkersAssumption, Zenon DEF EndInv
    <3>2. S!Alive' = {}  BY <2>0, Zenon DEF S!Alive, S!Running
    <3>3. ~sfailed /\ ~sabandoned => Reachable \subseteq shared
      BY <2>0, <3>1, AllShared, Zenon DEF EndInv
    <3> QED  BY <2>0, <3>1, <3>2, <3>3, Zenon DEF EndInv
  <2> QED  BY <2>1, <2>2, <2>3, Zenon
<1>3. CASE S!Cancel
  <2>1. ShareType' /\ ClaimInv' /\ ReachInv' /\ ProgressInv'
    BY <1>3, Zenon DEF S!Cancel, ShareType, ClaimInv, ReachInv, ProgressInv
  <2>2. EndInv'
    BY <1>3, Zenon DEF S!Cancel, EndInv, S!Alive
  <2> QED  BY <2>1, <2>2
<1> QED  BY <1>1, <1>2, <1>3, Zenon

\* Every step of the share keeps the invariant of the share.
LEMMA ShareStep == ShareInv /\ [S!Next]_(S!vars) => ShareInv'
<1> SUFFICES ASSUME ShareInv, [S!Next]_(S!vars) PROVE ShareInv'
  OBVIOUS
<1>1. CASE UNCHANGED S!vars
  BY <1>1 DEF S!vars, ShareInv, ShareType, ClaimInv, ReachInv, ProgressInv, EndInv, S!Alive
<1>2. CASE S!Terminated  BY <1>1, <1>2, Zenon DEF S!Terminated
<1> QED  BY <1>1, <1>2, WalkStepInv, ShareWorkerInv, ShareCallerInv, Zenon DEF S!Next

\* The ring's steps are steps of the two pipelines.
LEMMA RingSteps ==
    ASSUME [RNext]_rvars
    PROVE  [Next]_vars /\ [S!Next]_(S!vars)
<1>1. ASSUME UNCHANGED vars PROVE [Next]_vars  BY <1>1, Zenon
<1>2. ASSUME UNCHANGED shareVars PROVE [S!Next]_(S!vars)  BY <1>2, Zenon DEF shareVars, S!vars
<1>3. ASSUME NEW e \in S!Walks, ShareWalk(e) PROVE S!Next  BY <1>3, Zenon DEF ShareWalk, S!Next
<1>4. ASSUME NEW w \in Workers, ShareWorker(w) PROVE S!Next
  BY <1>4, Zenon DEF ShareWorker, PutWithRoot, S!Next, S!WorkerStep
<1>5. ASSUME ShareCaller \/ ShareCancel PROVE S!Next  BY <1>5, Zenon DEF ShareCaller, ShareCancel, S!Next
<1>6. ASSUME NEW c \in Blocks, FetchSender(c) PROVE Next  BY <1>6, Zenon DEF FetchSender, Next
<1>7. ASSUME NEW w \in Workers, FetchWorker(w) PROVE Next  BY <1>7, Zenon DEF FetchWorker, Next
<1>8. ASSUME FetchCaller \/ FetchCancel PROVE Next  BY <1>8, Zenon DEF FetchCaller, FetchCancel, Next
<1> QED  BY <1>1, <1>2, <1>3, <1>4, <1>5, <1>6, <1>7, <1>8, Zenon DEF RNext, Running, rvars

\* The fetch on the ring is a fetch of DagFetch: what was proved of the
\* pipeline holds of it, wherever its blocks come from.
THEOREM RingFetches == RSpec => Spec
<1>1. RInit => Init  BY Zenon DEF RInit
<1>2. [RNext]_rvars => [Next]_vars  BY RingSteps, Zenon
<1> QED  BY <1>1, <1>2, PTL DEF RSpec, Spec

\* The WaitGroup of a fetch on the ring is exact, nothing is sent into its closed
\* queue, and a fetch that returns nil has the whole DAG (dht/fetch.go 191-290).
COROLLARY RingFetchCorrect == RSpec => [](InflightExact /\ NoSendOnClosed /\ FetchComplete)
  BY RingFetches, FetchInflightExact, FetchNoSendOnClosed, FetchIsComplete, PTL

\* And the share on the ring is a share of DagShare.
THEOREM RingShares == RSpec => S!Spec
<1>1. RInit => S!Init  BY Zenon DEF RInit
<1>2. [RNext]_rvars => [S!Next]_(S!vars)  BY RingSteps, Zenon
<1> QED  BY <1>1, <1>2, PTL DEF RSpec, S!Spec

\* The invariant of the share holds on the ring.
LEMMA ShareInvariant == RSpec => []ShareInv
<1>1. S!Spec => []ShareInv
  BY ShareInitInv, ShareStep, PTL DEF S!Spec
<1> QED  BY <1>1, RingShares, Zenon

\* Nobody sends into the closed channel of jobs, and a share that returns nil has
\* had exactly the blocks of the DAG acknowledged (ShareDAGWithTTL): for every
\* DAG, number of workers and number of walks that may run at a time.
THEOREM RingShareSafe == RSpec => []ShareSafe
<1>1. ShareInv => ShareSafe
  BY Zenon DEF ShareInv, EndInv, ReachInv, ShareSafe
<1> QED  BY <1>1, ShareInvariant, PTL
-----------------------------------------------------------------------------
\* Sequences: what is on a stack stays there but for the head, ...
LEMMA OnTail ==
    ASSUME NEW s \in Seq(Blocks), s # <<>>
    PROVE  /\ Head(s) \in Blocks /\ Tail(s) \in Seq(Blocks)
           /\ \A x : On(s, x) => x = Head(s) \/ On(Tail(s), x)
<1>1. Head(s) \in Blocks /\ Tail(s) \in Seq(Blocks) /\ Len(Tail(s)) = Len(s) - 1  OBVIOUS
<1>2. ASSUME NEW x, NEW i \in 1..Len(s), s[i] = x, x # Head(s)
      PROVE  i - 1 \in 1..Len(Tail(s)) /\ Tail(s)[i - 1] = x
  BY <1>2
<1> QED  BY <1>1, <1>2, Zenon DEF On

\* ... is there after a push, ...
LEMMA OnConcat ==
    ASSUME NEW s \in Seq(Blocks), NEW t \in Seq(Blocks)
    PROVE  /\ s \o t \in Seq(Blocks)
           /\ \A x : On(s, x) \/ On(t, x) => On(s \o t, x)
<1>1. ASSUME NEW i \in 1..Len(s) PROVE i \in 1..Len(s \o t) /\ (s \o t)[i] = s[i]
  OBVIOUS
<1>2. ASSUME NEW i \in 1..Len(t) PROVE Len(s) + i \in 1..Len(s \o t) /\ (s \o t)[Len(s) + i] = t[i]
  <2> DEFINE k == Len(s) + i
  <2>1. /\ k \in 1..(Len(s) + Len(t)) /\ k > Len(s) /\ k - Len(s) = i
        /\ Len(s \o t) = Len(s) + Len(t)
    OBVIOUS
  <2>2. (s \o t)[k] = t[k - Len(s)]
    <3> HIDE DEF k
    <3> QED  BY <2>1
  <2> QED  BY <2>1, <2>2, Zenon
<1>3. s \o t \in Seq(Blocks)  OBVIOUS
<1>4. ASSUME NEW x, On(s, x) PROVE On(s \o t, x)
  <2>1. PICK i \in 1..Len(s) : s[i] = x  BY <1>4, Zenon DEF On
  <2> QED  BY <2>1, <1>1, Zenon DEF On
<1>5. ASSUME NEW x, On(t, x) PROVE On(s \o t, x)
  <2>1. PICK i \in 1..Len(t) : t[i] = x  BY <1>5, Zenon DEF On
  <2> QED  BY <2>1, <1>2, Zenon DEF On
<1> QED  BY <1>3, <1>4, <1>5, Zenon

\* ... and every link is in each order of the links.
LEMMA OnOrders ==
    ASSUME NEW T \in SUBSET Blocks, IsFiniteSet(T), NEW q \in Orders(T)
    PROVE  q \in Seq(Blocks) /\ \A x \in T : On(q, x)
<1>1. Cardinality(T) \in Nat  BY FS_CardinalityType, Zenon
<1>2. q \in Seq(Blocks) /\ DOMAIN q = 1..Len(q)  BY <1>1 DEF Orders
<1> QED  BY <1>2, Zenon DEF Orders, On
-----------------------------------------------------------------------------
\* The stores begin empty and nothing is being deleted.
LEMMA StoreInitInv == RInit => StoreInv /\ WalkInv
<1> SUFFICES ASSUME RInit PROVE StoreInv /\ WalkInv
  BY Zenon
<1>1. /\ held = [n \in Nodes |-> {}] /\ data = [n \in Nodes |-> {}] /\ pending = {}
      /\ mine = Blocks /\ del = Off /\ missed = FALSE /\ shared = {}
  BY Zenon DEF RInit, S!Init
<1>2. StoreInv  BY <1>1, Zenon DEF StoreInv
<1>3. del \in DelType /\ del.pc = "off"  BY <1>1 DEF Off, DelType
<1> QED  BY <1>1, <1>2, <1>3, Zenon DEF WalkInv

\* A step that leaves the stores and the deletion alone, and takes nothing back.
LEMMA StoreStands ==
    ASSUME StoreInv, WalkInv, UNCHANGED <<storeVars, del, missed>>, shared' = shared,
           sresult # "none" => sresult' # "none"
    PROVE  StoreInv' /\ WalkInv'
BY Zenon DEF StoreInv, WalkInv, storeVars

\* What a store lists more is a block of the DAG, in its window.
LEMMA KeepFacts ==
    ASSUME StoreInv, NEW n \in Nodes, NEW c \in Reachable, n \in Window(c), Keep(n, c)
    PROVE  /\ held' \in [Nodes -> SUBSET Blocks] /\ data' \in [Nodes -> SUBSET Blocks]
           /\ \A m \in Nodes : held'[m] \subseteq data'[m] /\ held[m] \subseteq held'[m]
           /\ c \in held'[n]
           /\ \A m \in Nodes : \A d \in held'[m] : d \in Reachable /\ m \in Window(d)
<1>1. held \in [Nodes -> SUBSET Blocks] /\ data \in [Nodes -> SUBSET Blocks] /\ c \in Blocks
  BY ReachableFacts, Zenon DEF StoreInv
<1>2. \A m \in Nodes : /\ held'[m] = IF m = n THEN held[m] \cup {c} ELSE held[m]
                       /\ data'[m] = IF m = n THEN data[m] \cup {c} ELSE data[m]
  BY <1>1, Zenon DEF Keep
<1>3. held' \in [Nodes -> SUBSET Blocks] /\ data' \in [Nodes -> SUBSET Blocks]
  BY <1>1, Zenon DEF Keep
<1> QED  BY <1>2, <1>3 DEF StoreInv

\* A put comes before the share returns, so no deletion runs.
LEMMA PutWithRootInv ==
    ASSUME ShareInv, StoreInv, WalkInv, NEW w \in Workers, PutWithRoot(w), UNCHANGED <<del, missed>>
    PROVE  StoreInv' /\ WalkInv'
<1> DEFINE c == sworker[w].block
<1>1. c \in Reachable /\ c \in Blocks /\ sresult = "none" /\ sresult' = "none"
      /\ shared' = shared \cup {c}
  BY ReachableFacts, Zenon DEF ShareInv, ReachInv, EndInv, PutWithRoot, S!Put
<1>2. del.pc = "off"  BY <1>1, Zenon DEF WalkInv
<1>3. PICK T \in SUBSET Replicas[Owner[c]] : pending' = pending \cup ({c} \X T)
  BY Zenon DEF PutWithRoot
<1>4. Keep(Owner[c], c) /\ mine' = mine  BY Zenon DEF PutWithRoot
<1> HIDE DEF c
<1>5. Owner[c] \in Nodes /\ Replicas[Owner[c]] \subseteq Nodes  BY <1>1, RingAssumption, Zenon
<1>6. /\ held' \in [Nodes -> SUBSET Blocks] /\ data' \in [Nodes -> SUBSET Blocks]
      /\ \A m \in Nodes : held'[m] \subseteq data'[m] /\ held[m] \subseteq held'[m]
      /\ c \in held'[Owner[c]]
      /\ \A m \in Nodes : \A d \in held'[m] : d \in Reachable /\ m \in Window(d)
  BY <1>1, <1>4, <1>5, KeepFacts, Zenon DEF Window
<1>7. \A p \in pending' : p \in pending \/ (p[1] = c /\ p[2] \in T)
  <2> TAKE p \in pending'
  <2>1. p \in {c} \X T => p[1] = c /\ p[2] \in T  BY Zenon
  <2>2. p \in pending \/ p \in {c} \X T  BY <1>3, Zenon
  <2> QED  BY <2>1, <2>2, Zenon
<1>8. pending' \subseteq Blocks \X Nodes  BY <1>1, <1>3, <1>5, Zenon DEF StoreInv
<1>9. ASSUME NEW p \in pending' PROVE p[1] \in Reachable /\ p[2] \in Replicas[Owner[p[1]]]
  <2>1. CASE p \in pending  BY <2>1, Zenon DEF StoreInv
  <2>2. CASE p[1] = c /\ p[2] \in T  BY <2>2, <1>1, Zenon
  <2> QED  BY <2>1, <2>2, <1>7, Zenon
<1>10. \A d \in shared' : d \in held'[Owner[d]]
  <2> TAKE d \in shared'
  <2>1. CASE d = c  BY <2>1, <1>6, Zenon
  <2>2. CASE d \in shared
    <3>1. d \in held[Owner[d]] /\ Owner[d] \in Nodes
      BY <2>2, <1>2, RingAssumption, Zenon DEF StoreInv, ShareInv, ShareType
    <3> QED  BY <3>1, <1>6, Zenon
  <2> QED  BY <2>1, <2>2, <1>1, Zenon
<1>11. StoreInv'  BY <1>4, <1>6, <1>8, <1>9, <1>10, Zenon DEF StoreInv
<1> QED  BY <1>2, <1>11, Zenon DEF WalkInv

\* A copy that arrives during a deletion was counted when the deletion began.
LEMMA replicateAsyncInv ==
    ASSUME ShareInv, StoreInv, WalkInv,
           NEW c \in Blocks, NEW n \in Nodes, replicateAsync(c, n),
           UNCHANGED <<shareVars, del, missed>>
    PROVE  StoreInv' /\ WalkInv'
<1>1. c \in Reachable /\ n \in Replicas[Owner[c]]
  BY Zenon DEF replicateAsync, StoreInv
<1>2. \/ Keep(n, c)
      \/ UNCHANGED <<held, data>>
  BY Zenon DEF replicateAsync
<1>3. /\ held' \in [Nodes -> SUBSET Blocks] /\ data' \in [Nodes -> SUBSET Blocks]
      /\ \A m \in Nodes : held'[m] \subseteq data'[m] /\ held[m] \subseteq held'[m]
      /\ \A m \in Nodes : \A d \in held'[m] : d \in Reachable /\ m \in Window(d)
  <2>1. CASE Keep(n, c)  BY <2>1, <1>1, KeepFacts, Zenon DEF Window
  <2>2. CASE UNCHANGED <<held, data>>  BY <2>2, Zenon DEF StoreInv
  <2> QED  BY <1>2, <2>1, <2>2, Zenon
<1>4. pending' \subseteq pending /\ mine' = mine /\ shared' = shared /\ pending # {}
  BY Zenon DEF replicateAsync, shareVars
<1>5. del.pc = "off" => \A d \in shared : d \in held'[Owner[d]]
  <2> SUFFICES ASSUME del.pc = "off", NEW d \in shared PROVE d \in held'[Owner[d]]
    BY Zenon
  <2>1. d \in held[Owner[d]] /\ Owner[d] \in Nodes
    BY RingAssumption, Zenon DEF StoreInv, ShareInv, ShareType
  <2> QED  BY <2>1, <1>3, Zenon
<1>6. StoreInv'  BY <1>3, <1>4, <1>5, Zenon DEF StoreInv
<1>7. del.pc = "off" \/ missed  BY <1>4, Zenon DEF WalkInv
<1> QED  BY <1>6, <1>7, Zenon DEF WalkInv, shareVars

\* The collector and the sharer's own cleaning touch no list.
LEMMA GcInv ==
    ASSUME StoreInv, WalkInv, UNCHANGED <<shareVars, del, missed>>,
           (\E n \in Nodes : Gc(n)) \/ ForgetLocal
    PROVE  StoreInv' /\ WalkInv'
<1>1. held' = held /\ pending' = pending /\ mine' \subseteq mine  BY Zenon DEF Gc, ForgetLocal
<1>2. data' \in [Nodes -> SUBSET Blocks] /\ \A m \in Nodes : held[m] \subseteq data'[m]
  BY Zenon DEF Gc, ForgetLocal, StoreInv
<1>3. StoreInv'  BY <1>1, <1>2, Zenon DEF StoreInv, shareVars
<1> QED  BY <1>1, <1>3, Zenon DEF WalkInv, shareVars
-----------------------------------------------------------------------------
\* A store that forgets the root.
LEMMA RemoveRootFacts ==
    ASSUME StoreInv, NEW N, RemoveRoot(N) \/ held' = held
    PROVE  /\ held' \in [Nodes -> SUBSET Blocks]
           /\ \A m \in Nodes : held'[m] \subseteq held[m]
           /\ RemoveRoot(N) => \A m \in Nodes \cap N : held'[m] = {}
BY Zenon DEF RemoveRoot, StoreInv

\* The deletion takes from the stores, and only lists.
LEMMA DeleteStoreInv ==
    ASSUME StoreInv, WalkInv, DeleteStep, UNCHANGED shareVars
    PROVE  /\ StoreInv'
           /\ \A m \in Nodes : held[m] = {} => held'[m] = {}
           /\ pending' = pending /\ mine' = mine /\ data' = data
<1>1. PICK N : RemoveRoot(N) \/ held' = held
  BY Zenon DEF DeleteStep, DeleteCID, deleteCIDWalk, handleDeleteCID, ReadLinks, DeleteEnds, storeVars
<1>2. /\ held' \in [Nodes -> SUBSET Blocks]
      /\ \A m \in Nodes : held'[m] \subseteq held[m]
  BY <1>1, RemoveRootFacts, Zenon
<1>3. pending' = pending /\ mine' = mine /\ data' = data
  BY Zenon DEF DeleteStep, DeleteCID, deleteCIDWalk, handleDeleteCID, ReadLinks, DeleteEnds, storeVars
<1>4. del'.pc # "off"
  <2>1. CASE DeleteCID  BY <2>1, Zenon DEF DeleteCID, Off
  <2>2. CASE deleteCIDWalk  BY <2>2, Zenon DEF deleteCIDWalk, WalkInv, DelType
  <2>3. CASE handleDeleteCID  BY <2>3, Zenon DEF handleDeleteCID, WalkInv, DelType
  <2>4. CASE ReadLinks  BY <2>4, Zenon DEF ReadLinks, WalkInv, DelType
  <2>5. CASE DeleteEnds  BY <2>5, Zenon DEF DeleteEnds, WalkInv, DelType
  <2> QED  BY <2>1, <2>2, <2>3, <2>4, <2>5, Zenon DEF DeleteStep
<1> QED  BY <1>2, <1>3, <1>4, Zenon DEF StoreInv

\* The walk begins with the root on its stack.
LEMMA DeleteCIDInv ==
    ASSUME StoreInv, WalkInv, DeleteCID, UNCHANGED shareVars
    PROVE  WalkInv'
<1>1. <<Root>> \in Seq(Blocks) /\ On(<<Root>>, Root)  BY RootAssumption DEF On
<1>2. /\ del' \in DelType /\ del'.pc = "walk" /\ del'.stack = <<Root>> /\ del'.seen = {}
  BY <1>1, Zenon DEF DeleteCID, Off, DelType
<1>3. missed' \in BOOLEAN /\ (~missed' => pending' = {}) /\ sresult' # "none"
  BY Zenon DEF DeleteCID, shareVars
<1> QED  BY <1>1, <1>2, <1>3, Zenon DEF WalkInv

\* A visit: the block in hand leaves the stack and is seen.
LEMMA VisitDeleteInv ==
    ASSUME StoreInv, WalkInv, deleteCIDWalk, UNCHANGED shareVars
    PROVE  WalkInv'
<1> DEFINE c == Head(del.stack)
           r == Tail(del.stack)
<1>1. del \in DelType /\ del.pc = "walk" /\ del.stack \in Seq(Blocks) /\ del.stack # <<>>
  BY Zenon DEF deleteCIDWalk, WalkInv, DelType
<1>2. c \in Blocks /\ r \in Seq(Blocks) /\ \A x : On(del.stack, x) => x = c \/ On(r, x)
  BY <1>1, OnTail, Zenon
<1>3. \A m \in Nodes : held[m] = {} => held'[m] = {}
  BY DeleteStoreInv, Zenon DEF DeleteStep
<1>4. pending' = pending /\ sresult' = sresult /\ missed \in BOOLEAN /\ sresult # "none"
  BY <1>1, Zenon DEF deleteCIDWalk, shareVars, WalkInv
<1>5. \A d \in Blocks : Window(d) \subseteq Nodes  BY RingAssumption, Zenon DEF Window
<1>6. CASE c \in del.seen /\ del' = [del EXCEPT !.stack = r] /\ UNCHANGED <<held, missed>>
  <2>1. del' \in DelType /\ del'.pc = "walk" /\ del'.stack = r /\ del'.seen = del.seen
    BY <1>1, <1>2, <1>6, Zenon DEF DelType
  <2> HIDE DEF c, r
  <2> QED  BY <1>1, <1>2, <1>4, <1>6, <2>1, Zenon DEF WalkInv
<1>7. CASE missed' = TRUE /\ del' \in DelType /\ del'.pc \in {"walk", "read"}
  BY <1>4, <1>7, Zenon DEF WalkInv
<1>8. CASE /\ RemoveRoot({Owner[c]}) /\ missed' = missed
           /\ del' \in DelType /\ del'.pc = "tell" /\ del'.stack = r /\ del'.seen = del.seen \cup {c}
           /\ del'.block = c /\ del'.tell = Replicas[Owner[c]]
  <2> HIDE DEF c, r
  <2>1. /\ del' \in DelType /\ del'.pc = "tell" /\ del'.stack = r /\ del'.seen = del.seen \cup {c}
        /\ del'.block = c /\ del'.tell = Replicas[Owner[c]]
    BY <1>8, Zenon
  <2>2. held'[Owner[c]] = {}
    BY <1>2, <1>8, RemoveRootFacts, RingAssumption, Zenon
  <2> SUFFICES ASSUME ~missed
               PROVE  /\ pending' = {}
                      /\ Root \in del'.seen \/ On(del'.stack, Root)
                      /\ \A d \in del'.seen : \A n \in Window(d) :
                           held'[n] = {} \/ (d = c /\ n \in del'.tell)
                      /\ \A d \in del'.seen :
                           d = c \/ \A x \in Links[d] : x \in del'.seen \/ On(del'.stack, x)
    BY <1>4, <1>8, <2>1, Zenon DEF WalkInv
  <2>3. pending' = {} /\ (Root \in del.seen \/ On(del.stack, Root))
    BY <1>1, <1>4, Zenon DEF WalkInv
  <2>4. Root \in del'.seen \/ On(del'.stack, Root)
    BY <2>1, <2>3, <1>2, Zenon
  <2>5. ASSUME NEW d \in del'.seen, NEW n \in Window(d)
        PROVE  held'[n] = {} \/ (d = c /\ n \in del'.tell)
    <3>1. CASE d = c  BY <3>1, <2>1, <2>2, <2>5, Zenon DEF Window
    <3>2. CASE d \in del.seen
      <4>1. held[n] = {} /\ d \in Blocks  BY <3>2, <2>5, <1>1, Zenon DEF WalkInv, DelType
      <4> QED  BY <4>1, <2>5, <1>3, <1>5, Zenon
    <3> QED  BY <3>1, <3>2, <2>1, Zenon
  <2>6. ASSUME NEW d \in del'.seen, d # c, NEW x \in Links[d]
        PROVE  x \in del'.seen \/ On(del'.stack, x)
    <3>1. d \in del.seen  BY <2>6, <2>1, Zenon
    <3>2. x \in del.seen \/ On(del.stack, x)  BY <3>1, <2>6, <1>1, Zenon DEF WalkInv
    <3> QED  BY <3>2, <1>2, <2>1, Zenon
  <2> QED  BY <2>3, <2>4, <2>5, <2>6, Zenon
<1>9. \/ c \in del.seen /\ del' = [del EXCEPT !.stack = r] /\ UNCHANGED <<held, missed>>
      \/ missed' = TRUE /\ del' \in DelType /\ del'.pc \in {"walk", "read"}
      \/ /\ RemoveRoot({Owner[c]}) /\ missed' = missed
         /\ del' \in DelType /\ del'.pc = "tell" /\ del'.stack = r /\ del'.seen = del.seen \cup {c}
         /\ del'.block = c /\ del'.tell = Replicas[Owner[c]]
  <2> DEFINE popped == [del EXCEPT !.stack = r]
             seen == [popped EXCEPT !.seen = @ \cup {c}, !.block = c]
  <2>1. \/ c \in del.seen /\ del' = popped /\ UNCHANGED <<held, missed>>
        \/ (del' = seen \/ del' = [seen EXCEPT !.pc = "read"]) /\ missed' = TRUE
        \/ /\ RemoveRoot({Owner[c]}) /\ missed' = missed
           /\ del' = [seen EXCEPT !.pc = "tell", !.tell = Replicas[Owner[c]]]
    BY Zenon DEF deleteCIDWalk
  <2>2. Replicas[Owner[c]] \in SUBSET Nodes  BY <1>2, RingAssumption, Zenon
  <2> HIDE DEF c, r
  <2>3. popped \in DelType /\ popped.pc = "walk" /\ popped.stack = r /\ popped.seen = del.seen
    BY <1>1, <1>2, Zenon DEF DelType
  <2> HIDE DEF popped
  <2>4. /\ seen \in DelType /\ seen.pc = "walk" /\ seen.stack = r /\ seen.seen = del.seen \cup {c}
        /\ seen.block = c
    BY <2>3, <1>1, <1>2, Zenon DEF DelType
  <2> HIDE DEF seen
  <2>5. [seen EXCEPT !.pc = "read"] \in DelType /\ [seen EXCEPT !.pc = "read"].pc = "read"
    BY <2>4, Zenon DEF DelType
  <2>6. ASSUME del' = [seen EXCEPT !.pc = "tell", !.tell = Replicas[Owner[c]]]
        PROVE  /\ del' \in DelType /\ del'.pc = "tell" /\ del'.stack = r
               /\ del'.seen = del.seen \cup {c} /\ del'.block = c /\ del'.tell = Replicas[Owner[c]]
    BY <2>2, <2>4, <2>6, Zenon DEF DelType
  <2> QED  BY <2>1, <2>4, <2>5, <2>6, Zenon DEF popped
<1> QED  BY <1>6, <1>7, <1>8, <1>9, Zenon

\* The owner tells its replicas one by one.
LEMMA TellDeleteInv ==
    ASSUME StoreInv, WalkInv, handleDeleteCID, UNCHANGED shareVars
    PROVE  WalkInv'
<1>1. del \in DelType /\ del.pc = "tell" /\ pending' = pending /\ missed \in BOOLEAN
  BY Zenon DEF handleDeleteCID, WalkInv
<1>2. \A m \in Nodes : held[m] = {} => held'[m] = {}
  BY DeleteStoreInv, Zenon DEF DeleteStep
<1>3. \A d \in Blocks : Window(d) \subseteq Nodes  BY RingAssumption DEF Window
<1>4. sresult' # "none"  BY <1>1, Zenon DEF WalkInv, shareVars
<1>5. CASE del.tell = {} /\ del' = [del EXCEPT !.pc = "read"] /\ UNCHANGED <<held, missed>>
  <2>1. /\ del' \in DelType /\ del'.pc = "read" /\ del'.stack = del.stack /\ del'.seen = del.seen
        /\ del'.block = del.block
    BY <1>1, <1>5, Zenon DEF DelType
  <2> QED  BY <1>1, <1>4, <1>5, <2>1, Zenon DEF WalkInv
<1>6. ASSUME NEW n \in del.tell, del' = [del EXCEPT !.tell = @ \ {n}],
             \/ RemoveRoot({n}) /\ UNCHANGED missed
             \/ missed' = TRUE /\ UNCHANGED held
      PROVE  WalkInv'
  <2>1. /\ del' \in DelType /\ del'.pc = "tell" /\ del'.stack = del.stack /\ del'.seen = del.seen
        /\ del'.block = del.block /\ del'.tell = del.tell \ {n} /\ n \in Nodes
    BY <1>1, <1>6, Zenon DEF DelType
  <2>2. CASE missed' = TRUE  BY <2>1, <2>2, <1>4, Zenon DEF WalkInv
  <2>3. CASE RemoveRoot({n}) /\ missed' = missed
    <3>1. held'[n] = {}  BY <2>1, <2>3, RemoveRootFacts, Zenon
    <3>2. ASSUME ~missed, NEW d \in del.seen, NEW m \in Window(d)
          PROVE  held'[m] = {} \/ (d = del.block /\ m \in del'.tell)
      <4>1. held[m] = {} \/ (d = del.block /\ m \in del.tell)  BY <3>2, <1>1, Zenon DEF WalkInv
      <4>2. m \in Nodes  BY <3>2, <1>1, <1>3, Zenon DEF DelType
      <4> QED  BY <4>1, <4>2, <3>1, <2>1, <1>2, Zenon
    <3> QED  BY <3>2, <2>1, <2>3, <1>1, <1>4, Zenon DEF WalkInv
  <2> QED  BY <2>2, <2>3, <1>6, Zenon
<1> QED  BY <1>5, <1>6, Zenon DEF handleDeleteCID

\* The links go onto the stack before the block is done with.
LEMMA ReadLinksInv ==
    ASSUME StoreInv, WalkInv, ReadLinks, UNCHANGED shareVars
    PROVE  WalkInv'
<1> DEFINE c == del.block
<1>1. /\ del \in DelType /\ del.pc = "read" /\ pending' = pending /\ held' = held
      /\ missed \in BOOLEAN /\ sresult' # "none"
  BY Zenon DEF ReadLinks, WalkInv, storeVars, shareVars
<1>2. CASE missed' = TRUE /\ del' = [del EXCEPT !.pc = "walk"]
  <2>1. del' \in DelType /\ del'.pc = "walk"  BY <1>1, <1>2, Zenon DEF DelType
  <2> QED  BY <2>1, <1>1, <1>2, Zenon DEF WalkInv
<1>3. ASSUME c \in mine \cup data[Me], missed' = missed,
             NEW q \in Orders(Links[c]), del' = [del EXCEPT !.pc = "walk", !.stack = q \o @]
      PROVE  WalkInv'
  <2>1. c \in Blocks  BY <1>3, RingAssumption, Zenon DEF StoreInv
  <2>2. Links[c] \subseteq Blocks /\ IsFiniteSet(Links[c])
    BY <2>1, LinksAssumption, FiniteAssumption, FS_Subset, Zenon
  <2>3. q \in Seq(Blocks) /\ \A x \in Links[c] : On(q, x)  BY <1>3, <2>2, OnOrders, Zenon
  <2>4. del.stack \in Seq(Blocks)  BY <1>1, Zenon DEF DelType
  <2>5. /\ q \o del.stack \in Seq(Blocks)
        /\ \A x : On(q, x) \/ On(del.stack, x) => On(q \o del.stack, x)
    BY <2>3, <2>4, OnConcat, Zenon
  <2> DEFINE t == q \o del.stack
  <2>6. /\ t \in Seq(Blocks)
        /\ \A x : On(q, x) \/ On(del.stack, x) => On(t, x)
        /\ del' = [del EXCEPT !.pc = "walk", !.stack = t]
    BY <2>5, <1>3, Zenon
  <2> HIDE DEF t
  <2>7. del' \in DelType /\ del'.pc = "walk" /\ del'.stack = t /\ del'.seen = del.seen
    BY <1>1, <2>6, Zenon DEF DelType
  <2>8. ASSUME ~missed, NEW d \in del.seen, NEW x \in Links[d]
        PROVE  x \in del.seen \/ On(t, x)
    <3>1. CASE d = c  BY <3>1, <2>8, <2>3, <2>6, Zenon
    <3>2. CASE d # c
      <4>1. x \in del.seen \/ On(del.stack, x)  BY <3>2, <2>8, <1>1, Zenon DEF WalkInv
      <4> QED  BY <4>1, <2>6, Zenon
    <3> QED  BY <3>1, <3>2, Zenon
  <2> HIDE DEF c
  <2>9. ~missed => /\ pending = {}
                   /\ Root \in del.seen \/ On(t, Root)
                   /\ \A d \in del.seen : \A n \in Window(d) : held[n] = {}
    BY <1>1, <2>6, Zenon DEF WalkInv
  <2> QED  BY <2>7, <2>8, <2>9, <1>1, <1>3, Zenon DEF WalkInv
<1> QED  BY <1>2, <1>3, Zenon DEF ReadLinks

\* The end: nothing waits.
LEMMA DeleteEndsInv ==
    ASSUME StoreInv, WalkInv, DeleteEnds, UNCHANGED shareVars
    PROVE  WalkInv'
<1>1. /\ del \in DelType /\ del.pc = "walk" /\ pending' = pending /\ held' = held
      /\ missed' = missed /\ sresult' = sresult /\ del.stack = <<>>
  BY Zenon DEF DeleteEnds, WalkInv, storeVars, shareVars
<1>2. del' \in DelType /\ del'.pc = "end" /\ del'.stack = del.stack /\ del'.seen = del.seen
  BY <1>1, Zenon DEF DeleteEnds, DelType
<1> QED  BY <1>1, <1>2, Zenon DEF WalkInv
-----------------------------------------------------------------------------
\* The inductive invariant of the ring.
RingInv == ShareInv /\ StoreInv /\ WalkInv

\* Every step of the ring keeps the invariant.
LEMMA RingInvStep == RingInv /\ [RNext]_rvars => RingInv'
<1> SUFFICES ASSUME ShareInv, StoreInv, WalkInv, [RNext]_rvars
             PROVE  ShareInv' /\ StoreInv' /\ WalkInv'
  BY Zenon DEF RingInv
<1>1. ShareInv'  BY RingSteps, ShareStep, Zenon
<1>2. ASSUME UNCHANGED <<shareVars, storeVars, deleteVars>> PROVE StoreInv' /\ WalkInv'
  BY <1>2, StoreStands, Zenon DEF shareVars, deleteVars
<1>3. ASSUME NEW e \in S!Walks, ShareWalk(e), UNCHANGED <<del, missed>> PROVE StoreInv' /\ WalkInv'
  <2>1. shared' = shared /\ sresult' = sresult
    BY <1>3, Zenon DEF ShareWalk, S!WalkStep, S!CheckContext, S!Visit, S!Acquire, S!Abort,
           S!Read, S!ReadFails, S!Send
  <2> QED  BY <2>1, <1>3, StoreStands, Zenon DEF ShareWalk
<1>4. ASSUME NEW w \in Workers, ShareWorker(w), UNCHANGED <<del, missed>> PROVE StoreInv' /\ WalkInv'
  <2>1. CASE PutWithRoot(w)  BY <2>1, <1>4, PutWithRootInv, Zenon
  <2>2. CASE /\ \/ \E c \in Blocks : S!Receive(w, c)
                \/ S!Check(w) \/ S!PutFails(w) \/ S!Exit(w)
             /\ UNCHANGED storeVars
    <3>1. shared' = shared /\ sresult' = sresult
      BY <2>2, Zenon DEF S!Receive, S!Check, S!PutFails, S!Exit
    <3> QED  BY <3>1, <2>2, <1>4, StoreStands, Zenon
  <2> QED  BY <2>1, <2>2, <1>4, Zenon DEF ShareWorker
<1>5. ASSUME ShareCaller \/ ShareCancel, UNCHANGED <<del, missed>> PROVE StoreInv' /\ WalkInv'
  <2>1. shared' = shared /\ (sresult # "none" => sresult' # "none")
    BY <1>5, Zenon DEF ShareCaller, ShareCancel, S!Close, S!Return, S!Cancel
  <2> QED  BY <2>1, <1>5, StoreStands, Zenon DEF ShareCaller, ShareCancel
<1>6. ASSUME DeleteStep, UNCHANGED shareVars PROVE StoreInv' /\ WalkInv'
  BY <1>6, DeleteStoreInv, DeleteCIDInv, VisitDeleteInv, TellDeleteInv, ReadLinksInv, DeleteEndsInv, Zenon
     DEF DeleteStep
<1>7. CASE UNCHANGED rvars  BY <1>1, <1>7, <1>2, Zenon DEF rvars
<1>8. CASE Running  BY <1>1, <1>8, <1>2, <1>3, <1>4, <1>5, <1>6, Zenon DEF Running
<1>9. CASE ShareCancel /\ UNCHANGED <<vars, plan, del, missed>>  BY <1>1, <1>9, <1>5, Zenon
<1>10. CASE /\ \/ \E c \in Blocks, n \in Nodes : replicateAsync(c, n)
               \/ \E n \in Nodes : Gc(n)
               \/ ForgetLocal
            /\ UNCHANGED <<vars, shareVars, plan, del, missed>>
  BY <1>1, <1>10, replicateAsyncInv, GcInv, Zenon
<1> QED  BY <1>1, <1>2, <1>7, <1>8, <1>9, <1>10, Zenon DEF RNext

\* The invariant of the ring.
LEMMA RingInvariant == RSpec => []RingInv
<1>1. RInit => RingInv  BY ShareInitInv, StoreInitInv, Zenon DEF RInit, RingInv
<1> QED  BY <1>1, RingInvStep, PTL DEF RSpec

\* What a share acknowledged can be had from its window until it is deleted: the
\* owner of an acknowledged block lists it under the root, and the collector
\* keeps the bytes of what is listed, whichever background copies were dropped
\* (PutWithRoot and replicateAsync, dht/node.go).
THEOREM RingSharedStays == RSpec => []SharedStays
<1>1. RingInv => SharedStays
  <2> SUFFICES ASSUME RingInv, sresult = "ok", ~sabandoned, del.pc = "off", NEW c \in Reachable
               PROVE  Obtainable(c)
    BY Zenon DEF SharedStays
  <2>1. c \in shared  BY Zenon DEF RingInv, ShareInv, EndInv
  <2>2. Owner[c] \in Nodes  BY RingAssumption, ReachableFacts, Zenon
  <2>3. c \in held[Owner[c]] /\ held[Owner[c]] \subseteq data[Owner[c]]
    BY <2>1, <2>2, Zenon DEF RingInv, StoreInv
  <2> QED  BY <2>3, Zenon DEF Obtainable
<1> QED  BY <1>1, RingInvariant, PTL

\* A deletion that met no error, and began with no copy on its way, leaves the root
\* on no member (DeleteCID and handleDeleteCID, dht/node.go): at the end the
\* blocks seen are closed under links, so they are the whole DAG, and the window
\* of every one of them was told.
THEOREM RingDeleteComplete == RSpec => []DeleteComplete
<1>1. RingInv => DeleteComplete
  <2> SUFFICES ASSUME RingInv, del.pc = "end", ~missed, NEW n \in Nodes, NEW c \in held[n]
               PROVE  FALSE
    BY Zenon DEF DeleteComplete
  <2>1. del.stack = <<>>  BY Zenon DEF RingInv, WalkInv
  <2>2. \A x : ~On(del.stack, x)  BY <2>1 DEF On
  <2>3. Closed(del.seen) /\ del.seen \subseteq Blocks
    BY <2>2, Zenon DEF RingInv, WalkInv, Closed, DelType
  <2>4. c \in del.seen /\ n \in Window(c)  BY <2>3, ReachableFacts, Zenon DEF RingInv, StoreInv
  <2> QED  BY <2>4, Zenon DEF RingInv, WalkInv
<1> QED  BY <1>1, RingInvariant, PTL
=============================================================================
