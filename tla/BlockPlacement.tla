--------------------------- MODULE BlockPlacement ---------------------------
(***************************************************************************)
(* Where the replicas of one block are while the ring changes around it    *)
(* (dht/node.go, dht/stabilize.go, dht/rpc.go).                            *)
(*                                                                         *)
(* A block is put at the node responsible for its position and pushed to   *)
(* the next K - 1 nodes.  From then on copies are made by goroutines that  *)
(* a change of pointers starts: transferKeysRange when a node accepts a    *)
(* predecessor, replicateToNewSuccessors after a stabilization round or an *)
(* eviction; and by Join and Leave.  Copies go away by TransferKeys, which *)
(* gives the keys of a joining node away, and by PruneOutOfWindowBlocks.   *)
(*                                                                         *)
(* A stabilization round, with the notify it sends, is one step here (its  *)
(* interleavings are the subject of ChordRing); each goroutine that copies *)
(* is a process of its own, with one step per target.  The stores of the   *)
(* nodes are reduced to whether they hold the block for this ring.  A      *)
(* lookup returns the successor of a node that has the position on its     *)
(* arc (see ChordLookup).                                                  *)
(***************************************************************************)
EXTENDS RingId, FiniteSets, Sequences, Functions

CONSTANTS
  Nodes,       \* identifiers of the nodes
  Pos,         \* CIDToNodeID of the block
  K,           \* Config.replication
  ListSize,    \* Config.successorListSize
  Scenarios,   \* what may happen, see below
  Nil          \* no node

(* A scenario: the nodes of the stable ring it starts from; the nodes that  *)
(* may join, leave and crash; the nodes whose store refuses the block, or   *)
(* has its file for another ring; whether the collector's pruning pass      *)
(* runs, whether the ring only changes once the block is replicated, and    *)
(* whether a replication can outlast the next stabilization and the         *)
(* deadline of Stop; bounds on pushes a full queue refuses and on calls     *)
(* that fail between live nodes.                                            *)
ASSUME ScenarioAssumption ==
  Scenarios \subseteq [members : SUBSET Nodes, join : SUBSET Nodes, leave : SUBSET Nodes,
                       crash : SUBSET Nodes, full : SUBSET Nodes, elsewhere : SUBSET Nodes,
                       prunes : BOOLEAN, putFirst : BOOLEAN, slow : BOOLEAN, drops : Nat, losses : Nat]
ASSUME NodesAssumption ==
  /\ Nodes \subseteq NodeID /\ IsFiniteSet(Nodes) /\ Pos \in NodeID
  /\ K \in Nat \ {0} /\ ListSize \in Nat \ {0}
ASSUME NilAssumption == Nil \notin Nodes

VARIABLES
  scenario,       \* the scenario of this behaviour
  status,         \* out (not joined yet), joining, up, leaving or down
  successor, successorList, predecessor, predecessorList,
  prevPred,       \* prevPredID: the predecessor of the last replication round
  holds,          \* the nodes that hold the block under a root of this ring
  acked,          \* Put has returned nil
  jobs,           \* goroutines of replicateAsync and transferKeysRange
  round,          \* the goroutine of replicateToNewSuccessors on each node
  moving,         \* joining nodes for which the block is in TransferKeys' reply
  dropped, lost   \* how often the queue was full, and a call failed

ptrs == <<successor, successorList, predecessor, predecessorList>>
bounds == <<scenario, dropped, lost>>
vars == <<status, ptrs, prevPred, holds, acked, jobs, round, moving, bounds>>

Members == scenario.members
FullNodes == scenario.full
----------------------------------------------------------------------------
Answers(n) == n # Nil /\ status[n] \in {"joining", "up", "leaving"}
Live == {n \in Nodes : status[n] = "up"}

NextIn(S, n) == CHOOSE m \in S : \A o \in S : ~BetweenExclusive(o, n, m) \/ o = n
PrevIn(S, n) == CHOOSE m \in S : \A o \in S : ~BetweenExclusive(o, m, n) \/ o = n

Idle == [pc |-> "idle", old |-> <<>>, new |-> <<>>, targets |-> {}]

(* The first K - 1 entries of a successor list. *)
Window(list) == {list[i] : i \in 1 .. (IF K - 1 < Len(list) THEN K - 1 ELSE Len(list))}

Prefix(list) == SubSeq(list, 1, IF Len(list) < ListSize THEN Len(list) ELSE ListSize)

(* refreshPredecessorList: the walk back from n over the predecessors pr,  *)
(* as far as it gets before it fails, comes round to n or repeats.         *)
refreshPredecessorList(n, pr) ==
  LET walks == {l \in UNION {[1 .. k -> Nodes] : k \in 0 .. ListSize} :
                  /\ \A i \in DOMAIN l : l[i] = pr[IF i = 1 THEN n ELSE l[i - 1]]
                  /\ \A i, j \in DOMAIN l :
                       i < j => l[i] # l[j] /\ n \notin {l[i], l[j]} /\ Answers(l[i])}
  IN CHOOSE l \in walks : \A m \in walks : Len(m) <= Len(l)

(* A successor list of n in a stable ring of the nodes S: each entry is the *)
(* next node after the one before it.                                      *)
GoesRound(S, n, l) == \A i \in DOMAIN l : l[i] = NextIn(S, IF i = 1 THEN n ELSE l[i - 1])

(* A ring that has been stable for a while, without the block. *)
Init ==
  /\ scenario \in Scenarios
  /\ LET next == [n \in Nodes |-> IF n \in Members THEN NextIn(Members, n) ELSE n]
       IN /\ status = [n \in Nodes |-> IF n \in Members THEN "up" ELSE "out"]
          /\ successor = next
          /\ successorList =
               [n \in Nodes |-> IF next[n] = n THEN <<n>>
                                ELSE CHOOSE l \in [1 .. ListSize -> Members] : GoesRound(Members, n, l)]
          /\ predecessor = [n \in Nodes |-> IF next[n] = n THEN Nil ELSE PrevIn(Members, n)]
          /\ predecessorList = [n \in Nodes |-> refreshPredecessorList(n, predecessor)]
          /\ prevPred = predecessor
          /\ holds = {} /\ acked = FALSE /\ jobs = {} /\ moving = {}
          /\ round = [n \in Nodes |-> Idle]
          /\ dropped = 0 /\ lost = 0
----------------------------------------------------------------------------
(* Put.                                                                    *)

(* The answer of a lookup of the block's position that ends at m. *)
Responsible(m) == successor[m]
Routes(m) == m \in Live /\ BetweenRightInclusive(Pos, m, successor[m])

(* replicateAsync: one goroutine per target, unless the queue is full. *)
replicateAsync(o, refused) ==
  LET targets == Window(successorList[o]) \ {o} IN
  /\ refused \subseteq targets
  /\ dropped + Cardinality(refused) <= scenario.drops
  /\ dropped' = dropped + Cardinality(refused)
  /\ jobs' = jobs \cup [kind : {"async"}, from : {o}, to : targets \ refused]

(* PutBlock, and PutWithRoot on the responsible node itself: the block is  *)
(* stored and Put returns before any replica is made.                      *)
Put(m, refused) ==
  LET o == Responsible(m) IN
  /\ Routes(m) /\ ~acked /\ Answers(o)
  /\ o \notin FullNodes
  /\ holds' = holds \cup {o}
  /\ acked' = TRUE
  /\ replicateAsync(o, refused)
  /\ UNCHANGED <<status, ptrs, prevPred, round, moving, scenario, lost>>

(* replicateAndReport: the replicas that store the block. *)
replicateAndReport(o) == {t \in Window(successorList[o]) \ {o} : Answers(t) /\ t \notin FullNodes}

(* Mutant: the number of replicas that stored the block is not checked. *)
PutFanOut_Unchecked(m) ==
  LET o == Responsible(m)
      ok == replicateAndReport(o)
  IN /\ Routes(m) /\ ~acked /\ Answers(o)
     /\ o \in FullNodes
     /\ holds' = holds \cup ok
     /\ acked' = TRUE
     /\ UNCHANGED <<status, ptrs, prevPred, jobs, round, moving, bounds>>

(* PutBlock on a full node: replicateAndReport pushes to the replicas and   *)
(* waits; one that stores the block is enough.  A node that is responsible *)
(* for its own Put does not try them.                                      *)
PutFanOut(m) ==
  LET o == Responsible(m)
      ok == replicateAndReport(o)
  IN /\ Routes(m) /\ ~acked /\ Answers(o)
     /\ o \in FullNodes
     /\ ok # {}
     /\ holds' = holds \cup ok
     /\ acked' = TRUE
     /\ UNCHANGED <<status, ptrs, prevPred, jobs, round, moving, bounds>>
----------------------------------------------------------------------------
(* The goroutines that copy.                                               *)

(* PushBlocks of the block to a node: a full store skips it. *)
PushBlocks(t) == IF Answers(t) /\ t \notin FullNodes THEN {t} ELSE {}

(* ReconcileBlocks: whether the file is there, for whichever ring. *)
ReconcileBlocks(t) == t \in holds \cup scenario.elsewhere

(* pushBlocksChunked to one target: what is missing there is read again    *)
(* and pushed.                                                             *)
pushBlocksChunked(n, t) ==
  IF n \in holds /\ ~ReconcileBlocks(t) THEN holds \cup PushBlocks(t) ELSE holds

(* A goroutine of replicateAsync carries the block; one of                 *)
(* transferKeysRange lists the keys of the range when it runs.             *)
RunJob(j) ==
  /\ j \in jobs
  /\ Answers(j.from)
  /\ jobs' = jobs \ {j}
  /\ holds' = IF j.kind = "async" THEN holds \cup PushBlocks(j.to) ELSE pushBlocksChunked(j.from, j.to)
  /\ UNCHANGED <<status, ptrs, prevPred, acked, round, moving, bounds>>

(* The push fails; the goroutine logs it and ends. *)
JobFails(j) ==
  /\ j \in jobs
  /\ lost < scenario.losses
  /\ lost' = lost + 1
  /\ jobs' = jobs \ {j}
  /\ UNCHANGED <<status, ptrs, prevPred, holds, acked, round, moving, scenario, dropped>>

(* Mutant: the test of the slot is the wrong way round. *)
trigger_WhenBusy(n, old, new) ==
  /\ scenario.slow \/ round[n].pc = "idle"
  /\ round' = IF round[n].pc # "idle"
                THEN [round EXCEPT ![n] = [pc |-> "start", old |-> old, new |-> new, targets |-> {}]]
                ELSE round

(* triggerReplicateToNewSuccessors: a round in flight makes this one be    *)
(* dropped.                                                                *)
trigger(n, old, new) ==
  /\ scenario.slow \/ round[n].pc = "idle"
  /\ round' = IF round[n].pc = "idle"
                THEN [round EXCEPT ![n] = [pc |-> "start", old |-> old, new |-> new, targets |-> {}]]
                ELSE round

(* enumerateRingKeysInRange: whether the block is among the ring's keys    *)
(* that are asked for.                                                     *)
enumerateRingKeysInRange(n, from, filterByRange) ==
  n \in holds /\ (filterByRange => BetweenRightInclusive(Pos, from, n))

(* replicateToNewSuccessors up to the push: the predecessor is read and    *)
(* remembered, and the nodes new in the window (all of it, if the          *)
(* predecessor changed) get the keys of this node's own range.             *)
replicateToNewSuccessors(n) ==
  LET p == predecessor[n]
      predChanged == p # Nil /\ p # prevPred[n]
      targets == {t \in Window(round[n].new) \ {n} : predChanged \/ t \notin Window(round[n].old)}
      own == enumerateRingKeysInRange(n, p, p # Nil)
  IN /\ round[n].pc = "start" /\ Answers(n)
     /\ prevPred' = IF K > 1 /\ predChanged THEN [prevPred EXCEPT ![n] = p] ELSE prevPred
     /\ round' = [round EXCEPT ![n] = IF K > 1 /\ targets # {} /\ own
                                        THEN [Idle EXCEPT !.pc = "push", !.targets = targets]
                                        ELSE Idle]
     /\ UNCHANGED <<status, ptrs, holds, acked, jobs, moving, bounds>>

(* The push to one of the targets is over. *)
PushedTo(n, t) ==
  round' = [round EXCEPT ![n] = IF round[n].targets = {t} THEN Idle
                                  ELSE [@ EXCEPT !.targets = @ \ {t}]]

PushRound(n, t) ==
  /\ round[n].pc = "push" /\ t \in round[n].targets /\ Answers(n)
  /\ holds' = pushBlocksChunked(n, t)
  /\ PushedTo(n, t)
  /\ UNCHANGED <<status, ptrs, prevPred, acked, jobs, moving, bounds>>

PushRoundFails(n, t) ==
  /\ round[n].pc = "push" /\ t \in round[n].targets
  /\ lost < scenario.losses
  /\ lost' = lost + 1
  /\ PushedTo(n, t)
  /\ UNCHANGED <<status, ptrs, prevPred, holds, acked, jobs, moving, scenario, dropped>>
----------------------------------------------------------------------------
(* Stabilization.                                                          *)

(* notify on s by c: an unset or dead predecessor, or one further away, is *)
(* replaced, and acceptPredecessor starts a transfer of the range that c   *)
(* takes over.                                                             *)
Accepts(s, c) ==
  \/ predecessor[s] = Nil \/ BetweenExclusive(c, predecessor[s], s)
  \/ ~Answers(predecessor[s])

acceptPredecessor(s, c) ==
  LET closer == predecessor[s] # Nil /\ BetweenExclusive(c, predecessor[s], s)
      from == IF closer THEN predecessor[s] ELSE s
  IN IF c # s /\ c # predecessor[s] /\ BetweenRightInclusive(Pos, from, c)
       THEN {[kind |-> "range", from |-> s, to |-> c]} ELSE {}

notify(s, c) ==
  /\ predecessor' = IF Accepts(s, c) THEN [predecessor EXCEPT ![s] = c] ELSE predecessor
  /\ jobs' = IF Accepts(s, c) THEN jobs \cup acceptPredecessor(s, c) ELSE jobs

(* refreshSuccessorListAndReplicate, from a successor that answers. *)
refresh(n, s, old, pr) ==
  LET list == Prefix(<<s>> \o successorList[s]) IN
  /\ successorList' = [successorList EXCEPT ![n] = list]
  /\ trigger(n, old, list)
  /\ predecessorList' = [predecessorList EXCEPT ![n] = refreshPredecessorList(n, pr)]

(* A round whose successor answers. *)
stabilize(n) ==
  LET p == predecessor[successor[n]]
      s == IF p # Nil /\ BetweenExclusive(p, n, successor[n]) /\ Answers(p) THEN p ELSE successor[n]
  IN /\ status[n] = "up" /\ Answers(successor[n])
     /\ s # n
     /\ successor' = [successor EXCEPT ![n] = s]
     /\ notify(s, n)
     /\ refresh(n, s, successorList[n], predecessor')
     /\ UNCHANGED <<status, prevPred, holds, acked, moving, bounds>>

(* A round of a node that is its own successor: after notifying itself it  *)
(* turns to the first node of its list that answers.                       *)
tryReconnect(n) ==
  LET p == predecessor[n]
      alive == {i \in DOMAIN successorList[n] : successorList[n][i] # n /\ Answers(successorList[n][i])}
      first == CHOOSE i \in alive : \A j \in alive : i <= j
  IN /\ status[n] = "up" /\ successor[n] = n
     /\ p \in {Nil, n} \/ ~Answers(p)
     /\ notify(n, n)
     /\ successor' = IF alive = {} THEN successor ELSE [successor EXCEPT ![n] = successorList[n][first]]
     /\ successorList' = IF alive = {} THEN successorList
                           ELSE [successorList EXCEPT ![n] = <<successorList[n][first]>>]
     /\ UNCHANGED <<status, predecessorList, prevPred, holds, acked, round, moving, bounds>>

(* A round whose successor does not answer fails over to the next node of  *)
(* the list that does, or to a ring of one.                                *)
handleSuccessorFailure(n) ==
  LET list == successorList[n]
      alive == {i \in DOMAIN list : list[i] # n /\ Answers(list[i])}
      first == CHOOSE i \in alive : \A j \in alive : i <= j
  IN /\ status[n] = "up" /\ ~Answers(successor[n])
     /\ \/ /\ alive # {}
           /\ successor' = [successor EXCEPT ![n] = list[first]]
           /\ refresh(n, list[first], list, predecessor)
        \/ /\ alive = {}
           /\ successor' = [successor EXCEPT ![n] = n]
           /\ successorList' = [successorList EXCEPT ![n] = <<n>> \o SelectSeq(list, LAMBDA m : m # n)]
           /\ UNCHANGED <<predecessorList, round>>
     /\ UNCHANGED <<status, predecessor, prevPred, holds, acked, jobs, moving, bounds>>

checkPredecessor(n) ==
  /\ status[n] = "up"
  /\ predecessor[n] # Nil /\ ~Answers(predecessor[n])
  /\ predecessor' = [predecessor EXCEPT ![n] = Nil]
  /\ UNCHANGED <<status, successor, successorList, predecessorList, prevPred, holds, acked, jobs, round,
                 moving, bounds>>

(* evictNode, by a lookup that found d dead. *)
evictNode(n, d) ==
  LET list == SelectSeq(successorList[n], LAMBDA m : m # d) IN
  /\ status[n] = "up" /\ d \in Range(successorList[n]) /\ ~Answers(d)
  /\ successorList' = [successorList EXCEPT ![n] = list]
  /\ trigger(n, successorList[n], list)
  /\ UNCHANGED <<status, successor, predecessor, predecessorList, prevPred, holds, acked, jobs, moving,
                 bounds>>
----------------------------------------------------------------------------
(* Membership and pruning.                                                 *)

(* When members may come and go. *)
Changes == scenario.putFirst => acked /\ \A j \in jobs : j.kind # "async"

(* collectRingBlocksInRange: whether s has the block and it lies in the    *)
(* range.                                                                  *)
collectRingBlocksInRange(s, from, to) == s \in holds /\ BetweenRightInclusive(Pos, from, to)

(* TransferKeys on s: what is listed for the reply to n is dropped. *)
TransferKeys(s, from, n) ==
  LET listed == collectRingBlocksInRange(s, from, n)
  IN /\ holds' = IF listed THEN holds \ {s} ELSE holds
     /\ moving' = IF listed THEN moving \cup {n} ELSE moving

(* Join up to the reply of TransferKeys: the successor lists the keys      *)
(* between its predecessor and the joining node and drops them before its  *)
(* reply is on its way.                                                    *)
Join(n, m) ==
  LET s == successor[m] IN
  /\ Changes /\ n \in scenario.join /\ status[n] = "out" /\ m \in Live
  /\ BetweenRightInclusive(n, m, s) /\ Answers(s)
  /\ status' = [status EXCEPT ![n] = "joining"]
  /\ successor' = [successor EXCEPT ![n] = s]
  /\ successorList' = [successorList EXCEPT ![n] = <<s>>]
  /\ IF predecessor[s] \in {Nil, n} THEN UNCHANGED <<holds, moving>>
                                    ELSE TransferKeys(s, predecessor[s], n)
  /\ UNCHANGED <<predecessor, predecessorList, prevPred, acked, jobs, round, bounds>>

(* Mutant: the reply is not stored. *)
JoinDone_NotStored(n) ==
  /\ status[n] = "joining"
  /\ status' = [status EXCEPT ![n] = "up"]
  /\ moving' = moving \ {n}
  /\ UNCHANGED <<ptrs, prevPred, holds, acked, jobs, round, bounds>>

(* The reply is stored, errors are ignored, and the background loops start. *)
JoinDone(n) ==
  /\ status[n] = "joining"
  /\ status' = [status EXCEPT ![n] = "up"]
  /\ holds' = IF n \in moving THEN holds \cup PushBlocks(n) ELSE holds
  /\ moving' = moving \ {n}
  /\ UNCHANGED <<ptrs, prevPred, acked, jobs, round, bounds>>

(* The reply is lost: Join goes on without the keys. *)
ReplyLost(n) ==
  /\ n \in moving
  /\ lost < scenario.losses
  /\ lost' = lost + 1
  /\ moving' = moving \ {n}
  /\ UNCHANGED <<status, ptrs, prevPred, holds, acked, jobs, round, scenario, dropped>>

(* Leave up to Stop: the blocks go to the successor, and the neighbours    *)
(* are told of each other (handleNotifyLeave).                             *)
Leave(n) ==
  LET s == successor[n]
      p == predecessor[n]
      told == {m \in {s, p} \ {Nil, n} : Answers(m)}
      list(m) == Prefix(<<s>> \o SelectSeq(successorList[m], LAMBDA x : x \notin {n, s}))
  IN /\ Changes /\ n \in scenario.leave /\ status[n] = "up"
     /\ Live # {n}
     /\ status' = [status EXCEPT ![n] = "leaving"]
     /\ holds' = IF n \in holds /\ s # n THEN holds \cup PushBlocks(s) ELSE holds
     /\ successor' = [m \in Nodes |-> IF m \in told /\ successor[m] = n THEN s ELSE successor[m]]
     /\ successorList' = [m \in Nodes |-> IF m \in told /\ successor[m] = n THEN list(m) ELSE successorList[m]]
     /\ predecessor' = [m \in Nodes |-> IF m \in told /\ predecessor[m] = n
                                         THEN IF p = n THEN Nil ELSE p ELSE predecessor[m]]
     /\ UNCHANGED <<predecessorList, prevPred, acked, jobs, round, moving, bounds>>

(* WaitForReplicationDrain: replicateAsync has nothing on its way, or five  *)
(* seconds are over.                                                       *)
WaitForReplicationDrain(n) == scenario.slow \/ \A j \in jobs : j.from = n => j.kind # "async"

(* Stop waits for transferKeysRange as long as it takes, and not at all    *)
(* for a replication round.                                                *)
Stop(n) ==
  /\ status[n] = "leaving"
  /\ WaitForReplicationDrain(n)
  /\ \A j \in jobs : j.from = n => j.kind # "range"
  /\ status' = [status EXCEPT ![n] = "down"]
  /\ holds' = holds \ {n}
  /\ jobs' = {j \in jobs : j.from # n}
  /\ round' = [round EXCEPT ![n] = Idle]
  /\ UNCHANGED <<ptrs, prevPred, acked, moving, bounds>>

Crash(n) ==
  /\ Changes /\ n \in scenario.crash /\ status[n] \in {"joining", "up"}
  /\ Live # {n}
  /\ status' = [status EXCEPT ![n] = "down"]
  /\ holds' = holds \ {n}
  /\ moving' = moving \ {n}
  /\ jobs' = {j \in jobs : j.from # n}
  /\ round' = [round EXCEPT ![n] = Idle]
  /\ UNCHANGED <<ptrs, prevPred, acked, bounds>>

(* Mutant: the window is one node too short. *)
PruneOutOfWindowBlocks_OffByOne(n) ==
  /\ scenario.prunes /\ K > 1
  /\ status[n] = "up" /\ n \in holds
  /\ predecessor[n] # Nil /\ Len(predecessorList[n]) >= K
  /\ ~BetweenRightInclusive(Pos, predecessorList[n][K - 1], n)
  /\ holds' = holds \ {n}
  /\ UNCHANGED <<status, ptrs, prevPred, acked, jobs, round, moving, bounds>>

(* PruneOutOfWindowBlocks: with K predecessors known, the block is dropped  *)
(* by a node that is not among the K nodes from its position on.           *)
PruneOutOfWindowBlocks(n) ==
  /\ scenario.prunes /\ K > 1
  /\ status[n] = "up" /\ n \in holds
  /\ predecessor[n] # Nil /\ Len(predecessorList[n]) >= K
  /\ ~BetweenRightInclusive(Pos, predecessorList[n][K], n)
  /\ holds' = holds \ {n}
  /\ UNCHANGED <<status, ptrs, prevPred, acked, jobs, round, moving, bounds>>
----------------------------------------------------------------------------
Loop(n) == stabilize(n) \/ tryReconnect(n) \/ handleSuccessorFailure(n)
Round(n) == replicateToNewSuccessors(n) \/ \E t \in Nodes : PushRound(n, t)
Jobs(n) == \E j \in jobs : j.from = n /\ RunJob(j)
Member(n) == JoinDone(n) \/ Stop(n)

Next ==
  \/ \E n \in Nodes :
       \/ Loop(n) \/ Round(n) \/ Jobs(n) \/ Member(n) \/ checkPredecessor(n) \/ PruneOutOfWindowBlocks(n)
       \/ \E d \in Nodes : evictNode(n, d)
       \/ \E t \in Nodes : PushRoundFails(n, t)
       \/ \E m \in Nodes : Join(n, m)
       \/ Leave(n) \/ Crash(n) \/ ReplyLost(n)
       \/ PutFanOut(n)
       \/ \E refused \in SUBSET Nodes : Put(n, refused)
  \/ \E j \in jobs : JobFails(j)

Spec == Init /\ [][Next]_vars

(* The background loops of a node run for ever, and its goroutines get to  *)
(* run.  Nobody has to put, join, leave, look up or prune.                 *)
FairSpec ==
  /\ Spec
  /\ \A n \in Nodes :
       /\ WF_vars(Loop(n)) /\ WF_vars(checkPredecessor(n))
       /\ WF_vars(Round(n)) /\ WF_vars(Jobs(n)) /\ WF_vars(Member(n))
----------------------------------------------------------------------------
(* The K live nodes from the position of the block on. *)
Owners == {n \in Live :
             Cardinality({m \in Live : Distance(Pos, m) < Distance(Pos, n)}) < K}

(* Once a replicated block is in a ring whose calls do not fail. *)
Careful == scenario.putFirst /\ scenario.losses = 0 /\ scenario.drops = 0

(* Once the ring stops changing, the goroutines that the changes started   *)
(* have given every one of the K owners of a block that was replicated     *)
(* before a copy, and they keep it (a full store aside).                   *)
Replicates == <>[](Careful /\ acked => Owners \ FullNodes \subseteq holds)

(* A block that was replicated before the ring changed is on some node, or *)
(* on its way to one that joins.                                           *)
NeverLost == Careful /\ acked => holds # {} \/ moving # {}

(* FetchBlock: the node has the block, or one of the successors it asks. *)
FetchBlock(o) == Answers(o) /\ ({o} \cup Range(successorList[o])) \cap holds # {}

Get(m) == Routes(m) => FetchBlock(Responsible(m))

(* A block put while the ring changes, possibly on a node that is losing   *)
(* the range, is found in the end by every lookup, if no call fails and no *)
(* node that has not replicated it yet crashes.                            *)
Finds == <>[](acked /\ (Careful \/ (scenario.losses = 0 /\ scenario.crash = {})) => \A m \in Live : Get(m))

(* The predecessor lists show the live nodes as they are. *)
Settled ==
  \A n \in Live : LET list == predecessorList[n] IN
    \A i \in DOMAIN list : list[i] = PrevIn(Live, IF i = 1 THEN n ELSE list[i - 1])

(* With up-to-date predecessor lists no step short of a change of          *)
(* membership takes the block from one of its owners; above all pruning    *)
(* does not.                                                               *)
SettledKeeps == [][Settled /\ status' = status => holds \cap Owners \subseteq holds']_vars
=============================================================================
