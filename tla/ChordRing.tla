----------------------------- MODULE ChordRing -----------------------------
(***************************************************************************)
(* The topology of a ring: joining, stabilization, failure and departure   *)
(* (dht/node.go, dht/stabilize.go).                                        *)
(*                                                                         *)
(* Every node has a successor, a successor list, a predecessor and a list  *)
(* of predecessors.  A task runs stabilization rounds on its host: one     *)
(* task per node is the background loop, others are StabilizeFull calls of *)
(* the API, which first check the predecessor.  A round is cut where it    *)
(* calls another node; what a handler does under the lock of its node is   *)
(* one step.                                                               *)
(*                                                                         *)
(* Abstractions: a call fails when its target is down or on the other side *)
(* of a partition.  The lookup of Join returns some node that answers.     *)
(* Addresses, fingers (see ChordLookup) and the blocks and records that    *)
(* move when a pointer changes are left out.                               *)
(***************************************************************************)
EXTENDS RingId, FiniteSets, SequencesExt

CONSTANTS
  Nodes,       \* identifiers of the nodes
  Tasks,       \* stabilization loops and StabilizeFull calls
  Host,        \* the node a task runs on
  Full,        \* the tasks that are StabilizeFull calls
  ListSize,    \* Config.successorListSize
  Scenarios,   \* what may happen, see below
  Nil          \* no node

(* A scenario: the nodes of the stable ring it starts from, the nodes that  *)
(* may join, leave and crash, whether StabilizeFull is called, a bound on   *)
(* partitions, and for RingFormation the nodes that form a ring and whether *)
(* the public ring may fail them.                                           *)
ASSUME ScenarioAssumption ==
  Scenarios \subseteq [members : SUBSET Nodes, join : SUBSET Nodes, leave : SUBSET Nodes,
                       crash : SUBSET Nodes, full : BOOLEAN, splits : Nat,
                       form : SUBSET Nodes, unlucky : BOOLEAN]
ASSUME NodesAssumption == Nodes \subseteq NodeID /\ IsFiniteSet(Nodes) /\ ListSize \in Nat \ {0}
ASSUME TasksAssumption == Host \in [Tasks -> Nodes] /\ Full \subseteq Tasks
ASSUME NilAssumption == Nil \notin Nodes

VARIABLES
  scenario,      \* the scenario of this behaviour
  status,        \* out (not joined yet), forming, up, leaving or down
  successor,
  successorList,
  predecessor,
  predecessorList,
  side,          \* the side of the partition each node is on
  pc,            \* where each task is
  loc,           \* its locals: succ, pred and the predecessor notify pings
  leave,         \* progress of Leave on each node: its step, succ and pred
  splits         \* partitions so far

ptrs == <<successor, successorList, predecessor, predecessorList>>
limits == <<scenario, splits>>
vars == <<status, ptrs, side, pc, loc, leave, limits>>

Members == scenario.members
----------------------------------------------------------------------------
(* A node answers before its loops run, and until its server stops. *)
Answers(n) == status[n] \in {"forming", "up", "leaving"}

(* A call from m to n gets an answer. *)
Reach(m, n) == n \in Nodes /\ Answers(n) /\ side[m] = side[n]

(* The live nodes in ring order: the next one and the one before. *)
Live == {n \in Nodes : status[n] = "up"}
NextIn(S, n) == CHOOSE m \in S : \A o \in S : ~BetweenExclusive(o, n, m) \/ o = n
PrevIn(S, n) == CHOOSE m \in S : \A o \in S : ~BetweenExclusive(o, m, n) \/ o = n
----------------------------------------------------------------------------
NoLoc == [succ |-> Nil, pred |-> Nil, stale |-> Nil]
NoLeave == [step |-> "no", succ |-> Nil, pred |-> Nil]

(* A ring that has been stable for a while: the lists go round it.  A      *)
(* single node is what Create leaves; a node that has not joined is what   *)
(* NewNode leaves.                                                         *)
StableNext == [n \in Nodes |-> IF n \in Members THEN NextIn(Members, n) ELSE n]
Alone(n) == StableNext[n] = n

StableLists ==
  LET walk[n \in Nodes, i \in 1 .. ListSize] == IF i = 1 THEN StableNext[n] ELSE StableNext[walk[n, i - 1]]
      back[n \in Nodes, i \in 1 .. ListSize] ==
        IF i = 1 THEN PrevIn(Members, n) ELSE PrevIn(Members, back[n, i - 1])
      preds == IF Cardinality(Members) - 1 < ListSize THEN Cardinality(Members) - 1 ELSE ListSize
  IN /\ successorList = [n \in Nodes |-> IF Alone(n) THEN <<n>> ELSE [i \in 1 .. ListSize |-> walk[n, i]]]
     /\ predecessorList = [n \in Nodes |-> IF Alone(n) THEN <<>> ELSE [i \in 1 .. preds |-> back[n, i]]]

Init ==
  /\ scenario \in Scenarios
  /\ status = [n \in Nodes |-> IF n \in Members THEN "up" ELSE "out"]
  /\ successor = StableNext
  /\ predecessor = [n \in Nodes |-> IF Alone(n) THEN Nil ELSE PrevIn(Members, n)]
  /\ StableLists
  /\ side = [n \in Nodes |-> 0]
  /\ pc = [t \in Tasks |-> "idle"]
  /\ loc = [t \in Tasks |-> NoLoc]
  /\ leave = [n \in Nodes |-> NoLeave]
  /\ splits = 0
----------------------------------------------------------------------------
(* A stabilization round.                                                  *)

Enter(t, label, l) == pc' = [pc EXCEPT ![t] = label] /\ loc' = [loc EXCEPT ![t] = l]
Return(t) == Enter(t, "idle", NoLoc)

(* A round starts unless Leave has paused the background work;             *)
(* StabilizeFull reads the predecessor first.                              *)
StartRound(t) ==
  LET n == Host[t] IN
  /\ pc[t] = "idle"
  /\ status[n] = "up"
  /\ t \in Full => scenario.full
  /\ IF t \in Full /\ predecessor[n] # Nil
       THEN Enter(t, "check", [NoLoc EXCEPT !.stale = predecessor[n]])
       ELSE Enter(t, "ask", [NoLoc EXCEPT !.succ = successor[n]])
  /\ UNCHANGED <<status, ptrs, side, leave, limits>>

(* checkPredecessor: after a failed ping the predecessor is cleared,       *)
(* whichever it is by then.                                                *)
checkPredecessor(t) ==
  LET n == Host[t] IN
  /\ pc[t] = "check"
  /\ predecessor' = IF Reach(n, loc[t].stale) THEN predecessor ELSE [predecessor EXCEPT ![n] = Nil]
  /\ Enter(t, "ask", [NoLoc EXCEPT !.succ = successor[n]])
  /\ UNCHANGED <<status, successor, successorList, predecessorList, side, leave, limits>>

(* GetPredecessor of the successor read at the start of the round. *)
AskPredecessor(t) ==
  LET s == loc[t].succ IN
  /\ pc[t] = "ask"
  /\ IF Reach(Host[t], s)
       THEN Enter(t, "adopt", [loc[t] EXCEPT !.pred = predecessor[s]])
       ELSE Enter(t, "failed", loc[t])
  /\ UNCHANGED <<status, ptrs, side, leave, limits>>

(* handleSuccessorFailure: the first entry of the list that answers, with  *)
(* the rest of the list; or a ring of one that remembers the others.       *)
handleSuccessorFailure(t) ==
  LET n == Host[t]
      list == successorList[n]
      good == {i \in 1 .. Len(list) : list[i] # n /\ Reach(n, list[i])}
      i == CHOOSE j \in good : \A o \in good : j <= o
      s == IF good = {} THEN n ELSE list[i]
  IN /\ pc[t] = "failed"
     /\ successor' = [successor EXCEPT ![n] = s]
     /\ successorList' = [successorList EXCEPT
          ![n] = IF good = {} THEN <<n>> \o SelectSeq(list, LAMBDA m : m # n)
                 ELSE SubSeq(list, i, Len(list))]
     /\ IF s = n THEN Return(t) ELSE Enter(t, "refresh", [loc[t] EXCEPT !.succ = s])
     /\ UNCHANGED <<status, predecessor, predecessorList, side, leave, limits>>

(* Mutant: the arc from a node to itself is taken to be empty, so that a     *)
(* node on its own never adopts another.                                    *)
AdoptSuccessor_NotAlone(t) ==
  LET n == Host[t]
      p == loc[t].pred
      closer == p # Nil /\ n # loc[t].succ /\ BetweenExclusive(p, n, loc[t].succ) /\ Reach(n, p)
  IN /\ pc[t] = "adopt"
     /\ successor' = IF closer THEN [successor EXCEPT ![n] = p] ELSE successor
     /\ Enter(t, "notify", [loc[t] EXCEPT !.succ = IF closer THEN p ELSE @, !.pred = Nil])
     /\ UNCHANGED <<status, successorList, predecessor, predecessorList, side, leave, limits>>

(* A node between here and the successor that answers is the successor. *)
AdoptSuccessor(t) ==
  LET n == Host[t]
      p == loc[t].pred
      closer == p # Nil /\ BetweenExclusive(p, n, loc[t].succ) /\ Reach(n, p)
  IN /\ pc[t] = "adopt"
     /\ successor' = IF closer THEN [successor EXCEPT ![n] = p] ELSE successor
     /\ Enter(t, "notify", [loc[t] EXCEPT !.succ = IF closer THEN p ELSE @, !.pred = Nil])
     /\ UNCHANGED <<status, successorList, predecessor, predecessorList, side, leave, limits>>

(* After Notify: a node that is its own successor looks for the others. *)
AfterNotify(t) ==
  Enter(t, IF loc[t].succ = Host[t] THEN "reconnect" ELSE "refresh", [loc[t] EXCEPT !.stale = Nil])

(* Mutant: any caller is accepted. *)
notify_AnyCaller(t) ==
  LET n == Host[t]
      s == loc[t].succ
  IN /\ pc[t] = "notify"
     /\ AfterNotify(t)
     /\ predecessor' = IF Reach(n, s) THEN [predecessor EXCEPT ![s] = n] ELSE predecessor
     /\ UNCHANGED <<status, successor, successorList, predecessorList, side, leave, limits>>

(* Node.notify on the successor, up to the unlock before the ping. *)
notify(t) ==
  LET n == Host[t]
      s == loc[t].succ
      accept == predecessor[s] = Nil \/ BetweenExclusive(n, predecessor[s], s)
  IN /\ pc[t] = "notify"
     /\ IF Reach(n, s) /\ ~accept
          THEN Enter(t, "ping", [loc[t] EXCEPT !.stale = predecessor[s]])
          ELSE AfterNotify(t)
     /\ predecessor' = IF Reach(n, s) /\ accept THEN [predecessor EXCEPT ![s] = n] ELSE predecessor
     /\ UNCHANGED <<status, successor, successorList, predecessorList, side, leave, limits>>

(* The rest of notify: a predecessor that does not answer is cleared if it *)
(* still is the predecessor, and the test is made again.                   *)
notifyStale(t) ==
  LET n == Host[t]
      s == loc[t].succ
      gone == predecessor[s] \in {Nil, loc[t].stale}
      accept == gone \/ BetweenExclusive(n, predecessor[s], s)
  IN /\ pc[t] = "ping"
     /\ predecessor' = IF Answers(s) /\ ~Reach(s, loc[t].stale) /\ accept
                         THEN [predecessor EXCEPT ![s] = n] ELSE predecessor
     /\ AfterNotify(t)
     /\ UNCHANGED <<status, successor, successorList, predecessorList, side, leave, limits>>

(* tryReconnect: the first node of the list that answers. *)
tryReconnect(t) ==
  LET n == Host[t]
      list == successorList[n]
      good == {i \in 1 .. Len(list) : list[i] # n /\ Reach(n, list[i])}
      s == list[CHOOSE i \in good : \A o \in good : i <= o]
  IN /\ pc[t] = "reconnect"
     /\ successor' = IF good = {} THEN successor ELSE [successor EXCEPT ![n] = s]
     /\ successorList' = IF good = {} THEN successorList ELSE [successorList EXCEPT ![n] = <<s>>]
     /\ Return(t)
     /\ UNCHANGED <<status, predecessor, predecessorList, side, leave, limits>>

(* refreshSuccessorListAndReplicate: the successor, then its list. *)
refreshSuccessorList(t) ==
  LET n == Host[t]
      s == loc[t].succ
      list == <<s>> \o successorList[s]
  IN /\ pc[t] = "refresh"
     /\ IF Reach(n, s)
          THEN /\ successorList' = [successorList EXCEPT
                    ![n] = IF Len(list) > ListSize THEN SubSeq(list, 1, ListSize) ELSE list]
               /\ Enter(t, "preds", NoLoc)
          ELSE Return(t) /\ UNCHANGED successorList
     /\ UNCHANGED <<status, successor, predecessor, predecessorList, side, leave, limits>>

(* refreshPredecessorList: predecessors of predecessors, up to this node,  *)
(* a node seen before, or one that does not answer.                        *)
refreshPredecessorList(t) ==
  LET n == Host[t]
      Ext(l) == LET c == l[Len(l)]
                    p == IF c # n /\ Reach(n, c) THEN predecessor[c] ELSE Nil
                IN IF p \in {Nil, n} \/ p \in ToSet(l) THEN l ELSE Append(l, p)
      chain[i \in 1 .. ListSize] == IF i = 1 THEN <<predecessor[n]>> ELSE Ext(chain[i - 1])
  IN /\ pc[t] = "preds"
     /\ predecessorList' = [predecessorList EXCEPT
          ![n] = IF predecessor[n] = Nil THEN <<>> ELSE chain[ListSize]]
     /\ Return(t)
     /\ UNCHANGED <<status, successor, successorList, predecessor, side, leave, limits>>
----------------------------------------------------------------------------
(* Other things that happen to a node's pointers.                          *)

(* Join through a node of the ring; the background loop starts after it. *)
Join(n, s) ==
  /\ status[n] = "out"
  /\ n \in scenario.join
  /\ s # n
  /\ Reach(n, s)
  /\ status' = [status EXCEPT ![n] = "up"]
  /\ successor' = [successor EXCEPT ![n] = s]
  /\ successorList' = [successorList EXCEPT ![n] = <<s>>]
  /\ UNCHANGED <<predecessor, predecessorList, side, pc, loc, leave, limits>>

(* evictNode, by a lookup on n whose call to dead failed. *)
evictNode(n, dead) ==
  /\ status[n] = "up"
  /\ dead # n
  /\ dead \in ToSet(successorList[n])
  /\ ~Reach(n, dead)
  /\ successorList' = [successorList EXCEPT ![n] = SelectSeq(@, LAMBDA m : m # dead)]
  /\ UNCHANGED <<status, successor, predecessor, predecessorList, side, pc, loc, leave, limits>>

(* Leave: pause, read both neighbours, tell the successor, tell the        *)
(* predecessor, stop once the round under way has ended.                   *)
Leave(n) ==
  /\ status[n] = "up"
  /\ n \in scenario.leave
  /\ status' = [status EXCEPT ![n] = "leaving"]
  /\ leave' = [leave EXCEPT ![n] =
       [step |-> IF successor[n] = n THEN "stop" ELSE "succ",
        succ |-> successor[n], pred |-> predecessor[n]]]
  /\ UNCHANGED <<ptrs, side, pc, loc, limits>>

(* handleNotifyLeave on m; p is the leaver itself when it knows no         *)
(* predecessor.                                                            *)
handleNotifyLeave(m, leaver, s, p) ==
  LET rest == SelectSeq(successorList[m], LAMBDA o : o \notin {leaver, s})
      list == <<s>> \o rest
  IN /\ IF successor[m] = leaver
          THEN /\ successor' = [successor EXCEPT ![m] = s]
               /\ successorList' = [successorList EXCEPT
                    ![m] = IF Len(list) > ListSize THEN SubSeq(list, 1, ListSize) ELSE list]
          ELSE UNCHANGED <<successor, successorList>>
     /\ predecessor' = IF predecessor[m] = leaver
                         THEN [predecessor EXCEPT ![m] = IF p = leaver THEN Nil ELSE p]
                         ELSE predecessor

LeaveNotify(n, step) ==
  LET l == leave[n]
      p == IF l.pred = Nil THEN n ELSE l.pred
      target == IF step = "succ" THEN l.succ ELSE p
  IN /\ l.step = step
     /\ status[n] = "leaving"
     /\ IF target # n /\ Reach(n, target)
          THEN handleNotifyLeave(target, n, l.succ, p)
          ELSE UNCHANGED <<successor, successorList, predecessor>>
     /\ leave' = [leave EXCEPT ![n].step = IF step = "succ" THEN "pred" ELSE "stop"]
     /\ UNCHANGED <<status, predecessorList, side, pc, loc, limits>>

Stop(n) ==
  /\ status[n] = "leaving"
  /\ leave[n].step = "stop"
  /\ \A t \in Tasks : Host[t] = n => pc[t] = "idle"
  /\ status' = [status EXCEPT ![n] = "down"]
  /\ leave' = [leave EXCEPT ![n] = NoLeave]
  /\ UNCHANGED <<ptrs, side, pc, loc, limits>>

(* The process ends; its tasks with it. *)
Crash(n) ==
  /\ Answers(n)
  /\ n \in scenario.crash
  /\ status' = [status EXCEPT ![n] = "down"]
  /\ pc' = [t \in Tasks |-> IF Host[t] = n THEN "idle" ELSE pc[t]]
  /\ loc' = [t \in Tasks |-> IF Host[t] = n THEN NoLoc ELSE loc[t]]
  /\ leave' = [leave EXCEPT ![n] = NoLeave]
  /\ UNCHANGED <<ptrs, side, limits>>

(* The network splits and heals. *)
Split(S) ==
  /\ splits < scenario.splits
  /\ \A n \in Nodes : side[n] = 0
  /\ splits' = splits + 1
  /\ side' = [n \in Nodes |-> IF n \in S THEN 1 ELSE 0]
  /\ UNCHANGED <<scenario, status, ptrs, pc, loc, leave>>

Heal ==
  /\ \E n \in Nodes : side[n] = 1
  /\ side' = [n \in Nodes |-> 0]
  /\ UNCHANGED <<status, ptrs, pc, loc, leave, limits>>
----------------------------------------------------------------------------
Step(t) ==
  \/ StartRound(t) \/ checkPredecessor(t) \/ AskPredecessor(t) \/ handleSuccessorFailure(t)
  \/ AdoptSuccessor(t) \/ notify(t) \/ notifyStale(t) \/ tryReconnect(t)
  \/ refreshSuccessorList(t) \/ refreshPredecessorList(t)

Depart(n) == LeaveNotify(n, "succ") \/ LeaveNotify(n, "pred") \/ Stop(n)

----------------------------------------------------------------------------
(* Every node of S has the right neighbours. *)
IdealAmong(S) ==
  \A n \in S : successor[n] = NextIn(S, n) /\ predecessor[n] = PrevIn(S, n)

(* A node that has no live node left to turn to. *)
CutOff == {n \in Live : /\ successor[n] = n
                        /\ (ToSet(successorList[n]) \cup {predecessor[n]}) \cap Live \subseteq {n}}

(* A partition, a public ring that fails, or a join that overlaps a         *)
(* departure or a failure, may cut nodes off.                               *)
MayCutOff ==
  \/ scenario.splits > 0
  \/ scenario.unlucky
  \/ scenario.join # {} /\ scenario.leave \cup scenario.crash # {}

(* Once nodes stop joining, leaving and failing and the network is whole,   *)
(* the loops bring the ring into order and keep it there, also a private    *)
(* ring whose members start, and start again, at the same time; in the      *)
(* scenarios that may cut nodes off, the only way not to be in the ring is  *)
(* to have lost every reference.                                            *)
Converges == <>[]IdealAmong(IF MayCutOff THEN Live \ CutOff ELSE Live)

(* A node that answers is only ever replaced as predecessor by a closer     *)
(* one, by its own departure, or cleared by checkPredecessor.               *)
PredecessorMonotone ==
  [][\A n \in Nodes :
       LET old == predecessor[n]
           new == predecessor'[n]
       IN old # Nil /\ new # Nil /\ new # old /\ Reach(n, old)
            => BetweenExclusive(new, old, n) \/ status[old] = "leaving"]_vars
============================================================================
