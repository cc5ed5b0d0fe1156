---------------------------- MODULE ChordLookup ----------------------------
(***************************************************************************)
(* Iterative lookup and finger repair (dht/node.go FindSuccessor,          *)
(* closestPrecedingNode, evictNode; dht/stabilize.go fixFinger).           *)
(*                                                                         *)
(* The ring is stable: successors and successor lists are right when the   *)
(* model starts.  Nodes may crash; stabilization (see ChordRing) has not   *)
(* repaired the pointers yet.  A process looks an identifier up from its   *)
(* host, one call to another node per step; the repair loop of a node is   *)
(* such a process, which writes a finger at the end.                       *)
(***************************************************************************)
EXTENDS RingId, FiniteSets

CONSTANTS
  Nodes,        \* identifiers of the nodes of the ring
  FingerCount,  \* entries of the finger table, 160 in the code
  ListSize,     \* Config.successorListSize
  Procs,        \* clients and repair loops
  Host,         \* the node a process runs on
  Fixers,       \* the processes that are repair loops
  Ids,          \* bound: the identifiers that clients look up
  MaxHops,      \* maxLookupHops, 160 in the code
  MaxCrashes    \* bound on crashes

ASSUME LookupAssumption ==
  /\ Nodes \subseteq NodeID /\ IsFiniteSet(Nodes)
  /\ FingerCount \in Nat \ {0} /\ ListSize \in Nat \ {0}
  /\ Host \in [Procs -> Nodes] /\ Fixers \subseteq Procs /\ Ids \subseteq NodeID
  /\ MaxHops \in Nat \ {0} /\ MaxCrashes \in Nat

(* fingerStart returns an identifier: the provers know nothing of powers.   *)
ASSUME StartAssumption ==
  \A n \in Nodes, i \in 0 .. FingerCount - 1 : fingerStart(n, i) \in NodeID

VARIABLES
  up,             \* the nodes that answer
  successorList,  \* the nodes in the list; their order plays no part here
  fingers,
  nextFinger,
  lookup          \* state of each process

vars == <<up, successorList, fingers, nextFinger, lookup>>
----------------------------------------------------------------------------
(* The node that owns an identifier: the first one at or after it. *)
Owner == [id \in NodeID |-> CHOOSE n \in Nodes : \A m \in Nodes : Distance(id, n) <= Distance(id, m)]

(* The successor of a node does not change while the ring is stable. *)
successor == [n \in Nodes |-> CHOOSE m \in Nodes : \A o \in Nodes : ~BetweenExclusive(o, n, m) \/ o = n]

(* The finger with the highest index that lies before id, then the entries  *)
(* of the successor list that are closer.                                   *)
closestIn(n, table, list, id) ==
  LET good == {i \in 0 .. FingerCount - 1 : BetweenExclusive(table[i], n, id)}
      finger == IF good = {} THEN n ELSE table[CHOOSE i \in good : \A j \in good : j <= i]
      reach == {finger} \cup {s \in list : BetweenExclusive(s, n, id)}
  IN CHOOSE best \in reach : \A s \in reach : Distance(n, s) <= Distance(n, best)

(* Node.closestPrecedingNode *)
closestPrecedingNode(n, id) == closestIn(n, fingers[n], successorList[n], id)
----------------------------------------------------------------------------
Idle == [pc |-> "idle", id |-> 0, cand |-> 0, hops |-> 0, res |-> 0, finger |-> 0]

(* The lists have the next nodes, and fingers are as NewNode leaves them. *)
Init ==
  /\ up = Nodes
  /\ successorList = [n \in Nodes |->
       {m \in Nodes \ {n} : Cardinality({o \in Nodes : BetweenExclusive(o, n, m)}) < ListSize}]
  /\ fingers = [n \in Nodes |-> [i \in 0 .. FingerCount - 1 |-> n]]
  /\ nextFinger = [n \in Nodes |-> 0]
  /\ lookup = [p \in Procs |-> Idle]

Set(p, r) == lookup' = [lookup EXCEPT ![p] = r]

(* FindSuccessor up to the first call: the successor, or this node when it  *)
(* knows nothing closer.                                                    *)
FindSuccessor(p, id, i) ==
  LET n == Host[p]
      cand == closestPrecedingNode(n, id)
      start == [Idle EXCEPT !.id = id, !.finger = i]
  IN Set(p, IF BetweenRightInclusive(id, n, successor[n])
              THEN [start EXCEPT !.pc = "done", !.res = successor[n]]
            ELSE IF cand = n THEN [start EXCEPT !.pc = "done", !.res = n]
            ELSE [start EXCEPT !.pc = "hop", !.cand = cand])

Lookup(p, id) ==
  /\ p \notin Fixers
  /\ Host[p] \in up
  /\ lookup[p].pc = "idle"
  /\ FindSuccessor(p, id, 0)
  /\ UNCHANGED <<up, successorList, fingers, nextFinger>>

(* fixFinger takes the next index before it looks the start up. *)
fixFinger(p) ==
  LET n == Host[p]
      i == nextFinger[n]
  IN /\ p \in Fixers
     /\ n \in up
     /\ lookup[p].pc = "idle"
     /\ nextFinger' = [nextFinger EXCEPT ![n] = (i + 1) % FingerCount]
     /\ FindSuccessor(p, fingerStart(n, i), i)
     /\ UNCHANGED <<up, successorList, fingers>>

(* Mutant: any identifier the candidate does not own is taken to be its     *)
(* successor's.                                                             *)
Hop_StopsEarly(p) ==
  LET l == lookup[p] IN
  /\ l.pc = "hop" /\ l.hops < MaxHops /\ l.cand \in up
  /\ Set(p, [l EXCEPT !.pc = "done", !.res = successor[l.cand]])
  /\ UNCHANGED <<up, successorList, fingers, nextFinger>>

(* One iteration of the loop, when the candidate answers ... *)
Hop(p) ==
  LET l == lookup[p]
      cpn == closestPrecedingNode(l.cand, l.id)
      succ == successor[l.cand]
  IN /\ l.pc = "hop"
     /\ l.hops < MaxHops
     /\ l.cand \in up
     /\ Set(p, IF BetweenRightInclusive(l.id, l.cand, succ) \/ cpn = l.cand
                 THEN [l EXCEPT !.pc = "done", !.res = succ]
                 ELSE [l EXCEPT !.cand = cpn, !.hops = @ + 1])
     /\ UNCHANGED <<up, successorList, fingers, nextFinger>>

(* Mutant: the candidate is not evicted, and failed calls do not count. *)
HopFails_Retries(p) ==
  LET l == lookup[p] IN
  /\ l.pc = "hop" /\ l.hops < MaxHops /\ l.cand \notin up
  /\ Set(p, [l EXCEPT !.cand = closestPrecedingNode(Host[p], l.id)])
  /\ UNCHANGED <<up, successorList, fingers, nextFinger>>

(* Mutant: a failed call moves on to the candidate's successor. *)
HopFails_Successor(p) ==
  LET l == lookup[p] IN
  /\ l.pc = "hop" /\ l.hops < MaxHops /\ l.cand \notin up
  /\ Set(p, [l EXCEPT !.pc = "done", !.res = successor[l.cand]])
  /\ UNCHANGED <<up, successorList, fingers, nextFinger>>

(* ... and when it does not: evictNode, and a new candidate. *)
HopFails(p) ==
  LET l == lookup[p]
      n == Host[p]
      table == [i \in 0 .. FingerCount - 1 |-> IF fingers[n][i] = l.cand THEN n ELSE fingers[n][i]]
      list == successorList[n] \ {l.cand}
      cand == closestIn(n, table, list, l.id)
  IN /\ l.pc = "hop"
     /\ l.hops < MaxHops
     /\ l.cand \notin up
     /\ fingers' = [fingers EXCEPT ![n] = table]
     /\ successorList' = [successorList EXCEPT ![n] = list]
     /\ Set(p, IF cand = n THEN [l EXCEPT !.pc = "done", !.res = n]
                           ELSE [l EXCEPT !.cand = cand, !.hops = @ + 1])
     /\ UNCHANGED <<up, nextFinger>>

(* The loop gives up with the candidate it has. *)
GiveUp(p) ==
  LET l == lookup[p] IN
  /\ l.pc = "hop"
  /\ l.hops = MaxHops
  /\ Set(p, [l EXCEPT !.pc = "done", !.res = l.cand])
  /\ UNCHANGED <<up, successorList, fingers, nextFinger>>

(* The caller's context ends; the repair loop has none. *)
Cancel(p) ==
  /\ p \notin Fixers
  /\ lookup[p].pc = "hop"
  /\ Set(p, Idle)
  /\ UNCHANGED <<up, successorList, fingers, nextFinger>>

(* The caller takes the result; fixFinger stores it. *)
Finish(p) ==
  LET l == lookup[p]
      n == Host[p]
  IN /\ l.pc = "done"
     /\ fingers' = IF p \in Fixers THEN [fingers EXCEPT ![n][l.finger] = l.res] ELSE fingers
     /\ Set(p, Idle)
     /\ UNCHANGED <<up, successorList, nextFinger>>

Crash(n) ==
  /\ n \in up
  /\ Cardinality(Nodes \ up) < MaxCrashes
  /\ up' = up \ {n}
  /\ lookup' = [p \in Procs |-> IF Host[p] = n THEN Idle ELSE lookup[p]]
  /\ UNCHANGED <<successorList, fingers, nextFinger>>

Run(p) == Hop(p) \/ HopFails(p) \/ GiveUp(p) \/ Finish(p)

Next ==
  \/ \E p \in Procs : (\E id \in Ids : Lookup(p, id)) \/ fixFinger(p) \/ Run(p) \/ Cancel(p)
  \/ \E n \in Nodes : Crash(n)

Spec == Init /\ [][Next]_vars

(* A goroutine that looks something up is scheduled. *)
FairSpec == Spec /\ \A p \in Procs : WF_vars(Run(p))
----------------------------------------------------------------------------
(* As long as no node has failed a lookup returns the owner of the          *)
(* identifier, from any node and whatever the fingers have come to be, and  *)
(* takes fewer calls than there are nodes (FindSuccessor); and a finger     *)
(* that has been repaired is the owner of its start, although the index     *)
(* moves on while its lookup is under way (fixFinger).                      *)
LookupCorrect ==
  up = Nodes =>
    /\ \A p \in Procs : LET l == lookup[p] IN
         /\ l.pc = "done" => l.res = Owner[l.id]
         /\ l.hops < Cardinality(Nodes)
    /\ \A n \in Nodes, i \in 0 .. FingerCount - 1 : fingers[n][i] \in {n, Owner[fingerStart(n, i)]}

(* A lookup that has not run out of calls never skips a live node: it       *)
(* returns the owner, a node that is down, or, when it knows nobody else    *)
(* before the identifier, its own host (FindSuccessor with evictNode).      *)
LookupNeverSkips ==
  \A p \in Procs : LET l == lookup[p] IN
    l.pc = "done" /\ l.hops < MaxHops /\ l.res \in up => l.res \in {Owner[l.id], Host[p]}

(* Every lookup comes to an end, also when its candidates fail and come     *)
(* back from other nodes' tables.                                           *)
LookupEnds == \A p \in Procs : lookup[p].pc = "hop" ~> lookup[p].pc # "hop"
============================================================================
