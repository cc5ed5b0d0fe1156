------------------------- MODULE ChordLookupProofs -------------------------
(***************************************************************************)
(* The identifier circle and the lookups on it. The comparison of          *)
(* identifiers in dht/chord.go is the arc test on a circle; a lookup in a  *)
(* ring without failures finds the owner, and one that meets failures      *)
(* never passes a live node: for a circle of any size (2^160 in the code), *)
(* any nodes, clients, fingers and length of the successor lists.          *)
(***************************************************************************)
EXTENDS ChordLookup, FiniteSetTheorems, NaturalsInduction, WellFoundedInduction, TLAPS

\* BetweenRightInclusive, three cases on byte strings in dht/chord.go, is what Chord
\* means by (lo, hi]: id is reached after lo and not after hi, and the arc
\* from a point to itself is the whole circle.
THEOREM ArcIsClockwise ==
    ASSUME NEW id \in NodeID, NEW lo \in NodeID, NEW hi \in NodeID
    PROVE  BetweenRightInclusive(id, lo, hi) <=>
               \/ lo = hi
               \/ 0 < Distance(lo, id) /\ Distance(lo, id) <= Distance(lo, hi)
<1>1. /\ id \in Int /\ lo \in Int /\ hi \in Int /\ RingSize \in Nat
      /\ 0 <= id /\ id < RingSize /\ 0 <= lo /\ lo < RingSize /\ 0 <= hi /\ hi < RingSize
  BY RingSizeAssumption DEF NodeID
<1> QED BY <1>1 DEF BetweenRightInclusive, BetweenExclusive, Distance

\* Two nodes that are each other's neighbours divide the keys between them: each key
\* has exactly one of them as its successor, so PutBlock, TransferKeys and
\* transferKeysRange never give one key to both or to none (dht/rpc.go
\* 488-522, dht/node.go 815-867).
THEOREM ArcsPartition ==
    ASSUME NEW a \in NodeID, NEW b \in NodeID, a # b, NEW id \in NodeID
    PROVE  /\ BetweenRightInclusive(id, a, b) \/ BetweenRightInclusive(id, b, a)
           /\ ~(BetweenRightInclusive(id, a, b) /\ BetweenRightInclusive(id, b, a))
  BY DEF NodeID, BetweenRightInclusive, BetweenExclusive

\* A node that joins between a and b splits the arc (a, b] in two that do not
\* overlap: what TransferKeys hands over and what stays is all there was.
THEOREM JoinSplitsArc ==
    ASSUME NEW a \in NodeID, NEW b \in NodeID, NEW n \in NodeID,
           BetweenExclusive(n, a, b), NEW id \in NodeID
    PROVE  /\ BetweenRightInclusive(id, a, b) <=>
                  BetweenRightInclusive(id, a, n) \/ BetweenRightInclusive(id, n, b)
           /\ ~(BetweenRightInclusive(id, a, n) /\ BetweenRightInclusive(id, n, b))
  BY DEF NodeID, BetweenRightInclusive, BetweenExclusive
-----------------------------------------------------------------------------
\* The bounds of an identifier.
LEMMA IdBounds ==
    /\ RingSize \in Nat /\ RingSize > 0
    /\ \A a \in NodeID : a \in Int /\ 0 <= a /\ a < RingSize
    /\ \A n \in Nodes : n \in NodeID
BY RingSizeAssumption, LookupAssumption DEF NodeID

LEMMA DistanceFacts ==
    ASSUME NEW a \in NodeID, NEW b \in NodeID
    PROVE  /\ Distance(a, b) \in Nat /\ Distance(a, b) < RingSize
           /\ Distance(a, b) = 0 <=> a = b
           /\ \A c \in NodeID : Distance(a, b) = Distance(a, c) => b = c
BY IdBounds DEF Distance

\* An arc that begins on an arc, with the same end.
LEMMA ArcChain ==
    ASSUME NEW n \in NodeID, NEW c \in NodeID, NEW d \in NodeID, NEW id \in NodeID,
           BetweenExclusive(c, n, id), BetweenExclusive(d, c, id)
    PROVE  BetweenExclusive(d, n, id) /\ Distance(n, c) < Distance(n, d)
BY IdBounds DEF BetweenExclusive, Distance

\* A set of numbers has a least one.
LEMMA MinNat ==
    ASSUME NEW T \in SUBSET Nat, T # {}
    PROVE  \E x \in T : \A y \in T : x <= y
<1>1. PICK x \in T : \A y \in T : ~(<<y, x>> \in OpToRel(<, Nat))
  BY NatLessThanWellFounded, WFMin, Zenon
<1>2. \A y \in T : y \in Nat /\ ~(y < x)
  BY <1>1, Zenon DEF OpToRel
<1> QED  BY <1>2

\* A set of identifiers has one that is farthest from n, and one that is nearest.
LEMMA Extremes ==
    ASSUME NEW S \in SUBSET NodeID, S # {}, NEW n \in NodeID
    PROVE  /\ \E b \in S : \A s \in S : Distance(n, s) <= Distance(n, b)
           /\ \E b \in S : \A s \in S : Distance(n, b) <= Distance(n, s)
<1>1. \A s \in S : Distance(n, s) \in Nat /\ RingSize - Distance(n, s) \in Nat
  BY DistanceFacts, IdBounds
<1>2. \E b \in S : \A s \in S : Distance(n, b) <= Distance(n, s)
  <2> DEFINE T == {Distance(n, s) : s \in S}
  <2>1. T \in SUBSET Nat /\ T # {}  BY <1>1, Zenon
  <2>2. PICK x \in T : \A y \in T : x <= y
    <3> HIDE DEF T
    <3> QED  BY <2>1, MinNat, Zenon
  <2> QED  BY <2>2, Zenon
<1>3. \E b \in S : \A s \in S : Distance(n, s) <= Distance(n, b)
  <2> DEFINE T == {RingSize - Distance(n, s) : s \in S}
  <2>1. T \in SUBSET Nat /\ T # {}  BY <1>1, Zenon
  <2>2. PICK x \in T : \A y \in T : x <= y
    <3> HIDE DEF T
    <3> QED  BY <2>1, MinNat
  <2>3. PICK b \in S : x = RingSize - Distance(n, b)  BY <2>2, Zenon
  <2>4. \A s \in S : RingSize - Distance(n, b) <= RingSize - Distance(n, s)  BY <2>2, <2>3, Zenon
  <2> QED  BY <2>4, <1>1, IdBounds
<1> QED  BY <1>2, <1>3, Zenon

\* The successor is the next node: no node lies before it.
LEMMA SuccessorFacts ==
    ASSUME NEW n \in Nodes
    PROVE  /\ successor[n] \in Nodes
           /\ \A o \in Nodes : ~BetweenExclusive(o, n, successor[n]) \/ o = n
<1>1. \E m \in Nodes : \A o \in Nodes : ~BetweenExclusive(o, n, m) \/ o = n
  <2>1. CASE Nodes = {n}  BY <2>1, Zenon
  <2>2. CASE Nodes # {n}
    <3>1. Nodes \ {n} \in SUBSET NodeID /\ Nodes \ {n} # {} /\ n \in NodeID
      BY <2>2, IdBounds, Zenon
    <3>2. PICK m \in Nodes \ {n} : \A o \in Nodes \ {n} : Distance(n, m) <= Distance(n, o)
      BY <3>1, Extremes, Zenon
    <3>3. ASSUME NEW o \in Nodes, o # n PROVE ~BetweenExclusive(o, n, m)
      <4>1. Distance(n, m) <= Distance(n, o) /\ m # n /\ m \in NodeID /\ o \in NodeID /\ n \in NodeID
        BY <3>2, <3>3, IdBounds, Zenon
      <4> QED  BY <4>1, <3>3, IdBounds DEF BetweenExclusive, Distance
    <3> QED  BY <3>2, <3>3, Zenon
  <2> QED  BY <2>1, <2>2, Zenon
<1>2. successor[n] = CHOOSE m \in Nodes : \A o \in Nodes : ~BetweenExclusive(o, n, m) \/ o = n
  BY Zenon DEF successor
<1> QED  BY <1>1, <1>2, Zenon

\* The owner of what lies between a node and its successor is the successor.
LEMMA OwnerIs ==
    ASSUME NEW c \in Nodes, NEW id \in NodeID, BetweenRightInclusive(id, c, successor[c])
    PROVE  successor[c] = Owner[id]
<1> DEFINE s == successor[c]
           w == CHOOSE n \in Nodes : \A m \in Nodes : Distance(id, n) <= Distance(id, m)
<1>1. s \in Nodes /\ \A o \in Nodes : ~BetweenExclusive(o, c, s) \/ o = c  BY SuccessorFacts, Zenon
<1>2. BetweenRightInclusive(id, c, s) /\ c \in NodeID /\ s \in NodeID  BY <1>1, IdBounds, Zenon
<1>3. Owner[id] = w  BY Zenon DEF Owner
<1> HIDE DEF s
<1>4. ASSUME NEW m \in Nodes PROVE Distance(id, s) <= Distance(id, m)
  <2>1. m \in NodeID /\ (~BetweenExclusive(m, c, s) \/ m = c)  BY <1>1, IdBounds, Zenon
  <2> QED  BY <2>1, <1>2, IdBounds DEF BetweenRightInclusive, BetweenExclusive, Distance
<1>5. w \in Nodes /\ \A m \in Nodes : Distance(id, w) <= Distance(id, m)  BY <1>1, <1>4, Zenon
<1> HIDE DEF w
<1>6. w \in NodeID /\ Distance(id, w) <= Distance(id, s) /\ Distance(id, s) <= Distance(id, w)
  BY <1>1, <1>4, <1>5, IdBounds, Zenon
<1>7. Distance(id, w) \in Nat /\ Distance(id, s) \in Nat  BY <1>2, <1>6, DistanceFacts, Zenon
<1>8. Distance(id, w) = Distance(id, s)  BY <1>6, <1>7
<1>9. w = s  BY <1>2, <1>6, <1>8, DistanceFacts, Zenon
<1> QED  BY <1>3, <1>9, Zenon DEF s

\* closestPrecedingNode returns the node itself or one before the identifier, and
\* not itself if the list has one.
LEMMA ClosestFacts ==
    ASSUME NEW n \in Nodes, NEW table \in [0 .. FingerCount - 1 -> Nodes],
           NEW list \in SUBSET Nodes, NEW id \in NodeID
    PROVE  /\ closestIn(n, table, list, id) \in Nodes
           /\ \/ closestIn(n, table, list, id) = n
              \/ BetweenExclusive(closestIn(n, table, list, id), n, id)
           /\ (\E s \in list : BetweenExclusive(s, n, id)) => closestIn(n, table, list, id) # n
<1> DEFINE good == {i \in 0 .. FingerCount - 1 : BetweenExclusive(table[i], n, id)}
           finger == IF good = {} THEN n ELSE table[CHOOSE i \in good : \A j \in good : j <= i]
           reach == {finger} \cup {s \in list : BetweenExclusive(s, n, id)}
           best == CHOOSE b \in reach : \A s \in reach : Distance(n, s) <= Distance(n, b)
<1>1. closestIn(n, table, list, id) = best  BY Zenon DEF closestIn
<1>2. finger \in Nodes /\ (finger = n \/ BetweenExclusive(finger, n, id))
  <2>1. CASE good = {}  BY <2>1, Zenon
  <2>2. CASE good # {}
    <3>1. FingerCount \in Nat  BY LookupAssumption, Zenon
    <3>2. \E i \in good : \A j \in good : j <= i
      <4> DEFINE T == {FingerCount - i : i \in good}
      <4>1. good \subseteq Int /\ \A i \in good : FingerCount - i \in Nat  BY <3>1
      <4>2. T \in SUBSET Nat /\ T # {}  BY <4>1, <2>2, Zenon
      <4>3. PICK x \in T : \A y \in T : x <= y
        <5> HIDE DEF T
        <5> QED  BY <4>2, MinNat, Zenon
      <4>4. PICK i \in good : x = FingerCount - i  BY <4>3, Zenon
      <4>5. \A j \in good : FingerCount - i <= FingerCount - j  BY <4>3, <4>4, Zenon
      <4> QED  BY <3>1, <4>1, <4>5
    <3>3. PICK i \in good : finger = table[i]  BY <2>2, <3>2, Zenon
    <3> QED  BY <3>3, Zenon
  <2> QED  BY <2>1, <2>2, Zenon
<1> HIDE DEF finger
<1>3. reach \subseteq Nodes /\ reach # {} /\ \A s \in reach : s = n \/ BetweenExclusive(s, n, id)
  BY <1>2, Zenon
<1>4. \A s \in list : BetweenExclusive(s, n, id) => s \in reach /\ s # n
  <2>1. \A s \in list : s \in NodeID /\ n \in NodeID  BY IdBounds, Zenon
  <2> QED  BY <2>1, IdBounds DEF BetweenExclusive
<1> HIDE DEF reach
<1>5. \E b \in reach : \A s \in reach : Distance(n, s) <= Distance(n, b)
  BY <1>3, IdBounds, Extremes, Zenon
<1>6. best \in reach /\ \A s \in reach : Distance(n, s) <= Distance(n, best)  BY <1>5, Zenon
<1> HIDE DEF best
<1>7. ASSUME NEW s \in reach, s # n PROVE best # n
  <2>1. s \in NodeID /\ n \in NodeID  BY <1>3, IdBounds, Zenon
  <2>2. Distance(n, s) \in Nat /\ Distance(n, s) # 0 /\ Distance(n, n) = 0
    BY <2>1, <1>7, DistanceFacts, Zenon
  <2> QED  BY <2>2, <1>6
<1> QED  BY <1>1, <1>3, <1>4, <1>6, <1>7, Zenon
-----------------------------------------------------------------------------
\* The states of a lookup.
LookupState ==
    [pc : {"idle", "hop", "done"}, id : NodeID, cand : NodeID, hops : Nat, res : NodeID,
     finger : 0 .. FingerCount - 1]

\* No node of the set u of live ones is missing, and the hop limit is not below the
\* number of nodes.
Whole(u) == u = Nodes /\ Cardinality(Nodes) <= MaxHops

\* The tables: only a node that is down is missing from the list of its
\* predecessor, and without failures a finger is its owner or not set.
TablesOK(u, list, table) ==
    /\ u \subseteq Nodes
    /\ list \in [Nodes -> SUBSET Nodes]
    /\ table \in [Nodes -> [0 .. FingerCount - 1 -> Nodes]]
    /\ \A n \in Nodes : successor[n] \in list[n] \cup {n} \/ successor[n] \notin u
    /\ Whole(u) => \A n \in Nodes, i \in 0 .. FingerCount - 1 :
                     table[n][i] \in {n, Owner[fingerStart(n, i)]}

\* The nodes from h to c, without c.
Passed(h, c) == {m \in Nodes : Distance(h, m) < Distance(h, c)}

\* What a lookup l from node h has come to without failures: each call brings it to a
\* node farther on and still before the identifier.
OnCourse(h, l) ==
    /\ l.pc = "idle" => l.hops = 0
    /\ l.pc = "hop" => BetweenExclusive(l.cand, h, l.id) /\ l.hops < Cardinality(Passed(h, l.cand))
    /\ l.pc = "done" => l.hops < Cardinality(Nodes) /\ l.res = Owner[l.id]

\* The lookup l of a process, with u the live nodes: a repair loop looks up the
\* start of the finger it is going to write.
LookupOK(p, l, u) ==
    /\ l \in LookupState
    /\ l.pc = "hop" => l.cand \in Nodes
    /\ l.pc = "done" => l.res \in Nodes
    /\ p \in Fixers /\ l.pc # "idle" => l.id = fingerStart(Host[p], l.finger)
    /\ l.pc = "done" /\ l.hops < MaxHops /\ l.res \in u => l.res \in {Owner[l.id], Host[p]}
    /\ Whole(u) => OnCourse(Host[p], l)

\* The inductive invariant.
LInv ==
    /\ TablesOK(up, successorList, fingers)
    /\ nextFinger \in [Nodes -> 0 .. FingerCount - 1]
    /\ lookup \in [Procs -> LookupState]
    /\ \A p \in Procs : LookupOK(p, lookup[p], up)

\* A process that looks nothing up.
LEMMA IdleOK == \A p \in Procs : \A u : LookupOK(p, Idle, u)
<1>1. 0 \in NodeID /\ 0 \in 0 .. FingerCount - 1  BY IdBounds, LookupAssumption DEF NodeID
<1>2. Idle \in LookupState /\ Idle.pc = "idle" /\ Idle.hops = 0  BY <1>1, Zenon DEF Idle, LookupState
<1> QED  BY <1>2, Zenon DEF LookupOK, OnCourse

\* One process moves.
LEMMA SetFacts ==
    ASSUME LInv, NEW p \in Procs, NEW r, Set(p, r), LookupOK(p, r, up), up' = up
    PROVE  /\ lookup' \in [Procs -> LookupState]
           /\ \A q \in Procs : LookupOK(q, lookup'[q], up')
<1>1. r \in LookupState  BY Zenon DEF LookupOK
<1>2. \A q \in Procs : lookup'[q] = IF q = p THEN r ELSE lookup[q]  BY Zenon DEF Set, LInv
<1> QED  BY <1>1, <1>2, Zenon DEF Set, LInv

LEMMA InitLInv == Init => LInv
<1> SUFFICES ASSUME Init PROVE LInv
  BY Zenon
<1>1. lookup = [p \in Procs |-> Idle] /\ \A p \in Procs : LookupOK(p, Idle, up)
  BY IdleOK, Zenon DEF Init
<1>2. lookup \in [Procs -> LookupState] /\ \A p \in Procs : LookupOK(p, lookup[p], up)
  BY <1>1, Zenon DEF LookupOK
<1>3. 0 \in 0 .. FingerCount - 1 /\ ListSize \in Nat /\ ListSize > 0  BY LookupAssumption
<1>4. nextFinger \in [Nodes -> 0 .. FingerCount - 1]  BY <1>3, Zenon DEF Init
<1>5. /\ up = Nodes /\ successorList \in [Nodes -> SUBSET Nodes]
      /\ fingers \in [Nodes -> [0 .. FingerCount - 1 -> Nodes]]
      /\ \A n \in Nodes, i \in 0 .. FingerCount - 1 : fingers[n][i] = n
  BY Zenon DEF Init
<1>6. ASSUME NEW n \in Nodes PROVE successor[n] \in successorList[n] \cup {n}
  <2>1. successor[n] \in Nodes /\ \A o \in Nodes : ~BetweenExclusive(o, n, successor[n]) \/ o = n
    BY SuccessorFacts, Zenon
  <2>2. CASE successor[n] = n  BY <2>2, Zenon
  <2>3. CASE successor[n] # n
    <3>1. ~BetweenExclusive(n, n, successor[n])
      BY <2>1, <2>3, IdBounds DEF BetweenExclusive
    <3>2. {o \in Nodes : BetweenExclusive(o, n, successor[n])} = {}  BY <2>1, <3>1, Zenon
    <3>3. Cardinality({o \in Nodes : BetweenExclusive(o, n, successor[n])}) < ListSize
      BY <3>2, <1>3, FS_EmptySet, Zenon
    <3> QED  BY <3>3, <2>1, <2>3, Zenon DEF Init
  <2> QED  BY <2>2, <2>3, Zenon
<1>7. TablesOK(up, successorList, fingers)  BY <1>5, <1>6, Zenon DEF TablesOK
<1> QED  BY <1>2, <1>4, <1>7, Zenon DEF LInv

\* The nodes passed on the way to a node.
LEMMA PassedFacts ==
    ASSUME NEW h \in Nodes, NEW c \in Nodes
    PROVE  /\ IsFiniteSet(Passed(h, c)) /\ Cardinality(Passed(h, c)) \in Nat
           /\ Cardinality(Passed(h, c)) < Cardinality(Nodes) /\ Cardinality(Nodes) \in Nat
           /\ c # h => Cardinality(Passed(h, c)) > 0
           /\ \A d \in Nodes : Distance(h, c) < Distance(h, d) =>
                Cardinality(Passed(h, c)) < Cardinality(Passed(h, d))
<1>1. \A m \in Nodes : Distance(h, m) \in Nat  BY IdBounds, DistanceFacts, Zenon
<1>2. IsFiniteSet(Nodes) /\ Cardinality(Nodes) \in Nat  BY LookupAssumption, FS_CardinalityType, Zenon
<1>3. \A d \in Nodes : IsFiniteSet(Passed(h, d)) /\ Cardinality(Passed(h, d)) \in Nat
  <2> TAKE d \in Nodes
  <2>1. Passed(h, d) \subseteq Nodes  BY Zenon DEF Passed
  <2> QED  BY <2>1, <1>2, FS_Subset, FS_CardinalityType, Zenon
<1>4. c \notin Passed(h, c)  BY <1>1 DEF Passed
<1>5. Cardinality(Passed(h, c) \cup {c}) = Cardinality(Passed(h, c)) + 1
      /\ IsFiniteSet(Passed(h, c) \cup {c})
  BY <1>3, <1>4, FS_AddElement, Zenon
<1>6. Cardinality(Passed(h, c)) < Cardinality(Nodes)
  <2>1. Passed(h, c) \cup {c} \subseteq Nodes  BY Zenon DEF Passed
  <2>2. Cardinality(Passed(h, c) \cup {c}) <= Cardinality(Nodes)  BY <2>1, <1>2, FS_Subset, Zenon
  <2> QED  BY <2>2, <1>2, <1>3, <1>5
<1>7. ASSUME c # h PROVE Cardinality(Passed(h, c)) > 0
  <2>1. Distance(h, h) = 0 /\ Distance(h, c) # 0 /\ Distance(h, c) \in Nat
    BY <1>7, IdBounds, DistanceFacts, Zenon
  <2>2. h \in Passed(h, c)  BY <2>1 DEF Passed
  <2>3. Cardinality(Passed(h, c)) # 0  BY <2>2, <1>3, FS_EmptySet, Zenon
  <2> QED  BY <2>3, <1>3
<1>8. ASSUME NEW d \in Nodes, Distance(h, c) < Distance(h, d)
      PROVE  Cardinality(Passed(h, c)) < Cardinality(Passed(h, d))
  <2>1. Passed(h, c) \cup {c} \subseteq Passed(h, d)
    <3>1. ASSUME NEW m \in Nodes, Distance(h, m) < Distance(h, c)
          PROVE  Distance(h, m) < Distance(h, d)
      BY <3>1, <1>1, <1>8
    <3> QED  BY <3>1, <1>8, Zenon DEF Passed
  <2>2. Cardinality(Passed(h, c) \cup {c}) <= Cardinality(Passed(h, d))  BY <2>1, <1>3, FS_Subset, Zenon
  <2> QED  BY <2>2, <1>3, <1>5
<1> QED  BY <1>2, <1>3, <1>6, <1>7, <1>8, Zenon

\* closestPrecedingNode of node n, and what it means that it finds nobody.
LEMMA NextCandidate ==
    ASSUME LInv, NEW n \in Nodes, NEW id \in NodeID
    PROVE  LET c == closestPrecedingNode(n, id) IN
           /\ c \in Nodes
           /\ c = n \/ BetweenExclusive(c, n, id)
           /\ c = n => BetweenRightInclusive(id, n, successor[n]) \/ successor[n] \notin up
<1> DEFINE c == closestPrecedingNode(n, id)
<1>1. fingers[n] \in [0 .. FingerCount - 1 -> Nodes] /\ successorList[n] \in SUBSET Nodes
  BY Zenon DEF LInv, TablesOK
<1>2. /\ c \in Nodes
      /\ c = n \/ BetweenExclusive(c, n, id)
      /\ (\E s \in successorList[n] : BetweenExclusive(s, n, id)) => c # n
  BY <1>1, ClosestFacts, Zenon DEF closestPrecedingNode
<1> HIDE DEF c
<1>3. ASSUME c = n, ~BetweenRightInclusive(id, n, successor[n]), successor[n] \in up PROVE FALSE
  <2>1. successor[n] \in Nodes /\ successor[n] \in NodeID /\ n \in NodeID
    BY SuccessorFacts, IdBounds, Zenon
  <2>2. successor[n] # n /\ BetweenExclusive(successor[n], n, id)
    BY <1>3, <2>1, IdBounds DEF BetweenRightInclusive, BetweenExclusive
  <2>3. successor[n] \in successorList[n]  BY <1>3, <2>2, Zenon DEF LInv, TablesOK
  <2> QED  BY <1>2, <1>3, <2>2, <2>3, Zenon
<1> QED  BY <1>2, <1>3, Zenon DEF c

\* FindSuccessor before its first call.
LEMMA StartOK ==
    ASSUME LInv, NEW p \in Procs, NEW id \in NodeID, NEW i \in 0 .. FingerCount - 1,
           p \in Fixers => id = fingerStart(Host[p], i), Host[p] \in up, FindSuccessor(p, id, i)
    PROVE  \E r \in LookupState : Set(p, r) /\ LookupOK(p, r, up)
<1> DEFINE n == Host[p]
           c == closestPrecedingNode(n, id)
           start == [Idle EXCEPT !.id = id, !.finger = i]
<1>0. 0 \in NodeID  BY IdBounds DEF NodeID
<1>1. n \in Nodes /\ n \in NodeID /\ 0 \in NodeID /\ n \in up
  BY <1>0, LookupAssumption, IdBounds, Zenon
<1>2. /\ c \in Nodes
      /\ c = n \/ BetweenExclusive(c, n, id)
      /\ c = n => BetweenRightInclusive(id, n, successor[n]) \/ successor[n] \notin up
  BY <1>1, NextCandidate, Zenon
<1>3. successor[n] \in Nodes /\ successor[n] \in NodeID /\ c \in NodeID
  BY <1>1, <1>2, SuccessorFacts, IdBounds, Zenon
<1>4. Set(p, IF BetweenRightInclusive(id, n, successor[n])
               THEN [start EXCEPT !.pc = "done", !.res = successor[n]]
             ELSE IF c = n THEN [start EXCEPT !.pc = "done", !.res = n]
             ELSE [start EXCEPT !.pc = "hop", !.cand = c])
  BY Zenon DEF FindSuccessor
<1>5. start \in LookupState /\ start.id = id /\ start.finger = i /\ start.hops = 0
  <2>1. 0 \in 0 .. FingerCount - 1  BY LookupAssumption
  <2>2. Idle \in LookupState /\ Idle.hops = 0  BY <1>0, <2>1, Zenon DEF Idle, LookupState
  <2> QED  BY <2>2, Zenon DEF LookupState
<1>6. Cardinality(Nodes) \in Nat /\ 0 < Cardinality(Nodes) /\ MaxHops \in Nat
  BY <1>1, PassedFacts, LookupAssumption
<1> HIDE DEF n, c, start
<1>7. CASE BetweenRightInclusive(id, n, successor[n])
  <2> DEFINE r == [start EXCEPT !.pc = "done", !.res = successor[n]]
  <2>1. Set(p, r)  BY <1>4, <1>7, Zenon
  <2>2. /\ r \in LookupState /\ r.pc = "done" /\ r.res = successor[n] /\ r.id = id /\ r.hops = 0
        /\ r.finger = i
    BY <1>3, <1>5, Zenon DEF LookupState
  <2>3. successor[n] = Owner[id]  BY <1>1, <1>7, OwnerIs, Zenon
  <2> HIDE DEF r
  <2>4. LookupOK(p, r, up)  BY <2>2, <2>3, <1>3, <1>6, Zenon DEF LookupOK, OnCourse, n
  <2> QED  BY <2>1, <2>2, <2>4, Zenon
<1>8. CASE ~BetweenRightInclusive(id, n, successor[n]) /\ c = n
  <2> DEFINE r == [start EXCEPT !.pc = "done", !.res = n]
  <2>1. Set(p, r)  BY <1>4, <1>8, Zenon
  <2>2. r \in LookupState /\ r.pc = "done" /\ r.res = n /\ r.id = id /\ r.finger = i
    BY <1>1, <1>5, Zenon DEF LookupState
  <2>3. ~Whole(up)  BY <1>2, <1>3, <1>8, Zenon DEF Whole
  <2> HIDE DEF r
  <2>4. LookupOK(p, r, up)  BY <2>2, <2>3, <1>1, Zenon DEF LookupOK, n
  <2> QED  BY <2>1, <2>2, <2>4, Zenon
<1>9. CASE ~BetweenRightInclusive(id, n, successor[n]) /\ c # n
  <2> DEFINE r == [start EXCEPT !.pc = "hop", !.cand = c]
  <2>1. Set(p, r)  BY <1>4, <1>9, Zenon
  <2>2. /\ r \in LookupState /\ r.pc = "hop" /\ r.cand = c /\ r.id = id /\ r.hops = 0
        /\ r.finger = i
    BY <1>3, <1>5, Zenon DEF LookupState
  <2>3. Cardinality(Passed(n, c)) > 0  BY <1>1, <1>2, <1>9, PassedFacts, Zenon
  <2> HIDE DEF r
  <2>4. LookupOK(p, r, up)  BY <2>2, <2>3, <1>2, <1>9, Zenon DEF LookupOK, OnCourse, n
  <2> QED  BY <2>1, <2>2, <2>4, Zenon
<1> QED  BY <1>7, <1>8, <1>9, Zenon

\* A call that is answered.
LEMMA HopOK ==
    ASSUME LInv, NEW p \in Procs, Hop(p)
    PROVE  \E r \in LookupState : Set(p, r) /\ LookupOK(p, r, up)
<1> DEFINE l == lookup[p]
           h == Host[p]
           d == closestPrecedingNode(l.cand, l.id)
           s == successor[l.cand]
<1>1. /\ LookupOK(p, l, up) /\ l \in LookupState /\ l.pc = "hop" /\ l.cand \in Nodes
      /\ l.hops < MaxHops /\ MaxHops \in Nat /\ l.cand \in up /\ h \in Nodes
  BY LookupAssumption, Zenon DEF LInv, LookupOK, Hop
<1>2. l.id \in NodeID /\ l.hops \in Nat  BY <1>1, Zenon DEF LookupState
<1>3. /\ d \in Nodes
      /\ d = l.cand \/ BetweenExclusive(d, l.cand, l.id)
      /\ d = l.cand => BetweenRightInclusive(l.id, l.cand, s) \/ s \notin up
  BY <1>1, <1>2, NextCandidate, Zenon
<1>4. s \in Nodes /\ s \in NodeID /\ d \in NodeID /\ h \in NodeID /\ l.cand \in NodeID
  BY <1>1, <1>3, SuccessorFacts, IdBounds, Zenon
<1>5. Set(p, IF BetweenRightInclusive(l.id, l.cand, s) \/ d = l.cand
               THEN [l EXCEPT !.pc = "done", !.res = s]
               ELSE [l EXCEPT !.cand = d, !.hops = @ + 1])
  BY Zenon DEF Hop
<1>6. p \in Fixers => l.id = fingerStart(h, l.finger)  BY <1>1, Zenon DEF LookupOK
<1>7. Whole(up) => BetweenExclusive(l.cand, h, l.id) /\ l.hops < Cardinality(Passed(h, l.cand))
  BY <1>1, Zenon DEF LookupOK, OnCourse
<1>8. BetweenRightInclusive(l.id, l.cand, s) => s = Owner[l.id]  BY <1>1, <1>2, OwnerIs, Zenon
<1>9. /\ Cardinality(Passed(h, l.cand)) \in Nat /\ Cardinality(Nodes) \in Nat
      /\ Cardinality(Passed(h, l.cand)) < Cardinality(Nodes)
      /\ Distance(h, l.cand) < Distance(h, d) =>
           Cardinality(Passed(h, l.cand)) < Cardinality(Passed(h, d))
      /\ Cardinality(Passed(h, d)) \in Nat
  BY <1>1, <1>3, PassedFacts, Zenon
<1> HIDE DEF l, h, d, s
<1>10. CASE BetweenRightInclusive(l.id, l.cand, s) \/ d = l.cand
  <2> DEFINE r == [l EXCEPT !.pc = "done", !.res = s]
  <2>1. Set(p, r)  BY <1>5, <1>10, Zenon
  <2>2. /\ r \in LookupState /\ r.pc = "done" /\ r.res = s /\ r.id = l.id /\ r.hops = l.hops
        /\ r.finger = l.finger
    BY <1>1, <1>4, Zenon DEF LookupState
  <2>3. s = Owner[l.id] \/ s \notin up  BY <1>3, <1>8, <1>10, Zenon
  <2>4. Whole(up) => s = Owner[l.id] /\ l.hops < Cardinality(Nodes)
    BY <2>3, <1>2, <1>4, <1>7, <1>9 DEF Whole
  <2> HIDE DEF r
  <2>5. LookupOK(p, r, up)  BY <2>2, <2>3, <2>4, <1>4, <1>6, Zenon DEF LookupOK, OnCourse, h
  <2> QED  BY <2>1, <2>2, <2>5, Zenon
<1>11. CASE ~(BetweenRightInclusive(l.id, l.cand, s) \/ d = l.cand)
  <2> DEFINE r == [l EXCEPT !.cand = d, !.hops = @ + 1]
  <2>1. Set(p, r)  BY <1>5, <1>11, Zenon
  <2>a. l.hops + 1 \in Nat  BY <1>2
  <2>b. r = [l EXCEPT !.cand = d, !.hops = l.hops + 1]  BY Zenon
  <2>c. r \in LookupState  BY <2>a, <2>b, <1>1, <1>4, Zenon DEF LookupState
  <2>2. /\ r \in LookupState /\ r.pc = "hop" /\ r.cand = d /\ r.id = l.id /\ r.hops = l.hops + 1
        /\ r.finger = l.finger
    BY <2>b, <2>c, <1>1, Zenon DEF LookupState
  <2>3. Whole(up) => BetweenExclusive(d, h, l.id) /\ Distance(h, l.cand) < Distance(h, d)
    BY <1>2, <1>3, <1>4, <1>7, <1>11, ArcChain, Zenon
  <2>4. Whole(up) => l.hops + 1 < Cardinality(Passed(h, d))
    BY <2>3, <1>2, <1>7, <1>9
  <2> HIDE DEF r
  <2>5. LookupOK(p, r, up)  BY <2>2, <2>3, <2>4, <1>3, <1>6, Zenon DEF LookupOK, OnCourse, h
  <2> QED  BY <2>1, <2>2, <2>5, Zenon
<1> QED  BY <1>10, <1>11, Zenon

\* A call that fails: a node is down.
LEMMA HopFailsOK ==
    ASSUME LInv, NEW p \in Procs, HopFails(p)
    PROVE  LInv'
<1> DEFINE l == lookup[p]
           n == Host[p]
           table == [i \in 0 .. FingerCount - 1 |-> IF fingers[n][i] = l.cand THEN n ELSE fingers[n][i]]
           list == successorList[n] \ {l.cand}
           c == closestIn(n, table, list, l.id)
<1>1. /\ LookupOK(p, l, up) /\ l \in LookupState /\ l.pc = "hop" /\ l.cand \in Nodes
      /\ l.cand \notin up /\ n \in Nodes /\ l.hops < MaxHops
  BY LookupAssumption, Zenon DEF LInv, LookupOK, HopFails
<1>2. ~Whole(up)  BY <1>1, Zenon DEF Whole
<1>3. table \in [0 .. FingerCount - 1 -> Nodes] /\ list \in SUBSET Nodes
  <2>1. fingers[n] \in [0 .. FingerCount - 1 -> Nodes] /\ successorList[n] \in SUBSET Nodes
    BY <1>1, Zenon DEF LInv, TablesOK
  <2> HIDE DEF n
  <2> QED  BY <2>1, <1>1, Zenon
<1>4. l.id \in NodeID /\ l.hops \in Nat  BY <1>1, Zenon DEF LookupState
<1>5. c \in Nodes  BY <1>1, <1>3, <1>4, ClosestFacts, Zenon
<1>6. /\ fingers' = [fingers EXCEPT ![n] = table]
      /\ successorList' = [successorList EXCEPT ![n] = list]
      /\ Set(p, IF c = n THEN [l EXCEPT !.pc = "done", !.res = n]
                         ELSE [l EXCEPT !.cand = c, !.hops = @ + 1])
      /\ up' = up /\ nextFinger' = nextFinger
  BY Zenon DEF HopFails
<1>7. p \in Fixers => l.id = fingerStart(n, l.finger)  BY <1>1, Zenon DEF LookupOK
<1>8. c \in NodeID /\ n \in NodeID  BY <1>1, <1>5, IdBounds, Zenon
<1>9. TablesOK(up, successorList', fingers')
  <2> HIDE DEF table
  <2>1. /\ fingers' \in [Nodes -> [0 .. FingerCount - 1 -> Nodes]]
        /\ successorList' \in [Nodes -> SUBSET Nodes]
    BY <1>3, <1>6, Zenon DEF LInv, TablesOK
  <2>2. ASSUME NEW m \in Nodes
        PROVE  successor[m] \in successorList'[m] \cup {m} \/ successor[m] \notin up
    <3>1. successorList'[m] = IF m = n THEN successorList[m] \ {l.cand} ELSE successorList[m]
      BY <1>6, Zenon DEF LInv, TablesOK
    <3>2. successor[m] \in successorList[m] \cup {m} \/ successor[m] \notin up
      BY Zenon DEF LInv, TablesOK
    <3> QED  BY <3>1, <3>2, <1>1, Zenon
  <2> QED  BY <2>1, <2>2, <1>2, Zenon DEF LInv, TablesOK
<1> HIDE DEF l, n, table, list, c
<1>10. PICK r \in LookupState : Set(p, r) /\ LookupOK(p, r, up)
  <2>1. CASE c = n
    <3> DEFINE r == [l EXCEPT !.pc = "done", !.res = n]
    <3>1. Set(p, r)  BY <1>6, <2>1, Zenon
    <3>2. /\ r \in LookupState /\ r.pc = "done" /\ r.res = n /\ r.id = l.id /\ r.finger = l.finger
      BY <1>1, <1>8, Zenon DEF LookupState
    <3> HIDE DEF r
    <3>3. LookupOK(p, r, up)  BY <3>2, <1>1, <1>2, <1>7, Zenon DEF LookupOK, n
    <3> QED  BY <3>1, <3>2, <3>3, Zenon
  <2>2. CASE c # n
    <3> DEFINE r == [l EXCEPT !.cand = c, !.hops = @ + 1]
    <3>1. Set(p, r)  BY <1>6, <2>2, Zenon
    <3>a. l.hops + 1 \in Nat  BY <1>4
    <3>b. r = [l EXCEPT !.cand = c, !.hops = l.hops + 1]  OBVIOUS
    <3>c. r \in LookupState  BY <3>a, <3>b, <1>1, <1>8, Zenon DEF LookupState
    <3>2. /\ r \in LookupState /\ r.pc = "hop" /\ r.cand = c /\ r.id = l.id /\ r.finger = l.finger
      BY <3>b, <3>c, <1>1, Zenon DEF LookupState
    <3> HIDE DEF r
    <3>3. LookupOK(p, r, up)  BY <3>2, <1>2, <1>5, <1>7, Zenon DEF LookupOK, n
    <3> QED  BY <3>1, <3>2, <3>3, Zenon
  <2> QED  BY <2>1, <2>2, Zenon
<1>11. /\ lookup' \in [Procs -> LookupState]
       /\ \A q \in Procs : LookupOK(q, lookup'[q], up')
  BY <1>6, <1>10, SetFacts, Zenon
<1> QED  BY <1>6, <1>9, <1>11, Zenon DEF LInv

\* A step that moves one process and leaves the tables alone.
LEMMA LookupMoves ==
    ASSUME LInv, NEW p \in Procs, NEW r, Set(p, r), LookupOK(p, r, up),
           UNCHANGED <<up, successorList, fingers>>,
           nextFinger' \in [Nodes -> 0 .. FingerCount - 1]
    PROVE  LInv'
<1>1. /\ lookup' \in [Procs -> LookupState]
      /\ \A q \in Procs : LookupOK(q, lookup'[q], up')
  BY SetFacts, Zenon
<1> QED  BY <1>1, Zenon DEF LInv

\* The loop that runs out of calls: without failures the limit is not reached.
LEMMA GiveUpOK ==
    ASSUME LInv, NEW p \in Procs, GiveUp(p)
    PROVE  LInv'
<1> DEFINE l == lookup[p]
           r == [l EXCEPT !.pc = "done", !.res = l.cand]
<1>1. /\ LookupOK(p, l, up) /\ l \in LookupState /\ l.pc = "hop" /\ l.cand \in Nodes
      /\ l.hops = MaxHops /\ Host[p] \in Nodes /\ MaxHops \in Nat
  BY LookupAssumption, Zenon DEF LInv, LookupOK, GiveUp
<1>2. Set(p, r) /\ UNCHANGED <<up, successorList, fingers, nextFinger>>  BY Zenon DEF GiveUp
<1>3. ~Whole(up)
  <2>1. Whole(up) => l.hops < Cardinality(Passed(Host[p], l.cand))  BY <1>1, Zenon DEF LookupOK, OnCourse
  <2>2. /\ Cardinality(Passed(Host[p], l.cand)) \in Nat /\ Cardinality(Nodes) \in Nat
        /\ Cardinality(Passed(Host[p], l.cand)) < Cardinality(Nodes)
    BY <1>1, PassedFacts, Zenon
  <2> HIDE DEF l
  <2> QED  BY <2>1, <2>2, <1>1 DEF Whole
<1>4. p \in Fixers => l.id = fingerStart(Host[p], l.finger)  BY <1>1, Zenon DEF LookupOK
<1>5. l.cand \in NodeID  BY <1>1, IdBounds, Zenon
<1> HIDE DEF l
<1>6. /\ r \in LookupState /\ r.pc = "done" /\ r.res = l.cand /\ r.id = l.id /\ r.finger = l.finger
      /\ r.hops = MaxHops
  BY <1>1, <1>5, Zenon DEF LookupState
<1> HIDE DEF r
<1>7. LookupOK(p, r, up)  BY <1>1, <1>3, <1>4, <1>6 DEF LookupOK
<1>8. nextFinger' \in [Nodes -> 0 .. FingerCount - 1]  BY <1>2, Zenon DEF LInv
<1> QED  BY <1>2, <1>7, <1>8, LookupMoves, Zenon

\* The result is taken; a repair loop writes the finger whose start it looked up.
LEMMA FinishOK ==
    ASSUME LInv, NEW p \in Procs, Finish(p)
    PROVE  LInv'
<1> DEFINE l == lookup[p]
           n == Host[p]
<1>1. /\ LookupOK(p, l, up) /\ l \in LookupState /\ l.pc = "done" /\ l.res \in Nodes /\ n \in Nodes
      /\ Set(p, Idle) /\ UNCHANGED <<up, successorList, nextFinger>>
      /\ fingers' = IF p \in Fixers THEN [fingers EXCEPT ![n][l.finger] = l.res] ELSE fingers
  BY LookupAssumption, Zenon DEF LInv, LookupOK, Finish
<1>2. l.finger \in 0 .. FingerCount - 1  BY <1>1, Zenon DEF LookupState
<1>3. p \in Fixers => l.id = fingerStart(n, l.finger)  BY <1>1, Zenon DEF LookupOK
<1>4. Whole(up) => l.res = Owner[l.id]  BY <1>1, Zenon DEF LookupOK, OnCourse
<1>5. fingers \in [Nodes -> [0 .. FingerCount - 1 -> Nodes]]  BY Zenon DEF LInv, TablesOK
<1> HIDE DEF l, n
<1>6. fingers' \in [Nodes -> [0 .. FingerCount - 1 -> Nodes]]  BY <1>1, <1>2, <1>5, Zenon
<1>7. \A m \in Nodes, i \in 0 .. FingerCount - 1 :
        \/ fingers'[m][i] = fingers[m][i]
        \/ p \in Fixers /\ m = n /\ i = l.finger /\ fingers'[m][i] = l.res
  BY <1>1, <1>2, <1>5, Zenon
<1>8. TablesOK(up, successorList, fingers')
  <2>1. ASSUME Whole(up), NEW m \in Nodes, NEW i \in 0 .. FingerCount - 1
        PROVE  fingers'[m][i] \in {m, Owner[fingerStart(m, i)]}
    <3>1. fingers[m][i] \in {m, Owner[fingerStart(m, i)]}  BY <2>1, Zenon DEF LInv, TablesOK
    <3>2. CASE fingers'[m][i] = fingers[m][i]  BY <3>1, <3>2, Zenon
    <3>3. CASE p \in Fixers /\ m = n /\ i = l.finger /\ fingers'[m][i] = l.res
      BY <3>3, <2>1, <1>3, <1>4, Zenon
    <3> QED  BY <3>2, <3>3, <1>7, Zenon
  <2> QED  BY <2>1, <1>6, Zenon DEF LInv, TablesOK
<1>9. /\ lookup' \in [Procs -> LookupState]
      /\ \A q \in Procs : LookupOK(q, lookup'[q], up')
  BY <1>1, IdleOK, SetFacts, Zenon
<1> QED  BY <1>1, <1>8, <1>9, Zenon DEF LInv

\* A crash ends the processes of the node, and from then on the ring is not whole.
LEMMA CrashOK ==
    ASSUME LInv, NEW n \in Nodes, Crash(n)
    PROVE  LInv'
<1>1. /\ n \in up /\ up' = up \ {n}
      /\ lookup' = [p \in Procs |-> IF Host[p] = n THEN Idle ELSE lookup[p]]
      /\ UNCHANGED <<successorList, fingers, nextFinger>>
  BY Zenon DEF Crash
<1>2. ~Whole(up')  BY <1>1, Zenon DEF Whole
<1>3. TablesOK(up', successorList', fingers')  BY <1>1, <1>2, Zenon DEF LInv, TablesOK
<1>4. \A p \in Procs : LookupOK(p, Idle, up')  BY IdleOK, Zenon
<1>5. \A p \in Procs : LookupOK(p, lookup[p], up')
  <2> TAKE p \in Procs
  <2>1. LookupOK(p, lookup[p], up)  BY Zenon DEF LInv
  <2> QED  BY <2>1, <1>1, <1>2, Zenon DEF LookupOK
<1>6. \A p \in Procs : LookupOK(p, lookup'[p], up')  BY <1>1, <1>4, <1>5, Zenon
<1>7. \A p \in Procs : lookup'[p] \in LookupState  BY <1>6, Zenon DEF LookupOK
<1>8. lookup' \in [Procs -> LookupState]  BY <1>1, <1>7, Zenon
<1> QED  BY <1>1, <1>3, <1>6, <1>8, Zenon DEF LInv

\* Every step keeps the invariant.
LEMMA NextLInv == LInv /\ [Next]_vars => LInv'
<1> SUFFICES ASSUME LInv, [Next]_vars PROVE LInv'
  BY Zenon
<1>0. nextFinger \in [Nodes -> 0 .. FingerCount - 1] /\ FingerCount \in Nat /\ FingerCount > 0
      /\ 0 \in 0 .. FingerCount - 1 /\ \A p \in Procs : Host[p] \in Nodes
  BY LookupAssumption DEF LInv
<1>1. ASSUME NEW p \in Procs, NEW id \in Ids, Lookup(p, id) PROVE LInv'
  <2>1. id \in NodeID /\ p \notin Fixers /\ Host[p] \in up /\ FindSuccessor(p, id, 0)
        /\ UNCHANGED <<up, successorList, fingers, nextFinger>>
    BY <1>1, LookupAssumption, Zenon DEF Lookup
  <2>2. PICK r \in LookupState : Set(p, r) /\ LookupOK(p, r, up)  BY <2>1, <1>0, StartOK, Zenon
  <2> QED  BY <2>1, <2>2, <1>0, LookupMoves, Zenon
<1>2. ASSUME NEW p \in Procs, fixFinger(p) PROVE LInv'
  <2> DEFINE n == Host[p]
             i == nextFinger[n]
  <2>1. /\ n \in Nodes /\ n \in up /\ i \in 0 .. FingerCount - 1 /\ FindSuccessor(p, fingerStart(n, i), i)
        /\ UNCHANGED <<up, successorList, fingers>>
        /\ nextFinger' = [nextFinger EXCEPT ![n] = (i + 1) % FingerCount]
    BY <1>2, <1>0, Zenon DEF fixFinger
  <2>2. fingerStart(n, i) \in NodeID  BY <2>1, StartAssumption, Zenon
  <2>3. PICK r \in LookupState : Set(p, r) /\ LookupOK(p, r, up)  BY <2>1, <2>2, StartOK, Zenon
  <2> HIDE DEF n, i
  <2>4. (i + 1) % FingerCount \in 0 .. FingerCount - 1  BY <2>1, <1>0
  <2>5. nextFinger' \in [Nodes -> 0 .. FingerCount - 1]  BY <2>1, <2>4, <1>0, Zenon
  <2> QED  BY <2>1, <2>3, <2>5, LookupMoves, Zenon
<1>3. ASSUME NEW p \in Procs, Hop(p) PROVE LInv'
  <2>1. UNCHANGED <<up, successorList, fingers, nextFinger>>  BY <1>3, Zenon DEF Hop
  <2>2. PICK r \in LookupState : Set(p, r) /\ LookupOK(p, r, up)  BY <1>3, HopOK, Zenon
  <2> QED  BY <2>1, <2>2, <1>0, LookupMoves, Zenon
<1>4. ASSUME NEW p \in Procs, Cancel(p) PROVE LInv'
  <2>1. UNCHANGED <<up, successorList, fingers, nextFinger>> /\ Set(p, Idle)  BY <1>4, Zenon DEF Cancel
  <2> QED  BY <2>1, <1>0, IdleOK, LookupMoves, Zenon
<1>5. CASE UNCHANGED vars  BY <1>5, Zenon DEF vars, LInv
<1> QED
  BY <1>1, <1>2, <1>3, <1>4, <1>5, HopFailsOK, GiveUpOK, FinishOK, CrashOK, Zenon DEF Next, Run

\* The invariant says what the run checks.
LEMMA LInvCorrect == LInv /\ Cardinality(Nodes) <= MaxHops => LookupCorrect
<1> SUFFICES ASSUME LInv, Cardinality(Nodes) <= MaxHops, up = Nodes PROVE LookupCorrect
  BY Zenon DEF LookupCorrect
<1>1. Whole(up)  BY Zenon DEF Whole
<1>2. \A n \in Nodes, i \in 0 .. FingerCount - 1 : fingers[n][i] \in {n, Owner[fingerStart(n, i)]}
  BY <1>1, Zenon DEF LInv, TablesOK
<1>3. ASSUME NEW p \in Procs
      PROVE  (lookup[p].pc = "done" => lookup[p].res = Owner[lookup[p].id]) /\ lookup[p].hops < Cardinality(Nodes)
  <2> DEFINE l == lookup[p]
             h == Host[p]
  <2>1. l \in LookupState /\ OnCourse(h, l) /\ (l.pc = "hop" => l.cand \in Nodes) /\ h \in Nodes
    BY <1>1, LookupAssumption, Zenon DEF LInv, LookupOK
  <2>2. l.hops \in Nat /\ l.pc \in {"idle", "hop", "done"}  BY <2>1, Zenon DEF LookupState
  <2>3. Cardinality(Nodes) \in Nat /\ 0 < Cardinality(Nodes)  BY <2>1, PassedFacts
  <2>4. l.pc = "hop" => /\ Cardinality(Passed(h, l.cand)) \in Nat
                        /\ Cardinality(Passed(h, l.cand)) < Cardinality(Nodes)
    BY <2>1, PassedFacts, Zenon
  <2> HIDE DEF l, h
  <2>5. (l.pc = "done" => l.res = Owner[l.id]) /\ l.hops < Cardinality(Nodes)
    BY <2>1, <2>2, <2>3, <2>4 DEF OnCourse
  <2> QED  BY <2>5, Zenon DEF l
<1> QED  BY <1>2, <1>3, Zenon DEF LookupCorrect

\* As long as no node has failed, FindSuccessor returns the owner of the identifier
\* from any node and whatever the state of the fingers, in fewer calls than there
\* are nodes, and fixFinger stores the owner of the start it looked up: for any
\* number of nodes up to the hop limit, which is 160 in the code.
THEOREM LookupFindsOwner ==
    ASSUME Cardinality(Nodes) <= MaxHops
    PROVE  Spec => []LookupCorrect
<1>1. LInv => LookupCorrect  BY LInvCorrect, Zenon
<1> QED  BY InitLInv, NextLInv, <1>1, PTL DEF Spec

\* With failures, a lookup that has not used all its calls returns the owner, a node
\* that is down, or its own host, and never a live node past the owner
\* (FindSuccessor with evictNode), for any ring and any crashes.
THEOREM LookupSkipsNobody == Spec => []LookupNeverSkips
<1>1. LInv => LookupNeverSkips  BY Zenon DEF LInv, LookupOK, LookupNeverSkips
<1> QED  BY InitLInv, NextLInv, <1>1, PTL DEF Spec
=============================================================================
