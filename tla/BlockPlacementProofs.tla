------------------------ MODULE BlockPlacementProofs ------------------------
(***************************************************************************)
(* Where the replicas of a block are: a block that was replicated survives *)
(* every loss of fewer nodes than it has copies, whoever joins meanwhile,  *)
(* and pruning by predecessor lists that are up to date takes it from none *)
(* of its owners; for any nodes, any number of replicas and any length of  *)
(* the lists.                                                              *)
(***************************************************************************)
EXTENDS BlockPlacement, FiniteSetTheorems, NaturalsInduction, WellFoundedInduction, TLAPS

\* The bounds of an identifier.
LEMMA IdBounds ==
    /\ RingSize \in Nat /\ RingSize > 0
    /\ \A a \in NodeID : a \in Int /\ 0 <= a /\ a < RingSize
    /\ \A n \in Nodes : n \in NodeID
BY RingSizeAssumption, NodesAssumption DEF NodeID

LEMMA DistanceFacts ==
    ASSUME NEW a \in NodeID, NEW b \in NodeID
    PROVE  /\ Distance(a, b) \in Nat /\ Distance(a, b) < RingSize
           /\ Distance(a, b) = 0 <=> a = b
           /\ \A c \in NodeID : Distance(a, b) = Distance(a, c) => b = c
BY IdBounds DEF Distance

\* A set of numbers has a least one.
LEMMA MinNat ==
    ASSUME NEW T \in SUBSET Nat, T # {}
    PROVE  \E x \in T : \A y \in T : x <= y
<1>1. PICK x \in T : \A y \in T : ~(<<y, x>> \in OpToRel(<, Nat))
  BY NatLessThanWellFounded, WFMin, Zenon
<1>2. \A y \in T : y \in Nat /\ ~(y < x)
  BY <1>1, Zenon DEF OpToRel
<1> QED  BY <1>2

\* A set of numbers below a bound has a greatest one.
LEMMA MaxNat ==
    ASSUME NEW T \in SUBSET Nat, T # {}, NEW b \in Nat, \A y \in T : y <= b
    PROVE  \E x \in T : \A y \in T : y <= x
<1> DEFINE U == {b - y : y \in T}
<1>1. \A y \in T : y \in Nat /\ b - y \in Nat  OBVIOUS
<1>2. U \in SUBSET Nat /\ U # {}  BY <1>1, Zenon
<1>3. PICK u \in U : \A v \in U : u <= v
  <2> HIDE DEF U
  <2> QED  BY <1>2, MinNat, Zenon
<1>4. PICK x \in T : u = b - x  BY <1>3, Zenon
<1>5. \A y \in T : b - x <= b - y  BY <1>3, <1>4, Zenon
<1> QED  BY <1>1, <1>5

\* A set of identifiers has one that is nearest after n, and one that is farthest.
LEMMA Extremes ==
    ASSUME NEW S \in SUBSET NodeID, S # {}, NEW n \in NodeID
    PROVE  /\ \E b \in S : \A s \in S : Distance(n, b) <= Distance(n, s)
           /\ \E b \in S : \A s \in S : Distance(n, s) <= Distance(n, b)
<1> DEFINE T == {Distance(n, s) : s \in S}
<1>1. \A s \in S : Distance(n, s) \in Nat /\ Distance(n, s) <= RingSize
  BY DistanceFacts, IdBounds
<1>2. T \in SUBSET Nat /\ T # {} /\ \A y \in T : y <= RingSize  BY <1>1, Zenon
<1>3. /\ \E x \in T : \A y \in T : x <= y
      /\ \E x \in T : \A y \in T : y <= x
  <2> HIDE DEF T
  <2> QED  BY <1>2, MinNat, MaxNat, IdBounds, Zenon
<1>4. PICK x \in T : \A y \in T : x <= y  BY <1>3, Zenon
<1>5. PICK z \in T : \A y \in T : y <= z  BY <1>3, Zenon
<1>6. \E b \in S : x = Distance(n, b)  BY <1>4, Zenon
<1>7. \E b \in S : z = Distance(n, b)  BY <1>5, Zenon
<1> QED  BY <1>4, <1>5, <1>6, <1>7, Zenon

\* The member after n: none lies before it, and a member that comes after itself is
\* alone.
LEMMA NextFacts ==
    ASSUME NEW M \in SUBSET NodeID, NEW n \in M
    PROVE  /\ NextIn(M, n) \in M
           /\ \A o \in M : ~BetweenExclusive(o, n, NextIn(M, n)) \/ o = n
           /\ NextIn(M, n) = n => M = {n}
<1>1. \E m \in M : \A o \in M : ~BetweenExclusive(o, n, m) \/ o = n
  <2>1. CASE M = {n}  BY <2>1, Zenon
  <2>2. CASE M # {n}
    <3>1. M \ {n} \in SUBSET NodeID /\ M \ {n} # {} /\ n \in NodeID  BY <2>2, Zenon
    <3>2. PICK m \in M \ {n} : \A o \in M \ {n} : Distance(n, m) <= Distance(n, o)
      BY <3>1, Extremes, Zenon
    <3>3. ASSUME NEW o \in M, o # n PROVE ~BetweenExclusive(o, n, m)
      <4>1. Distance(n, m) <= Distance(n, o) /\ m # n /\ m \in NodeID /\ o \in NodeID /\ n \in NodeID
        BY <3>2, <3>3, Zenon
      <4> QED  BY <4>1, <3>3, IdBounds DEF BetweenExclusive, Distance
    <3> QED  BY <3>2, <3>3, Zenon
  <2> QED  BY <2>1, <2>2, Zenon
<1>2. NextIn(M, n) \in M /\ \A o \in M : ~BetweenExclusive(o, n, NextIn(M, n)) \/ o = n
  BY <1>1, Zenon DEF NextIn
<1>3. ASSUME NextIn(M, n) = n PROVE M = {n}
  <2>1. \A o \in M : o = n
    <3> TAKE o \in M
    <3>1. ~BetweenExclusive(o, n, n) \/ o = n  BY <1>2, <1>3, Zenon
    <3> QED  BY <3>1, Zenon DEF BetweenExclusive
  <2> QED  BY <2>1, Zenon
<1> QED  BY <1>2, <1>3, Zenon

\* The member before a position.
LEMMA PrevFacts ==
    ASSUME NEW M \in SUBSET NodeID, M # {}, NEW n \in NodeID
    PROVE  /\ PrevIn(M, n) \in M
           /\ \A o \in M : ~BetweenExclusive(o, PrevIn(M, n), n) \/ o = n
<1>1. \E m \in M : \A o \in M : ~BetweenExclusive(o, m, n) \/ o = n
  <2>1. CASE M = {n}  BY <2>1, Zenon
  <2>2. CASE M # {n}
    <3>1. M \ {n} \in SUBSET NodeID /\ M \ {n} # {}  BY <2>2, Zenon
    <3>2. PICK m \in M \ {n} : \A o \in M \ {n} : Distance(n, o) <= Distance(n, m)
      BY <3>1, Extremes, Zenon
    <3>3. ASSUME NEW o \in M, o # n PROVE ~BetweenExclusive(o, m, n)
      <4>1. Distance(n, o) <= Distance(n, m) /\ m # n /\ m \in NodeID /\ o \in NodeID
        BY <3>2, <3>3, Zenon
      <4> QED  BY <4>1, <3>3, IdBounds DEF BetweenExclusive, Distance
    <3> QED  BY <3>2, <3>3, Zenon
  <2> QED  BY <2>1, <2>2, Zenon
<1> QED  BY <1>1, Zenon DEF PrevIn

\* Whoever follows the successors from a member comes to every member.
LEMMA ClosedIsAll ==
    ASSUME NEW M \in SUBSET NodeID, NEW C \in SUBSET M, C # {}, \A c \in C : NextIn(M, c) \in C
    PROVE  C = M
<1> SUFFICES ASSUME NEW x \in M, x \notin C PROVE FALSE
  BY Zenon
<1>1. C \in SUBSET NodeID /\ x \in NodeID  BY Zenon
<1>2. PICK c \in C : \A d \in C : Distance(x, d) <= Distance(x, c)  BY <1>1, Extremes, Zenon
<1> DEFINE d == NextIn(M, c)
<1>3. d \in C /\ c \in NodeID /\ d \in NodeID /\ d # x /\ c # x  BY <1>2, Zenon
<1>4. ~BetweenExclusive(x, c, d)  BY <1>2, NextFacts, Zenon
<1>5. Distance(x, d) <= Distance(x, c)  BY <1>2, <1>3, Zenon
<1>6. d # c
  <2>1. d = c => M = {c}  BY <1>2, NextFacts, Zenon
  <2> QED  BY <2>1, <1>3, Zenon
<1> HIDE DEF d
<1> QED  BY <1>1, <1>3, <1>4, <1>5, <1>6, IdBounds DEF BetweenExclusive, Distance

\* The successor list of a stable ring exists: Init is not empty.
LEMMA ChainExists ==
    ASSUME NEW M \in SUBSET NodeID, NEW n \in M, NEW size \in Nat
    PROVE  \E l \in [1 .. size -> M] :
             \A i \in 1 .. size : l[i] = NextIn(M, IF i = 1 THEN n ELSE l[i - 1])
<1> DEFINE P(k) == \E l \in [1 .. k -> M] :
                     \A i \in 1 .. k : l[i] = NextIn(M, IF i = 1 THEN n ELSE l[i - 1])
           T == {k \in Nat : ~P(k)}
<1>1. CASE T = {}  BY <1>1, Zenon
<1>2. CASE T # {}
  <2>1. PICK k \in T : \A j \in T : k <= j
    <3>1. T \in SUBSET Nat  BY Zenon
    <3> HIDE DEF T
    <3> QED  BY <3>1, <1>2, MinNat, Zenon
  <2>2. k # 0
    <3>1. P(0)
      <4>1. 1 .. 0 = {}  OBVIOUS
      <4>2. [i \in 1 .. 0 |-> n] \in [1 .. 0 -> M]  BY Zenon
      <4> QED  BY <4>1, <4>2, Zenon
    <3> QED  BY <3>1, <2>1, Zenon
  <2>3. k \in Nat /\ k - 1 \in Nat /\ ~(k <= k - 1)  BY <2>1, <2>2
  <2>4. PICK l \in [1 .. k - 1 -> M] :
          \A i \in 1 .. k - 1 : l[i] = NextIn(M, IF i = 1 THEN n ELSE l[i - 1])
    BY <2>1, <2>3, Zenon
  <2> DEFINE last == NextIn(M, IF k = 1 THEN n ELSE l[k - 1])
             m == [i \in 1 .. k |-> IF i = k THEN last ELSE l[i]]
  <2>5. last \in M
    <3>1. k # 1 => k - 1 \in 1 .. k - 1  BY <2>3
    <3>2. (IF k = 1 THEN n ELSE l[k - 1]) \in M  BY <3>1, <2>4, Zenon
    <3> QED  BY <3>2, NextFacts, Zenon
  <2>6. \A i \in 1 .. k : i # k => i \in 1 .. k - 1  BY <2>3
  <2>7. m \in [1 .. k -> M]
    <3> HIDE DEF last
    <3> QED  BY <2>4, <2>5, <2>6, Zenon
  <2>8. ASSUME NEW i \in 1 .. k PROVE m[i] = NextIn(M, IF i = 1 THEN n ELSE m[i - 1])
    <3>1. i # 1 => i - 1 \in 1 .. k /\ i - 1 # k  BY <2>3
    <3>2. (IF i = 1 THEN n ELSE m[i - 1]) = (IF i = 1 THEN n ELSE l[i - 1])  BY <3>1, Zenon
    <3> QED  BY <3>2, <2>4, <2>6, Zenon
  <2>9. P(k)
    <3> HIDE DEF m
    <3> QED  BY <2>7, <2>8, Zenon
  <2> QED  BY <2>9, <2>1, Zenon
<1> QED  BY <1>1, <1>2, Zenon
-----------------------------------------------------------------------------
\* The nodes on which a copy may be lost.
Bad == scenario.crash \cup scenario.leave \cup FullNodes

\* How many nodes Put gives the block to, the responsible one included.
Copies == IF K - 1 < ListSize THEN K ELSE ListSize + 1

\* Fewer members than copies may fail, not all of them, and no node that joins; and
\* nobody prunes, because with lists that lag behind every holder may find that
\* the block is for others (what pruning keeps is SettledKeeps).
Survivable ==
    /\ ~scenario.prunes
    /\ scenario.join \cap Bad = {}
    /\ Cardinality(Members \cap Bad) < Copies
    /\ ~(Members \subseteq Bad)

\* replicateAsync has nothing on its way.
Replicated == acked /\ \A j \in jobs : j.kind # "async"

\* The successor list of a member of a stable ring.
ListOK(S, n, l) ==
    IF NextIn(S, n) = n THEN l = <<n>> ELSE l \in [1 .. ListSize -> S] /\ GoesRound(S, n, l)

\* The ring as it was at the start, but for predecessors that are not set yet.
StableRing ==
    /\ status = [n \in Nodes |-> IF n \in Members THEN "up" ELSE "out"]
    /\ successor = [n \in Nodes |-> IF n \in Members THEN NextIn(Members, n) ELSE n]
    /\ \A n \in Members : ListOK(Members, n, successorList[n])
    /\ \A n \in Nodes : predecessor[n] \in Members \cup {Nil}
    /\ \A j \in jobs : j.kind = "async" => j.to \in Members

\* The block is somewhere, and is, or is going to be, on a node that stays.
Safe ==
    /\ holds \cup moving # {}
    /\ \E t \in Nodes \ Bad : t \in holds \cup moving \/ \E j \in jobs : j.kind = "async" /\ j.to = t

\* The inductive invariant of NeverLost.
KeptInv ==
    /\ scenario \in Scenarios /\ acked \in BOOLEAN /\ lost \in Nat /\ dropped \in Nat
    /\ status \in [Nodes -> {"out", "joining", "up", "leaving", "down"}]
    /\ DOMAIN successorList = Nodes /\ DOMAIN predecessor = Nodes
    /\ \A n \in Nodes : status[n] = "leaving" => n \in scenario.leave
    /\ moving \subseteq scenario.join
    /\ scenario.putFirst /\ ~Replicated => StableRing
    /\ Careful /\ Survivable /\ acked => Safe

\* The nodes of a predecessor list of n differ, and n is in none that has other entries.
DistinctWalk(n, l) ==
    /\ l \in Seq(Nodes)
    /\ \A i, j \in DOMAIN l : i < j => l[i] # l[j] /\ n \notin {l[i], l[j]}

\* The inductive invariant of SettledKeeps.
ListsInv ==
    /\ DOMAIN predecessorList = Nodes
    /\ \A n \in Nodes : DistinctWalk(n, predecessorList[n])

\* A member and its window hold a node that stays, if fewer members than copies may fail.
LEMMA WindowHasGood ==
    ASSUME scenario \in Scenarios, Survivable, NEW o \in Members, NEW l, ListOK(Members, o, l)
    PROVE  \E t \in Members \ Bad : t \in {o} \cup Window(l)
<1> DEFINE M == Members
<1>1. M \subseteq Nodes /\ M \in SUBSET NodeID  BY ScenarioAssumption, IdBounds, Zenon DEF Members
<1>2. K \in Nat /\ K > 0 /\ ListSize \in Nat /\ ListSize > 0 /\ IsFiniteSet(Nodes)
  BY NodesAssumption
<1>3. CASE NextIn(M, o) = o
  <2>1. M = {o}  BY <1>1, <1>3, NextFacts, Zenon
  <2> QED  BY <2>1, Zenon DEF Survivable
<1>4. CASE NextIn(M, o) # o
  <2> DEFINE w == IF K - 1 < ListSize THEN K - 1 ELSE ListSize
             f == [i \in 0 .. w |-> IF i = 0 THEN o ELSE l[i]]
  <2>1. l \in [1 .. ListSize -> M] /\ GoesRound(Members, o, l)  BY <1>4, Zenon DEF ListOK
  <2>2. \A i \in 1 .. ListSize : l[i] \in M /\ l[i] = NextIn(M, IF i = 1 THEN o ELSE l[i - 1])
    BY <2>1, Zenon DEF GoesRound
  <2>3. w \in Nat /\ w <= ListSize /\ Copies = w + 1  BY <1>2 DEF Copies
  <2>4. Window(l) = {l[i] : i \in 1 .. w}
    <3>1. Len(l) = ListSize  BY <2>1, <1>2
    <3> QED  BY <3>1, Zenon DEF Window
  <2> HIDE DEF w
  <2>5. \A i \in 0 .. w : f[i] \in M /\ f[i] \in {o} \cup Window(l)
    <3>1. \A i \in 0 .. w : i # 0 => i \in 1 .. w /\ i \in 1 .. ListSize  BY <2>3, <1>2
    <3> QED  BY <3>1, <2>2, <2>4, Zenon
  <2>6. \A i \in 0 .. w : i + 1 \in 0 .. w => f[i + 1] = NextIn(M, f[i])
    <3> TAKE i \in 0 .. w
    <3> HAVE i + 1 \in 0 .. w
    <3>1. i + 1 # 0 /\ i + 1 \in 1 .. ListSize /\ (i + 1 = 1 <=> i = 0) /\ (i + 1) - 1 = i
      BY <2>3, <1>2
    <3>2. l[i + 1] = NextIn(M, IF i + 1 = 1 THEN o ELSE l[(i + 1) - 1])  BY <3>1, <2>2, Zenon
    <3>3. f[i + 1] = l[i + 1]  BY <3>1, Zenon
    <3>4. f[i] = IF i = 0 THEN o ELSE l[i]  BY Zenon
    <3>5. (IF i + 1 = 1 THEN o ELSE l[(i + 1) - 1]) = f[i]  BY <3>1, <3>4, Zenon
    <3> QED  BY <3>2, <3>3, <3>5, Zenon
  <2>7. SUFFICES ASSUME \A i \in 0 .. w : f[i] \in Bad PROVE FALSE
    BY <2>5, Zenon
  <2>8. f \in [0 .. w -> M \cap Bad]  BY <2>5, <2>7, Zenon
  <2> HIDE DEF f
  <2>9. PICK i \in 0 .. w, j \in 0 .. w : i < j /\ f[i] = f[j]
    <3>1. IsFiniteSet(0 .. w) /\ Cardinality(0 .. w) = w + 1  BY <2>3, FS_Interval
    <3>2. IsFiniteSet(M \cap Bad)
      <4>1. M \cap Bad \in SUBSET Nodes  BY <1>1, Zenon
      <4> QED  BY <4>1, <1>2, FS_Subset, Zenon
    <3>3. Cardinality(M \cap Bad) < Cardinality(0 .. w)  BY <3>1, <2>3, Zenon DEF Survivable
    <3>4. PICK x \in 0 .. w, y \in 0 .. w : x # y /\ f[x] = f[y]
      BY <3>1, <3>2, <3>3, <2>8, FS_PigeonHole, Zenon
    <3>5. x < y \/ y < x  BY <3>4, <2>3
    <3> QED  BY <3>4, <3>5, Zenon
  <2> DEFINE C == {f[k] : k \in 0 .. j - 1}
  <2>10. \A k \in 0 .. j - 1 : k \in 0 .. w /\ k + 1 \in 0 .. w /\ (k + 1 \in 0 .. j - 1 \/ k + 1 = j)
    BY <2>3, <2>9
  <2>11. i \in 0 .. j - 1  BY <2>3, <2>9
  <2>12. C \in SUBSET M /\ C # {}  BY <2>5, <2>10, <2>11, Zenon
  <2>13. ASSUME NEW c \in C PROVE NextIn(M, c) \in C
    <3>1. PICK k \in 0 .. j - 1 : c = f[k]  BY Zenon
    <3>2. NextIn(M, c) = f[k + 1]  BY <3>1, <2>6, <2>10, Zenon
    <3>3. CASE k + 1 = j  BY <3>2, <3>3, <2>9, <2>11, Zenon
    <3>4. CASE k + 1 \in 0 .. j - 1  BY <3>2, <3>4, Zenon
    <3> QED  BY <3>3, <3>4, <2>10, Zenon
  <2>14. C \subseteq Bad  BY <2>7, <2>10, Zenon
  <2> HIDE DEF C
  <2>15. C = M  BY <2>12, <2>13, <1>1, ClosedIsAll, Zenon
  <2> QED  BY <2>14, <2>15, Zenon DEF Survivable
<1> QED  BY <1>3, <1>4, Zenon

\* At the start the lists go round the ring.
LEMMA InitKept == Init => KeptInv
<1> SUFFICES ASSUME Init PROVE KeptInv
  BY Zenon
<1> DEFINE M == Members
           next == [n \in Nodes |-> IF n \in M THEN NextIn(M, n) ELSE n]
<1>1. /\ scenario \in Scenarios /\ acked = FALSE /\ lost = 0 /\ dropped = 0 /\ moving = {} /\ jobs = {}
      /\ status = [n \in Nodes |-> IF n \in M THEN "up" ELSE "out"]
      /\ successor = next
      /\ successorList = [n \in Nodes |-> IF next[n] = n THEN <<n>>
                                          ELSE CHOOSE l \in [1 .. ListSize -> M] : GoesRound(Members, n, l)]
      /\ predecessor = [n \in Nodes |-> IF next[n] = n THEN Nil ELSE PrevIn(M, n)]
  BY Zenon DEF Init
<1>2. M \subseteq Nodes /\ M \in SUBSET NodeID  BY <1>1, ScenarioAssumption, IdBounds, Zenon DEF Members
<1>3. ListSize \in Nat  BY NodesAssumption
<1>4. ASSUME NEW n \in M PROVE ListOK(Members, n, successorList[n])
  <2>1. next[n] = NextIn(M, n) /\ n \in Nodes  BY <1>2, Zenon
  <2>2. CASE NextIn(M, n) = n  BY <2>1, <2>2, <1>1, Zenon DEF ListOK
  <2>3. CASE NextIn(M, n) # n
    <3>1. PICK l \in [1 .. ListSize -> M] :
            \A i \in 1 .. ListSize : l[i] = NextIn(M, IF i = 1 THEN n ELSE l[i - 1])
      BY <1>2, <1>3, ChainExists, Zenon
    <3>2. GoesRound(Members, n, l)  BY <3>1, Zenon DEF GoesRound
    <3>3. successorList[n] = CHOOSE x \in [1 .. ListSize -> M] : GoesRound(Members, n, x)
      BY <2>1, <2>3, <1>1, Zenon
    <3>4. successorList[n] \in [1 .. ListSize -> M] /\ GoesRound(Members, n, successorList[n])
      BY <3>1, <3>2, <3>3, Zenon
    <3> QED  BY <3>4, <2>3, Zenon DEF ListOK
  <2> QED  BY <2>2, <2>3, Zenon
<1>5. ASSUME NEW n \in Nodes PROVE predecessor[n] \in M \cup {Nil}
  <2>1. CASE n \notin M  BY <2>1, <1>1, Zenon
  <2>2. CASE n \in M
    <3>1. PrevIn(M, n) \in M  BY <2>2, <1>2, PrevFacts, Zenon
    <3> QED  BY <3>1, <1>1, Zenon
  <2> QED  BY <2>1, <2>2, Zenon
<1>6. StableRing  BY <1>1, <1>4, <1>5, Zenon DEF StableRing
<1>7. /\ status \in [Nodes -> {"out", "joining", "up", "leaving", "down"}]
      /\ \A n \in Nodes : status[n] # "leaving"
  <2>1. \A n \in Nodes :
          (IF n \in M THEN "up" ELSE "out") \in {"out", "joining", "up", "leaving", "down"} \ {"leaving"}
    OBVIOUS
  <2> QED  BY <1>1, <2>1, Zenon
<1>8. lost \in Nat /\ dropped \in Nat  BY <1>1
<1>9. DOMAIN successorList = Nodes /\ DOMAIN predecessor = Nodes  BY <1>1, Zenon
<1> QED  BY <1>1, <1>6, <1>7, <1>8, <1>9, Zenon DEF KeptInv

\* What refreshSuccessorListAndReplicate makes of a successor and its list.
LEMMA PrefixFacts ==
    ASSUME NEW M, NEW x \in M, NEW l \in [1 .. ListSize -> M]
    PROVE  /\ Prefix(<<x>> \o l) \in [1 .. ListSize -> M]
           /\ \A i \in 1 .. ListSize : Prefix(<<x>> \o l)[i] = IF i = 1 THEN x ELSE l[i - 1]
<1> DEFINE q == <<x>> \o l
<1>1. ListSize \in Nat /\ ListSize > 0  BY NodesAssumption
<1>2. l \in Seq(M) /\ Len(l) = ListSize  BY <1>1
<1>3. q \in Seq(M) /\ Len(q) = ListSize + 1  BY <1>1, <1>2
<1>4. \A i \in 1 .. ListSize : q[i] = IF i = 1 THEN x ELSE l[i - 1]  BY <1>1, <1>2
<1> HIDE DEF q
<1>5. Prefix(q) = SubSeq(q, 1, ListSize)  BY <1>1, <1>3 DEF Prefix
<1>6. SubSeq(q, 1, ListSize) = [i \in 1 .. ListSize |-> q[i]]  BY <1>1, <1>3
<1>7. \A i \in 1 .. ListSize : q[i] \in M  BY <1>1, <1>3
<1>8. Prefix(q) \in [1 .. ListSize -> M]  BY <1>5, <1>6, <1>7, Zenon
<1>9. \A i \in 1 .. ListSize : Prefix(q)[i] = q[i]  BY <1>5, <1>6, Zenon
<1>10. \A i \in 1 .. ListSize : Prefix(q)[i] = IF i = 1 THEN x ELSE l[i - 1]  BY <1>4, <1>9, Zenon
<1> QED  BY <1>8, <1>10, Zenon DEF q

\* The members of a stable ring.
LEMMA StableFacts ==
    ASSUME KeptInv, StableRing
    PROVE  /\ Members \subseteq Nodes /\ Members \in SUBSET NodeID
           /\ \A n \in Nodes : status[n] = IF n \in Members THEN "up" ELSE "out"
           /\ \A n \in Members : successor[n] = NextIn(Members, n) /\ successor[n] \in Members
                                 /\ Answers(n)
           /\ Live = Members
<1>1. Members \subseteq Nodes /\ Members \in SUBSET NodeID
  BY ScenarioAssumption, IdBounds, Zenon DEF Members, KeptInv
<1>2. \A n \in Nodes : status[n] = IF n \in Members THEN "up" ELSE "out"  BY Zenon DEF StableRing
<1>3. \A n \in Members : successor[n] = NextIn(Members, n)  BY <1>1, Zenon DEF StableRing
<1>4. \A n \in Members : NextIn(Members, n) \in Members  BY <1>1, NextFacts, Zenon
<1>5. \A n \in Members : Answers(n)  BY <1>1, <1>2, NilAssumption, Zenon DEF Answers
<1>6. Live = Members
  <2>1. "up" # "out"  OBVIOUS
  <2> QED  BY <1>1, <1>2, <2>1, Zenon DEF Live
<1> QED  BY <1>1, <1>2, <1>3, <1>4, <1>5, <1>6, Zenon

\* The lists of a stable ring name only members.
LEMMA ListMembers ==
    ASSUME KeptInv, StableRing, NEW n \in Members
    PROVE  \A i \in DOMAIN successorList[n] : successorList[n][i] \in Members
<1>1. ListOK(Members, n, successorList[n])  BY Zenon DEF StableRing
<1>2. CASE successorList[n] = <<n>>
  <2>1. \A i \in DOMAIN <<n>> : <<n>>[i] = n  OBVIOUS
  <2> QED  BY <2>1, <1>2, Zenon
<1>3. CASE successorList[n] \in [1 .. ListSize -> Members]  BY <1>3, Zenon
<1> QED  BY <1>1, <1>2, <1>3, Zenon DEF ListOK

\* notify starts no goroutine of replicateAsync, and sets a member as predecessor.
LEMMA NotifyFacts ==
    ASSUME KeptInv, NEW s \in Nodes, NEW c \in Nodes, notify(s, c)
    PROVE  /\ \A j : j.kind = "async" => (j \in jobs' <=> j \in jobs)
           /\ DOMAIN predecessor' = Nodes
           /\ \A n \in Nodes : predecessor'[n] \in {predecessor[n], c}
<1>1. ASSUME NEW j, j.kind = "async" PROVE j \notin acceptPredecessor(s, c)
  <2>1. [kind |-> "range", from |-> s, to |-> c].kind # "async"  OBVIOUS
  <2> QED  BY <2>1, <1>1, Zenon DEF acceptPredecessor
<1>2. \A j : j.kind = "async" => (j \in jobs' <=> j \in jobs)  BY <1>1, Zenon DEF notify
<1>3. DOMAIN predecessor = Nodes  BY Zenon DEF KeptInv
<1>4. DOMAIN predecessor' = Nodes /\ \A n \in Nodes : predecessor'[n] \in {predecessor[n], c}
  BY <1>3, Zenon DEF notify
<1> QED  BY <1>2, <1>4, Zenon

\* A stabilization round leaves a stable ring as it is.
LEMMA StabilizeStable ==
    ASSUME KeptInv, StableRing, NEW n \in Nodes, stabilize(n)
    PROVE  StableRing'
<1> DEFINE M == Members
           x == successor[n]
           p == predecessor[x]
           s == IF p # Nil /\ BetweenExclusive(p, n, x) /\ Answers(p) THEN p ELSE x
           list == Prefix(<<s>> \o successorList[s])
<1>1. /\ status[n] = "up" /\ s # n
      /\ successor' = [successor EXCEPT ![n] = s]
      /\ notify(s, n)
      /\ successorList' = [successorList EXCEPT ![n] = list]
      /\ status' = status /\ scenario' = scenario
  BY Zenon DEF stabilize, refresh, bounds
<1>2. n \in M
  <2>1. "up" # "out"  OBVIOUS
  <2> QED  BY <1>1, <2>1, StableFacts, Zenon
<1>3. M \subseteq Nodes /\ M \in SUBSET NodeID /\ x = NextIn(M, n) /\ x \in M  BY <1>2, StableFacts, Zenon
<1>4. p \in M \cup {Nil}  BY <1>3, Zenon DEF StableRing
<1>5. s = x
  <2>1. CASE p \in M /\ BetweenExclusive(p, n, x)
    <3>1. p = n
      <4>1. \A o \in M : ~BetweenExclusive(o, n, NextIn(M, n)) \/ o = n  BY <1>2, <1>3, NextFacts, Zenon
      <4>2. \A o \in M : ~BetweenExclusive(o, n, x) \/ o = n  BY <4>1, <1>3, Zenon
      <4> QED  BY <4>2, <2>1, Zenon
    <3>2. n \in NodeID /\ x \in NodeID  BY <1>2, <1>3, Zenon
    <3> QED  BY <2>1, <3>1, <3>2, IdBounds DEF BetweenExclusive
  <2> QED  BY <2>1, <1>4, Zenon
<1> HIDE DEF s
<1>6. NextIn(M, x) # x
  <2>1. NextIn(M, x) = x => M = {x}  BY <1>3, NextFacts, Zenon
  <2>2. n # x  BY <1>1, <1>5, Zenon
  <2>3. M # {x}  BY <2>2, <1>2, Zenon
  <2> QED  BY <2>1, <2>3, Zenon
<1>7. successorList[x] \in [1 .. ListSize -> M] /\ GoesRound(Members, x, successorList[x])
  BY <1>3, <1>6, Zenon DEF StableRing, ListOK
<1>8. ListOK(Members, n, list)
  <2>1. /\ list \in [1 .. ListSize -> M]
        /\ \A i \in 1 .. ListSize : list[i] = IF i = 1 THEN x ELSE successorList[x][i - 1]
    <3>1. list = Prefix(<<x>> \o successorList[x])  BY <1>5, Zenon
    <3> HIDE DEF list, x
    <3>2. /\ Prefix(<<x>> \o successorList[x]) \in [1 .. ListSize -> M]
          /\ \A i \in 1 .. ListSize :
               Prefix(<<x>> \o successorList[x])[i] = IF i = 1 THEN x ELSE successorList[x][i - 1]
      <4>1. x \in M /\ successorList[x] \in [1 .. ListSize -> M]  BY <1>3, <1>7, Zenon
      <4> HIDE DEF M
      <4> QED  BY <4>1, PrefixFacts
    <3> QED  BY <3>1, <3>2, Zenon
  <2> HIDE DEF list
  <2>2. ASSUME NEW i \in 1 .. ListSize PROVE list[i] = NextIn(M, IF i = 1 THEN n ELSE list[i - 1])
    <3>1. CASE i = 1  BY <3>1, <2>1, <1>3, Zenon
    <3>2. CASE i # 1
      <4>1. i - 1 \in 1 .. ListSize  BY <3>2, NodesAssumption
      <4>2. successorList[x][i - 1] = NextIn(M, IF i - 1 = 1 THEN x ELSE successorList[x][(i - 1) - 1])
        BY <4>1, <1>7, Zenon DEF GoesRound
      <4>3. list[i - 1] = IF i - 1 = 1 THEN x ELSE successorList[x][(i - 1) - 1]  BY <4>1, <2>1, Zenon
      <4> QED  BY <4>2, <4>3, <2>1, <3>2, Zenon
    <3> QED  BY <3>1, <3>2, Zenon
  <2>3. GoesRound(Members, n, list)  BY <2>1, <2>2, Zenon DEF GoesRound
  <2>4. NextIn(M, n) # n  BY <1>1, <1>3, <1>5, Zenon
  <2> QED  BY <2>1, <2>3, <2>4, Zenon DEF ListOK
<1> HIDE DEF list
<1>9. Members' = Members  BY <1>1, Zenon DEF Members
<1>10. ASSUME NEW m \in Members PROVE ListOK(Members', m, successorList'[m])
  <2>1. DOMAIN successorList = Nodes  BY Zenon DEF KeptInv
  <2>2. successorList'[m] = IF m = n THEN list ELSE successorList[m]  BY <2>1, <1>1, <1>3, Zenon
  <2>3. ListOK(Members, m, successorList[m])  BY Zenon DEF StableRing
  <2>4. ListOK(Members, m, successorList'[m])  BY <2>2, <2>3, <1>8, Zenon
  <2> QED  BY <2>4, <1>9, Zenon
<1>11. successor' = successor  BY <1>1, <1>5, Zenon DEF StableRing
<1>12. \A m \in Nodes : predecessor'[m] \in Members \cup {Nil}
  <2>1. s \in Nodes  BY <1>3, <1>5, Zenon
  <2>2. \A m \in Nodes : predecessor'[m] \in {predecessor[m], n}  BY <2>1, <1>1, NotifyFacts, Zenon
  <2> QED  BY <2>2, <1>2, Zenon DEF StableRing
<1>13. \A j \in jobs' : j.kind = "async" => j.to \in Members
  <2>1. s \in Nodes  BY <1>3, <1>5, Zenon
  <2>2. \A j \in jobs' : j.kind = "async" => j \in jobs  BY <2>1, <1>1, NotifyFacts, Zenon
  <2> QED  BY <2>2, Zenon DEF StableRing
<1>14. /\ status' = [m \in Nodes |-> IF m \in Members' THEN "up" ELSE "out"]
       /\ successor' = [m \in Nodes |-> IF m \in Members' THEN NextIn(Members', m) ELSE m]
  <2>1. /\ status = [m \in Nodes |-> IF m \in Members THEN "up" ELSE "out"]
        /\ successor = [m \in Nodes |-> IF m \in Members THEN NextIn(Members, m) ELSE m]
    BY Zenon DEF StableRing
  <2> QED  BY <2>1, <1>1, <1>9, <1>11, Zenon
<1> QED  BY <1>9, <1>10, <1>12, <1>13, <1>14, Zenon DEF StableRing

\* The scenario of a behaviour does not change.
LEMMA ScenarioFacts ==
    ASSUME scenario' = scenario
    PROVE  /\ Members' = Members /\ Bad' = Bad /\ FullNodes' = FullNodes
           /\ Survivable' <=> Survivable
           /\ Careful' <=> Careful
<1>1. Members' = Members /\ FullNodes' = FullNodes  BY Zenon DEF Members, FullNodes
<1>2. Bad' = Bad  BY <1>1, Zenon DEF Bad
<1>3. Survivable' <=> Survivable  BY <1>1, <1>2, Zenon DEF Survivable, Copies
<1> QED  BY <1>1, <1>2, <1>3, Zenon DEF Careful

\* A stable ring stays one while its successors do.
LEMMA StableFrame ==
    ASSUME StableRing, scenario' = scenario, status' = status, successor' = successor,
           successorList' = successorList,
           \A n \in Nodes : predecessor'[n] \in Members \cup {Nil},
           \A j \in jobs' : j.kind = "async" => j.to \in Members
    PROVE  StableRing'
<1>1. Members' = Members  BY ScenarioFacts, Zenon
<1>2. /\ status' = [m \in Nodes |-> IF m \in Members' THEN "up" ELSE "out"]
      /\ successor' = [m \in Nodes |-> IF m \in Members' THEN NextIn(Members', m) ELSE m]
  <2>1. /\ status = [m \in Nodes |-> IF m \in Members THEN "up" ELSE "out"]
        /\ successor = [m \in Nodes |-> IF m \in Members THEN NextIn(Members, m) ELSE m]
    BY Zenon DEF StableRing
  <2> QED  BY <2>1, <1>1, Zenon
<1>3. \A n \in Members' : ListOK(Members', n, successorList'[n])  BY <1>1, Zenon DEF StableRing
<1> QED  BY <1>1, <1>2, <1>3, Zenon DEF StableRing

\* The part of the invariant that only says what the variables are.
LEMMA ShapeKept ==
    ASSUME KeptInv, scenario' = scenario, acked' \in BOOLEAN, lost' \in Nat, dropped' \in Nat,
           status' \in [Nodes -> {"out", "joining", "up", "leaving", "down"}],
           DOMAIN successorList' = Nodes, DOMAIN predecessor' = Nodes,
           \A n \in Nodes : status'[n] = "leaving" => n \in scenario.leave,
           moving' \subseteq scenario.join,
           scenario.putFirst /\ ~Replicated' => StableRing',
           Careful /\ Survivable /\ acked' => Safe'
    PROVE  KeptInv'
<1>1. (Survivable' <=> Survivable) /\ (Careful' <=> Careful)  BY ScenarioFacts, Zenon
<1> QED  BY <1>1, Zenon DEF KeptInv

\* A round of stabilization that keeps a stable ring keeps the invariant: it moves no
\* copy.
LEMMA PointersKept ==
    ASSUME KeptInv, scenario' = scenario, acked' = acked, lost' = lost, dropped' = dropped,
           status' = status, holds' = holds, moving' = moving,
           DOMAIN successorList' = Nodes, DOMAIN predecessor' = Nodes,
           \A j : j.kind = "async" => (j \in jobs' <=> j \in jobs),
           StableRing => StableRing'
    PROVE  KeptInv'
<1>1. Replicated' <=> Replicated  BY Zenon DEF Replicated
<1>2. Safe => Safe'
  <2>1. Bad' = Bad  BY ScenarioFacts, Zenon
  <2> QED  BY <2>1, Zenon DEF Safe
<1> QED  BY <1>1, <1>2, ShapeKept, Zenon DEF KeptInv

\* A step of a goroutine, or the end of one, adds copies and takes none away.
LEMMA CopiesKept ==
    ASSUME KeptInv, scenario' = scenario, acked' = acked, dropped' = dropped, lost' \in Nat,
           status' = status, UNCHANGED ptrs, moving' = moving,
           holds \subseteq holds', jobs' \subseteq jobs,
           \A j \in jobs \ jobs' : j.kind = "async" /\ Careful =>
                \/ j.to \in holds' \/ j.to \in Bad
                \/ ~Answers(j.to)
    PROVE  KeptInv'
<1>1. scenario.putFirst /\ ~Replicated' => StableRing'
  <2> SUFFICES ASSUME scenario.putFirst, ~Replicated' PROVE StableRing'
    BY Zenon
  <2>1. ~Replicated  BY Zenon DEF Replicated
  <2>2. StableRing  BY <2>1, Zenon DEF KeptInv
  <2>3. /\ \A n \in Nodes : predecessor'[n] \in Members \cup {Nil}
        /\ \A j \in jobs' : j.kind = "async" => j.to \in Members
    BY <2>2, Zenon DEF StableRing, ptrs
  <2> QED  BY <2>2, <2>3, StableFrame, Zenon DEF ptrs
<1>2. ASSUME Careful, Survivable, acked' PROVE Safe'
  <2>1. PICK t \in Nodes \ Bad :
          t \in holds \cup moving \/ \E j \in jobs : j.kind = "async" /\ j.to = t
    BY <1>2, Zenon DEF KeptInv, Safe
  <2>2. holds' \cup moving' # {}
    <3>1. holds \cup moving # {}  BY <1>2, Zenon DEF KeptInv, Safe
    <3> QED  BY <3>1, Zenon
  <2>3. CASE t \in holds \cup moving
    <3>1. t \in holds' \cup moving' /\ t \in Nodes \ Bad'  BY <2>1, <2>3, ScenarioFacts, Zenon
    <3> QED  BY <3>1, <2>2, Zenon DEF Safe
  <2>4. CASE \E j \in jobs : j.kind = "async" /\ j.to = t
    <3>1. PICK j \in jobs : j.kind = "async" /\ j.to = t  BY <2>4, Zenon
    <3>2. CASE j \in jobs'
      <4>1. t \in Nodes \ Bad'  BY <2>1, ScenarioFacts, Zenon
      <4> QED  BY <3>1, <3>2, <4>1, <2>2, Zenon DEF Safe
    <3>3. CASE j \notin jobs'
      <4>1. ~Replicated /\ scenario.putFirst  BY <3>1, <1>2, Zenon DEF Replicated, Careful
      <4>2. StableRing  BY <4>1, Zenon DEF KeptInv
      <4>3. t \in Members  BY <3>1, <4>2, Zenon DEF StableRing
      <4>4. Answers(t)  BY <4>2, <4>3, StableFacts, Zenon
      <4>5. t \in holds' /\ t \in Nodes \ Bad'  BY <1>2, <2>1, <3>1, <3>3, <4>4, ScenarioFacts, Zenon
      <4> QED  BY <4>5, <2>2, Zenon DEF Safe
    <3> QED  BY <3>2, <3>3, Zenon
  <2> QED  BY <2>1, <2>3, <2>4, Zenon
<1>3. DOMAIN successorList' = Nodes /\ DOMAIN predecessor' = Nodes  BY Zenon DEF KeptInv, ptrs
<1> QED  BY <1>1, <1>2, <1>3, ShapeKept, Zenon DEF KeptInv

\* After a change of membership the block must be on a node that stays.
LEMMA ChangeKept ==
    ASSUME KeptInv, scenario' = scenario, acked' = acked, dropped' = dropped, lost' = lost,
           status' \in [Nodes -> {"out", "joining", "up", "leaving", "down"}],
           DOMAIN successorList' = Nodes, DOMAIN predecessor' = Nodes,
           \A n \in Nodes : status'[n] = "leaving" => n \in scenario.leave,
           moving' \subseteq scenario.join,
           jobs' \subseteq jobs, scenario.putFirst => Replicated,
           Survivable /\ Careful => \A t \in Nodes \ Bad : t \in holds \cup moving =>
                                      \E u \in Nodes \ Bad : u \in holds' \cup moving'
    PROVE  KeptInv'
<1>1. scenario.putFirst => Replicated'  BY Zenon DEF Replicated
<1>2. ASSUME Careful, Survivable, acked' PROVE Safe'
  <2>1. Replicated  BY <1>2, Zenon DEF Careful
  <2>2. PICK t \in Nodes \ Bad : t \in holds \cup moving
    BY <1>2, <2>1, Zenon DEF KeptInv, Safe, Replicated
  <2>3. PICK u \in Nodes \ Bad : u \in holds' \cup moving'  BY <1>2, <2>2, Zenon
  <2>4. u \in Nodes \ Bad'  BY <2>3, ScenarioFacts, Zenon
  <2> QED  BY <2>3, <2>4, Zenon DEF Safe
<1> QED  BY <1>1, <1>2, ShapeKept, Zenon DEF KeptInv

\* The loops of a node.
LEMMA LoopKept ==
    ASSUME KeptInv, NEW n \in Nodes, Loop(n)
    PROVE  KeptInv'
<1>1. DOMAIN successorList = Nodes /\ DOMAIN predecessor = Nodes  BY Zenon DEF KeptInv
<1>2. CASE stabilize(n)
  <2> DEFINE p == predecessor[successor[n]]
             s == IF p # Nil /\ BetweenExclusive(p, n, successor[n]) /\ Answers(p) THEN p ELSE successor[n]
  <2>1. /\ scenario' = scenario /\ acked' = acked /\ lost' = lost /\ dropped' = dropped
        /\ status' = status /\ holds' = holds /\ moving' = moving
        /\ notify(s, n)
        /\ DOMAIN successorList' = Nodes
    BY <1>1, <1>2, Zenon DEF stabilize, refresh, bounds
  <2>2. \A j : j.kind = "async" => (j \in jobs' <=> j \in jobs)
    <3>1. ASSUME NEW j, j.kind = "async" PROVE j \notin acceptPredecessor(s, n)
      <4> HIDE DEF s
      <4>1. [kind |-> "range", from |-> s, to |-> n].kind # "async"  OBVIOUS
      <4> QED  BY <4>1, <3>1, Zenon DEF acceptPredecessor
    <3> HIDE DEF s
    <3> QED  BY <3>1, <2>1, Zenon DEF notify
  <2>3. DOMAIN predecessor' = Nodes
    <3> HIDE DEF s
    <3> QED  BY <2>1, <1>1, Zenon DEF notify
  <2>4. StableRing => StableRing'  BY <1>2, StabilizeStable, Zenon
  <2> QED  BY <2>1, <2>2, <2>3, <2>4, PointersKept, Zenon
<1>3. CASE tryReconnect(n)
  <2> DEFINE alive == {i \in DOMAIN successorList[n] :
                         successorList[n][i] # n /\ Answers(successorList[n][i])}
  <2>1. /\ scenario' = scenario /\ acked' = acked /\ lost' = lost /\ dropped' = dropped
        /\ status' = status /\ holds' = holds /\ moving' = moving
        /\ status[n] = "up" /\ successor[n] = n /\ notify(n, n)
        /\ alive = {} => successor' = successor /\ successorList' = successorList
    BY <1>3, Zenon DEF tryReconnect, bounds
  <2>2. DOMAIN successorList' = Nodes  BY <1>1, <1>3, Zenon DEF tryReconnect
  <2>3. /\ \A j : j.kind = "async" => (j \in jobs' <=> j \in jobs)
        /\ DOMAIN predecessor' = Nodes
        /\ \A m \in Nodes : predecessor'[m] \in {predecessor[m], n}
    BY <2>1, NotifyFacts, Zenon
  <2>4. ASSUME StableRing PROVE StableRing'
    <3>1. n \in Members
      <4>1. "up" # "out"  OBVIOUS
      <4> QED  BY <4>1, <2>1, <2>4, StableFacts, Zenon
    <3>2. NextIn(Members, n) = n  BY <3>1, <2>1, <2>4, StableFacts, Zenon
    <3>3. successorList[n] = <<n>>  BY <3>1, <3>2, <2>4, Zenon DEF StableRing, ListOK
    <3>4. alive = {}
      <4>1. \A i \in DOMAIN <<n>> : <<n>>[i] = n  OBVIOUS
      <4> QED  BY <4>1, <3>3, Zenon
    <3>5. /\ \A m \in Nodes : predecessor'[m] \in Members \cup {Nil}
          /\ \A j \in jobs' : j.kind = "async" => j.to \in Members
      BY <2>3, <2>4, <3>1, Zenon DEF StableRing
    <3> QED  BY <2>1, <2>4, <3>4, <3>5, StableFrame, Zenon
  <2> QED  BY <2>1, <2>2, <2>3, <2>4, PointersKept, Zenon
<1>4. CASE handleSuccessorFailure(n)
  <2>1. /\ scenario' = scenario /\ acked' = acked /\ lost' = lost /\ dropped' = dropped
        /\ status' = status /\ holds' = holds /\ moving' = moving /\ jobs' = jobs
        /\ predecessor' = predecessor
        /\ status[n] = "up" /\ ~Answers(successor[n])
    BY <1>4, Zenon DEF handleSuccessorFailure, bounds
  <2>2. DOMAIN successorList' = Nodes  BY <1>1, <1>4, Zenon DEF handleSuccessorFailure, refresh
  <2>3. ~StableRing
    <3>1. "up" # "out"  OBVIOUS
    <3> QED  BY <3>1, <2>1, StableFacts, Zenon
  <2> QED  BY <1>1, <2>1, <2>2, <2>3, PointersKept, Zenon
<1> QED  BY <1>2, <1>3, <1>4, Zenon DEF Loop

\* A node clears a dead predecessor, or drops a dead successor from its list.
LEMMA RepairKept ==
    ASSUME KeptInv, NEW n \in Nodes, checkPredecessor(n) \/ \E d \in Nodes : evictNode(n, d)
    PROVE  KeptInv'
<1>1. DOMAIN successorList = Nodes /\ DOMAIN predecessor = Nodes  BY Zenon DEF KeptInv
<1>2. CASE checkPredecessor(n)
  <2>1. /\ scenario' = scenario /\ acked' = acked /\ lost' = lost /\ dropped' = dropped
        /\ status' = status /\ holds' = holds /\ moving' = moving /\ jobs' = jobs
        /\ successor' = successor /\ successorList' = successorList
        /\ predecessor' = [predecessor EXCEPT ![n] = Nil]
    BY <1>2, Zenon DEF checkPredecessor, bounds
  <2>2. DOMAIN predecessor' = Nodes /\ \A m \in Nodes : predecessor'[m] \in {predecessor[m], Nil}
    BY <2>1, <1>1, Zenon
  <2>3. ASSUME StableRing PROVE StableRing'
    <3>1. /\ \A m \in Nodes : predecessor'[m] \in Members \cup {Nil}
          /\ \A j \in jobs' : j.kind = "async" => j.to \in Members
      BY <2>1, <2>2, <2>3, Zenon DEF StableRing
    <3> QED  BY <2>1, <2>3, <3>1, StableFrame, Zenon
  <2> QED  BY <1>1, <2>1, <2>2, <2>3, PointersKept, Zenon
<1>3. ASSUME NEW d \in Nodes, evictNode(n, d) PROVE KeptInv'
  <2>1. /\ scenario' = scenario /\ acked' = acked /\ lost' = lost /\ dropped' = dropped
        /\ status' = status /\ holds' = holds /\ moving' = moving /\ jobs' = jobs
        /\ predecessor' = predecessor
        /\ status[n] = "up" /\ d \in Range(successorList[n]) /\ ~Answers(d)
    BY <1>3, Zenon DEF evictNode, bounds
  <2>2. DOMAIN successorList' = Nodes  BY <1>1, <1>3, Zenon DEF evictNode
  <2>3. ASSUME StableRing PROVE FALSE
    <3>1. "up" # "out"  OBVIOUS
    <3>2. n \in Members  BY <3>1, <2>1, <2>3, StableFacts, Zenon
    <3>3. d \in Members  BY <3>2, <2>1, <2>3, ListMembers, Zenon DEF Range
    <3> QED  BY <3>3, <2>1, <2>3, StableFacts, Zenon
  <2> QED  BY <1>1, <2>1, <2>2, <2>3, PointersKept, Zenon
<1> QED  BY <1>2, <1>3, Zenon

\* The goroutines that copy.
LEMMA CopyKept ==
    ASSUME KeptInv,
           \/ \E n \in Nodes : Round(n) \/ Jobs(n) \/ \E t \in Nodes : PushRoundFails(n, t)
           \/ \E j \in jobs : JobFails(j)
    PROVE  KeptInv'
<1>1. lost \in Nat /\ lost + 1 \in Nat
  <2>1. lost \in Nat  BY Zenon DEF KeptInv
  <2> QED  BY <2>1
<1>2. \A m, t : holds \subseteq pushBlocksChunked(m, t)  BY Zenon DEF pushBlocksChunked
<1>3. ASSUME NEW n \in Nodes, replicateToNewSuccessors(n) PROVE KeptInv'
  <2>1. /\ scenario' = scenario /\ acked' = acked /\ dropped' = dropped /\ lost' = lost
        /\ status' = status /\ UNCHANGED ptrs /\ moving' = moving /\ holds' = holds /\ jobs' = jobs
    BY <1>3, Zenon DEF replicateToNewSuccessors, bounds
  <2> QED  BY <1>1, <2>1, CopiesKept, Zenon
<1>4. ASSUME NEW n \in Nodes, NEW t \in Nodes, PushRound(n, t) PROVE KeptInv'
  <2>1. /\ scenario' = scenario /\ acked' = acked /\ dropped' = dropped /\ lost' = lost
        /\ status' = status /\ UNCHANGED ptrs /\ moving' = moving /\ jobs' = jobs
        /\ holds' = pushBlocksChunked(n, t)
    BY <1>4, Zenon DEF PushRound, bounds
  <2> QED  BY <1>1, <1>2, <2>1, CopiesKept, Zenon
<1>5. ASSUME NEW n \in Nodes, NEW t \in Nodes, PushRoundFails(n, t) PROVE KeptInv'
  <2>1. /\ scenario' = scenario /\ acked' = acked /\ dropped' = dropped /\ lost' = lost + 1
        /\ status' = status /\ UNCHANGED ptrs /\ moving' = moving /\ holds' = holds /\ jobs' = jobs
    BY <1>5, Zenon DEF PushRoundFails
  <2> QED  BY <1>1, <2>1, CopiesKept, Zenon
<1>6. ASSUME NEW j \in jobs, JobFails(j) PROVE KeptInv'
  <2>1. /\ scenario' = scenario /\ acked' = acked /\ dropped' = dropped /\ lost' = lost + 1
        /\ status' = status /\ UNCHANGED ptrs /\ moving' = moving /\ holds' = holds
        /\ jobs' \subseteq jobs /\ lost < scenario.losses
    BY <1>6, Zenon DEF JobFails
  <2>2. ~Careful
    <3>1. scenario.losses # 0  BY <2>1, <1>1
    <3> QED  BY <3>1, Zenon DEF Careful
  <2> QED  BY <1>1, <2>1, <2>2, CopiesKept, Zenon
<1>7. ASSUME NEW j \in jobs, RunJob(j) PROVE KeptInv'
  <2>1. /\ scenario' = scenario /\ acked' = acked /\ dropped' = dropped /\ lost' = lost
        /\ status' = status /\ UNCHANGED ptrs /\ moving' = moving
        /\ jobs' = jobs \ {j}
        /\ holds' = IF j.kind = "async" THEN holds \cup PushBlocks(j.to) ELSE pushBlocksChunked(j.from, j.to)
    BY <1>7, Zenon DEF RunJob, bounds
  <2>2. holds \subseteq holds'  BY <1>2, <2>1, Zenon
  <2>3. ASSUME j.kind = "async" PROVE j.to \in holds' \/ j.to \in Bad \/ ~Answers(j.to)
    BY <2>1, <2>3, Zenon DEF PushBlocks, Bad
  <2> QED  BY <1>1, <2>1, <2>2, <2>3, CopiesKept, Zenon
<1> QED  BY <1>3, <1>4, <1>5, <1>6, <1>7, Zenon DEF Round, Jobs

\* A change of one node's status.
LEMMA StatusSet ==
    ASSUME KeptInv, NEW n \in Nodes, NEW st \in {"out", "joining", "up", "leaving", "down"},
           status' = [status EXCEPT ![n] = st]
    PROVE  /\ status' \in [Nodes -> {"out", "joining", "up", "leaving", "down"}]
           /\ \A m \in Nodes : status'[m] = IF m = n THEN st ELSE status[m]
<1>1. status \in [Nodes -> {"out", "joining", "up", "leaving", "down"}]  BY Zenon DEF KeptInv
<1> HIDE DEF KeptInv
<1> QED  BY <1>1, Zenon

\* Only after the replication do members come and go.
LEMMA LaterFacts ==
    ASSUME KeptInv, NEW n \in Nodes, status[n] \in {"joining", "leaving"}
    PROVE  scenario.putFirst => Replicated
<1>1. "up" \notin {"joining", "leaving"} /\ "out" \notin {"joining", "leaving"}  OBVIOUS
<1>2. ~StableRing  BY <1>1, StableFacts, Zenon
<1> QED  BY <1>2, Zenon DEF KeptInv

\* A node joins.
LEMMA JoinKept ==
    ASSUME KeptInv, NEW n \in Nodes, NEW m \in Nodes, Join(n, m)
    PROVE  KeptInv'
<1> DEFINE s == successor[m]
<1>1. /\ scenario' = scenario /\ acked' = acked /\ dropped' = dropped /\ lost' = lost /\ jobs' = jobs
      /\ predecessor' = predecessor /\ Changes /\ n \in scenario.join
      /\ status' = [status EXCEPT ![n] = "joining"]
      /\ \/ holds' = holds /\ moving' = moving
         \/ holds' = holds \ {s} /\ moving' = moving \cup {n}
  BY Zenon DEF Join, TransferKeys, bounds
<1>2. DOMAIN successorList' = Nodes /\ DOMAIN predecessor' = Nodes
  BY <1>1, Zenon DEF Join, KeptInv
<1>3. /\ status' \in [Nodes -> {"out", "joining", "up", "leaving", "down"}]
      /\ \A x \in Nodes : status'[x] = IF x = n THEN "joining" ELSE status[x]
  <2>1. "joining" \in {"out", "joining", "up", "leaving", "down"}  OBVIOUS
  <2> QED  BY <1>1, <2>1, StatusSet, Zenon
<1>4. \A x \in Nodes : status'[x] = "leaving" => x \in scenario.leave
  <2>1. "joining" # "leaving"  OBVIOUS
  <2> QED  BY <1>3, <2>1, Zenon DEF KeptInv
<1>5. moving' \subseteq scenario.join  BY <1>1, Zenon DEF KeptInv
<1>6. scenario.putFirst => Replicated  BY <1>1, Zenon DEF Changes, Replicated
<1>7. ASSUME Survivable, NEW t \in Nodes \ Bad, t \in holds \cup moving
      PROVE  \E u \in Nodes \ Bad : u \in holds' \cup moving'
  <2>1. n \notin Bad  BY <1>1, <1>7, Zenon DEF Survivable
  <2> QED  BY <1>1, <1>7, <2>1, Zenon
<1> QED  BY <1>1, <1>2, <1>3, <1>4, <1>5, <1>6, <1>7, ChangeKept, Zenon

\* The reply of TransferKeys is stored, or lost.
LEMMA JoinDoneKept ==
    ASSUME KeptInv, NEW n \in Nodes, JoinDone(n) \/ ReplyLost(n)
    PROVE  KeptInv'
<1>1. CASE JoinDone(n)
  <2>1. /\ scenario' = scenario /\ acked' = acked /\ dropped' = dropped /\ lost' = lost /\ jobs' = jobs
        /\ UNCHANGED ptrs
        /\ status[n] = "joining" /\ status' = [status EXCEPT ![n] = "up"]
        /\ holds' = IF n \in moving THEN holds \cup PushBlocks(n) ELSE holds
        /\ moving' = moving \ {n}
    BY <1>1, Zenon DEF JoinDone, bounds
  <2>2. DOMAIN successorList' = Nodes /\ DOMAIN predecessor' = Nodes  BY <2>1, Zenon DEF ptrs, KeptInv
  <2>3. /\ status' \in [Nodes -> {"out", "joining", "up", "leaving", "down"}]
        /\ \A x \in Nodes : status'[x] = IF x = n THEN "up" ELSE status[x]
    <3>1. "up" \in {"out", "joining", "up", "leaving", "down"}  OBVIOUS
    <3> QED  BY <2>1, <3>1, StatusSet, Zenon
  <2>4. \A x \in Nodes : status'[x] = "leaving" => x \in scenario.leave
    <3>1. "up" # "leaving"  OBVIOUS
    <3> QED  BY <2>3, <3>1, Zenon DEF KeptInv
  <2>5. moving' \subseteq scenario.join  BY <2>1, Zenon DEF KeptInv
  <2>6. scenario.putFirst => Replicated  BY <2>1, LaterFacts, Zenon
  <2>7. ASSUME NEW t \in Nodes \ Bad, t \in holds \cup moving PROVE t \in holds' \cup moving'
    <3>1. CASE t = n /\ t \in moving
      <4>1. Answers(n)  BY <2>1, NilAssumption, Zenon DEF Answers
      <4>2. n \notin FullNodes  BY <2>7, <3>1, Zenon DEF Bad
      <4> QED  BY <2>1, <3>1, <4>1, <4>2, Zenon DEF PushBlocks
    <3>2. CASE t # n \/ t \notin moving  BY <2>1, <2>7, <3>2, Zenon
    <3> QED  BY <3>1, <3>2, Zenon
  <2> QED  BY <2>1, <2>2, <2>3, <2>4, <2>5, <2>6, <2>7, ChangeKept, Zenon
<1>2. CASE ReplyLost(n)
  <2>1. /\ scenario' = scenario /\ acked' = acked /\ dropped' = dropped /\ lost' = lost + 1 /\ jobs' = jobs
        /\ UNCHANGED ptrs /\ status' = status /\ moving' \subseteq moving /\ lost < scenario.losses
    BY <1>2, Zenon DEF ReplyLost
  <2>2. lost \in Nat /\ acked \in BOOLEAN /\ dropped \in Nat  BY Zenon DEF KeptInv
  <2>3. lost' \in Nat /\ scenario.losses # 0  BY <2>1, <2>2
  <2>4. ~Careful  BY <2>3, Zenon DEF Careful
  <2>5. ASSUME scenario.putFirst, ~Replicated' PROVE StableRing'
    <3>1. StableRing  BY <2>1, <2>5, Zenon DEF Replicated, KeptInv
    <3>2. /\ \A m \in Nodes : predecessor'[m] \in Members \cup {Nil}
          /\ \A j \in jobs' : j.kind = "async" => j.to \in Members
      BY <2>1, <3>1, Zenon DEF StableRing, ptrs
    <3> QED  BY <2>1, <3>1, <3>2, StableFrame, Zenon DEF ptrs
  <2>6. DOMAIN successorList' = Nodes /\ DOMAIN predecessor' = Nodes  BY <2>1, Zenon DEF ptrs, KeptInv
  <2>7. /\ status' \in [Nodes -> {"out", "joining", "up", "leaving", "down"}]
        /\ \A x \in Nodes : status'[x] = "leaving" => x \in scenario.leave
        /\ moving' \subseteq scenario.join
    BY <2>1, Zenon DEF KeptInv
  <2> QED  BY <2>1, <2>2, <2>3, <2>4, <2>5, <2>6, <2>7, ShapeKept, Zenon
<1> QED  BY <1>1, <1>2, Zenon

\* A node leaves: it gives its copy to its successor and keeps it until Stop.
LEMMA LeaveKept ==
    ASSUME KeptInv, NEW n \in Nodes, Leave(n)
    PROVE  KeptInv'
<1>1. /\ scenario' = scenario /\ acked' = acked /\ dropped' = dropped /\ lost' = lost /\ jobs' = jobs
      /\ Changes /\ n \in scenario.leave /\ status' = [status EXCEPT ![n] = "leaving"]
      /\ holds \subseteq holds' /\ moving' = moving
  BY Zenon DEF Leave, bounds
<1>2. DOMAIN successorList' = Nodes /\ DOMAIN predecessor' = Nodes  BY Zenon DEF Leave
<1>3. /\ status' \in [Nodes -> {"out", "joining", "up", "leaving", "down"}]
      /\ \A x \in Nodes : status'[x] = IF x = n THEN "leaving" ELSE status[x]
  <2>1. "leaving" \in {"out", "joining", "up", "leaving", "down"}  OBVIOUS
  <2> QED  BY <1>1, <2>1, StatusSet, Zenon
<1>4. \A x \in Nodes : status'[x] = "leaving" => x \in scenario.leave  BY <1>1, <1>3, Zenon DEF KeptInv
<1>5. moving' \subseteq scenario.join  BY <1>1, Zenon DEF KeptInv
<1>6. scenario.putFirst => Replicated  BY <1>1, Zenon DEF Changes, Replicated
<1> QED  BY <1>1, <1>2, <1>3, <1>4, <1>5, <1>6, ChangeKept, Zenon

\* A node is gone: it was one of those that may go.
LEMMA GoneKept ==
    ASSUME KeptInv, NEW n \in Nodes, Stop(n) \/ Crash(n)
    PROVE  KeptInv'
<1>1. /\ scenario' = scenario /\ acked' = acked /\ dropped' = dropped /\ lost' = lost
      /\ jobs' \subseteq jobs /\ UNCHANGED ptrs /\ status' = [status EXCEPT ![n] = "down"]
      /\ holds' = holds \ {n} /\ moving \ {n} \subseteq moving' /\ moving' \subseteq moving
  BY Zenon DEF Stop, Crash, bounds
<1>2. DOMAIN successorList' = Nodes /\ DOMAIN predecessor' = Nodes  BY <1>1, Zenon DEF ptrs, KeptInv
<1>3. /\ status' \in [Nodes -> {"out", "joining", "up", "leaving", "down"}]
      /\ \A x \in Nodes : status'[x] = IF x = n THEN "down" ELSE status[x]
  <2>1. "down" \in {"out", "joining", "up", "leaving", "down"}  OBVIOUS
  <2> QED  BY <1>1, <2>1, StatusSet, Zenon
<1>4. \A x \in Nodes : status'[x] = "leaving" => x \in scenario.leave
  <2>1. "down" # "leaving"  OBVIOUS
  <2> QED  BY <1>3, <2>1, Zenon DEF KeptInv
<1>5. moving' \subseteq scenario.join  BY <1>1, Zenon DEF KeptInv
<1>6. scenario.putFirst => Replicated
  <2>1. CASE Stop(n)
    <3>1. status[n] \in {"joining", "leaving"}  BY <2>1, Zenon DEF Stop
    <3> QED  BY <3>1, LaterFacts, Zenon
  <2>2. CASE Crash(n)  BY <2>2, Zenon DEF Crash, Changes, Replicated
  <2> QED  BY <2>1, <2>2, Zenon
<1>7. n \in Bad  BY Zenon DEF Stop, Crash, Bad, KeptInv
<1>8. ASSUME NEW t \in Nodes \ Bad, t \in holds \cup moving PROVE t \in holds' \cup moving'
  BY <1>1, <1>7, <1>8, Zenon
<1> QED  BY <1>1, <1>2, <1>3, <1>4, <1>5, <1>6, <1>8, ChangeKept, Zenon

\* Pruning is not part of a scenario that the theorem is about.
LEMMA PruneKept ==
    ASSUME KeptInv, NEW n \in Nodes, PruneOutOfWindowBlocks(n)
    PROVE  KeptInv'
<1>1. /\ scenario' = scenario /\ acked' = acked /\ dropped' = dropped /\ lost' = lost /\ jobs' = jobs
      /\ UNCHANGED ptrs /\ status' = status /\ moving' = moving /\ scenario.prunes
  BY Zenon DEF PruneOutOfWindowBlocks, bounds
<1>2. ~Survivable  BY <1>1, Zenon DEF Survivable
<1>3. ASSUME scenario.putFirst, ~Replicated' PROVE StableRing'
  <2>1. StableRing  BY <1>1, <1>3, Zenon DEF Replicated, KeptInv
  <2>2. /\ \A m \in Nodes : predecessor'[m] \in Members \cup {Nil}
        /\ \A j \in jobs' : j.kind = "async" => j.to \in Members
    BY <1>1, <2>1, Zenon DEF StableRing, ptrs
  <2> QED  BY <1>1, <2>1, <2>2, StableFrame, Zenon DEF ptrs
<1>4. DOMAIN successorList' = Nodes /\ DOMAIN predecessor' = Nodes  BY <1>1, Zenon DEF ptrs, KeptInv
<1> QED  BY <1>1, <1>2, <1>3, <1>4, ShapeKept, Zenon DEF KeptInv

\* The window of a member of a stable ring.
LEMMA WindowMembers ==
    ASSUME KeptInv, StableRing, NEW o \in Members
    PROVE  Window(successorList[o]) \subseteq Members
<1> DEFINE l == successorList[o]
<1>1. ListOK(Members, o, l)  BY Zenon DEF StableRing
<1>2. Len(l) \in Nat /\ DOMAIN l = 1 .. Len(l)
  <2>1. CASE l = <<o>>
    <3>1. Len(<<o>>) = 1 /\ DOMAIN <<o>> = 1 .. 1  OBVIOUS
    <3> QED  BY <2>1, <3>1
  <2>2. CASE l \in [1 .. ListSize -> Members]
    <3>1. Len(l) = ListSize  BY <2>2, NodesAssumption
    <3> QED  BY <2>2, <3>1, NodesAssumption
  <2> QED  BY <1>1, <2>1, <2>2, Zenon DEF ListOK
<1>3. K \in Nat  BY NodesAssumption
<1>4. 1 .. (IF K - 1 < Len(l) THEN K - 1 ELSE Len(l)) \subseteq DOMAIN l
  <2> HIDE DEF l
  <2> QED  BY <1>2, <1>3
<1>5. \A i \in DOMAIN l : l[i] \in Members  BY ListMembers, Zenon
<1> QED  BY <1>4, <1>5, Zenon DEF Window

\* Put: the responsible node stores the block and starts a push to every node of its
\* window.
LEMMA PutKept ==
    ASSUME KeptInv, NEW m \in Nodes, NEW refused \in SUBSET Nodes, Put(m, refused)
    PROVE  KeptInv'
<1> DEFINE o == successor[m]
           targets == Window(successorList[o]) \ {o}
<1>1. /\ scenario' = scenario /\ lost' = lost /\ status' = status /\ UNCHANGED ptrs /\ moving' = moving
      /\ m \in Live /\ ~acked /\ acked' = TRUE /\ holds' = holds \cup {o}
      /\ dropped + Cardinality(refused) <= scenario.drops
      /\ dropped' = dropped + Cardinality(refused)
      /\ jobs' = jobs \cup [kind : {"async"}, from : {o}, to : targets \ refused]
  BY Zenon DEF Put, Responsible, Routes, replicateAsync
<1>2. IsFiniteSet(refused) /\ Cardinality(refused) \in Nat
  BY NodesAssumption, FS_Subset, FS_CardinalityType, Zenon
<1>3. dropped' \in Nat
  <2>1. dropped \in Nat  BY Zenon DEF KeptInv
  <2> QED  BY <2>1, <1>1, <1>2
<1>4. ASSUME scenario.putFirst
      PROVE  StableRing /\ o \in Members /\ targets \subseteq Members
  <2>1. StableRing  BY <1>1, <1>4, Zenon DEF KeptInv, Replicated
  <2>2. m \in Members  BY <1>1, <2>1, StableFacts, Zenon
  <2>3. o \in Members  BY <2>1, <2>2, StableFacts, Zenon
  <2> HIDE DEF o
  <2> QED  BY <2>1, <2>3, WindowMembers, Zenon
<1>5. ASSUME scenario.putFirst PROVE StableRing'
  <2>1. StableRing /\ o \in Members /\ targets \subseteq Members  BY <1>4, <1>5, Zenon
  <2>2. \A j \in [kind : {"async"}, from : {o}, to : targets \ refused] : j.to \in Members
    <3> HIDE DEF targets, o
    <3> QED  BY <2>1
  <2>3. /\ \A n \in Nodes : predecessor'[n] \in Members \cup {Nil}
        /\ \A j \in jobs' : j.kind = "async" => j.to \in Members
    <3> HIDE DEF targets, o
    <3> QED  BY <1>1, <2>1, <2>2, Zenon DEF StableRing, ptrs
  <2> QED  BY <1>1, <2>1, <2>3, StableFrame, Zenon DEF ptrs
<1>6. ASSUME Careful, Survivable PROVE Safe'
  <2>1. StableRing /\ o \in Members /\ targets \subseteq Members  BY <1>4, <1>6, Zenon DEF Careful
  <2>2. ListOK(Members, o, successorList[o]) /\ scenario \in Scenarios
    BY <2>1, Zenon DEF StableRing, KeptInv
  <2> HIDE DEF o
  <2>3. PICK t \in Members \ Bad : t \in {o} \cup Window(successorList[o])
    BY <1>6, <2>1, <2>2, WindowHasGood, Zenon
  <2>4. t \in Nodes \ Bad'  BY <2>1, <2>3, <1>1, StableFacts, ScenarioFacts, Zenon
  <2>5. o \in holds'  BY <1>1, Zenon
  <2>6. CASE t = o
    <3>1. t \in holds'  BY <2>6, <1>1, Zenon
    <3> QED  BY <2>4, <3>1, Zenon DEF Safe
  <2>7. CASE t # o
    <3>1. refused = {}
      <4>1. dropped \in Nat /\ scenario.drops = 0  BY <1>6, Zenon DEF KeptInv, Careful
      <4>2. Cardinality(refused) = 0  BY <1>1, <1>2, <4>1
      <4> QED  BY <1>2, <4>2, FS_EmptySet, Zenon
    <3>2. t \in targets \ refused  BY <2>3, <2>7, <3>1, Zenon
    <3> DEFINE j == [kind |-> "async", from |-> o, to |-> t]
    <3>3. j \in [kind : {"async"}, from : {o}, to : targets \ refused]
      <4> HIDE DEF targets
      <4> QED  BY <3>2
    <3>4. j.kind = "async" /\ j.to = t  OBVIOUS
    <3>5. j \in jobs'
      <4> HIDE DEF targets, j
      <4> QED  BY <3>3, <1>1, Zenon
    <3> HIDE DEF j
    <3> QED  BY <2>4, <2>5, <3>4, <3>5, Zenon DEF Safe
  <2> QED  BY <2>6, <2>7, Zenon
<1>7. DOMAIN successorList' = Nodes /\ DOMAIN predecessor' = Nodes  BY <1>1, Zenon DEF ptrs, KeptInv
<1>8. /\ status' \in [Nodes -> {"out", "joining", "up", "leaving", "down"}] /\ lost' \in Nat
      /\ \A n \in Nodes : status'[n] = "leaving" => n \in scenario.leave
      /\ moving' \subseteq scenario.join /\ acked' \in BOOLEAN
  BY <1>1, Zenon DEF KeptInv
<1> QED  BY <1>1, <1>3, <1>5, <1>6, <1>7, <1>8, ShapeKept, Zenon

\* Put on a full node: the nodes of its window store the block before Put returns.
LEMMA PutFanOutKept ==
    ASSUME KeptInv, NEW m \in Nodes, PutFanOut(m)
    PROVE  KeptInv'
<1> DEFINE o == successor[m]
<1>1. /\ scenario' = scenario /\ lost' = lost /\ dropped' = dropped /\ status' = status
      /\ UNCHANGED ptrs /\ moving' = moving /\ jobs' = jobs
      /\ m \in Live /\ ~acked /\ acked' = TRUE /\ o \in FullNodes
      /\ holds' = holds \cup replicateAndReport(o)
  BY Zenon DEF PutFanOut, Responsible, Routes, bounds
<1>2. ASSUME scenario.putFirst PROVE StableRing /\ o \in Members
  <2>1. StableRing  BY <1>1, <1>2, Zenon DEF KeptInv, Replicated
  <2>2. m \in Members  BY <1>1, <2>1, StableFacts, Zenon
  <2> QED  BY <2>1, <2>2, StableFacts, Zenon
<1>3. ASSUME scenario.putFirst PROVE StableRing'
  <2>1. StableRing  BY <1>2, <1>3, Zenon
  <2>2. /\ \A n \in Nodes : predecessor'[n] \in Members \cup {Nil}
        /\ \A j \in jobs' : j.kind = "async" => j.to \in Members
    BY <1>1, <2>1, Zenon DEF StableRing, ptrs
  <2> QED  BY <1>1, <2>1, <2>2, StableFrame, Zenon DEF ptrs
<1>4. ASSUME Careful, Survivable PROVE Safe'
  <2>1. StableRing /\ o \in Members  BY <1>2, <1>4, Zenon DEF Careful
  <2>2. ListOK(Members, o, successorList[o]) /\ scenario \in Scenarios
    BY <2>1, Zenon DEF StableRing, KeptInv
  <2> HIDE DEF o
  <2>3. PICK t \in Members \ Bad : t \in {o} \cup Window(successorList[o])
    BY <1>4, <2>1, <2>2, WindowHasGood, Zenon
  <2>4. t \in Nodes \ Bad'  BY <2>1, <2>3, <1>1, StableFacts, ScenarioFacts, Zenon
  <2>5. t # o /\ t \notin FullNodes  BY <2>3, <1>1, Zenon DEF Bad
  <2>6. Answers(t)  BY <2>1, <2>3, StableFacts, Zenon
  <2>7. t \in holds'  BY <2>3, <2>5, <2>6, <1>1, Zenon DEF replicateAndReport
  <2> QED  BY <2>4, <2>7, Zenon DEF Safe
<1>5. DOMAIN successorList' = Nodes /\ DOMAIN predecessor' = Nodes  BY <1>1, Zenon DEF ptrs, KeptInv
<1>6. /\ status' \in [Nodes -> {"out", "joining", "up", "leaving", "down"}]
      /\ lost' \in Nat /\ dropped' \in Nat
      /\ \A n \in Nodes : status'[n] = "leaving" => n \in scenario.leave
      /\ moving' \subseteq scenario.join /\ acked' \in BOOLEAN
  BY <1>1, Zenon DEF KeptInv
<1> QED  BY <1>1, <1>3, <1>4, <1>5, <1>6, ShapeKept, Zenon

LEMMA NextKept == KeptInv /\ [Next]_vars => KeptInv'
<1> SUFFICES ASSUME KeptInv, [Next]_vars PROVE KeptInv'
  BY Zenon
<1>1. CASE UNCHANGED vars
  <2>1. /\ scenario' = scenario /\ acked' = acked /\ lost' = lost /\ dropped' = dropped
        /\ status' = status /\ holds' = holds /\ moving' = moving /\ UNCHANGED ptrs /\ jobs' = jobs
    BY <1>1, Zenon DEF vars, bounds
  <2>2. lost' \in Nat  BY <2>1, Zenon DEF KeptInv
  <2> QED  BY <2>1, <2>2, CopiesKept, Zenon
<1>2. CASE Next
  <2>1. ASSUME NEW n \in Nodes, Loop(n) PROVE KeptInv'  BY <2>1, LoopKept, Zenon
  <2>2. ASSUME NEW n \in Nodes,
               Round(n) \/ Jobs(n) \/ \E t \in Nodes : PushRoundFails(n, t)
        PROVE  KeptInv'
    BY <2>2, CopyKept, Zenon
  <2>3. ASSUME NEW n \in Nodes, checkPredecessor(n) \/ \E d \in Nodes : evictNode(n, d) PROVE KeptInv'
    BY <2>3, RepairKept, Zenon
  <2>4. ASSUME NEW n \in Nodes, \E m \in Nodes : Join(n, m) PROVE KeptInv'  BY <2>4, JoinKept, Zenon
  <2>5. ASSUME NEW n \in Nodes, Member(n) \/ ReplyLost(n) \/ Crash(n) PROVE KeptInv'
    BY <2>5, JoinDoneKept, GoneKept, Zenon DEF Member
  <2>6. ASSUME NEW n \in Nodes, Leave(n) PROVE KeptInv'  BY <2>6, LeaveKept, Zenon
  <2>7. ASSUME NEW n \in Nodes, PruneOutOfWindowBlocks(n) PROVE KeptInv'  BY <2>7, PruneKept, Zenon
  <2>8. ASSUME NEW n \in Nodes, PutFanOut(n) \/ \E refused \in SUBSET Nodes : Put(n, refused)
        PROVE  KeptInv'
    BY <2>8, PutKept, PutFanOutKept, Zenon
  <2>9. ASSUME NEW j \in jobs, JobFails(j) PROVE KeptInv'  BY <2>9, CopyKept, Zenon
  <2> QED  BY <1>2, <2>1, <2>2, <2>3, <2>4, <2>5, <2>6, <2>7, <2>8, <2>9, Zenon DEF Next
<1> QED  BY <1>1, <1>2, Zenon

\* A block that Put returned for and that has been pushed to its replicas is not lost:
\* whatever joins, leaves, crashes and refuses the block, in whichever order
\* with the rounds of stabilization and the copies they start, as long as
\* fewer of the members it started from go than it has copies (Put and
\* PutBlock in dht/node.go, TransferKeys and PushBlocks in dht/rpc.go).
THEOREM ReplicatedBlockSurvives == Spec => [](Survivable => NeverLost)
<1>1. KeptInv => (Survivable => NeverLost)
  <2> SUFFICES ASSUME KeptInv, Survivable, Careful, acked PROVE holds # {} \/ moving # {}
    BY Zenon DEF NeverLost
  <2>1. holds \cup moving # {}  BY Zenon DEF KeptInv, Safe
  <2> QED  BY <2>1, Zenon
<1> QED  BY <1>1, InitKept, NextKept, PTL DEF Spec
-----------------------------------------------------------------------------
\* refreshPredecessorList returns a walk without repetitions.
LEMMA WalkFacts ==
    ASSUME NEW n \in Nodes, NEW pr
    PROVE  DistinctWalk(n, refreshPredecessorList(n, pr))
<1> DEFINE all == UNION {[1 .. k -> Nodes] : k \in 0 .. ListSize}
           walks == {l \in all :
                  /\ \A i \in DOMAIN l : l[i] = pr[IF i = 1 THEN n ELSE l[i - 1]]
                  /\ \A i, j \in DOMAIN l :
                       i < j => l[i] # l[j] /\ n \notin {l[i], l[j]} /\ Answers(l[i])}
           longest == CHOOSE l \in walks : \A m \in walks : Len(m) <= Len(l)
<1>1. ListSize \in Nat  BY NodesAssumption
<1>2. ASSUME NEW l \in all PROVE l \in Seq(Nodes) /\ Len(l) \in Nat /\ Len(l) <= ListSize
  <2>1. PICK k \in 0 .. ListSize : l \in [1 .. k -> Nodes]  BY <1>2, Zenon
  <2>2. k \in Nat /\ k <= ListSize  BY <1>1
  <2> HIDE DEF all
  <2>3. l \in Seq(Nodes) /\ Len(l) = k  BY <2>1, <2>2
  <2> QED  BY <2>2, <2>3, Zenon
<1>3. walks # {}
  <2> DEFINE e == [i \in 1 .. 0 |-> n]
  <2>1. DOMAIN e = {} /\ 0 \in 0 .. ListSize  BY <1>1
  <2>2. e \in all  BY <2>1, Zenon
  <2> HIDE DEF e, all
  <2> QED  BY <2>1, <2>2, Zenon
<1>4. \E l \in walks : \A m \in walks : Len(m) <= Len(l)
  <2> DEFINE T == {Len(l) : l \in walks}
  <2>1. \A l \in walks : Len(l) \in Nat /\ Len(l) <= ListSize
    <3> HIDE DEF all
    <3> QED  BY <1>2, Zenon
  <2> HIDE DEF walks
  <2>2. T \in SUBSET Nat /\ T # {} /\ \A y \in T : y <= ListSize  BY <2>1, <1>3, Zenon
  <2>3. PICK x \in T : \A y \in T : y <= x
    <3> HIDE DEF T
    <3> QED  BY <2>2, <1>1, MaxNat, Zenon
  <2> QED  BY <2>3, Zenon
<1>5. longest \in walks
  <2> HIDE DEF walks
  <2> QED  BY <1>4, Zenon
<1>6. refreshPredecessorList(n, pr) = longest  BY Zenon DEF refreshPredecessorList
<1> HIDE DEF longest
<1>7. longest \in Seq(Nodes)
  <2> HIDE DEF all
  <2> QED  BY <1>2, <1>5, Zenon
<1>8. \A i, j \in DOMAIN longest : i < j => longest[i] # longest[j] /\ n \notin {longest[i], longest[j]}
  <2> HIDE DEF all
  <2> QED  BY <1>5, Zenon
<1> QED  BY <1>6, <1>7, <1>8, Zenon DEF DistinctWalk

LEMMA InitLists == Init => ListsInv
<1> SUFFICES ASSUME Init PROVE ListsInv
  BY Zenon
<1>1. predecessorList = [n \in Nodes |-> refreshPredecessorList(n, predecessor)]  BY Zenon DEF Init
<1>2. \A n \in Nodes : DistinctWalk(n, refreshPredecessorList(n, predecessor))  BY WalkFacts, Zenon
<1> QED  BY <1>1, <1>2, Zenon DEF ListsInv

\* Only a round of stabilization changes a predecessor list.
LEMMA NextLists == ListsInv /\ [Next]_vars => ListsInv'
<1> SUFFICES ASSUME ListsInv, [Next]_vars PROVE ListsInv'
  BY Zenon
<1>1. CASE predecessorList' = predecessorList  BY <1>1, Zenon DEF ListsInv
<1>2. ASSUME NEW n \in Nodes, NEW pr,
             predecessorList' = [predecessorList EXCEPT ![n] = refreshPredecessorList(n, pr)]
      PROVE  ListsInv'
  <2>1. DistinctWalk(n, refreshPredecessorList(n, pr))  BY WalkFacts, Zenon
  <2> QED  BY <1>2, <2>1, Zenon DEF ListsInv
<1>3. ASSUME NEW n \in Nodes, stabilize(n) PROVE ListsInv'
  <2>1. predecessorList' = [predecessorList EXCEPT ![n] = refreshPredecessorList(n, predecessor')]
    BY <1>3, Zenon DEF stabilize, refresh
  <2> QED  BY <1>2, <2>1, Zenon
<1>4. ASSUME NEW n \in Nodes, handleSuccessorFailure(n) PROVE ListsInv'
  <2>1. \/ predecessorList' = [predecessorList EXCEPT ![n] = refreshPredecessorList(n, predecessor)]
        \/ predecessorList' = predecessorList
    BY <1>4, Zenon DEF handleSuccessorFailure, refresh
  <2> QED  BY <1>1, <1>2, <2>1, Zenon
<1>5. CASE UNCHANGED vars  BY <1>1, <1>5, Zenon DEF vars, ptrs
<1>6. ASSUME NEW n \in Nodes, tryReconnect(n) \/ Round(n) \/ Jobs(n) \/ Member(n) PROVE ListsInv'
  BY <1>1, <1>6, Zenon DEF tryReconnect, Round, replicateToNewSuccessors, PushRound, Jobs, RunJob, Member,
     JoinDone, Stop, ptrs
<1>7. ASSUME NEW n \in Nodes,
             \/ checkPredecessor(n) \/ PruneOutOfWindowBlocks(n)
             \/ \E d \in Nodes : evictNode(n, d)
             \/ \E t \in Nodes : PushRoundFails(n, t)
             \/ \E m \in Nodes : Join(n, m)
      PROVE  ListsInv'
  BY <1>1, <1>7, Zenon DEF checkPredecessor, PruneOutOfWindowBlocks, evictNode, PushRoundFails, Join, ptrs
<1>8. ASSUME NEW n \in Nodes,
             \/ Leave(n) \/ Crash(n) \/ ReplyLost(n) \/ PutFanOut(n)
             \/ \E refused \in SUBSET Nodes : Put(n, refused)
      PROVE  ListsInv'
  BY <1>1, <1>8, Zenon DEF Leave, Crash, ReplyLost, PutFanOut, Put, ptrs
<1>9. ASSUME NEW j \in jobs, JobFails(j) PROVE ListsInv'  BY <1>1, <1>9, Zenon DEF JobFails, ptrs
<1> QED  BY <1>3, <1>4, <1>5, <1>6, <1>7, <1>8, <1>9, Zenon DEF Next, Loop

\* Arithmetic on the circle: going back from b, without passing n, leads away from n.
LEMMA BackStep ==
    ASSUME NEW n \in NodeID, NEW a \in NodeID, NEW b \in NodeID, a # n, b # n, a # b,
           ~BetweenExclusive(n, a, b)
    PROVE  Distance(b, n) < Distance(a, n)
BY IdBounds DEF BetweenExclusive, Distance

\* What lies between k and n lies between an identifier that does not and n.
LEMMA BehindPos ==
    ASSUME NEW n \in NodeID, NEW a \in NodeID, NEW k \in NodeID, a # n, k # n,
           Distance(a, n) <= Distance(k, n), ~BetweenRightInclusive(Pos, k, n)
    PROVE  Distance(Pos, a) < Distance(Pos, n)
<1>1. Pos \in NodeID  BY NodesAssumption
<1> QED  BY <1>1, IdBounds DEF BetweenRightInclusive, BetweenExclusive, Distance

\* With up-to-date predecessor lists a node that prunes the block is not an owner: the K
\* nodes before it are between the block and the node.
LEMMA PrunedIsNoOwner ==
    ASSUME ListsInv, Settled, NEW n \in Nodes, PruneOutOfWindowBlocks(n)
    PROVE  n \notin Owners
<1> DEFINE l == predecessorList[n]
           S == {m \in Live : Distance(Pos, m) < Distance(Pos, n)}
<1>1. /\ K \in Nat /\ K > 1 /\ status[n] = "up" /\ Len(l) >= K
      /\ ~BetweenRightInclusive(Pos, l[K], n)
  BY NodesAssumption, Zenon DEF PruneOutOfWindowBlocks
<1>2. DistinctWalk(n, l)  BY Zenon DEF ListsInv
<1>3. n \in Live /\ Live \in SUBSET NodeID /\ Live # {} /\ IsFiniteSet(Live) /\ n \in NodeID
  <2>1. Live \in SUBSET Nodes  BY Zenon DEF Live
  <2>2. n \in Live  BY <1>1, Zenon DEF Live
  <2>3. IsFiniteSet(Live)  BY <2>1, NodesAssumption, FS_Subset, Zenon
  <2> QED  BY <2>1, <2>2, <2>3, IdBounds, Zenon
<1>4. \A i \in DOMAIN l : l[i] = PrevIn(Live, IF i = 1 THEN n ELSE l[i - 1])
  BY <1>3, Zenon DEF Settled
<1> HIDE DEF l
<1>5. l \in Seq(Nodes) /\ \A i \in 1 .. K : i \in DOMAIN l /\ l[i] \in Nodes
  <2>1. l \in Seq(Nodes)  BY <1>2, Zenon DEF DistinctWalk
  <2> QED  BY <2>1, <1>1
<1>6. \A i, j \in 1 .. K : i < j => l[i] # l[j] /\ l[i] # n /\ l[j] # n
  BY <1>2, <1>5, Zenon DEF DistinctWalk
<1>7. \A i \in 1 .. K : l[i] # n
  <2> TAKE i \in 1 .. K
  <2>1. 1 \in 1 .. K /\ 2 \in 1 .. K /\ 1 < 2 /\ (i = 1 \/ 1 < i)  BY <1>1
  <2> QED  BY <2>1, <1>6, Zenon
<1>8. ASSUME NEW i \in 1 .. K
      PROVE  l[i] \in Live /\ \A o \in Live : ~BetweenExclusive(o, l[i], IF i = 1 THEN n ELSE l[i - 1])
                                              \/ o = IF i = 1 THEN n ELSE l[i - 1]
  <2> DEFINE x == IF i = 1 THEN n ELSE l[i - 1]
  <2>1. x \in NodeID
    <3>1. i # 1 => i - 1 \in 1 .. K  BY <1>1
    <3> QED  BY <3>1, <1>3, <1>5, IdBounds, Zenon
  <2>2. l[i] = PrevIn(Live, x)  BY <1>4, <1>5, Zenon
  <2> HIDE DEF x
  <2>3. PrevIn(Live, x) \in Live /\ \A o \in Live : ~BetweenExclusive(o, PrevIn(Live, x), x) \/ o = x
    BY <2>1, <1>3, PrevFacts, Zenon
  <2>4. l[i] \in Live /\ \A o \in Live : ~BetweenExclusive(o, l[i], x) \/ o = x  BY <2>2, <2>3, Zenon
  <2> QED  BY <2>4, Zenon DEF x
<1>9. \A i \in 1 .. K : l[i] \in NodeID /\ l[i] \in Live /\ Distance(l[i], n) \in Nat
  BY <1>3, <1>8, DistanceFacts, Zenon
<1>10. ASSUME NEW i \in 1 .. K, i + 1 \in 1 .. K PROVE Distance(l[i], n) < Distance(l[i + 1], n)
  <2>1. i + 1 # 1 /\ (i + 1) - 1 = i /\ i < i + 1  BY <1>1
  <2>2. ~BetweenExclusive(n, l[i + 1], l[i]) \/ n = l[i]
    <3>1. \A o \in Live : ~BetweenExclusive(o, l[i + 1], IF i + 1 = 1 THEN n ELSE l[(i + 1) - 1])
                          \/ o = IF i + 1 = 1 THEN n ELSE l[(i + 1) - 1]
      BY <1>8, <1>10, Zenon
    <3>2. (IF i + 1 = 1 THEN n ELSE l[(i + 1) - 1]) = l[i]  BY <2>1, Zenon
    <3> QED  BY <3>1, <3>2, <1>3, Zenon
  <2>3. l[i] # l[i + 1] /\ l[i] # n /\ l[i + 1] # n  BY <2>1, <1>6, <1>10, Zenon
  <2>4. l[i] \in NodeID /\ l[i + 1] \in NodeID  BY <1>9, <1>10, Zenon
  <2> QED  BY <2>2, <2>3, <2>4, <1>3, BackStep, Zenon
<1>11. ASSUME NEW i \in 1 .. K PROVE Distance(l[i], n) <= Distance(l[K], n)
  <2> DEFINE T == {k \in 1 .. K : ~(Distance(l[k], n) <= Distance(l[K], n))}
  <2>1. CASE T = {}  BY <2>1, Zenon
  <2>2. CASE T # {}
    <3>1. T \in SUBSET Nat /\ \A k \in T : k <= K  BY <1>1
    <3>2. PICK k \in T : \A j \in T : j <= k
      <4> HIDE DEF T
      <4> QED  BY <2>2, <3>1, <1>1, MaxNat, Zenon
    <3>3. K \in 1 .. K /\ Distance(l[K], n) \in Nat  BY <1>1, <1>9
    <3>4. k \in 1 .. K /\ ~(Distance(l[k], n) <= Distance(l[K], n)) /\ Distance(l[k], n) \in Nat
      BY <3>2, <1>9, Zenon
    <3>5. k # K  BY <3>3, <3>4
    <3>6. k + 1 \in 1 .. K /\ ~(k + 1 <= k)  BY <1>1, <3>4, <3>5
    <3>7. Distance(l[k + 1], n) <= Distance(l[K], n)  BY <3>2, <3>6, Zenon
    <3>8. Distance(l[k], n) < Distance(l[k + 1], n) /\ Distance(l[k + 1], n) \in Nat
      BY <1>9, <1>10, <3>4, <3>6, Zenon
    <3> QED  BY <3>3, <3>4, <3>7, <3>8
  <2> QED  BY <2>1, <2>2, Zenon
<1>12. ASSUME NEW i \in 1 .. K PROVE l[i] \in S
  <2>1. K \in 1 .. K  BY <1>1
  <2>2. Distance(Pos, l[i]) < Distance(Pos, n)
    BY <2>1, <1>1, <1>3, <1>7, <1>9, <1>11, BehindPos, Zenon
  <2> QED  BY <2>2, <1>9, Zenon
<1>13. Cardinality(1 .. K) = K  BY <1>1, FS_Interval
<1>14. IsFiniteSet(S) /\ Cardinality(S) \in Nat
  <2>1. S \in SUBSET Live  BY Zenon
  <2> HIDE DEF S
  <2> QED  BY <2>1, <1>3, FS_Subset, FS_CardinalityType, Zenon
<1> DEFINE f == [i \in 1 .. K |-> l[i]]
<1>15. f \in Injection(1 .. K, S)
  <2>1. f \in [1 .. K -> S]
    <3> HIDE DEF S
    <3> QED  BY <1>12, Zenon
  <2>2. \A i, j \in 1 .. K : l[i] = l[j] => i = j
    <3> TAKE i, j \in 1 .. K
    <3>1. i < j \/ j < i \/ i = j  BY <1>1
    <3> QED  BY <3>1, <1>6, Zenon
  <2> QED  BY <2>1, <2>2, Zenon DEF Injection, IsInjective
<1> HIDE DEF f, S
<1>16. Cardinality(1 .. K) <= Cardinality(S)  BY <1>14, <1>15, FS_Injection, Zenon
<1>17. ~(Cardinality(S) < K)  BY <1>1, <1>13, <1>14, <1>16
<1> QED  BY <1>17, Zenon DEF Owners, S

\* A step that takes a copy away changes the membership, or is a pruning pass.
LEMMA StepKeepsOwners ==
    ASSUME KeptInv, ListsInv, [Next]_vars, Settled, status' = status
    PROVE  holds \cap Owners \subseteq holds'
<1>1. \A n, t : holds \subseteq pushBlocksChunked(n, t)  BY Zenon DEF pushBlocksChunked
<1>2. status \in [Nodes -> {"out", "joining", "up", "leaving", "down"}]  BY Zenon DEF KeptInv
<1>3. CASE UNCHANGED vars  BY <1>3, Zenon DEF vars
<1>4. ASSUME NEW n \in Nodes, Loop(n) PROVE holds' = holds
  BY <1>4, Zenon DEF Loop, stabilize, tryReconnect, handleSuccessorFailure
<1>5. ASSUME NEW n \in Nodes, Round(n) \/ Jobs(n) PROVE holds \subseteq holds'
  BY <1>1, <1>5, Zenon DEF Round, replicateToNewSuccessors, PushRound, Jobs, RunJob
<1>6. ASSUME NEW n \in Nodes,
             \/ checkPredecessor(n)
             \/ \E d \in Nodes : evictNode(n, d)
             \/ \E t \in Nodes : PushRoundFails(n, t)
             \/ ReplyLost(n)
      PROVE  holds' = holds
  BY <1>6, Zenon DEF checkPredecessor, evictNode, PushRoundFails, ReplyLost
<1>7. ASSUME NEW n \in Nodes, Leave(n) \/ PutFanOut(n) \/ \E refused \in SUBSET Nodes : Put(n, refused)
      PROVE  holds \subseteq holds'
  BY <1>7, Zenon DEF Leave, PutFanOut, Put
<1>8. ASSUME NEW n \in Nodes, (\E m \in Nodes : Join(n, m)) \/ Member(n) \/ Crash(n)
      PROVE  FALSE
  <2>1. \/ status[n] = "out" /\ status' = [status EXCEPT ![n] = "joining"]
        \/ status[n] = "joining" /\ status' = [status EXCEPT ![n] = "up"]
        \/ status[n] = "leaving" /\ status' = [status EXCEPT ![n] = "down"]
        \/ status[n] \in {"joining", "up"} /\ status' = [status EXCEPT ![n] = "down"]
    BY <1>8, Zenon DEF Join, Member, JoinDone, Stop, Crash
  <2>2. \/ status[n] = "out" /\ status'[n] = "joining"
        \/ status[n] = "joining" /\ status'[n] = "up"
        \/ status[n] = "leaving" /\ status'[n] = "down"
        \/ status[n] \in {"joining", "up"} /\ status'[n] = "down"
    BY <2>1, <1>2, Zenon
  <2> QED  BY <2>2
<1>9. ASSUME NEW n \in Nodes, PruneOutOfWindowBlocks(n) PROVE holds \cap Owners \subseteq holds'
  <2>1. n \notin Owners  BY <1>9, PrunedIsNoOwner, Zenon
  <2>2. holds' = holds \ {n}  BY <1>9, Zenon DEF PruneOutOfWindowBlocks
  <2> QED  BY <2>1, <2>2, Zenon
<1>10. ASSUME NEW j \in jobs, JobFails(j) PROVE holds' = holds  BY <1>10, Zenon DEF JobFails
<1> QED  BY <1>3, <1>4, <1>5, <1>6, <1>7, <1>8, <1>9, <1>10, Zenon DEF Next

\* Pruning takes the block from none of its K owners while the predecessor lists show
\* the live nodes, and no other step takes it from a node without a change of
\* membership (PruneOutOfWindowBlocks in dht/node.go).
THEOREM PruningKeepsOwners == Spec => SettledKeeps
<1>1. KeptInv /\ ListsInv /\ [Next]_vars =>
        [Settled /\ status' = status => holds \cap Owners \subseteq holds']_vars
  BY StepKeepsOwners, Zenon
<1> QED  BY <1>1, InitKept, NextKept, InitLists, NextLists, PTL DEF Spec, SettledKeeps
=============================================================================
