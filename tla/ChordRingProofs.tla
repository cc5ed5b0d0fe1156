-------------------------- MODULE ChordRingProofs --------------------------
(***************************************************************************)
(* Who replaces whom as predecessor, in a ring of any number of nodes that *)
(* join, form rings of their own, leave, crash and lose sight of another.  *)
(***************************************************************************)
EXTENDS RingFormation, TLAPS

\* The pointer of each node, set or not.
PointersOK == predecessor = [n \in Nodes |-> predecessor[n]]

\* What a step may do to the predecessor of n.
Replaces(n) ==
    predecessor[n] # Nil /\ predecessor'[n] # Nil /\ predecessor'[n] # predecessor[n] /\ Reach(n, predecessor[n])
      => BetweenExclusive(predecessor'[n], predecessor[n], n) \/ status[predecessor[n]] = "leaving"

LEMMA PointersStart == FInit => PointersOK
BY Zenon DEF FInit, Init, PointersOK

\* A step that sets one pointer.
Sets(s, p) == predecessor' = [predecessor EXCEPT ![s] = p]

LEMMA SetPointer ==
    ASSUME PointersOK, NEW s, NEW p, Sets(s, p)
    PROVE  /\ PointersOK'
           /\ \A n \in Nodes : predecessor'[n] = IF n = s THEN p ELSE predecessor[n]
<1>1. DOMAIN predecessor = Nodes  BY Zenon DEF PointersOK
<1>2. predecessor' = [n \in Nodes |-> IF n = s THEN p ELSE predecessor[n]]  BY <1>1 DEF Sets
<1>3. \A n \in Nodes : predecessor'[n] = IF n = s THEN p ELSE predecessor[n]  BY <1>2, Zenon
<1> QED  BY <1>2, <1>3, Zenon DEF PointersOK

\* A pointer that is not set anew, or is cleared.
LEMMA KeepPointer ==
    ASSUME PointersOK, \/ predecessor' = predecessor
                       \/ \E n : predecessor' = [predecessor EXCEPT ![n] = Nil]
    PROVE  PointersOK' /\ \A n \in Nodes : Replaces(n)
<1>1. CASE predecessor' = predecessor  BY <1>1, Zenon DEF PointersOK, Replaces
<1>2. ASSUME NEW s, predecessor' = [predecessor EXCEPT ![s] = Nil]
      PROVE  PointersOK' /\ \A n \in Nodes : Replaces(n)
  <2>1. Sets(s, Nil)  BY <1>2, Zenon DEF Sets
  <2> QED  BY <2>1, SetPointer, Zenon DEF Replaces
<1> QED  BY <1>1, <1>2, Zenon

\* notify, before and after the ping: a caller that is closer, or a predecessor that does not answer.
LEMMA NotifyPointer ==
    ASSUME PointersOK, NEW t, notify(t) \/ notifyStale(t)
    PROVE  PointersOK' /\ \A n \in Nodes : Replaces(n)
<1> DEFINE c == Host[t]
           s == loc[t].succ
<1>1. CASE predecessor' = predecessor  BY <1>1, KeepPointer, Zenon
<1>2. ASSUME predecessor' = [predecessor EXCEPT ![s] = c],
             \/ predecessor[s] = Nil
             \/ BetweenExclusive(c, predecessor[s], s)
             \/ ~Reach(s, predecessor[s])
      PROVE  PointersOK' /\ \A n \in Nodes : Replaces(n)
  <2>1. PointersOK' /\ \A n \in Nodes : predecessor'[n] = IF n = s THEN c ELSE predecessor[n]
    <3>1. Sets(s, c)  BY <1>2, Zenon DEF Sets
    <3> QED  BY <3>1, SetPointer, Zenon
  <2>2. ASSUME NEW n \in Nodes PROVE Replaces(n)
    <3>1. CASE n = s  BY <1>2, <2>1, <3>1, Zenon DEF Replaces
    <3>2. CASE n # s  BY <2>1, <3>2, Zenon DEF Replaces
    <3> QED  BY <3>1, <3>2, Zenon
  <2> QED  BY <2>1, <2>2, Zenon
<1>3. CASE notify(t)
  <2>1. \/ predecessor' = predecessor
        \/ /\ predecessor' = [predecessor EXCEPT ![s] = c]
           /\ predecessor[s] = Nil \/ BetweenExclusive(c, predecessor[s], s)
    BY <1>3, Zenon DEF notify
  <2> QED  BY <1>1, <1>2, <2>1, Zenon
<1>4. CASE notifyStale(t)
  <2>1. \/ predecessor' = predecessor
        \/ /\ predecessor' = [predecessor EXCEPT ![s] = c]
           /\ ~Reach(s, loc[t].stale)
           /\ predecessor[s] \in {Nil, loc[t].stale} \/ BetweenExclusive(c, predecessor[s], s)
    BY <1>4, Zenon DEF notifyStale
  <2>2. predecessor[s] \in {Nil, loc[t].stale} => predecessor[s] = Nil \/ predecessor[s] = loc[t].stale  BY Zenon
  <2> QED  BY <1>1, <1>2, <2>1, <2>2, Zenon
<1> QED  BY <1>3, <1>4, Zenon

\* handleNotifyLeave: the leaver gives way to its own predecessor.
LEMMA LeavePointer ==
    ASSUME PointersOK, NEW l, NEW step, LeaveNotify(l, step)
    PROVE  PointersOK' /\ \A n \in Nodes : Replaces(n)
<1>1. CASE predecessor' = predecessor  BY <1>1, KeepPointer, Zenon
<1>2. ASSUME NEW m, NEW q, predecessor[m] = l, predecessor' = [predecessor EXCEPT ![m] = q]
      PROVE  PointersOK' /\ \A n \in Nodes : Replaces(n)
  <2>1. PointersOK' /\ \A n \in Nodes : predecessor'[n] = IF n = m THEN q ELSE predecessor[n]
    <3>1. Sets(m, q)  BY <1>2, Zenon DEF Sets
    <3> QED  BY <3>1, SetPointer, Zenon
  <2>2. status[l] = "leaving"  BY Zenon DEF LeaveNotify
  <2> QED  BY <1>2, <2>1, <2>2, Zenon DEF Replaces
<1>3. \/ predecessor' = predecessor
      \/ \E m, q : predecessor[m] = l /\ predecessor' = [predecessor EXCEPT ![m] = q]
  BY Zenon DEF LeaveNotify, handleNotifyLeave
<1> QED  BY <1>1, <1>2, <1>3, Zenon

LEMMA NextPointer ==
    ASSUME PointersOK, [FNext]_fvars
    PROVE  PointersOK' /\ \A n \in Nodes : Replaces(n)
<1>1. ASSUME NEW n \in Nodes, StartServer(n) \/ Create(n) PROVE \E m : predecessor' = [predecessor EXCEPT ![m] = Nil]
  BY <1>1, Zenon DEF StartServer, Create
<1>2. ASSUME NEW n \in Nodes,
             \/ PublishSelf(n) \/ UpdateGroupRecord(n) \/ LookupGroup(n) \/ TryMember(n) \/ Seed(n)
             \/ FCrash(n) \/ Leave(n) \/ Stop(n)
      PROVE  predecessor' = predecessor
  BY <1>2, Zenon DEF PublishSelf, UpdateGroupRecord, LookupGroup, TryMember, Seed, FCrash, Crash, Leave, Stop,
                     vars, ptrs
<1>3. ASSUME NEW n, NEW m, Join(n, m) \/ evictNode(n, m) PROVE predecessor' = predecessor
  BY <1>3, Zenon DEF Join, evictNode
<1>4. ASSUME NEW S, Split(S) \/ Heal PROVE predecessor' = predecessor  BY <1>4, Zenon DEF Split, Heal, ptrs
<1>5. ASSUME NEW t \in Tasks,
             \/ StartRound(t) \/ AskPredecessor(t) \/ handleSuccessorFailure(t) \/ AdoptSuccessor(t)
             \/ tryReconnect(t) \/ refreshSuccessorList(t) \/ refreshPredecessorList(t)
      PROVE  predecessor' = predecessor
  BY <1>5, Zenon DEF StartRound, AskPredecessor, handleSuccessorFailure, AdoptSuccessor, tryReconnect,
                     refreshSuccessorList, refreshPredecessorList, ptrs
<1>6. ASSUME NEW t \in Tasks, checkPredecessor(t)
      PROVE  predecessor' = predecessor \/ \E m : predecessor' = [predecessor EXCEPT ![m] = Nil]
  BY <1>6, Zenon DEF checkPredecessor
<1>7. CASE UNCHANGED fvars  BY <1>7, KeepPointer, Zenon DEF fvars, vars, ptrs
<1>8. CASE \E n \in Nodes : StartServer(n) \/ Forming(n) \/ FCrash(n)
  BY <1>1, <1>2, <1>8, KeepPointer, Zenon DEF Forming
<1>9. CASE \E t \in Tasks : Step(t)  BY <1>5, <1>6, <1>9, KeepPointer, NotifyPointer, Zenon DEF Step
<1>10. CASE \E n \in Nodes : Leave(n) \/ Depart(n)  BY <1>2, <1>10, KeepPointer, LeavePointer, Zenon DEF Depart
<1>11. CASE \E n, m \in Nodes : Join(n, m) \/ evictNode(n, m)  BY <1>3, <1>11, KeepPointer, Zenon
<1>12. CASE (\E S \in SUBSET Members : Split(S)) \/ Heal  BY <1>4, <1>12, KeepPointer, Zenon
<1> QED  BY <1>7, <1>8, <1>9, <1>10, <1>11, <1>12, Zenon DEF FNext

\* A predecessor that answers is replaced only by a node that is closer or because it is leaving, whichever
\* way notify, its ping, checkPredecessor, handleNotifyLeave and the start of a ring interleave on any number
\* of nodes; a notify that has pinged a node that is gone never acts on another one that came meanwhile.
THEOREM PredecessorOnlyCloser == FSpec => PredecessorMonotone
<1> DEFINE Mono == [\A n \in Nodes :
                      LET old == predecessor[n]
                          new == predecessor'[n]
                      IN old # Nil /\ new # Nil /\ new # old /\ Reach(n, old)
                           => BetweenExclusive(new, old, n) \/ status[old] = "leaving"]_vars
<1>1. FInit => PointersOK  BY PointersStart
<1>2. PointersOK /\ [FNext]_fvars => PointersOK'  BY NextPointer, Zenon
<1>3. PointersOK /\ [FNext]_fvars => Mono  BY NextPointer, Zenon DEF Replaces
<1> QED  BY <1>1, <1>2, <1>3, PTL DEF FSpec, PredecessorMonotone
============================================================================
