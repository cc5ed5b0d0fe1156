---------------------- MODULE NetworkBlockStoreProofs ----------------------
(***************************************************************************)
(* The store of ring blocks, for any number of keys, rings, roots and      *)
(* goroutines.  Whatever they call, it stays within storageMax and the     *)
(* collector spares the blocks that were rooted when it marked.  As long   *)
(* as the operations known to break them stay away, the aggregate counter  *)
(* accounts for every byte, no ring exceeds its quota, and the counters of *)
(* a ring account for the blocks its index lists.                          *)
(***************************************************************************)
EXTENDS NetworkBlockStore, FiniteSetTheorems, TLAPS

LEMMA ClampNat == \A n \in Int : Clamp(n) \in Nat /\ (n >= 0 => Clamp(n) = n) /\ (n < 0 => Clamp(n) = 0)
  BY DEF Clamp

LEMMA NoArgType == NoArg \in Args
  BY NoneAssumption, Zenon DEF NoArg, Args

LEMMA GcIdleType == GcIdle \in GcState /\ GcIdle.pc = "idle"
  BY NoneAssumption, Zenon DEF GcIdle, GcState

\* A worker that moves to a step with the arguments the step needs.
LEMMA EnterType ==
    ASSUME LocalsOK, NEW w \in Workers, NEW step \in Steps, NEW a \in Args,
           HasArgs(step, a), Enter(w, step, a)
    PROVE  LocalsOK'
<1>1. pc' \in [Workers -> Steps] /\ arg' \in [Workers -> Args]
  BY Zenon DEF LocalsOK, Enter
<1>2. \A v \in Workers : pc'[v] = (IF v = w THEN step ELSE pc[v])
                      /\ arg'[v] = (IF v = w THEN a ELSE arg[v])
  BY Zenon DEF LocalsOK, Enter
<1>3. \A v \in Workers : HasArgs(pc'[v], arg'[v])
  BY <1>2, Zenon DEF LocalsOK
<1> QED BY <1>1, <1>3, Zenon DEF LocalsOK

\* An operation that returns.
LEMMA ReturnType ==
    ASSUME LocalsOK, NEW w \in Workers, Return(w)
    PROVE  LocalsOK'
<1>1. HasArgs("idle", NoArg) /\ "idle" \in Steps
  BY Zenon DEF HasArgs, Steps
<1> QED BY <1>1, NoArgType, EnterType, Zenon DEF Return

\* A worker that moves on with the arguments it has.
LEMMA GotoType ==
    ASSUME LocalsOK, NEW w \in Workers, NEW step \in Steps,
           HasArgs(step, arg[w]), Goto(w, step)
    PROVE  LocalsOK'
<1>1. Enter(w, step, arg[w]) /\ arg[w] \in Args
  BY Zenon DEF Enter, Goto, LocalsOK
<1> QED BY <1>1, EnterType, Zenon

\* The entries a removal leaves protected are entries of the index.
LEMMA RetainType ==
    ASSUME StoreOK, NEW idx, NEW rts
    PROVE  /\ Retain(idx, rts) \in SUBSET (Rings \X Keys \X Roots)
           /\ Retain(idx, rts) \subseteq protected \cap idx
  BY Zenon DEF StoreOK, Retain

\* What a worker starts: Put, PutWithRoot, AddBlockRootIndex, AddRootWithExpiry,
\* Delete, DropBlock, RemoveRoot and SetQuota.
LEMMA CallType ==
    ASSUME TypeOK, NEW w \in Workers, Call(w)
    PROVE  TypeOK'
<1> USE DEF TypeOK
<1>s. {"idle", "ring", "write", "link", "root", "freed", "drop", "unlink", "quota"} \subseteq Steps
  BY Zenon DEF Steps
<1>1. ASSUME NEW k \in Keys, Put(w, k) PROVE TypeOK'
  <2> DEFINE a == [NoArg EXCEPT !.key = k]
  <2>1. a \in Args /\ HasArgs("write", a)
    BY NoneAssumption, Zenon DEF NoArg, Args, HasArgs
  <2>2. LocalsOK'
    BY <1>1, <1>s, <2>1, EnterType, Zenon DEF Put
  <2>3. used' \in Nat
    BY <1>1, SizeAssumption DEF Put, CountersOK
  <2> QED BY <1>1, <2>2, <2>3, Zenon DEF Put, StoreOK, CountersOK, GcOK, meta
<1>2. ASSUME NEW k \in Keys, Delete(w, k) PROVE TypeOK'
  <2> DEFINE a == [NoArg EXCEPT !.key = k]
  <2>1. a \in Args /\ HasArgs("freed", a)
    BY NoneAssumption, Zenon DEF NoArg, Args, HasArgs
  <2>2. LocalsOK'
    BY <1>2, <1>s, <2>1, EnterType, Zenon DEF Delete
  <2> QED BY <1>2, <2>2, Zenon DEF Delete, StoreOK, CountersOK, GcOK, meta, counters
<1>3. ASSUME NEW k \in Keys, NEW r \in Rings, DropQuery(w, k, r) PROVE TypeOK'
  <2>1. PICK S \in SUBSET Roots : S = RootsForBlock(r, k)
    BY Zenon DEF RootsForBlock
  <2> DEFINE a == [NoArg EXCEPT !.key = k, !.ring = r, !.snap = S]
  <2>2. a \in Args /\ HasArgs("drop", a)
    BY <2>1, NoneAssumption, Zenon DEF NoArg, Args, HasArgs
  <2>3. LocalsOK'
    BY <1>3, <1>s, <2>1, <2>2, EnterType, Zenon DEF DropQuery
  <2> QED BY <1>3, <2>3, Zenon DEF DropQuery, StoreOK, CountersOK, GcOK, meta, counters
<1>4. ASSUME NEW r \in Rings, NEW x \in Roots, AddRootWithExpiry(w, r, x) PROVE TypeOK'
  <2>1. roots' \in [Rings -> [Roots -> {"absent", "live", "expired"}]] /\ known' \in SUBSET Rings
    BY <1>4, Zenon DEF AddRootWithExpiry, StoreOK
  <2> QED BY <1>4, <2>1, Zenon DEF AddRootWithExpiry, StoreOK, CountersOK, LocalsOK, GcOK, counters, locals
<1>5. ASSUME NEW r \in Rings, NEW x \in Roots, RemoveRoot(w, r, x) PROVE TypeOK'
  <2> DEFINE S == {k \in Keys : <<r, k, x>> \in index}
             a == [NoArg EXCEPT !.ring = r, !.root = x, !.snap = S]
  <2>1. a \in Args /\ HasArgs("unlink", a)
    BY NoneAssumption, Zenon DEF NoArg, Args, HasArgs
  <2>2. LocalsOK'
    BY <1>5, <1>s, <2>1, EnterType, Zenon DEF RemoveRoot
  <2>3. roots' \in [Rings -> [Roots -> {"absent", "live", "expired"}]]
    BY <1>5, Zenon DEF RemoveRoot, StoreOK
  <2>4. protected' \in SUBSET (Rings \X Keys \X Roots)
    BY <1>5, RetainType DEF RemoveRoot
  <2> QED BY <1>5, <2>2, <2>3, <2>4, Zenon DEF RemoveRoot, StoreOK, CountersOK, GcOK, counters
<1>6. ASSUME NEW k \in Keys, NEW r \in Rings, NEW x \in Roots, PutWithRoot(w, k, r, x) PROVE TypeOK'
  <2>0. PICK b \in BOOLEAN : b = (k \in blocks)
    <3>1. CASE k \in blocks
      <4>1. TRUE = (k \in blocks)
        BY <3>1, Zenon
      <4> QED BY <4>1, Zenon
    <3>2. CASE k \notin blocks
      <4>1. FALSE = (k \in blocks)
        BY <3>2
      <4> QED BY <4>1, Zenon
    <3> QED BY <3>1, <3>2, Zenon
  <2> DEFINE a == [NoArg EXCEPT !.key = k, !.ring = r, !.root = x, !.has = b]
  <2>1. a \in Args /\ HasArgs("ring", a)
    BY NoneAssumption, Zenon DEF NoArg, Args, HasArgs
  <2>2. LocalsOK'
    BY <1>6, <1>s, <2>0, <2>1, EnterType, Zenon DEF PutWithRoot
  <2>3. used' \in Nat
    BY <1>6, SizeAssumption DEF PutWithRoot, CountersOK
  <2> QED BY <1>6, <2>2, <2>3, Zenon DEF PutWithRoot, StoreOK, CountersOK, GcOK, meta
<1>7. ASSUME NEW k \in Keys, NEW r \in Rings, NEW x \in Roots, AddBlockRootIndex(w, k, r, x) PROVE TypeOK'
  <2>1. ringUsed' \in [Rings -> Nat] /\ ringCount' \in [Rings -> Nat]
    BY <1>7, SizeAssumption DEF AddBlockRootIndex, CountersOK
  <2>2. index' \in SUBSET (Rings \X Keys \X Roots) /\ known' \in SUBSET Rings
    BY <1>7 DEF AddBlockRootIndex, StoreOK
  <2> QED BY <1>7, <2>1, <2>2, Zenon DEF AddBlockRootIndex, StoreOK, CountersOK, LocalsOK, GcOK, locals
<1>8. ASSUME NEW r \in Rings, NEW m \in Quotas, CheckQuota(w, r, m) PROVE TypeOK'
  <2> DEFINE a == [NoArg EXCEPT !.ring = r, !.max = m]
  <2>1. a \in Args /\ HasArgs("quota", a)
    BY NoneAssumption, MaxAssumption, Zenon DEF NoArg, Args, HasArgs
  <2>2. LocalsOK'
    BY <1>8, <1>s, <2>1, EnterType, Zenon DEF CheckQuota
  <2> QED BY <1>8, <2>2, Zenon DEF CheckQuota, StoreOK, CountersOK, GcOK, meta, counters
<1> QED BY <1>1, <1>2, <1>3, <1>4, <1>5, <1>6, <1>7, <1>8, Zenon DEF Call

\* removeBlockRootEntries, of a worker or of the collector.
LEMMA UnlinkType ==
    ASSUME TypeOK, NEW r \in Rings, NEW x \in Roots, NEW S \in SUBSET Keys,
           removeBlockRootEntries(r, x, S)
    PROVE  /\ index' \in SUBSET (Rings \X Keys \X Roots)
           /\ ringUsed' \in [Rings -> Nat] /\ ringCount' \in [Rings -> Nat]
           /\ protected' \in SUBSET (Rings \X Keys \X Roots)
<1> DEFINE gone == {k \in S \cap blocks : RootsForBlock(r, k) \subseteq {x}}
<1>1. gone \in SUBSET Keys
  BY Zenon
<1>2. Weight[gone] \in Nat /\ Cardinality(gone) \in Nat
  <2>1. IsFiniteSet(gone)
    BY <1>1, FiniteAssumption, FS_Subset, Zenon
  <2> HIDE DEF gone
  <2> QED BY <1>1, <2>1, WeightAssumption, FS_CardinalityType, Zenon
<1>3. /\ ringUsed' = [ringUsed EXCEPT ![r] = Clamp(@ - Weight[gone])]
      /\ ringCount' = [ringCount EXCEPT ![r] = Clamp(@ - Cardinality(gone))]
  BY Zenon DEF removeBlockRootEntries
<1> HIDE DEF gone
<1>4. ringUsed' \in [Rings -> Nat] /\ ringCount' \in [Rings -> Nat]
  BY <1>2, <1>3, ClampNat DEF TypeOK, CountersOK
<1>5. index' \subseteq index /\ protected' = Retain(index', roots)
  BY Zenon DEF removeBlockRootEntries
<1> QED BY <1>4, <1>5, RetainType, Zenon DEF TypeOK, StoreOK

\* The later steps of the operations of a worker.
LEMMA WorkerType ==
    ASSUME TypeOK, NEW w \in Workers, WorkerStep(w)
    PROVE  TypeOK'
<1> USE DEF TypeOK
<1>s. {"idle", "ring", "write", "count", "link", "root", "freed", "drop", "unlink", "quota"} \subseteq Steps
  BY Zenon DEF Steps
<1>w. arg[w] \in Args /\ pc[w] \in Steps /\ HasArgs(pc[w], arg[w])
  BY Zenon DEF LocalsOK
<1>1. CASE ReserveInRing(w)
  <2>1. PICK b \in BOOLEAN : b = ~ringHasBlock(arg[w].ring, arg[w].key)
    <3>1. CASE ringHasBlock(arg[w].ring, arg[w].key)
      <4>1. FALSE = ~ringHasBlock(arg[w].ring, arg[w].key)
        BY <3>1, Zenon
      <4> QED BY <4>1, Zenon
    <3>2. CASE ~ringHasBlock(arg[w].ring, arg[w].key)
      <4>1. TRUE = ~ringHasBlock(arg[w].ring, arg[w].key)
        BY <3>2, Zenon
      <4> QED BY <4>1, Zenon
    <3> QED BY <3>1, <3>2, Zenon
  <2>2. arg[w].key \in Keys /\ arg[w].ring \in Rings /\ arg[w].root \in Roots
    BY <1>1, <1>w, Zenon DEF ReserveInRing, HasArgs
  <2> DEFINE a == [arg[w] EXCEPT !.adding = b]
             step == IF arg[w].has THEN "link" ELSE "write"
  <2>3. a \in Args /\ a.key = arg[w].key /\ a.ring = arg[w].ring /\ a.root = arg[w].root
    BY <1>w, Zenon DEF Args
  <2>4. HasArgs(step, a) /\ step \in Steps
    <3> HIDE DEF a
    <3> QED BY <1>s, <2>2, <2>3, Zenon DEF HasArgs
  <2>5. Enter(w, step, a)
    BY <1>1, <2>1, Zenon DEF ReserveInRing
  <2> HIDE DEF a, step
  <2>6. LocalsOK'
    BY <2>3, <2>4, <2>5, EnterType, Zenon
  <2>7. ringUsed' \in [Rings -> Nat]
    BY <1>1, <2>2, SizeAssumption DEF ReserveInRing, CountersOK
  <2> QED BY <1>1, <2>6, <2>7, Zenon DEF ReserveInRing, StoreOK, CountersOK, GcOK, meta
<1>2. CASE RingFull(w)
  <2>1. Size[arg[w].key] \in Nat
    BY <1>2, <1>w, SizeAssumption, Zenon DEF RingFull, HasArgs
  <2>2. used' \in Nat
    BY <1>2, <2>1, ClampNat DEF RingFull, CountersOK
  <2>3. LocalsOK'
    BY <1>2, ReturnType, Zenon DEF RingFull
  <2> QED BY <1>2, <2>2, <2>3, Zenon DEF RingFull, StoreOK, CountersOK, GcOK, meta
<1>3. CASE WriteBlock(w)
  <2>1. HasArgs("count", arg[w]) /\ arg[w].key \in Keys
    BY <1>3, <1>w, Zenon DEF WriteBlock, HasArgs
  <2>2. LocalsOK'
    BY <1>3, <1>s, <2>1, GotoType, Zenon DEF WriteBlock
  <2> QED BY <1>3, <2>1, <2>2, Zenon DEF WriteBlock, StoreOK, CountersOK, GcOK, meta, counters
<1>4. CASE WriteFails(w)
  <2>1. Size[arg[w].key] \in Nat
    BY <1>4, <1>w, SizeAssumption, Zenon DEF WriteFails, HasArgs
  <2>2. used' \in Nat /\ ringUsed' \in [Rings -> Nat]
    <3>1. used' \in Nat
      BY <1>4, <2>1, ClampNat DEF WriteFails, CountersOK
    <3>2. CASE arg[w].adding
      <4>1. arg[w].ring \in Rings
        BY <1>4, <1>w, <3>2, Zenon DEF WriteFails, HasArgs
      <4> QED BY <1>4, <2>1, <3>1, <3>2, <4>1, ClampNat DEF WriteFails, CountersOK
    <3>3. CASE ~arg[w].adding
      BY <1>4, <3>1, <3>3, Zenon DEF WriteFails, CountersOK
    <3> QED BY <3>2, <3>3, Zenon
  <2>3. LocalsOK'
    BY <1>4, ReturnType, Zenon DEF WriteFails
  <2> QED BY <1>4, <2>2, <2>3, Zenon DEF WriteFails, StoreOK, CountersOK, GcOK, meta
<1>5. CASE CountBlock(w)
  <2>1. LocalsOK'
    <3>1. CASE arg[w].root = None
      BY <1>5, <3>1, ReturnType, Zenon DEF CountBlock
    <3>2. CASE arg[w].root # None
      <4>1. HasArgs("link", arg[w])
        BY <1>5, <1>w, <3>2, Zenon DEF CountBlock, HasArgs
      <4> QED BY <1>5, <1>s, <3>2, <4>1, GotoType, Zenon DEF CountBlock
    <3> QED BY <3>1, <3>2, Zenon
  <2>2. count' \in Nat
    BY <1>5 DEF CountBlock, CountersOK
  <2> QED BY <1>5, <2>1, <2>2, Zenon DEF CountBlock, StoreOK, CountersOK, GcOK, meta
<1>6. CASE LinkBlock(w)
  <2>1. /\ HasArgs("root", arg[w])
        /\ arg[w].key \in Keys /\ arg[w].ring \in Rings /\ arg[w].root \in Roots
    BY <1>6, <1>w, Zenon DEF LinkBlock, HasArgs
  <2>2. LocalsOK'
    BY <1>6, <1>s, <2>1, GotoType, Zenon DEF LinkBlock
  <2>3. ringCount' \in [Rings -> Nat]
    BY <1>6, <2>1 DEF LinkBlock, CountersOK
  <2>4. index' \in SUBSET (Rings \X Keys \X Roots)
    BY <1>6, <2>1 DEF LinkBlock, StoreOK
  <2> QED BY <1>6, <2>2, <2>3, <2>4, Zenon DEF LinkBlock, StoreOK, CountersOK, GcOK
<1>7. CASE LinkRoot(w)
  <2>1. arg[w].ring \in Rings /\ arg[w].root \in Roots
    BY <1>7, <1>w, Zenon DEF LinkRoot, HasArgs
  <2>2. LocalsOK'
    BY <1>7, ReturnType, Zenon DEF LinkRoot
  <2>3. roots' \in [Rings -> [Roots -> {"absent", "live", "expired"}]] /\ known' \in SUBSET Rings
    BY <1>7, <2>1, Zenon DEF LinkRoot, StoreOK
  <2> QED BY <1>7, <2>2, <2>3, Zenon DEF LinkRoot, StoreOK, CountersOK, GcOK, counters
<1>8. CASE DeleteDone(w)
  <2>1. Size[arg[w].key] \in Nat
    BY <1>8, <1>w, SizeAssumption, Zenon DEF DeleteDone, HasArgs
  <2>2. used' \in Nat /\ count' \in Nat
    BY <1>8, <2>1, ClampNat DEF DeleteDone, CountersOK
  <2>3. LocalsOK'
    BY <1>8, ReturnType, Zenon DEF DeleteDone
  <2> QED BY <1>8, <2>2, <2>3, Zenon DEF DeleteDone, StoreOK, CountersOK, GcOK, meta
<1>9. CASE DropBlock(w)
  <2>1. Size[arg[w].key] \in Nat
    BY <1>9, <1>w, SizeAssumption, Zenon DEF DropBlock, HasArgs
  <2>2. ringUsed' \in [Rings -> Nat] /\ ringCount' \in [Rings -> Nat]
    BY <1>9, <2>1, ClampNat DEF DropBlock, CountersOK
  <2>3. index' \subseteq index /\ protected' \in SUBSET (Rings \X Keys \X Roots)
    BY <1>9, RetainType DEF DropBlock
  <2>4. LocalsOK'
    BY <1>9, ReturnType, Zenon DEF DropBlock
  <2> QED BY <1>9, <2>2, <2>3, <2>4, Zenon DEF DropBlock, StoreOK, CountersOK, GcOK
<1>10. CASE UnlinkRoot(w)
  <2>1. arg[w].ring \in Rings /\ arg[w].root \in Roots /\ arg[w].snap \in SUBSET Keys
    BY <1>10, <1>w, Zenon DEF UnlinkRoot, HasArgs
  <2>2. LocalsOK'
    BY <1>10, ReturnType, Zenon DEF UnlinkRoot
  <2>3. /\ index' \in SUBSET (Rings \X Keys \X Roots)
        /\ ringUsed' \in [Rings -> Nat] /\ ringCount' \in [Rings -> Nat]
        /\ protected' \in SUBSET (Rings \X Keys \X Roots)
    BY <1>10, <2>1, UnlinkType, Zenon DEF UnlinkRoot
  <2> QED BY <1>10, <2>2, <2>3, Zenon DEF UnlinkRoot, StoreOK, CountersOK, GcOK
<1>11. CASE StoreQuota(w)
  <2>1. arg[w].ring \in Rings /\ arg[w].max \in Nat
    BY <1>11, <1>w, Zenon DEF StoreQuota, HasArgs, Args
  <2>2. LocalsOK'
    BY <1>11, ReturnType, Zenon DEF StoreQuota
  <2>3. quota' \in [Rings -> Nat]
    BY <1>11, <2>1, Zenon DEF StoreQuota, CountersOK
  <2>4. disk' \in [used : Nat, count : Nat, ringUsed : [Rings -> Nat], ringCount : [Rings -> Nat],
                   quota : [Rings -> Nat], closed : BOOLEAN]
    BY <1>11, <2>1, Zenon DEF StoreQuota, CountersOK
  <2>5. known' \in SUBSET Rings
    BY <1>11, <2>1, Zenon DEF StoreQuota, StoreOK
  <2> QED BY <1>11, <2>2, <2>3, <2>4, <2>5, Zenon DEF StoreQuota, StoreOK, CountersOK, GcOK
<1> QED BY <1>1, <1>2, <1>3, <1>4, <1>5, <1>6, <1>7, <1>8, <1>9, <1>10, <1>11, Zenon DEF WorkerStep

\* The steps of the collector.
LEMMA GcType ==
    ASSUME TypeOK, GcStart \/ GcStep
    PROVE  TypeOK'
<1> USE DEF TypeOK
<1>g. gc \in GcState
  BY Zenon DEF GcOK
<1>1. CASE GcStart
  <2> DEFINE E == {t \in known \X Roots : roots[t[1]][t[2]] = "expired"}
  <2>1. E \in SUBSET (Rings \X Roots)
    BY Zenon DEF StoreOK
  <2>2. gc' = [GcIdle EXCEPT !.pc = "prune", !.expired = E]
    BY <1>1, Zenon DEF GcStart
  <2> HIDE DEF E
  <2>3. GcOK'
    BY <2>1, <2>2, GcIdleType, Zenon DEF GcOK, GcState
  <2> QED BY <1>1, <2>3, Zenon DEF GcStart, StoreOK, CountersOK, LocalsOK, meta, counters, locals
<1>2. ASSUME NEW r \in Rings, NEW x \in Roots, GcPrune(r, x) PROVE TypeOK'
  <2> DEFINE S == {k \in Keys : <<r, k, x>> \in index}
             E == gc.expired \ {<<r, x>>}
  <2>1. S \in SUBSET Keys /\ E \in SUBSET (Rings \X Roots)
    BY <1>g, Zenon DEF GcState
  <2>2. gc' = [gc EXCEPT !.pc = "unlink", !.cur = <<r, x>>, !.expired = E, !.rm = S]
    BY <1>2, Zenon DEF GcPrune
  <2> HIDE DEF S, E
  <2>3. GcOK'
    BY <1>g, <2>1, <2>2, Zenon DEF GcOK, GcState
  <2>4. roots' \in [Rings -> [Roots -> {"absent", "live", "expired"}]]
    BY <1>2, Zenon DEF GcPrune, StoreOK
  <2> QED BY <1>2, <2>3, <2>4, Zenon DEF GcPrune, StoreOK, CountersOK, LocalsOK, counters, locals
<1>3. CASE GcUnlink
  <2>1. gc.cur[1] \in Rings /\ gc.cur[2] \in Roots /\ gc.rm \in SUBSET Keys
    BY <1>3, <1>g, Zenon DEF GcUnlink, GcOK, GcState
  <2>2. /\ index' \in SUBSET (Rings \X Keys \X Roots)
        /\ ringUsed' \in [Rings -> Nat] /\ ringCount' \in [Rings -> Nat]
        /\ protected' \in SUBSET (Rings \X Keys \X Roots)
    BY <1>3, <2>1, UnlinkType, Zenon DEF GcUnlink
  <2>3. GcOK'
    BY <1>3, <1>g, Zenon DEF GcUnlink, GcOK, GcState
  <2> QED BY <1>3, <2>2, <2>3, Zenon DEF GcUnlink, StoreOK, CountersOK, LocalsOK, locals
<1>4. CASE GcMark
  <2>1. LiveRoots(known) \in SUBSET Roots
    BY Zenon DEF LiveRoots
  <2>2. GcOK'
    BY <1>4, <1>g, <2>1, Zenon DEF GcMark, GcOK, GcState, StoreOK
  <2>3. protected' \in SUBSET (Rings \X Keys \X Roots)
    BY <1>4, Zenon DEF GcMark, StoreOK
  <2> QED BY <1>4, <2>2, <2>3, Zenon DEF GcMark, StoreOK, CountersOK, LocalsOK, meta, counters, locals
<1>5. ASSUME NEW k \in Keys, GcCheck(k) PROVE TypeOK'
  <2>1. Size[k] \in Nat
    BY SizeAssumption, Zenon
  <2>2. GcOK'
    <3>1. PICK S \in SUBSET Keys : S = gc.seen \cup {k}
      BY <1>g, Zenon DEF GcState
    <3>2. CASE gc' = [gc EXCEPT !.seen = S]
      BY <1>5, <1>g, <3>1, <3>2 DEF GcCheck, GcOK, GcState
    <3>3. CASE \E n \in Nat : gc' = [gc EXCEPT !.seen = S, !.pc = "clean", !.key = k, !.size = n]
      <4>1. PICK n \in Nat : gc' = [gc EXCEPT !.seen = S, !.pc = "clean", !.key = k, !.size = n]
        BY <3>3, Zenon
      <4> QED BY <1>g, <3>1, <4>1, Zenon DEF GcOK, GcState
    <3> QED BY <1>5, <2>1, <3>1, <3>2, <3>3, Zenon DEF GcCheck
  <2> QED BY <1>5, <2>2, Zenon DEF GcCheck, StoreOK, CountersOK, LocalsOK, meta, counters, locals
<1>6. CASE GcClean
  <2>1. gc.size \in Nat
    BY <1>g, Zenon DEF GcState
  <2>2. ringUsed' \in [Rings -> Nat] /\ ringCount' \in [Rings -> Nat]
    BY <1>6, <2>1, ClampNat DEF GcClean, CountersOK
  <2>3. index' \subseteq index /\ protected' \in SUBSET (Rings \X Keys \X Roots)
    BY <1>6, RetainType, Zenon DEF GcClean
  <2>4. GcOK'
    BY <1>6, <1>g, Zenon DEF GcClean, GcOK, GcState
  <2> QED BY <1>6, <2>2, <2>3, <2>4, Zenon DEF GcClean, StoreOK, CountersOK, LocalsOK, locals
<1>7. CASE GcRemove
  <2>1. GcOK'
    <3>1. PICK b \in Nat, n \in Nat :
            gc' = [gc EXCEPT !.pc = "sweep", !.key = None, !.size = 0, !.bytes = b, !.blocks = n]
      <4>1. gc.bytes + gc.size \in Nat /\ gc.blocks + 1 \in Nat
        BY <1>g DEF GcState
      <4> QED BY <1>7, <4>1, Zenon DEF GcRemove
    <3> QED BY <1>g, <3>1, Zenon DEF GcOK, GcState
  <2> QED BY <1>7, <2>1, Zenon DEF GcRemove, StoreOK, CountersOK, LocalsOK, meta, counters, locals
<1>8. CASE GcRemoveFails
  <2>1. GcOK'
    BY <1>8, GcIdleType, Zenon DEF GcRemoveFails, GcOK
  <2> QED BY <1>8, <2>1, Zenon DEF GcRemoveFails, StoreOK, CountersOK, LocalsOK, meta, counters, locals
<1>9. CASE GcDone
  <2>1. GcOK'
    BY <1>9, GcIdleType, Zenon DEF GcDone, GcOK
  <2>2. used' \in Nat /\ count' \in Nat
    BY <1>9, <1>g, ClampNat DEF GcDone, CountersOK, GcState
  <2> QED BY <1>9, <2>1, <2>2, Zenon DEF GcDone, StoreOK, CountersOK, LocalsOK, meta, locals
<1> QED BY <1>1, <1>2, <1>3, <1>4, <1>5, <1>6, <1>7, <1>8, <1>9, Zenon DEF GcStep

LEMMA InitType == Init => TypeOK
<1> SUFFICES ASSUME Init PROVE TypeOK
  BY Zenon
<1>1. StoreOK
  BY Zenon DEF Init, StoreOK
<1>2. CountersOK
  BY MaxAssumption, Zenon DEF Init, CountersOK
<1>3. LocalsOK
  BY NoArgType, Zenon DEF Init, LocalsOK, Steps, HasArgs
<1>4. GcOK
  BY GcIdleType, Zenon DEF Init, GcOK
<1> QED BY <1>1, <1>2, <1>3, <1>4, Zenon DEF TypeOK

LEMMA NextType == TypeOK /\ [Next]_vars => TypeOK'
<1> SUFFICES ASSUME TypeOK, [Next]_vars PROVE TypeOK'
  BY Zenon
<1> USE DEF TypeOK
<1>1. ASSUME NEW w \in Workers, Call(w) \/ WorkerStep(w) PROVE TypeOK'
  BY <1>1, CallType, WorkerType, Zenon
<1>2. CASE GcStart \/ GcStep
  BY <1>2, GcType, Zenon
<1>3. ASSUME NEW r \in Rings, NEW x \in Roots, Expire(r, x) PROVE TypeOK'
  <2>1. roots' \in [Rings -> [Roots -> {"absent", "live", "expired"}]]
    BY <1>3, Zenon DEF Expire, StoreOK
  <2>2. protected' \in SUBSET (Rings \X Keys \X Roots)
    BY <1>3, RetainType DEF Expire
  <2> QED BY <1>3, <2>1, <2>2, Zenon DEF Expire, StoreOK, CountersOK, LocalsOK, GcOK, counters, locals
<1>4. ASSUME NEW r \in Rings, ForgetRing(r) PROVE TypeOK'
  <2>1. roots' \in [Rings -> [Roots -> {"absent", "live", "expired"}]]
    BY <1>4, Zenon DEF ForgetRing, StoreOK
  <2>2. protected' \in SUBSET (Rings \X Keys \X Roots)
    BY <1>4, RetainType DEF ForgetRing
  <2>3. disk' \in [used : Nat, count : Nat, ringUsed : [Rings -> Nat], ringCount : [Rings -> Nat],
                   quota : [Rings -> Nat], closed : BOOLEAN]
    BY <1>4, Zenon DEF ForgetRing, CountersOK
  <2>4. index' \subseteq index /\ known' \subseteq known
    BY <1>4, Zenon DEF ForgetRing
  <2>5. StoreOK' /\ CountersOK'
    BY <1>4, <2>1, <2>2, <2>3, <2>4, Zenon DEF ForgetRing, StoreOK, CountersOK, counters
  <2> QED BY <1>4, <2>5, Zenon DEF ForgetRing, LocalsOK, GcOK, locals
<1>5. CASE Close
  BY <1>5, Zenon DEF Close, flushRingCountersLocked, StoreOK, CountersOK, LocalsOK, GcOK, meta, counters, locals
<1>6. CASE Reopen
  <2>1. LocalsOK'
    BY <1>6, NoArgType, Zenon DEF Reopen, getRingCounters, LocalsOK, Steps, HasArgs
  <2>2. GcOK'
    BY <1>6, GcIdleType, Zenon DEF Reopen, getRingCounters, GcOK
  <2>3. CountersOK'
    BY <1>6, Zenon DEF Reopen, getRingCounters, CountersOK
  <2> QED BY <1>6, <2>1, <2>2, <2>3, Zenon DEF Reopen, getRingCounters, StoreOK, meta
<1>7. CASE UNCHANGED vars
  BY <1>7, Zenon DEF vars, StoreOK, CountersOK, LocalsOK, GcOK, meta, counters, locals
<1> QED BY <1>1, <1>2, <1>3, <1>4, <1>5, <1>6, <1>7, Zenon DEF Next

\* The state of the store keeps its type: a step has the key, the ring and the root
\* it works on, and no counter goes below zero (store/network_block_store.go).
THEOREM StoreTypeCorrect == Spec => []TypeOK
  BY InitType, NextType, PTL DEF Spec

----------------------------------------------------------------------------
\* The counter on disk is a past value of the one in memory: without it the
\* invariant would not survive a restart.
DiskCounterWithinMax == MaxBytes > 0 => disk.used <= MaxBytes

\* The aggregate counter never exceeds storageMax: reserveAggBytes tests and adds in
\* one compare-and-swap, every other step lowers the counter or takes it from
\* the last Close (store/network_block_store.go 95-109, 253-277).
THEOREM StoreWithinMax == Spec => []CounterWithinMax
<1> DEFINE IInv == CounterWithinMax /\ DiskCounterWithinMax
<1>1. Init => IInv
  BY MaxAssumption DEF Init, CounterWithinMax, DiskCounterWithinMax
<1>2. TypeOK /\ IInv /\ [Next]_vars => IInv'
  <2> SUFFICES ASSUME TypeOK, IInv, [Next]_vars, MaxBytes > 0
               PROVE  used' <= MaxBytes /\ disk'.used <= MaxBytes
    BY Zenon DEF CounterWithinMax, DiskCounterWithinMax
  <2> USE DEF CounterWithinMax, DiskCounterWithinMax
  <2>t. /\ MaxBytes \in Nat /\ used \in Nat /\ disk.used \in Nat
        /\ used <= MaxBytes /\ disk.used <= MaxBytes
    BY MaxAssumption, Zenon DEF TypeOK, CountersOK
  <2>c. ASSUME NEW n \in Nat PROVE Clamp(used - n) \in Nat /\ Clamp(used - n) <= used
    BY <2>t DEF Clamp
  <2>1. ASSUME NEW w \in Workers, Call(w)
        PROVE  used' <= MaxBytes /\ disk' = disk
    <3>1. ASSUME NEW k \in Keys, Put(w, k) PROVE used' <= MaxBytes /\ disk' = disk
      BY <3>1, <2>t, SizeAssumption DEF Put, reserveAggBytes
    <3>2. ASSUME NEW k \in Keys, NEW r \in Rings, NEW x \in Roots, PutWithRoot(w, k, r, x)
          PROVE  used' <= MaxBytes /\ disk' = disk
      BY <3>2, <2>t, SizeAssumption DEF PutWithRoot, reserveAggBytes
    <3> QED BY <2>1, <2>t, <3>1, <3>2, Zenon
            DEF Call, Delete, DropQuery, AddRootWithExpiry, RemoveRoot, AddBlockRootIndex,
                CheckQuota, counters
  <2>2. ASSUME NEW w \in Workers, WorkerStep(w)
        PROVE  used' <= used /\ disk'.used = disk.used
    <3>1. CASE RingFull(w) \/ WriteFails(w) \/ DeleteDone(w)
      <4>1. Size[arg[w].key] \in Nat
        BY <3>1, SizeAssumption, Zenon DEF RingFull, WriteFails, DeleteDone, TypeOK, LocalsOK, HasArgs
      <4>2. Clamp(used - Size[arg[w].key]) <= used
        BY <2>c, <4>1, Zenon
      <4> QED BY <3>1, <4>2, <2>t DEF RingFull, WriteFails, DeleteDone
    <3>2. CASE StoreQuota(w)
      BY <3>2, <2>t DEF StoreQuota, TypeOK, CountersOK
    <3> QED BY <2>2, <2>t, <3>1, <3>2
            DEF WorkerStep, ReserveInRing, WriteBlock, CountBlock, LinkBlock, LinkRoot, DropBlock,
                UnlinkRoot, counters
  <2>3. CASE GcStart \/ GcStep
    <3>1. CASE GcDone
      <4>1. gc.bytes \in Nat
        BY Zenon DEF TypeOK, GcOK, GcState
      <4>2. Clamp(used - gc.bytes) <= used /\ Clamp(used - gc.bytes) \in Nat
        BY <2>c, <4>1, Zenon
      <4> QED BY <3>1, <4>2, <2>t DEF GcDone
    <3> QED BY <2>3, <2>t, <3>1, Zenon
            DEF GcStart, GcStep, GcPrune, GcUnlink, GcMark, GcCheck, GcClean, GcRemove,
                GcRemoveFails, counters
  <2>4. ASSUME NEW r \in Rings, ForgetRing(r) PROVE used' = used /\ disk'.used = disk.used
    BY <2>4, Zenon DEF ForgetRing, TypeOK, CountersOK, counters
  <2>5. ASSUME NEW r \in Rings, NEW x \in Roots, Expire(r, x) PROVE used' = used /\ disk' = disk
    BY <2>5, Zenon DEF Expire, counters
  <2>6. CASE Close
    BY <2>6, <2>t, Zenon DEF Close, flushRingCountersLocked, counters
  <2>7. CASE Reopen
    BY <2>7, <2>t, Zenon DEF Reopen, getRingCounters, TypeOK, CountersOK
  <2>8. CASE UNCHANGED vars
    BY <2>8, <2>t, Zenon DEF vars, counters
  <2>u. used' \in Nat
    <3>1. TypeOK'
      BY NextType, Zenon
    <3> QED BY <3>1, Zenon DEF TypeOK, CountersOK
  <2> QED BY <2>t, <2>u, <2>1, <2>2, <2>3, <2>4, <2>5, <2>6, <2>7, <2>8 DEF Next
<1>3. IInv => CounterWithinMax
  BY Zenon
<1> QED BY <1>1, <1>2, <1>3, StoreTypeCorrect, PTL DEF Spec

----------------------------------------------------------------------------
\* What makes GcSparesMarked inductive: a live root belongs to a known ring, so the
\* mark sees it; between collections nothing is protected; and what is
\* protected is indexed, in a ring and under a root the collector holds.
MarkInv ==
    /\ \A r \in Rings, x \in Roots : roots[r][x] = "live" => r \in known
    /\ gc.pc \in {"idle", "prune", "unlink"} => protected = {}
    /\ \A t \in protected : t \in index /\ t[1] \in gc.rings /\ t[3] \in gc.live
    /\ GcSparesMarked

\* A step that leaves the collector alone and does not add to what is protected.
LEMMA MarkStays ==
    ASSUME MarkInv, gc' = gc, protected' \subseteq protected \cap index',
           \A r \in Rings, x \in Roots : roots'[r][x] = "live" => r \in known'
    PROVE  MarkInv'
  BY Zenon DEF MarkInv, GcSparesMarked

\* A step of a worker: only removals take entries away, and they take them off the
\* ghost as well.
LEMMA WorkerMark ==
    ASSUME TypeOK, MarkInv, NEW w \in Workers, Call(w) \/ WorkerStep(w)
    PROVE  MarkInv'
<1>p. protected \subseteq index
  BY Zenon DEF MarkInv
<1>1. gc' = gc
  BY ZenonT(60) DEF Call, Put, Delete, DropQuery, AddRootWithExpiry, RemoveRoot, PutWithRoot,
         AddBlockRootIndex, CheckQuota, WorkerStep, ReserveInRing, RingFull, WriteBlock,
         WriteFails, CountBlock, LinkBlock, LinkRoot, DeleteDone, DropBlock, UnlinkRoot, StoreQuota
<1>2. protected' \subseteq protected \cap index'
  <2>1. CASE protected' = protected /\ index \subseteq index'
    BY <1>p, <2>1, Zenon
  <2>2. CASE protected' = Retain(index', roots) \/ (index' = index /\ protected' = Retain(index, roots'))
    BY <2>2, Zenon DEF Retain
  <2> QED BY <2>1, <2>2, ZenonT(60)
    DEF Call, Put, Delete, DropQuery, AddRootWithExpiry, RemoveRoot, PutWithRoot,
        AddBlockRootIndex, CheckQuota, WorkerStep, ReserveInRing, RingFull, WriteBlock,
        WriteFails, CountBlock, LinkBlock, LinkRoot, DeleteDone, DropBlock, UnlinkRoot,
        StoreQuota, removeBlockRootEntries, meta
<1>3. ASSUME NEW r \in Rings, NEW x \in Roots, roots'[r][x] = "live" PROVE r \in known'
  <2>1. CASE roots' = roots /\ known \subseteq known'
    BY <1>3, <2>1, Zenon DEF MarkInv
  <2>2. CASE \E q \in Rings, y \in Roots :
               roots' = [roots EXCEPT ![q][y] = "live"] /\ known' = known \cup {q}
    BY <1>3, <2>2, Zenon DEF MarkInv, TypeOK, StoreOK
  <2>3. CASE \E q \in Rings, y \in Roots :
               roots' = [roots EXCEPT ![q][y] = "absent"] /\ known' = known
    BY <1>3, <2>3 DEF MarkInv, TypeOK, StoreOK
  <2>4. CASE LinkRoot(w)
    <3>1. arg[w].ring \in Rings /\ arg[w].root \in Roots
      BY <2>4, Zenon DEF LinkRoot, TypeOK, LocalsOK, HasArgs
    <3> QED BY <2>2, <2>4, <3>1, Zenon DEF LinkRoot
  <2> QED BY <2>1, <2>2, <2>3, <2>4, ZenonT(60)
    DEF Call, Put, Delete, DropQuery, AddRootWithExpiry, RemoveRoot, PutWithRoot,
        AddBlockRootIndex, CheckQuota, WorkerStep, ReserveInRing, RingFull, WriteBlock,
        WriteFails, CountBlock, LinkBlock, DeleteDone, DropBlock, UnlinkRoot,
        StoreQuota, meta
<1> QED BY <1>1, <1>2, <1>3, MarkStays, Zenon

\* A step of the collector: the mark protects what it lists, the test of a key finds
\* the entry of a protected block.
LEMMA GcMarkInv ==
    ASSUME TypeOK, MarkInv, GcStart \/ GcStep
    PROVE  MarkInv'
<1> USE DEF MarkInv
<1>g. gc \in GcState
  BY Zenon DEF TypeOK, GcOK
<1>1. CASE GcStart
  <2>1. gc'.pc = "prune" /\ protected' = {} /\ roots' = roots /\ known' = known
    BY <1>1, Zenon DEF GcStart, GcIdle, meta
  <2> QED BY <2>1, Zenon DEF GcSparesMarked
<1>2. ASSUME NEW r \in Rings, NEW x \in Roots, GcPrune(r, x) PROVE MarkInv'
  <2>1. gc'.pc = "unlink" /\ protected' = {} /\ known' = known
    BY <1>2, <1>g, Zenon DEF GcPrune, GcState
  <2>2. \A q \in Rings, y \in Roots : roots'[q][y] = "live" => q \in known'
    BY <1>2, <2>1, Zenon DEF GcPrune, TypeOK, StoreOK
  <2> QED BY <2>1, <2>2, Zenon DEF GcSparesMarked
<1>3. CASE GcUnlink
  <2>1. gc'.pc = "prune" /\ protected' = {} /\ roots' = roots /\ known' = known
    BY <1>3, <1>g, Zenon DEF GcUnlink, GcState, removeBlockRootEntries, Retain
  <2> QED BY <2>1 DEF GcSparesMarked
<1>4. CASE GcMark
  <2>1. /\ gc'.pc = "sweep" /\ gc'.rings = known /\ gc'.live = LiveRoots(known)
        /\ UNCHANGED <<index, roots, known>>
    BY <1>4, <1>g, Zenon DEF GcMark, GcState, meta
  <2>2. ASSUME NEW t \in protected' PROVE t \in index' /\ t[1] \in gc'.rings /\ t[3] \in gc'.live
    <3>1. t \in index /\ roots[t[1]][t[3]] = "live"
      BY <1>4, <2>2, Zenon DEF GcMark
    <3>2. t[1] \in Rings /\ t[3] \in Roots
      BY <3>1, Zenon DEF TypeOK, StoreOK
    <3> QED BY <2>1, <3>1, <3>2, Zenon DEF LiveRoots
  <2> QED BY <2>1, <2>2, Zenon DEF GcSparesMarked
<1>5. ASSUME NEW k \in Keys, GcCheck(k) PROVE MarkInv'
  <2>1. /\ gc.pc = "sweep" /\ gc'.rings = gc.rings /\ gc'.live = gc.live
        /\ UNCHANGED <<index, roots, known, protected>>
    <3>1. gc'.rings = gc.rings /\ gc'.live = gc.live
      <4>1. CASE gc' = [gc EXCEPT !.seen = @ \cup {k}]
        BY <1>g, <4>1, Zenon DEF GcState
      <4>2. CASE \E n \in Nat : gc' = [gc EXCEPT !.seen = @ \cup {k}, !.pc = "clean", !.key = k, !.size = n]
        BY <1>g, <4>2 DEF GcState
      <4> QED BY <1>5, <4>1, <4>2, SizeAssumption, Zenon DEF GcCheck
    <3> QED BY <1>5, <3>1, Zenon DEF GcCheck, meta
  <2>2. CASE blockHasLiveRootInSet(k, gc.rings, gc.live)
    <3>1. gc'.pc = "sweep"
      BY <1>5, <1>g, <2>2, Zenon DEF GcCheck, GcState
    <3> QED BY <2>1, <3>1, Zenon DEF GcSparesMarked
  <2>3. CASE ~blockHasLiveRootInSet(k, gc.rings, gc.live)
    <3>1. gc'.pc = "clean" /\ gc'.key = k
      BY <1>5, <1>g, <2>3, Zenon DEF GcCheck, GcState
    <3>2. ASSUME NEW t \in protected, t[2] = k PROVE FALSE
      <4>1. t \in index /\ t[1] \in gc.rings /\ t[3] \in gc.live /\ t[3] \in Roots
        BY Zenon DEF TypeOK, StoreOK
      <4>2. t = <<t[1], k, t[3]>>
        BY <3>2, <4>1 DEF TypeOK, StoreOK
      <4>3. t[3] \in RootsForBlock(t[1], k)
        BY <4>1, <4>2, Zenon DEF RootsForBlock
      <4> QED BY <2>3, <4>1, <4>3, Zenon DEF blockHasLiveRootInSet
    <3> QED BY <2>1, <3>1, <3>2, Zenon DEF GcSparesMarked
  <2> QED BY <2>2, <2>3, Zenon
<1>6. CASE GcClean
  <2>1. /\ gc.pc = "clean" /\ gc'.pc = "remove" /\ gc'.key = gc.key
        /\ gc'.rings = gc.rings /\ gc'.live = gc.live /\ UNCHANGED <<roots, known>>
    BY <1>6, <1>g, Zenon DEF GcClean, GcState
  <2>2. protected' \subseteq protected \cap index'
    BY <1>6, Zenon DEF GcClean, Retain
  <2> QED BY <2>1, <2>2, Zenon DEF GcSparesMarked
<1>7. CASE GcRemove
  <2>1. /\ gc.pc = "remove" /\ gc'.pc = "sweep" /\ gc'.rings = gc.rings /\ gc'.live = gc.live
        /\ UNCHANGED <<index, roots, known, protected>>
    BY <1>7, <1>g, Zenon DEF GcRemove, GcState, meta
  <2> QED BY <2>1, Zenon DEF GcSparesMarked
<1>8. CASE GcRemoveFails \/ GcDone
  <2>1. gc'.pc = "idle" /\ protected' = {} /\ UNCHANGED <<roots, known>>
    BY <1>8, GcIdleType, Zenon DEF GcRemoveFails, GcDone, meta
  <2> QED BY <2>1, Zenon DEF GcSparesMarked
<1> QED BY <1>1, <1>2, <1>3, <1>4, <1>5, <1>6, <1>7, <1>8, Zenon DEF GcStep

\* The collector never picks a block that was indexed under a live root when it
\* marked and has been ever since, although it holds no lock and other
\* goroutines put, unlink, expire and forget meanwhile
\* (store/network_block_store.go 1193-1289).
THEOREM StoreGcSparesMarked == Spec => []GcSparesMarked
<1>1. Init => MarkInv
  BY GcIdleType DEF Init, MarkInv, GcSparesMarked
<1>2. TypeOK /\ MarkInv /\ [Next]_vars => MarkInv'
  <2> SUFFICES ASSUME TypeOK, MarkInv, [Next]_vars PROVE MarkInv'
    BY Zenon
  <2>p. protected \subseteq index
    BY Zenon DEF MarkInv
  <2>1. ASSUME NEW w \in Workers, Call(w) \/ WorkerStep(w) PROVE MarkInv'
    BY <2>1, WorkerMark, Zenon
  <2>2. CASE GcStart \/ GcStep
    BY <2>2, GcMarkInv, Zenon
  <2>3. ASSUME NEW r \in Rings, NEW x \in Roots, Expire(r, x) PROVE MarkInv'
    <3>1. gc' = gc /\ protected' \subseteq protected \cap index'
      BY <2>3, Zenon DEF Expire, Retain
    <3>2. \A q \in Rings, y \in Roots : roots'[q][y] = "live" => q \in known'
      BY <2>3, Zenon DEF Expire, MarkInv, TypeOK, StoreOK
    <3> QED BY <3>1, <3>2, MarkStays, Zenon
  <2>4. ASSUME NEW r \in Rings, ForgetRing(r) PROVE MarkInv'
    <3>1. gc' = gc /\ protected' \subseteq protected \cap index'
      BY <2>4, Zenon DEF ForgetRing, Retain
    <3>2. \A q \in Rings, y \in Roots : roots'[q][y] = "live" => q \in known'
      BY <2>4, Zenon DEF ForgetRing, MarkInv, TypeOK, StoreOK
    <3> QED BY <3>1, <3>2, MarkStays, Zenon
  <2>5. CASE Close \/ UNCHANGED vars
    <3>1. UNCHANGED <<gc, protected, index, roots, known>>
      BY <2>5, Zenon DEF Close, flushRingCountersLocked, vars, meta
    <3>2. \A q \in Rings, y \in Roots : roots'[q][y] = "live" => q \in known'
      BY <3>1, Zenon DEF MarkInv
    <3> QED BY <2>p, <3>1, <3>2, MarkStays, Zenon
  <2>6. CASE Reopen
    <3>1. gc'.pc = "idle" /\ protected' = {} /\ UNCHANGED <<roots, known>>
      BY <2>6, GcIdleType, Zenon DEF Reopen, getRingCounters, meta
    <3> QED BY <3>1, Zenon DEF MarkInv, GcSparesMarked
  <2> QED BY <2>1, <2>2, <2>3, <2>4, <2>5, <2>6, Zenon DEF Next
<1>3. MarkInv => GcSparesMarked
  BY Zenon DEF MarkInv
<1> QED BY <1>1, <1>2, <1>3, StoreTypeCorrect, PTL DEF Spec

----------------------------------------------------------------------------
\* The length of a set with one more block, and with one less.
LEMMA WeightPlus ==
    ASSUME NEW S \in SUBSET Keys, NEW k \in Keys, k \notin S
    PROVE  Weight[S \cup {k}] = Weight[S] + Size[k]
<1>1. {k} \in SUBSET Keys /\ S \cap {k} = {}
  BY Zenon
<1>2. Weight[S \cup {k}] = Weight[S] + Weight[{k}]
  BY <1>1, WeightAssumption, Zenon
<1> QED BY <1>2, WeightAssumption, Zenon

LEMMA WeightMinus ==
    ASSUME NEW S \in SUBSET Keys, NEW k \in S
    PROVE  /\ Weight[S] \in Nat /\ Size[k] \in Nat /\ Weight[S \ {k}] \in Nat
           /\ Weight[S] = Weight[S \ {k}] + Size[k]
<1>1. S \ {k} \in SUBSET Keys /\ k \in Keys /\ (S \ {k}) \cup {k} = S
  BY Zenon
<1>2. Weight[(S \ {k}) \cup {k}] = Weight[S \ {k}] + Size[k]
  BY <1>1, WeightPlus, Zenon
<1> QED BY <1>1, <1>2, WeightAssumption, SizeAssumption, Zenon

\* The length of a set of blocks taken out of another.
LEMMA WeightDiff ==
    ASSUME NEW S \in SUBSET Keys, NEW G \in SUBSET S
    PROVE  /\ Weight[S] = Weight[S \ G] + Weight[G]
           /\ Weight[S] \in Nat /\ Weight[S \ G] \in Nat /\ Weight[G] \in Nat
<1>1. S \ G \in SUBSET Keys /\ G \in SUBSET Keys /\ (S \ G) \cap G = {} /\ (S \ G) \cup G = S
  BY Zenon
<1>2. Weight[(S \ G) \cup G] = Weight[S \ G] + Weight[G]
  BY <1>1, WeightAssumption, Zenon
<1> QED BY <1>1, <1>2, WeightAssumption, Zenon

\* The steps of a worker that holds the lock shard of its key.
LockedSteps == {"ring", "write", "count", "link", "root", "freed"}

\* A lock shard has one holder.
LockInv == \A v, w \in Workers :
             v # w /\ pc[v] \in LockedSteps /\ pc[w] \in LockedSteps => arg[v].key # arg[w].key

\* A worker that takes a free lock, keeps the one it has or holds none.
LEMMA LockEnter ==
    ASSUME TypeOK, LockInv, NEW w \in Workers, NEW step, NEW a, Enter(w, step, a),
           \/ step \notin LockedSteps
           \/ pc[w] \in LockedSteps /\ a.key = arg[w].key
           \/ ~Locked(a.key)
    PROVE  LockInv'
<1>1. \A v \in Workers : pc'[v] = (IF v = w THEN step ELSE pc[v])
                      /\ arg'[v] = (IF v = w THEN a ELSE arg[v])
  BY Zenon DEF Enter, TypeOK, LocalsOK
<1>2. ASSUME NEW v \in Workers, v # w, pc[v] \in LockedSteps, step \in LockedSteps
      PROVE  arg[v].key # a.key
  BY <1>2, Zenon DEF LockInv, Locked, LockedSteps
<1> QED BY <1>1, <1>2 DEF LockInv
----------------------------------------------------------------------------
\* The aggregate counter and the quotas.

\* No worker calls SetQuota, which looks at the usage before it stores the quota
\* (1024-1040), or AddBlockRootIndex, which asks for no quota (805-830).
QuotasStand == \A w \in Workers : Ops[w] \cap {"index", "quota"} = {}

\* The quota on disk fits the usage on disk, or the bound would not survive a
\* restart, and nobody is about to store a quota.
QuotaInv ==
    /\ RingWithinQuota
    /\ \A r \in Rings : disk.quota[r] > 0 => disk.ringUsed[r] <= disk.quota[r]
    /\ \A w \in Workers : pc[w] # "quota"

\* A step that only lowers what the rings use.
LEMMA QuotaStays ==
    ASSUME TypeOK, TypeOK', QuotaInv, UNCHANGED <<quota, disk>>,
           \A r \in Rings : ringUsed'[r] <= ringUsed[r],
           \A w \in Workers : pc'[w] # "quota"
    PROVE  QuotaInv'
<1>1. ASSUME NEW r \in Rings, quota'[r] > 0 PROVE ringUsed'[r] <= quota'[r]
  <2>1. ringUsed[r] \in Nat /\ ringUsed'[r] \in Nat /\ quota[r] \in Nat
    BY Zenon DEF TypeOK, CountersOK
  <2> QED BY <1>1, <2>1 DEF QuotaInv, RingWithinQuota
<1> QED BY <1>1, Zenon DEF QuotaInv, RingWithinQuota

\* removeBlockRootEntries only takes bytes off.
LEMMA UnlinkLowers ==
    ASSUME TypeOK, NEW r \in Rings, NEW x \in Roots, NEW S \in SUBSET Keys,
           removeBlockRootEntries(r, x, S)
    PROVE  \A q \in Rings : ringUsed'[q] <= ringUsed[q]
<1>1. PICK G \in SUBSET Keys : ringUsed' = [ringUsed EXCEPT ![r] = Clamp(@ - Weight[G])]
  BY Zenon DEF removeBlockRootEntries
<1>2. Weight[G] \in Nat
  BY WeightAssumption, Zenon
<1> QED BY <1>1, <1>2 DEF Clamp, TypeOK, CountersOK

\* Only reserveBytes raises what a ring uses, and it looks at the quota.
LEMMA QuotaNext ==
    ASSUME QuotasStand, TypeOK, QuotaInv, [Next]_vars
    PROVE  QuotaInv'
<1>t. TypeOK'
  BY NextType, Zenon
<1>u. ringUsed \in [Rings -> Nat] /\ quota \in [Rings -> Nat] /\ pc \in [Workers -> Steps]
  BY Zenon DEF TypeOK, CountersOK, LocalsOK
<1>q. \A w \in Workers : pc[w] # "quota"
  BY Zenon DEF QuotaInv
<1>e. ASSUME NEW w \in Workers, NEW step, step # "quota", pc' = [pc EXCEPT ![w] = step]
      PROVE  \A v \in Workers : pc'[v] # "quota"
  BY <1>e, <1>u, <1>q, Zenon
<1>1. ASSUME NEW w \in Workers, Call(w) PROVE QuotaInv'
  <2>1. UNCHANGED <<quota, disk, ringUsed>>
    BY <1>1, ZenonT(60) DEF QuotasStand, Call, Start, Put, Delete, DropQuery, AddRootWithExpiry, RemoveRoot, PutWithRoot,
       AddBlockRootIndex, CheckQuota, counters
  <2>2. \A v \in Workers : pc'[v] # "quota"
    <3>1. pc' = pc \/ \E step \in {"write", "ring", "freed", "drop", "unlink"} : pc' = [pc EXCEPT ![w] = step]
      BY <1>1, ZenonT(60) DEF QuotasStand, Call, Start, Put, Delete, DropQuery, AddRootWithExpiry, RemoveRoot, PutWithRoot,
         AddBlockRootIndex, CheckQuota, Enter, locals
    <3> QED BY <3>1, <1>e, <1>q, Zenon
  <2> QED BY <1>t, <1>u, <2>1, <2>2, QuotaStays
<1>2. ASSUME NEW w \in Workers, WorkerStep(w) PROVE QuotaInv'
  <2>w. arg[w] \in Args /\ HasArgs(pc[w], arg[w])
    BY Zenon DEF TypeOK, LocalsOK
  <2>0. ~StoreQuota(w)
    BY <1>q, Zenon DEF StoreQuota
  <2>1. UNCHANGED <<quota, disk>>
    BY <1>2, <2>0, ZenonT(60) DEF WorkerStep, ReserveInRing, RingFull, WriteBlock, WriteFails, CountBlock,
         LinkBlock, LinkRoot, DeleteDone, DropBlock, UnlinkRoot, counters
  <2>2. \A v \in Workers : pc'[v] # "quota"
    <3>1. \E step \in {"idle", "write", "count", "link", "root"} : pc' = [pc EXCEPT ![w] = step]
      BY <1>2, <2>0, Zenon DEF WorkerStep, ReserveInRing, RingFull, WriteBlock, WriteFails, CountBlock,
         LinkBlock, LinkRoot, DeleteDone, DropBlock, UnlinkRoot, Enter, Goto, Return
    <3> QED BY <3>1, <1>e, ZenonT(60)
  <2>3. CASE ReserveInRing(w)
    <3>1. arg[w].key \in Keys /\ arg[w].ring \in Rings /\ Size[arg[w].key] \in Nat
      BY <2>3, <2>w, SizeAssumption, Zenon DEF ReserveInRing, HasArgs
    <3>2. ASSUME NEW r \in Rings, quota'[r] > 0 PROVE ringUsed'[r] <= quota'[r]
      BY <1>u, <2>1, <2>3, <3>1, <3>2 DEF ReserveInRing, reserveBytes, QuotaInv, RingWithinQuota
    <3> QED BY <2>1, <2>2, <3>2, Zenon DEF QuotaInv, RingWithinQuota
  <2>4. CASE ~ReserveInRing(w)
    <3>1. \A r \in Rings : ringUsed'[r] <= ringUsed[r]
      <4>1. CASE WriteFails(w)
        <5>1. Size[arg[w].key] \in Nat
          BY <4>1, <2>w, SizeAssumption, Zenon DEF WriteFails, HasArgs
        <5> QED BY <4>1, <5>1, <1>u DEF WriteFails, Clamp
      <4>2. CASE DropBlock(w)
        <5>1. Size[arg[w].key] \in Nat
          BY <4>2, <2>w, SizeAssumption, Zenon DEF DropBlock, HasArgs
        <5> QED BY <4>2, <5>1, <1>u DEF DropBlock, Clamp
      <4>3. CASE UnlinkRoot(w)
        <5>1. arg[w].ring \in Rings /\ arg[w].root \in Roots /\ arg[w].snap \in SUBSET Keys
          BY <4>3, <2>w, Zenon DEF UnlinkRoot, HasArgs
        <5> QED BY <4>3, <5>1, UnlinkLowers, Zenon DEF UnlinkRoot
      <4>4. CASE ringUsed' = ringUsed
        BY <4>4, <1>u
      <4> QED BY <1>2, <2>0, <2>4, <4>1, <4>2, <4>3, <4>4, ZenonT(60)
              DEF WorkerStep, RingFull, WriteBlock, CountBlock, LinkBlock, LinkRoot, DeleteDone, counters
    <3> QED BY <1>t, <2>1, <2>2, <3>1, QuotaStays, Zenon
  <2> QED BY <2>3, <2>4, Zenon
<1>3. CASE GcStart \/ GcStep
  <2>1. UNCHANGED <<quota, disk, pc>>
    BY <1>3, ZenonT(60) DEF GcStart, GcStep, GcPrune, GcUnlink, GcMark, GcCheck, GcClean, GcRemove,
                GcRemoveFails, GcDone, counters, locals
  <2>2. \A r \in Rings : ringUsed'[r] <= ringUsed[r]
    <3>1. CASE GcUnlink
      <4>1. gc.cur[1] \in Rings /\ gc.cur[2] \in Roots /\ gc.rm \in SUBSET Keys
        BY <3>1, Zenon DEF GcUnlink, TypeOK, GcOK, GcState
      <4> QED BY <3>1, <4>1, UnlinkLowers, Zenon DEF GcUnlink
    <3>2. CASE GcClean
      <4>1. gc.size \in Nat
        BY Zenon DEF TypeOK, GcOK, GcState
      <4> QED BY <3>2, <4>1, <1>u DEF GcClean, Clamp
    <3>3. CASE ringUsed' = ringUsed
      BY <3>3, <1>u
    <3> QED BY <1>3, <3>1, <3>2, <3>3, ZenonT(60)
            DEF GcStart, GcStep, GcPrune, GcMark, GcCheck, GcRemove, GcRemoveFails, GcDone, counters
  <2> QED BY <1>q, <1>t, <2>1, <2>2, QuotaStays, Zenon
<1>4. ASSUME NEW r \in Rings, ForgetRing(r) PROVE QuotaInv'
  <2>1. \A q \in Rings : disk'.quota[q] > 0 => disk'.ringUsed[q] <= disk'.quota[q]
    BY <1>4 DEF ForgetRing, QuotaInv, TypeOK, CountersOK
  <2> QED BY <1>4, <2>1, Zenon DEF ForgetRing, QuotaInv, RingWithinQuota, counters, locals
<1>5. ASSUME NEW r \in Rings, NEW x \in Roots, Expire(r, x) PROVE QuotaInv'
  BY <1>5, Zenon DEF Expire, QuotaInv, RingWithinQuota, counters, locals
<1>6. CASE Close
  BY <1>6, Zenon DEF Close, flushRingCountersLocked, QuotaInv, RingWithinQuota, counters, locals
<1>7. CASE Reopen
  <2>1. quota' = disk.quota /\ ringUsed' = disk.ringUsed /\ disk'.quota = disk.quota
        /\ disk'.ringUsed = disk.ringUsed /\ \A w \in Workers : pc'[w] = "idle"
    BY <1>7, Zenon DEF Reopen, getRingCounters, TypeOK, CountersOK
  <2> QED BY <2>1, Zenon DEF QuotaInv, RingWithinQuota
<1>8. CASE UNCHANGED vars
  BY <1>8, Zenon DEF vars, QuotaInv, RingWithinQuota, counters, locals
<1> QED BY <1>1, <1>2, <1>3, <1>4, <1>5, <1>6, <1>7, <1>8, Zenon DEF Next

\* While quotas stand, no ring exceeds its own, whatever the goroutines put, delete,
\* drop and unlink, through collections, forgotten rings, crashes and restarts:
\* reserveBytes tests and adds in one compare-and-swap, everything else lowers the
\* counter or takes it from the last Close (store/network_block_store.go 189-203,
\* 713-726, 137-187).
THEOREM StoreRingWithinQuota ==
    ASSUME QuotasStand
    PROVE  Spec => []RingWithinQuota
<1>1. Init => QuotaInv
  <2> SUFFICES ASSUME Init PROVE QuotaInv
    BY Zenon
  <2>1. quota \in [Rings -> Nat] /\ \A r \in Rings : ringUsed[r] = 0
    BY MaxAssumption, Zenon DEF Init
  <2>2. disk.quota = quota /\ disk.ringUsed = ringUsed /\ \A w \in Workers : pc[w] = "idle"
    BY Zenon DEF Init
  <2> QED BY <2>1, <2>2 DEF QuotaInv, RingWithinQuota
<1>2. TypeOK /\ QuotaInv /\ [Next]_vars => QuotaInv'
  BY QuotaNext, Zenon
<1>3. QuotaInv => RingWithinQuota
  BY Zenon DEF QuotaInv
<1> QED BY <1>1, <1>2, <1>3, StoreTypeCorrect, PTL DEF Spec

----------------------------------------------------------------------------
\* A step with bytes of a key that has no file.
Reserves(step, a) == step \in {"ring", "write", "freed"} /\ ~a.has

\* What a worker's move does to the reserved keys.
LEMMA ReservedEnter ==
    ASSUME TypeOK, LockInv, NEW w \in Workers, NEW step, NEW a, Enter(w, step, a)
    PROVE  Reserved' = (Reserved \ {k \in Keys : Reserves(pc[w], arg[w]) /\ arg[w].key = k})
                         \cup {k \in Keys : Reserves(step, a) /\ a.key = k}
<1>1. \A v \in Workers : pc'[v] = (IF v = w THEN step ELSE pc[v])
                      /\ arg'[v] = (IF v = w THEN a ELSE arg[v])
  BY Zenon DEF Enter, TypeOK, LocalsOK
<1>2. Reserved = {k \in Keys : \E v \in Workers : Reserves(pc[v], arg[v]) /\ arg[v].key = k}
  BY Zenon DEF Reserved, Reserves
<1>3. Reserved' = {k \in Keys : \E v \in Workers : Reserves(pc'[v], arg'[v]) /\ arg'[v].key = k}
  BY Zenon DEF Reserved, Reserves
<1>4. ASSUME NEW v \in Workers, v # w, Reserves(pc[v], arg[v]), Reserves(pc[w], arg[w])
      PROVE  arg[v].key # arg[w].key
  BY <1>4, Zenon DEF Reserves, LockInv, LockedSteps
<1>5. ASSUME NEW k \in Keys
      PROVE  (\E v \in Workers : Reserves(pc'[v], arg'[v]) /\ arg'[v].key = k)
               <=> \/ Reserves(step, a) /\ a.key = k
                   \/ /\ \E v \in Workers : Reserves(pc[v], arg[v]) /\ arg[v].key = k
                      /\ ~(Reserves(pc[w], arg[w]) /\ arg[w].key = k)
  BY <1>1, <1>4, Zenon
<1> QED BY <1>2, <1>3, <1>5, Zenon

\* No collection fails half way (1233-1235 keeps the bytes of the blocks already
\* removed), no process ends, and no Delete runs in a node that collects (the
\* collector would take the same bytes off again).
CalmStore ==
    /\ Env \cap {"gcerr", "restart", "crash"} = {}
    /\ "gc" \in Env => \A w \in Workers : "delete" \notin Ops[w]

\* A reserved key has no file.
AbsentInv ==
    \A w \in Workers :
      /\ Reserves(pc[w], arg[w]) => arg[w].key \notin blocks
      /\ pc[w] \in {"write", "freed"} => ~arg[w].has

\* What the collector has listed and not yet tested is still on disk, and so is
\* the block it is about to remove, with the size it noted.
SweepInv ==
    /\ gc.pc # "idle" => "gc" \in Env
    /\ gc.pc \in {"idle", "prune", "unlink"} => gc.bytes = 0
    /\ gc.pc \in {"sweep", "clean", "remove"} => gc.todo \ gc.seen \subseteq blocks
    /\ gc.pc \in {"clean", "remove"} =>
         gc.key \in blocks /\ gc.key \in gc.seen /\ gc.size = Size[gc.key]

\* What makes BytesExact inductive: the lock makes every reservation one of its own
\* key, so a key is added to the counter and taken off it once.
BytesInv == LockInv /\ AbsentInv /\ SweepInv /\ ~disk.closed /\ BytesExact

\* The bytes the counter has to account for.
Accounted == blocks \cup Reserved

\* Its type.
LEMMA AccountedType ==
    ASSUME TypeOK
    PROVE  Accounted \in SUBSET Keys /\ Weight[Accounted] \in Nat /\ used \in Nat /\ gc.bytes \in Nat
<1>1. Accounted \in SUBSET Keys
  BY Zenon DEF Accounted, Reserved, TypeOK, StoreOK
<1> QED BY <1>1, WeightAssumption, Zenon DEF TypeOK, CountersOK, GcOK, GcState

\* A worker that adds a key without a file to the counter.
LEMMA BytesAdd ==
    ASSUME TypeOK, BytesExact, NEW k \in Keys, k \notin Accounted, Accounted' = Accounted \cup {k},
           used' = used + Size[k], gc' = gc
    PROVE  BytesExact'
<1>1. Weight[Accounted'] = Weight[Accounted] + Size[k]
  BY AccountedType, WeightPlus, Zenon
<1>2. Size[k] \in Nat
  BY SizeAssumption, Zenon
<1> QED BY <1>1, <1>2, AccountedType DEF BytesExact, Accounted

\* A worker that takes a key without a file off the counter: it was counted, so the
\* counter does not reach its floor.
LEMMA BytesSub ==
    ASSUME TypeOK, BytesExact, NEW k \in Accounted, Accounted' = Accounted \ {k},
           used' = Clamp(used - Size[k]), gc' = gc
    PROVE  BytesExact'
<1>1. /\ Weight[Accounted] = Weight[Accounted'] + Size[k]
      /\ Size[k] \in Nat /\ Weight[Accounted'] \in Nat
  BY AccountedType, WeightMinus, Zenon
<1>2. used = Weight[Accounted] + gc.bytes
  BY Zenon DEF BytesExact, Accounted
<1>3. used - Size[k] = Weight[Accounted'] + gc.bytes /\ used - Size[k] >= 0
  BY <1>1, <1>2, AccountedType
<1>4. used' = Weight[Accounted'] + gc'.bytes
  BY <1>1, <1>3, AccountedType DEF Clamp
<1> QED BY <1>4, Zenon DEF BytesExact, Accounted

\* A worker that moves between steps without a reservation.
LEMMA BytesQuiet ==
    ASSUME TypeOK, BytesInv, NEW w \in Workers, NEW step, NEW a, Enter(w, step, a),
           ~Reserves(pc[w], arg[w]), step \notin {"ring", "write", "freed"},
           \/ step \notin LockedSteps
           \/ pc[w] \in LockedSteps /\ a.key = arg[w].key,
           UNCHANGED <<blocks, used, gc>>, disk'.closed = disk.closed
    PROVE  BytesInv'
<1>1. LockInv'
  BY LockEnter, Zenon DEF BytesInv
<1>2. Reserved' = Reserved
  BY ReservedEnter DEF BytesInv, Reserves
<1>3. \A v \in Workers : pc'[v] = (IF v = w THEN step ELSE pc[v])
                      /\ arg'[v] = (IF v = w THEN a ELSE arg[v])
  BY Zenon DEF Enter, TypeOK, LocalsOK
<1>4. AbsentInv'
  BY <1>3, Zenon DEF BytesInv, AbsentInv, Reserves
<1>5. SweepInv' /\ BytesExact' /\ ~disk'.closed
  BY <1>2, Zenon DEF BytesInv, SweepInv, BytesExact
<1> QED BY <1>1, <1>4, <1>5, Zenon DEF BytesInv

\* What a worker starts.
LEMMA BytesCall ==
    ASSUME CalmStore, TypeOK, BytesInv, NEW w \in Workers, Call(w)
    PROVE  BytesInv'
<1> USE DEF BytesInv
<1>a. ASSUME NEW step, NEW a, Enter(w, step, a)
      PROVE  \A v \in Workers : pc'[v] = (IF v = w THEN step ELSE pc[v])
                             /\ arg'[v] = (IF v = w THEN a ELSE arg[v])
  BY <1>a, Zenon DEF Enter, TypeOK, LocalsOK
<1>b. \A k \in Keys : ~Locked(k) => k \notin Reserved
  BY Zenon DEF Locked, Reserved
<1>n. NoArg.has = FALSE
  BY Zenon DEF NoArg
<1>1. ASSUME NEW k \in Keys, Put(w, k) PROVE BytesInv'
  <2> DEFINE a == [NoArg EXCEPT !.key = k]
  <2>1. a.key = k /\ ~a.has
    BY Zenon DEF NoArg
  <2>2. /\ Enter(w, "write", a) /\ ~Locked(k) /\ k \notin blocks /\ pc[w] = "idle"
        /\ used' = used + Size[k] /\ UNCHANGED <<blocks, gc, disk>>
    BY <1>1, Zenon DEF Put, Start
  <2> HIDE DEF a
  <2>3. LockInv'
    BY <2>1, <2>2, LockEnter, Zenon
  <2>4. Reserved' = Reserved \cup {k}
    BY <2>1, <2>2, ReservedEnter DEF Reserves
  <2>5. BytesExact'
    BY <1>b, <2>2, <2>4, BytesAdd, Zenon DEF Accounted
  <2>6. AbsentInv'
    BY <1>a, <2>1, <2>2 DEF AbsentInv, Reserves
  <2> QED BY <2>2, <2>3, <2>5, <2>6, Zenon DEF SweepInv
<1>2. ASSUME NEW k \in Keys, Delete(w, k) PROVE BytesInv'
  <2> DEFINE a == [NoArg EXCEPT !.key = k]
  <2>1. a.key = k /\ ~a.has
    BY DEF NoArg
  <2>2. /\ Enter(w, "freed", a) /\ ~Locked(k) /\ k \in blocks /\ pc[w] = "idle"
        /\ blocks' = blocks \ {k} /\ UNCHANGED <<used, gc, disk>> /\ "delete" \in Ops[w]
    BY <1>2, Zenon DEF Delete, Start, counters
  <2> HIDE DEF a
  <2>3. LockInv'
    BY <2>1, <2>2, LockEnter, Zenon
  <2>4. Reserved' = Reserved \cup {k}
    BY <2>1, <2>2, ReservedEnter DEF Reserves
  <2>5. BytesExact'
    <3>1. blocks' \cup Reserved' = blocks \cup Reserved
      BY <2>2, <2>4, Zenon
    <3> QED BY <2>2, <3>1, Zenon DEF BytesExact
  <2>6. AbsentInv'
    BY <1>a, <2>1, <2>2 DEF AbsentInv, Reserves
  <2>7. SweepInv'
    <3>1. gc.pc = "idle"
      BY <2>2, Zenon DEF CalmStore, SweepInv
    <3> QED BY <2>2, <3>1, Zenon DEF SweepInv
  <2> QED BY <2>2, <2>3, <2>5, <2>6, <2>7, Zenon
<1>3. ASSUME NEW k \in Keys, NEW r \in Rings, NEW x \in Roots, PutWithRoot(w, k, r, x) PROVE BytesInv'
  <2> DEFINE a == [NoArg EXCEPT !.key = k, !.ring = r, !.root = x, !.has = k \in blocks]
  <2>1. a.key = k /\ (a.has <=> k \in blocks)
    BY Zenon DEF NoArg
  <2>2. /\ Enter(w, "ring", a) /\ ~Locked(k) /\ pc[w] = "idle"
        /\ used' = (IF k \in blocks THEN used ELSE used + Size[k]) /\ UNCHANGED <<blocks, gc, disk>>
    BY <1>3, Zenon DEF PutWithRoot, Start
  <2> HIDE DEF a
  <2>3. LockInv'
    BY <2>1, <2>2, LockEnter, Zenon
  <2>4. Reserved' = IF k \in blocks THEN Reserved ELSE Reserved \cup {k}
    BY <2>1, <2>2, ReservedEnter DEF Reserves
  <2>5. BytesExact'
    <3>1. CASE k \in blocks
      BY <2>2, <2>4, <3>1, Zenon DEF BytesExact
    <3>2. CASE k \notin blocks
      BY <1>b, <2>2, <2>4, <3>2, BytesAdd, Zenon DEF Accounted
    <3> QED BY <3>1, <3>2, Zenon
  <2>6. AbsentInv'
    BY <1>a, <2>1, <2>2 DEF AbsentInv, Reserves
  <2> QED BY <2>2, <2>3, <2>5, <2>6, Zenon DEF SweepInv
<1>4. CASE \/ \E k \in Keys, r \in Rings : DropQuery(w, k, r)
           \/ \E r \in Rings, x \in Roots : RemoveRoot(w, r, x)
           \/ \E r \in Rings, m \in Quotas : CheckQuota(w, r, m)
  <2>1. PICK step \in {"drop", "unlink", "quota"}, a \in {arg'[w]} : Enter(w, step, a)
    BY <1>4, Zenon DEF DropQuery, RemoveRoot, CheckQuota, Enter, TypeOK, LocalsOK
  <2>2. pc[w] = "idle" /\ UNCHANGED <<blocks, used, gc, disk>>
    BY <1>4, ZenonT(60) DEF DropQuery, RemoveRoot, CheckQuota, Start, counters
  <2> QED BY <2>1, <2>2, BytesQuiet, Zenon DEF Reserves, LockedSteps
<1>5. CASE \/ \E r \in Rings, x \in Roots : AddRootWithExpiry(w, r, x)
           \/ \E k \in Keys, r \in Rings, x \in Roots : AddBlockRootIndex(w, k, r, x)
  <2>1. UNCHANGED <<blocks, used, gc, disk, pc, arg>>
    BY <1>5, ZenonT(60) DEF AddRootWithExpiry, AddBlockRootIndex, counters, locals
  <2> QED BY <2>1, Zenon DEF LockInv, AbsentInv, SweepInv, BytesExact, Reserved
<1> QED BY <1>1, <1>2, <1>3, <1>4, <1>5, Zenon DEF Call

\* A worker that gives its reservation back and returns.
LEMMA BytesGiveBack ==
    ASSUME TypeOK, BytesInv, NEW w \in Workers, Reserves(pc[w], arg[w]), arg[w].key \in Keys,
           Return(w), used' = Clamp(used - Size[arg[w].key]), UNCHANGED <<blocks, gc, disk>>
    PROVE  BytesInv'
<1> USE DEF BytesInv
<1>1. Enter(w, "idle", NoArg)
  BY Zenon DEF Return
<1>2. LockInv'
  BY <1>1, LockEnter, Zenon DEF LockedSteps
<1>3. Reserved' = Reserved \ {arg[w].key} /\ arg[w].key \in Reserved
  BY <1>1, ReservedEnter DEF Reserves, Reserved
<1>4. arg[w].key \notin blocks
  BY Zenon DEF AbsentInv
<1>5. BytesExact'
  BY <1>3, <1>4, BytesSub, Zenon DEF Accounted
<1>6. AbsentInv'
  BY <1>1, Zenon DEF AbsentInv, Reserves, Enter, TypeOK, LocalsOK
<1> QED BY <1>2, <1>5, <1>6, Zenon DEF SweepInv

\* The later steps of the operations of a worker.
LEMMA BytesWorker ==
    ASSUME CalmStore, TypeOK, BytesInv, NEW w \in Workers, WorkerStep(w)
    PROVE  BytesInv'
<1> USE DEF BytesInv
<1>w. arg[w] \in Args /\ HasArgs(pc[w], arg[w])
  BY Zenon DEF TypeOK, LocalsOK
<1>a. ASSUME NEW step, NEW a, Enter(w, step, a)
      PROVE  \A v \in Workers : pc'[v] = (IF v = w THEN step ELSE pc[v])
                             /\ arg'[v] = (IF v = w THEN a ELSE arg[v])
  BY <1>a DEF Enter, TypeOK, LocalsOK
<1>1. CASE ReserveInRing(w)
  <2> DEFINE a == [arg[w] EXCEPT !.adding = ~ringHasBlock(arg[w].ring, arg[w].key)]
             step == IF arg[w].has THEN "link" ELSE "write"
  <2>1. a.key = arg[w].key /\ a.has = arg[w].has
    BY <1>w, Zenon DEF Args
  <2>2. /\ pc[w] = "ring" /\ Enter(w, step, a) /\ UNCHANGED <<blocks, used, gc, disk>>
    BY <1>1, Zenon DEF ReserveInRing
  <2>3. step \in LockedSteps /\ pc[w] \in LockedSteps
        /\ (Reserves(step, a) <=> Reserves(pc[w], arg[w])) /\ (step = "write" => ~a.has)
        /\ step \in {"link", "write"}
    BY <2>1, <2>2, Zenon DEF LockedSteps, Reserves
  <2> HIDE DEF a, step
  <2>4. LockInv'
    BY <2>1, <2>2, <2>3, LockEnter, Zenon
  <2>5. Reserved' = Reserved
    <3>1. Reserves(pc[w], arg[w]) /\ arg[w].key \in Keys => arg[w].key \in Reserved
      BY Zenon DEF Reserves, Reserved
    <3> QED BY <2>1, <2>2, <2>3, <3>1, ReservedEnter
  <2>6. AbsentInv'
    BY <1>a, <2>1, <2>2, <2>3 DEF AbsentInv
  <2>7. SweepInv' /\ BytesExact'
    BY <2>2, <2>5, Zenon DEF SweepInv, BytesExact
  <2> QED BY <2>2, <2>4, <2>6, <2>7, Zenon
<1>2. CASE RingFull(w)
  <2>1. arg[w].key \in Keys /\ pc[w] = "ring" /\ UNCHANGED <<blocks, gc, disk>> /\ Return(w)
    BY <1>2, <1>w, Zenon DEF RingFull, HasArgs
  <2>2. CASE arg[w].has
    <3>1. used' = used
      BY <1>2, <2>2, Zenon DEF RingFull
    <3> QED BY <2>1, <2>2, <3>1, BytesQuiet, Zenon DEF Return, Reserves, LockedSteps
  <2>3. CASE ~arg[w].has
    <3>1. used' = Clamp(used - Size[arg[w].key])
      BY <1>2, <2>3, Zenon DEF RingFull
    <3> QED BY <2>1, <2>3, <3>1, BytesGiveBack, Zenon DEF Reserves
  <2> QED BY <2>2, <2>3, Zenon
<1>3. CASE WriteBlock(w)
  <2>1. /\ arg[w].key \in Keys /\ pc[w] = "write" /\ Enter(w, "count", arg[w])
        /\ blocks' = blocks \cup {arg[w].key} /\ UNCHANGED <<used, gc, disk>>
    BY <1>3, <1>w, Zenon DEF WriteBlock, HasArgs, Goto, Enter, TypeOK, LocalsOK, counters
  <2>2. LockInv'
    BY <2>1, LockEnter, Zenon DEF LockedSteps
  <2>3. Reserves(pc[w], arg[w]) /\ arg[w].key \in Reserved
    BY <2>1, Zenon DEF AbsentInv, Reserves, Reserved
  <2>4. Reserved' = Reserved \ {arg[w].key}
    BY <2>1, <2>3, ReservedEnter DEF Reserves
  <2>5. BytesExact'
    <3>1. blocks' \cup Reserved' = blocks \cup Reserved
      BY <2>1, <2>3, <2>4, Zenon
    <3> QED BY <2>1, <3>1, Zenon DEF BytesExact
  <2>6. AbsentInv'
    <3>1. ASSUME NEW v \in Workers, v # w, Reserves(pc[v], arg[v]) PROVE arg[v].key # arg[w].key
      BY <2>1, <3>1, Zenon DEF LockInv, LockedSteps, Reserves
    <3> QED BY <1>a, <2>1, <3>1 DEF AbsentInv, Reserves
  <2> QED BY <2>1, <2>2, <2>5, <2>6, Zenon DEF SweepInv
<1>4. CASE WriteFails(w)
  <2>1. /\ arg[w].key \in Keys /\ pc[w] = "write" /\ UNCHANGED <<blocks, gc, disk>> /\ Return(w)
        /\ used' = Clamp(used - Size[arg[w].key])
    BY <1>4, <1>w, Zenon DEF WriteFails, HasArgs
  <2>2. Reserves(pc[w], arg[w])
    BY <2>1, Zenon DEF AbsentInv, Reserves
  <2> QED BY <2>1, <2>2, BytesGiveBack, Zenon
<1>5. CASE DeleteDone(w)
  <2>1. /\ arg[w].key \in Keys /\ pc[w] = "freed" /\ UNCHANGED <<blocks, gc, disk>> /\ Return(w)
        /\ used' = Clamp(used - Size[arg[w].key])
    BY <1>5, <1>w, Zenon DEF DeleteDone, HasArgs
  <2>2. Reserves(pc[w], arg[w])
    BY <2>1, Zenon DEF AbsentInv, Reserves
  <2> QED BY <2>1, <2>2, BytesGiveBack, Zenon
<1>6. CASE CountBlock(w) \/ LinkBlock(w)
  <2>1. PICK step \in {"idle", "link", "root"}, a \in {NoArg, arg[w]} :
          Enter(w, step, a) /\ (step = "idle" \/ a = arg[w])
    BY <1>6, Zenon DEF CountBlock, LinkBlock, Goto, Return, Enter, TypeOK, LocalsOK
  <2>2. pc[w] \in {"count", "link"} /\ UNCHANGED <<blocks, used, gc, disk>>
    BY <1>6, Zenon DEF CountBlock, LinkBlock
  <2> QED BY <2>1, <2>2, BytesQuiet, Zenon DEF Reserves, LockedSteps
<1>7. CASE LinkRoot(w) \/ DropBlock(w) \/ UnlinkRoot(w) \/ StoreQuota(w)
  <2>1. pc[w] \in {"root", "drop", "unlink", "quota"} /\ Enter(w, "idle", NoArg)
    BY <1>7, Zenon DEF LinkRoot, DropBlock, UnlinkRoot, StoreQuota, Return
  <2>2. UNCHANGED <<blocks, used, gc>> /\ disk'.closed = disk.closed
    <3>1. CASE StoreQuota(w)
      BY <3>1, Zenon DEF StoreQuota, TypeOK, CountersOK
    <3>2. CASE ~StoreQuota(w)
      BY <1>7, <3>2, Zenon DEF LinkRoot, DropBlock, UnlinkRoot, counters
    <3> QED BY <3>1, <3>2, Zenon
  <2> QED BY <2>1, <2>2, BytesQuiet, Zenon DEF Reserves, LockedSteps
<1> QED BY <1>1, <1>2, <1>3, <1>4, <1>5, <1>6, <1>7, ZenonT(60) DEF WorkerStep

\* The collector counts what it removes.
LEMMA BytesGc ==
    ASSUME CalmStore, TypeOK, BytesInv, GcStart \/ GcStep
    PROVE  BytesInv'
<1> USE DEF BytesInv
<1>g. gc \in GcState
  BY Zenon DEF TypeOK, GcOK
<1>u. UNCHANGED <<pc, arg, disk>>
  BY ZenonT(60) DEF GcStart, GcStep, GcPrune, GcUnlink, GcMark, GcCheck, GcClean, GcRemove,
                GcRemoveFails, GcDone, locals
<1>l. LockInv' /\ Reserved' = Reserved
  BY <1>u, Zenon DEF LockInv, Reserved
<1>e. "gc" \in Env
  BY GcIdleType, Zenon DEF SweepInv, GcStart, GcStep, GcPrune, GcUnlink, GcMark, GcCheck, GcClean, GcRemove,
         GcRemoveFails, GcDone
<1>q. ASSUME UNCHANGED <<blocks, used>>, gc'.bytes = gc.bytes, SweepInv' PROVE BytesInv'
  BY <1>q, <1>u, <1>l, Zenon DEF AbsentInv, BytesExact
<1>1. CASE GcStart
  <2>1. gc'.pc = "prune" /\ gc'.bytes = 0 /\ gc.bytes = 0 /\ UNCHANGED <<blocks, used>>
    BY <1>1, Zenon DEF GcStart, GcIdle, SweepInv, counters
  <2> QED BY <1>e, <1>q, <2>1, Zenon DEF SweepInv
<1>2. ASSUME NEW r \in Rings, NEW x \in Roots, GcPrune(r, x) PROVE BytesInv'
  <2>1. gc'.pc = "unlink" /\ gc'.bytes = gc.bytes /\ gc.bytes = 0 /\ UNCHANGED <<blocks, used>>
    BY <1>2, <1>g, Zenon DEF GcPrune, GcState, SweepInv, counters
  <2> QED BY <1>e, <1>q, <2>1, Zenon DEF SweepInv
<1>3. CASE GcUnlink
  <2>1. gc'.pc = "prune" /\ gc'.bytes = gc.bytes /\ gc.bytes = 0 /\ UNCHANGED <<blocks, used>>
    BY <1>3, <1>g, Zenon DEF GcUnlink, GcState, SweepInv
  <2> QED BY <1>e, <1>q, <2>1, Zenon DEF SweepInv
<1>4. CASE GcMark
  <2>1. gc'.pc = "sweep" /\ gc'.bytes = gc.bytes /\ gc'.todo = blocks /\ UNCHANGED <<blocks, used>>
    BY <1>4, <1>g, Zenon DEF GcMark, GcState, counters
  <2> QED BY <1>e, <1>q, <2>1, Zenon DEF SweepInv
<1>5. ASSUME NEW k \in Keys, GcCheck(k) PROVE BytesInv'
  <2>1. /\ gc.pc = "sweep" /\ gc'.bytes = gc.bytes /\ gc'.todo = gc.todo /\ UNCHANGED <<blocks, used>>
        /\ gc'.seen = gc.seen \cup {k} /\ k \in blocks
    <3>1. gc'.bytes = gc.bytes /\ gc'.todo = gc.todo /\ gc'.seen = gc.seen \cup {k}
      <4>1. CASE gc' = [gc EXCEPT !.seen = @ \cup {k}]
        BY <1>g, <4>1, Zenon DEF GcState
      <4>2. CASE \E n \in Nat : gc' = [gc EXCEPT !.seen = @ \cup {k}, !.pc = "clean", !.key = k, !.size = n]
        BY <1>g, <4>2, Zenon DEF GcState
      <4> QED BY <1>5, <4>1, <4>2, SizeAssumption, Zenon DEF GcCheck
    <3>2. gc.pc = "sweep" /\ k \in (gc.todo \cup blocks) \ gc.seen /\ UNCHANGED <<blocks, used>>
      BY <1>5, Zenon DEF GcCheck, counters
    <3> QED BY <3>1, <3>2, Zenon DEF SweepInv
  <2>2. CASE blockHasLiveRootInSet(k, gc.rings, gc.live)
    <3>1. gc'.pc = "sweep"
      BY <1>5, <1>g, <2>2, Zenon DEF GcCheck, GcState
    <3> QED BY <1>e, <1>q, <2>1, <3>1, Zenon DEF SweepInv
  <2>3. CASE ~blockHasLiveRootInSet(k, gc.rings, gc.live)
    <3>1. gc'.pc = "clean" /\ gc'.key = k /\ gc'.size = Size[k]
      BY <1>5, <1>g, <2>1, <2>3, ZenonT(60) DEF GcCheck, GcState
    <3> QED BY <1>e, <1>q, <2>1, <3>1, Zenon DEF SweepInv
  <2> QED BY <2>2, <2>3, Zenon
<1>6. CASE GcClean
  <2>1. /\ gc.pc = "clean" /\ gc'.pc = "remove" /\ gc'.key = gc.key /\ gc'.bytes = gc.bytes
        /\ gc'.todo = gc.todo /\ gc'.seen = gc.seen /\ gc'.size = gc.size /\ UNCHANGED <<blocks, used>>
    BY <1>6, <1>g, Zenon DEF GcClean, GcState
  <2> QED BY <1>e, <1>q, <2>1, Zenon DEF SweepInv
<1>7. CASE GcRemove
  <2>1. /\ gc.pc = "remove" /\ gc'.pc = "sweep" /\ gc'.bytes = gc.bytes + gc.size
        /\ gc'.todo = gc.todo /\ gc'.seen = gc.seen /\ blocks' = blocks \ {gc.key} /\ used' = used
    BY <1>7, <1>g, Zenon DEF GcRemove, GcState, counters
  <2>2. gc.key \in blocks /\ gc.key \in gc.seen /\ gc.size = Size[gc.key]
    BY <2>1, Zenon DEF SweepInv
  <2>3. SweepInv'
    BY <1>e, <2>1, <2>2, Zenon DEF SweepInv
  <2>4. AbsentInv'
    BY <1>u, <2>1, Zenon DEF AbsentInv
  <2>5. gc.key \notin Reserved
    BY <2>2, Zenon DEF AbsentInv, Reserved, Reserves
  <2>6. Accounted' = Accounted \ {gc.key} /\ gc.key \in Accounted
    BY <1>l, <2>1, <2>2, <2>5, Zenon DEF Accounted
  <2>7. /\ Weight[Accounted] = Weight[Accounted'] + gc.size
        /\ gc.size \in Nat /\ Weight[Accounted'] \in Nat
    BY <2>2, <2>6, AccountedType, WeightMinus, Zenon
  <2>8. used' = Weight[Accounted'] + gc'.bytes
    BY <2>1, <2>7, AccountedType DEF BytesExact, Accounted
  <2> QED BY <1>l, <1>u, <2>3, <2>4, <2>8, Zenon DEF BytesExact, Accounted
<1>8. CASE GcRemoveFails
  BY <1>8, Zenon DEF GcRemoveFails, CalmStore
<1>9. CASE GcDone
  <2>1. gc'.pc = "idle" /\ gc'.bytes = 0 /\ blocks' = blocks /\ used' = Clamp(used - gc.bytes)
    BY <1>9, Zenon DEF GcDone, GcIdle
  <2>2. used' = Weight[Accounted]
    BY <2>1, AccountedType DEF BytesExact, Accounted, Clamp
  <2>3. BytesExact'
    BY <1>l, <2>1, <2>2, AccountedType DEF BytesExact, Accounted
  <2> QED BY <1>l, <1>u, <2>1, <2>3, Zenon DEF AbsentInv, SweepInv
<1> QED BY <1>1, <1>2, <1>3, <1>4, <1>5, <1>6, <1>7, <1>8, <1>9, Zenon DEF GcStep

\* usedBytesAtomic is the length of the blocks on disk, plus what the puts and deletes
\* under way have reserved or not yet given back, plus what a running collection has
\* freed and not yet subtracted: no interleaving of puts, failed puts, full rings,
\* deletes, drops, removals and collections loses or repeats a byte
\* (store/network_block_store.go 95-131, 365-421, 694-767, 1193-1250).
THEOREM StoreBytesExact ==
    ASSUME CalmStore
    PROVE  Spec => []BytesExact
<1>1. Init => BytesInv
  <2> SUFFICES ASSUME Init PROVE BytesInv
    OBVIOUS
  <2>1. \A w \in Workers : pc[w] = "idle"
    BY Zenon DEF Init
  <2>2. Reserved = {} /\ blocks = {} /\ used = 0 /\ gc = GcIdle /\ ~disk.closed
    BY <2>1, Zenon DEF Init, Reserved
  <2>3. BytesExact
    BY <2>2, WeightAssumption DEF BytesExact, GcIdle
  <2> QED BY <2>1, <2>2, <2>3, Zenon DEF BytesInv, LockInv, LockedSteps, AbsentInv, Reserves, SweepInv, GcIdle
<1>2. TypeOK /\ BytesInv /\ [Next]_vars => BytesInv'
  <2> SUFFICES ASSUME TypeOK, BytesInv, [Next]_vars PROVE BytesInv'
    BY Zenon
  <2>1. ASSUME NEW w \in Workers, Call(w) \/ WorkerStep(w) PROVE BytesInv'
    BY <2>1, BytesCall, BytesWorker, Zenon
  <2>2. CASE GcStart \/ GcStep
    BY <2>2, BytesGc, Zenon
  <2>3. CASE Close \/ Reopen
    BY <2>3, Zenon DEF Close, Reopen, CalmStore, BytesInv
  <2>4. ASSUME UNCHANGED <<blocks, used, gc, pc, arg>>, disk'.closed = disk.closed PROVE BytesInv'
    BY <2>4, Zenon DEF BytesInv, LockInv, AbsentInv, SweepInv, BytesExact, Reserved
  <2>5. ASSUME NEW r \in Rings, NEW x \in Roots, Expire(r, x) PROVE BytesInv'
    BY <2>4, <2>5, Zenon DEF Expire, counters, locals
  <2>6. ASSUME NEW r \in Rings, ForgetRing(r) PROVE BytesInv'
    <3>1. disk'.closed = disk.closed
      BY <2>6, Zenon DEF ForgetRing, TypeOK, CountersOK
    <3> QED BY <2>4, <2>6, <3>1, Zenon DEF ForgetRing, counters, locals
  <2>7. CASE UNCHANGED vars
    BY <2>4, <2>7, Zenon DEF vars, counters, locals
  <2> QED BY <2>1, <2>2, <2>3, <2>5, <2>6, <2>7, Zenon DEF Next
<1>3. BytesInv => BytesExact
  BY Zenon DEF BytesInv
<1> QED BY <1>1, <1>2, <1>3, StoreTypeCorrect, PTL DEF Spec
----------------------------------------------------------------------------
\* The counters of a ring.

\* Blocks enter with Put and PutWithRoot and leave a ring with their root, one removal
\* at a time; no ring is forgotten, nothing is collected and no process ends.
PutsAndRemovals ==
    /\ \A w \in Workers : Ops[w] \subseteq {"put", "putroot", "addroot", "rmroot", "quota"}
    /\ \A v, w \in Workers : "rmroot" \in Ops[v] \cap Ops[w] => v = w
    /\ Env \cap {"gc", "forget", "restart", "crash"} = {}

\* A step with bytes the ring's counter includes and its index does not.
Adds(step, a) == step \in {"write", "count", "link"} /\ a.adding

\* A block a ring lists, or is about to list, has its file.
FileInv ==
    /\ \A t \in index : t[2] \in blocks
    /\ \A w \in Workers :
         pc[w] \in {"count", "link", "root"} \/ (pc[w] = "ring" /\ arg[w].has) => arg[w].key \in blocks

\* ringHasBlock in an index that is a parameter.
HasEntry(idx, r, k) == \E x \in Roots : <<r, k, x>> \in idx

\* addingToRing is still true, or still false, when the block is linked.
AddingInv ==
    \A w \in Workers :
      /\ Adds(pc[w], arg[w]) => ~HasEntry(index, arg[w].ring, arg[w].key)
      /\ pc[w] \in {"write", "count", "link"} /\ arg[w].root # None /\ ~arg[w].adding
           => HasEntry(index, arg[w].ring, arg[w].key)

\* What a removal has listed is still in the index.
SnapInv ==
    \A w \in Workers :
      /\ pc[w] \notin {"freed", "drop"}
      /\ pc[w] = "unlink" => /\ "rmroot" \in Ops[w]
                             /\ \A k \in arg[w].snap : <<arg[w].ring, k, arg[w].root>> \in index

\* What makes RingExact inductive: the lock keeps ringHasBlock as ReserveInRing found
\* it until the entry is written, and the one removal at a time finds its list.
RingInv ==
    /\ LockInv /\ FileInv /\ AddingInv /\ SnapInv
    /\ gc.pc = "idle" /\ ~disk.closed
    /\ RingExact

\* What a worker's move does to the keys a ring has reserved.
LEMMA RingReservedEnter ==
    ASSUME TypeOK, LockInv, NEW w \in Workers, NEW step, NEW a, Enter(w, step, a), NEW r \in Rings
    PROVE  RingReserved(r)' =
             (RingReserved(r) \ {k \in Keys : Adds(pc[w], arg[w]) /\ arg[w].key = k /\ arg[w].ring = r})
               \cup {k \in Keys : Adds(step, a) /\ a.key = k /\ a.ring = r}
<1> DEFINE A(v, k) == Adds(pc[v], arg[v]) /\ arg[v].key = k /\ arg[v].ring = r
           B(v, k) == Adds(pc'[v], arg'[v]) /\ arg'[v].key = k /\ arg'[v].ring = r
<1>1. \A v \in Workers : pc'[v] = (IF v = w THEN step ELSE pc[v])
                      /\ arg'[v] = (IF v = w THEN a ELSE arg[v])
  BY Zenon DEF Enter, TypeOK, LocalsOK
<1>2. RingReserved(r) = {k \in Keys : \E v \in Workers : A(v, k)}
  BY Zenon DEF RingReserved, Adds
<1>3. RingReserved(r)' = {k \in Keys : \E v \in Workers : B(v, k)}
  BY Zenon DEF RingReserved, Adds
<1>4. ASSUME NEW v \in Workers, v # w, Adds(pc[v], arg[v]), Adds(pc[w], arg[w])
      PROVE  arg[v].key # arg[w].key
  BY <1>4, Zenon DEF Adds, LockInv, LockedSteps
<1>5. ASSUME NEW k \in Keys
      PROVE  (\E v \in Workers : B(v, k))
               <=> \/ Adds(step, a) /\ a.key = k /\ a.ring = r
                   \/ (\E v \in Workers : A(v, k)) /\ ~A(w, k)
  BY <1>1, <1>4, Zenon
<1> QED BY <1>2, <1>3, <1>5

\* The model's operators on the index in terms of HasEntry.
LEMMA RingBlocksEntry ==
    /\ \A r, k : ringHasBlock(r, k) <=> HasEntry(index, r, k)
    /\ \A r : RingBlocks(r) = {k \in Keys : HasEntry(index, r, k)}
    /\ \A r : RingBlocks(r)' = {k \in Keys : HasEntry(index', r, k)}
<1>1. \A r, k : ringHasBlock(r, k) <=> HasEntry(index, r, k)
  BY Zenon DEF ringHasBlock, RootsForBlock, HasEntry
<1>2. \A r, k : ringHasBlock(r, k)' <=> HasEntry(index', r, k)
  BY Zenon DEF ringHasBlock, RootsForBlock, HasEntry
<1> QED BY <1>1, <1>2, Zenon DEF RingBlocks

\* A ring's listed and reserved keys have types, and no key is both.
LEMMA RingSets ==
    ASSUME TypeOK, NEW r \in Rings
    PROVE  /\ RingBlocks(r) \in SUBSET Keys /\ RingReserved(r) \in SUBSET Keys
           /\ ringUsed[r] \in Nat /\ ringCount[r] \in Nat
           /\ AddingInv => RingBlocks(r) \cap RingReserved(r) = {}
<1>1. AddingInv => RingBlocks(r) \cap RingReserved(r) = {}
  BY RingBlocksEntry, Zenon DEF RingReserved, AddingInv, Adds
<1> QED BY <1>1, Zenon DEF RingBlocks, RingReserved, TypeOK, CountersOK

\* A worker that moves without touching a ring's blocks or counters.
LEMMA RingQuiet ==
    ASSUME TypeOK, RingInv, NEW w \in Workers, NEW step, NEW a, Enter(w, step, a),
           \/ step \notin LockedSteps
           \/ pc[w] \in LockedSteps /\ a.key = arg[w].key
           \/ ~Locked(a.key),
           \/ ~Adds(pc[w], arg[w]) /\ ~Adds(step, a)
           \/ Adds(pc[w], arg[w]) /\ Adds(step, a) /\ a.key = arg[w].key /\ a.ring = arg[w].ring,
           step \in {"write", "count", "link"} /\ a.root # None =>
             pc[w] \in {"write", "count", "link"} /\ a = arg[w],
           step \in {"count", "link", "root"} \/ (step = "ring" /\ a.has) => a.key \in blocks',
           step \notin {"freed", "drop"},
           step = "unlink" => /\ "rmroot" \in Ops[w]
                              /\ \A k \in a.snap : <<a.ring, k, a.root>> \in index,
           blocks \subseteq blocks', UNCHANGED <<index, ringUsed, ringCount, gc>>,
           disk'.closed = disk.closed
    PROVE  RingInv'
<1> USE DEF RingInv
<1>1. LockInv'
  BY LockEnter, Zenon
<1>2. \A v \in Workers : pc'[v] = (IF v = w THEN step ELSE pc[v])
                      /\ arg'[v] = (IF v = w THEN a ELSE arg[v])
  BY Zenon DEF Enter, TypeOK, LocalsOK
<1>3. FileInv'
  BY <1>2 DEF FileInv
<1>5. AddingInv'
  BY <1>2, ZenonT(60) DEF AddingInv
<1>6. SnapInv'
  BY <1>2, Zenon DEF SnapInv
<1>7. ASSUME NEW r \in Rings PROVE RingReserved(r)' = RingReserved(r)
  <2> DEFINE Out == {k \in Keys : Adds(pc[w], arg[w]) /\ arg[w].key = k /\ arg[w].ring = r}
             In == {k \in Keys : Adds(step, a) /\ a.key = k /\ a.ring = r}
  <2>1. RingReserved(r)' = (RingReserved(r) \ Out) \cup In
    BY RingReservedEnter
  <2>2. Out \subseteq RingReserved(r)
    BY Zenon DEF Adds, RingReserved
  <2>3. In = Out
    BY Zenon
  <2> QED BY <2>1, <2>2, <2>3, Zenon
<1>8. ASSUME NEW r \in Rings PROVE RingBlocks(r)' = RingBlocks(r)
  BY RingBlocksEntry, Zenon
<1>9. RingExact'
  BY <1>7, <1>8, Zenon DEF RingExact
<1> QED BY <1>1, <1>3, <1>5, <1>6, <1>9, Zenon

\* A worker at a step that holds the lock: no other worker adds its key to a ring.
LEMMA OwnKey ==
    ASSUME LockInv, NEW w \in Workers, pc[w] \in LockedSteps, NEW r \in Rings,
           arg[w].key \in RingReserved(r)
    PROVE  Adds(pc[w], arg[w]) /\ arg[w].ring = r
  BY Zenon DEF LockInv, LockedSteps, RingReserved, Adds

\* The reservation in the ring.
LEMMA RingReserve ==
    ASSUME TypeOK, RingInv, NEW w \in Workers, ReserveInRing(w)
    PROVE  RingInv'
<1> USE DEF RingInv
<1>w. arg[w] \in Args /\ HasArgs(pc[w], arg[w]) /\ pc[w] = "ring"
  BY Zenon DEF TypeOK, LocalsOK, ReserveInRing
<1>k. arg[w].key \in Keys /\ arg[w].ring \in Rings /\ Size[arg[w].key] \in Nat
  BY <1>w, SizeAssumption, Zenon DEF HasArgs
<1>0. PICK k \in Keys, q \in Rings : k = arg[w].key /\ q = arg[w].ring
  BY <1>k, Zenon
<1>1. PICK step \in {"link", "write"}, b \in BOOLEAN, a \in Args :
        /\ a = [arg[w] EXCEPT !.adding = b] /\ Enter(w, step, a)
        /\ b <=> ~HasEntry(index, q, k)
        /\ step = "link" => arg[w].has
  <2>1. PICK b \in BOOLEAN : b = ~ringHasBlock(arg[w].ring, arg[w].key)
    <3>1. CASE ringHasBlock(arg[w].ring, arg[w].key)
      <4>1. FALSE = ~ringHasBlock(arg[w].ring, arg[w].key)
        BY <3>1, Zenon
      <4> QED BY <4>1, Zenon
    <3>2. CASE ~ringHasBlock(arg[w].ring, arg[w].key)
      <4>1. TRUE = ~ringHasBlock(arg[w].ring, arg[w].key)
        BY <3>2, Zenon
      <4> QED BY <4>1, Zenon
    <3> QED BY <3>1, <3>2, Zenon
  <2>2. Enter(w, IF arg[w].has THEN "link" ELSE "write", [arg[w] EXCEPT !.adding = b])
    BY <2>1, Zenon DEF ReserveInRing
  <2>3. b <=> ~HasEntry(index, q, k)
    BY <1>0, <2>1, RingBlocksEntry, Zenon
  <2>4. [arg[w] EXCEPT !.adding = b] \in Args
    BY <1>w DEF Args
  <2> QED BY <2>2, <2>3, <2>4, Zenon
<1>2. /\ a.key = k /\ a.ring = q /\ a.root = arg[w].root /\ (a.adding <=> b)
  BY <1>0, <1>1, <1>w, Zenon DEF Args
<1>3. /\ UNCHANGED <<blocks, index, ringCount, gc, disk>>
      /\ ringUsed' = IF HasEntry(index, q, k) THEN ringUsed ELSE [ringUsed EXCEPT ![q] = @ + Size[k]]
  BY <1>0, RingBlocksEntry, Zenon DEF ReserveInRing, meta
<1>4. \A v \in Workers : pc'[v] = (IF v = w THEN step ELSE pc[v])
                      /\ arg'[v] = (IF v = w THEN a ELSE arg[v])
  BY <1>1, Zenon DEF Enter, TypeOK, LocalsOK
<1>5. LockInv'
  BY <1>0, <1>1, <1>2, <1>w, LockEnter, Zenon DEF LockedSteps
<1>6. FileInv'
  BY <1>0, <1>1, <1>2, <1>3, <1>4, <1>w, Zenon DEF FileInv
<1>7. AddingInv'
  BY <1>1, <1>2, <1>3, <1>4, Zenon DEF AddingInv, Adds
<1>8. SnapInv'
  BY <1>1, <1>3, <1>4, Zenon DEF SnapInv
<1>9. ASSUME NEW r \in Rings
      PROVE  /\ RingBlocks(r)' = RingBlocks(r)
             /\ RingReserved(r)' = IF b /\ r = q THEN RingReserved(r) \cup {k} ELSE RingReserved(r)
  <2>1. RingBlocks(r)' = RingBlocks(r)
    BY <1>3, RingBlocksEntry, Zenon
  <2> DEFINE Out == {j \in Keys : Adds(pc[w], arg[w]) /\ arg[w].key = j /\ arg[w].ring = r}
             In == {j \in Keys : Adds(step, a) /\ a.key = j /\ a.ring = r}
  <2>2. RingReserved(r)' = (RingReserved(r) \ Out) \cup In
    <3>1. Enter(w, step, a)
      BY <1>1, Zenon
    <3> QED BY <3>1, RingReservedEnter
  <2>3. Out = {} /\ In = IF b /\ r = q THEN {k} ELSE {}
    <3>1. Out = {}
      BY <1>w, Zenon DEF Adds
    <3>2. Adds(step, a) <=> b
      BY <1>1, <1>2, Zenon DEF Adds
    <3>3. In = IF b /\ r = q THEN {k} ELSE {}
      BY <1>2, <3>2, Zenon
    <3> QED BY <3>1, <3>3, Zenon
  <2> QED BY <2>1, <2>2, <2>3, Zenon
<1>10. RingExact'
  <2> SUFFICES ASSUME NEW r \in Rings
               PROVE  /\ ringUsed'[r] = Weight[RingBlocks(r)' \cup RingReserved(r)']
                      /\ ringCount'[r] = Cardinality(RingBlocks(r)' \ RingReserved(r)')
    BY Zenon DEF RingExact
  <2>0. ringUsed \in [Rings -> Nat]
    BY Zenon DEF TypeOK, CountersOK
  <2>1. CASE b /\ r = q
    <3>1. k \notin RingBlocks(r) /\ k \notin RingReserved(r)
      <4>1. k \notin RingReserved(r)
        BY <1>0, <1>w, OwnKey, Zenon DEF LockedSteps, Adds
      <4> QED BY <1>1, <2>1, <4>1, RingBlocksEntry, Zenon
    <3> DEFINE S == RingBlocks(r) \cup RingReserved(r)
    <3>2. Weight[S \cup {k}] = Weight[S] + Size[k]
      BY <3>1, RingSets, WeightPlus, Zenon
    <3>3. RingBlocks(r)' \cup RingReserved(r)' = S \cup {k}
      BY <1>9, <2>1, Zenon
    <3>4. RingBlocks(r)' \ RingReserved(r)' = RingBlocks(r) \ RingReserved(r)
      BY <1>9, <2>1, <3>1, Zenon
    <3>5. ringUsed'[r] = ringUsed[r] + Size[k] /\ ringCount' = ringCount
      BY <1>1, <1>3, <2>0, <2>1, Zenon
    <3> QED BY <3>2, <3>3, <3>4, <3>5, Zenon DEF RingExact
  <2>2. CASE ~(b /\ r = q)
    <3>1. ringUsed'[r] = ringUsed[r] /\ ringCount' = ringCount
      BY <1>1, <1>3, <2>0, <2>2, Zenon
    <3> QED BY <1>9, <2>2, <3>1, Zenon DEF RingExact
  <2> QED BY <2>1, <2>2, Zenon
<1> QED BY <1>3, <1>5, <1>6, <1>7, <1>8, <1>10, Zenon

\* The reservation given back.
LEMMA RingGiveBack ==
    ASSUME TypeOK, RingInv, NEW w \in Workers, WriteFails(w)
    PROVE  RingInv'
<1> USE DEF RingInv
<1>w. arg[w] \in Args /\ HasArgs(pc[w], arg[w]) /\ pc[w] = "write" /\ arg[w].key \in Keys
  BY Zenon DEF TypeOK, LocalsOK, WriteFails, HasArgs
<1>e. Enter(w, "idle", NoArg) /\ UNCHANGED <<blocks, index, ringCount, gc, disk>>
  BY Zenon DEF WriteFails, Return, meta
<1>1. CASE ~arg[w].adding
  <2>1. ringUsed' = ringUsed
    BY <1>1, Zenon DEF WriteFails
  <2> QED BY <1>1, <1>e, <2>1, RingQuiet, Zenon DEF LockedSteps, Adds
<1>2. CASE arg[w].adding
  <2>0. PICK k \in Keys, q \in Rings : k = arg[w].key /\ q = arg[w].ring
    BY <1>2, <1>w, Zenon DEF HasArgs
  <2>1. ringUsed' = [ringUsed EXCEPT ![q] = Clamp(@ - Size[k])]
    BY <1>2, <2>0, Zenon DEF WriteFails
  <2>2. \A v \in Workers : pc'[v] = (IF v = w THEN "idle" ELSE pc[v])
                        /\ arg'[v] = (IF v = w THEN NoArg ELSE arg[v])
    BY <1>e, Zenon DEF Enter, TypeOK, LocalsOK
  <2>3. LockInv' /\ FileInv' /\ AddingInv' /\ SnapInv'
    <3>1. LockInv'
      BY <1>e, LockEnter, Zenon DEF LockedSteps
    <3> QED BY <1>e, <2>2, <3>1, Zenon DEF FileInv, AddingInv, Adds, SnapInv
  <2>4. ASSUME NEW r \in Rings
        PROVE  /\ RingBlocks(r)' = RingBlocks(r)
               /\ RingReserved(r)' = IF r = q THEN RingReserved(r) \ {k} ELSE RingReserved(r)
    <3>1. RingBlocks(r)' = RingBlocks(r)
      BY <1>e, RingBlocksEntry, Zenon
    <3> DEFINE Out == {j \in Keys : Adds(pc[w], arg[w]) /\ arg[w].key = j /\ arg[w].ring = r}
               In == {j \in Keys : Adds("idle", NoArg) /\ NoArg.key = j /\ NoArg.ring = r}
    <3>2. RingReserved(r)' = (RingReserved(r) \ Out) \cup In
      BY <1>e, RingReservedEnter
    <3>3. In = {} /\ Out = IF r = q THEN {k} ELSE {}
      BY <1>2, <1>w, <2>0, Zenon DEF Adds
    <3> QED BY <3>1, <3>2, <3>3, Zenon
  <2>5. RingExact'
    <3> SUFFICES ASSUME NEW r \in Rings
                 PROVE  /\ ringUsed'[r] = Weight[RingBlocks(r)' \cup RingReserved(r)']
                        /\ ringCount'[r] = Cardinality(RingBlocks(r)' \ RingReserved(r)')
      BY Zenon DEF RingExact
    <3>0. ringUsed \in [Rings -> Nat]
      BY Zenon DEF TypeOK, CountersOK
    <3>1. CASE r = q
      <4> DEFINE S == RingBlocks(r) \cup RingReserved(r)
      <4>1. k \in RingReserved(r) /\ k \notin RingBlocks(r)
        <5>1. k \in RingReserved(r)
          BY <1>2, <1>w, <2>0, <3>1, Zenon DEF RingReserved
        <5> QED BY <5>1, RingSets, Zenon
      <4>2. /\ Weight[S] \in Nat /\ Size[k] \in Nat /\ Weight[S \ {k}] \in Nat
            /\ Weight[S] = Weight[S \ {k}] + Size[k]
        BY <4>1, RingSets, WeightMinus, Zenon
      <4>3. RingBlocks(r)' \cup RingReserved(r)' = S \ {k}
        BY <2>4, <3>1, <4>1, Zenon
      <4>4. RingBlocks(r)' \ RingReserved(r)' = RingBlocks(r) \ RingReserved(r)
        BY <2>4, <3>1, <4>1, Zenon
      <4>5. ringUsed[r] = Weight[S] /\ ringUsed'[r] = Clamp(ringUsed[r] - Size[k])
        BY <2>1, <3>0, <3>1, Zenon DEF RingExact
      <4>6. ringUsed'[r] = Weight[S \ {k}]
        <5> HIDE DEF S
        <5> QED BY <4>2, <4>5 DEF Clamp
      <4> QED BY <1>e, <4>3, <4>4, <4>6, Zenon DEF RingExact
    <3>2. CASE r # q
      <4>1. ringUsed'[r] = ringUsed[r]
        BY <2>1, <3>0, <3>2, Zenon
      <4> QED BY <1>e, <2>4, <3>2, <4>1, Zenon DEF RingExact
    <3> QED BY <3>1, <3>2, Zenon
  <2> QED BY <1>e, <2>3, <2>5, Zenon
<1> QED BY <1>1, <1>2, Zenon

\* The index entry: a block that joins the ring moves from reserved to listed.
LEMMA RingLink ==
    ASSUME TypeOK, RingInv, NEW w \in Workers, LinkBlock(w)
    PROVE  RingInv'
<1> USE DEF RingInv
<1>w. /\ arg[w] \in Args /\ HasArgs(pc[w], arg[w]) /\ pc[w] = "link"
      /\ arg[w].key \in Keys /\ arg[w].ring \in Rings /\ arg[w].root \in Roots
  BY Zenon DEF TypeOK, LocalsOK, LinkBlock, HasArgs
<1>0. PICK k \in Keys, q \in Rings, x \in Roots : k = arg[w].key /\ q = arg[w].ring /\ x = arg[w].root
  BY <1>w, Zenon
<1>1. /\ Enter(w, "root", arg[w]) /\ UNCHANGED <<blocks, ringUsed, gc, disk>>
      /\ index' = index \cup {<<q, k, x>>}
      /\ ringCount' = IF arg[w].adding THEN [ringCount EXCEPT ![q] = @ + 1] ELSE ringCount
  BY <1>0, Zenon DEF LinkBlock, Goto, Enter, TypeOK, LocalsOK
<1>2. \A v \in Workers : pc'[v] = (IF v = w THEN "root" ELSE pc[v]) /\ arg'[v] = arg[v]
  BY <1>1, Zenon DEF Enter, TypeOK, LocalsOK
<1>3. LockInv'
  BY <1>1, <1>w, LockEnter, Zenon DEF LockedSteps
<1>4. k \in blocks
  BY <1>0, <1>w, Zenon DEF FileInv
<1>5. FileInv'
  <2>1. \A t \in index' : t[2] \in blocks'
    BY <1>1, <1>4 DEF FileInv
  <2> QED BY <1>0, <1>1, <1>2, <1>4, <2>1, ZenonT(60) DEF FileInv
<1>6. \A r, j : HasEntry(index', r, j) <=> HasEntry(index, r, j) \/ (r = q /\ j = k)
  BY <1>1, Zenon DEF HasEntry
<1>7. AddingInv'
  <2>1. ASSUME NEW v \in Workers, v # w, pc[v] \in {"write", "count", "link"} PROVE arg[v].key # k
    BY <1>0, <1>w, <2>1, Zenon DEF LockInv, LockedSteps
  <2> QED BY <1>2, <1>6, <2>1 DEF AddingInv, Adds
<1>8. SnapInv'
  <2>1. index \subseteq index'
    BY <1>1, Zenon
  <2> QED BY <1>2, <2>1, Zenon DEF SnapInv
<1>9. ASSUME NEW r \in Rings
      PROVE  /\ RingBlocks(r)' = IF r = q THEN RingBlocks(r) \cup {k} ELSE RingBlocks(r)
             /\ RingReserved(r)' = IF arg[w].adding /\ r = q THEN RingReserved(r) \ {k} ELSE RingReserved(r)
  <2>1. RingBlocks(r)' = IF r = q THEN RingBlocks(r) \cup {k} ELSE RingBlocks(r)
    BY <1>6, RingBlocksEntry, Zenon
  <2> DEFINE Out == {j \in Keys : Adds(pc[w], arg[w]) /\ arg[w].key = j /\ arg[w].ring = r}
             In == {j \in Keys : Adds("root", arg[w]) /\ arg[w].key = j /\ arg[w].ring = r}
  <2>2. RingReserved(r)' = (RingReserved(r) \ Out) \cup In
    BY <1>1, RingReservedEnter
  <2>3. In = {}
    BY Zenon DEF Adds
  <2>4. Out = IF arg[w].adding /\ r = q THEN {k} ELSE {}
    BY <1>0, <1>w, Zenon DEF Adds
  <2> QED BY <2>1, <2>2, <2>3, <2>4, Zenon
<1>10. RingExact'
  <2> SUFFICES ASSUME NEW r \in Rings
               PROVE  /\ ringUsed'[r] = Weight[RingBlocks(r)' \cup RingReserved(r)']
                      /\ ringCount'[r] = Cardinality(RingBlocks(r)' \ RingReserved(r)')
    BY Zenon DEF RingExact
  <2>0. ringCount \in [Rings -> Nat]
    BY Zenon DEF TypeOK, CountersOK
  <2>1. CASE arg[w].adding /\ r = q
    <3>1. k \in RingReserved(r) /\ k \notin RingBlocks(r)
      <4>1. k \in RingReserved(r)
        BY <1>0, <1>w, <2>1, Zenon DEF RingReserved
      <4> QED BY <4>1, RingSets, Zenon
    <3> DEFINE S == RingBlocks(r) \ RingReserved(r)
    <3>2. RingBlocks(r)' \cup RingReserved(r)' = RingBlocks(r) \cup RingReserved(r)
      BY <1>9, <2>1, <3>1, Zenon
    <3>3. RingBlocks(r)' \ RingReserved(r)' = S \cup {k} /\ k \notin S
      BY <1>9, <2>1, <3>1, Zenon
    <3>4. IsFiniteSet(S)
      BY RingSets, FiniteAssumption, FS_Subset, Zenon
    <3>5. Cardinality(S \cup {k}) = Cardinality(S) + 1
      BY <3>3, <3>4, FS_AddElement, Zenon
    <3>6. ringUsed' = ringUsed /\ ringCount'[r] = ringCount[r] + 1
      BY <1>1, <2>0, <2>1, Zenon
    <3> QED BY <3>2, <3>3, <3>5, <3>6, Zenon DEF RingExact
  <2>2. CASE ~(arg[w].adding /\ r = q)
    <3>1. ringUsed' = ringUsed /\ ringCount'[r] = ringCount[r]
      BY <1>1, <2>0, <2>2, Zenon
    <3>2. RingBlocks(r)' = RingBlocks(r)
      <4>1. CASE r = q
        <5>1. HasEntry(index, q, k)
          BY <1>0, <1>w, <2>2, <4>1, NoneAssumption, Zenon DEF AddingInv
        <5> QED BY <1>9, <4>1, <5>1, RingBlocksEntry, Zenon
      <4> QED BY <1>9, <4>1, Zenon
    <3> QED BY <1>9, <2>2, <3>1, <3>2, Zenon DEF RingExact
  <2> QED BY <2>1, <2>2, Zenon
<1> QED BY <1>1, <1>3, <1>5, <1>7, <1>8, <1>10, Zenon

\* The removal of a root: what the ring loses is what the counters lose.
LEMMA RingUnlink ==
    ASSUME PutsAndRemovals, TypeOK, RingInv, NEW w \in Workers, UnlinkRoot(w)
    PROVE  RingInv'
<1> USE DEF RingInv
<1>w. /\ pc[w] = "unlink" /\ arg[w].ring \in Rings /\ arg[w].root \in Roots /\ arg[w].snap \subseteq Keys
  BY Zenon DEF UnlinkRoot, TypeOK, LocalsOK, HasArgs
<1>0. PICK q \in Rings, x \in Roots, S \in SUBSET Keys : q = arg[w].ring /\ x = arg[w].root /\ S = arg[w].snap
  BY <1>w, Zenon
<1> DEFINE gone == {k \in S \cap blocks : RootsForBlock(q, k) \subseteq {x}}
<1>1. /\ Enter(w, "idle", NoArg) /\ UNCHANGED <<blocks, gc, disk>>
      /\ \A k \in Keys : ~Locked(k)
      /\ index' = index \ {<<q, k, x>> : k \in S}
      /\ ringUsed' = [ringUsed EXCEPT ![q] = Clamp(@ - Weight[gone])]
      /\ ringCount' = [ringCount EXCEPT ![q] = Clamp(@ - Cardinality(gone))]
  BY <1>0, Zenon DEF UnlinkRoot, removeBlockRootEntries, Return
<1>2. \A v \in Workers : pc'[v] = (IF v = w THEN "idle" ELSE pc[v])
                      /\ arg'[v] = (IF v = w THEN NoArg ELSE arg[v])
  BY <1>1, Zenon DEF Enter, TypeOK, LocalsOK
<1>3. \A v \in Workers : pc[v] \notin LockedSteps
  BY <1>1, Zenon DEF Locked, LockedSteps, TypeOK, LocalsOK, HasArgs
<1>s. S \subseteq blocks /\ \A k \in S : <<q, k, x>> \in index
  <2>1. \A k \in S : <<q, k, x>> \in index
    BY <1>0, <1>w, Zenon DEF SnapInv
  <2> QED BY <2>1, Zenon DEF FileInv
<1>4. LockInv' /\ FileInv' /\ AddingInv'
  <2>1. \A v \in Workers : pc'[v] \notin LockedSteps
    BY <1>2, <1>3, Zenon DEF LockedSteps
  <2>2. index' \subseteq index /\ blocks' = blocks
    BY <1>1, Zenon
  <2> QED BY <2>1, <2>2, Zenon DEF LockInv, FileInv, AddingInv, Adds, LockedSteps
<1>5. SnapInv'
  <2>1. ASSUME NEW v \in Workers, pc[v] = "unlink" PROVE v = w
    BY <1>w, <2>1, Zenon DEF SnapInv, PutsAndRemovals
  <2> QED BY <1>2, <2>1, Zenon DEF SnapInv
<1>6. \A r \in Rings : RingReserved(r) = {} /\ RingReserved(r)' = {}
  BY <1>2, <1>3 DEF RingReserved, LockedSteps
<1>7. \A r, k : HasEntry(index', r, k) <=> HasEntry(index, r, k) /\ ~(r = q /\ k \in gone)
  <2> SUFFICES ASSUME NEW r, NEW k
               PROVE  HasEntry(index', r, k) <=> HasEntry(index, r, k) /\ ~(r = q /\ k \in gone)
    BY Zenon
  <2>1. CASE r = q /\ k \in gone
    <3>1. ASSUME NEW y \in Roots, <<r, k, y>> \in index' PROVE FALSE
      <4>1. y = x /\ k \in S
        BY <1>1, <2>1, <3>1, Zenon DEF RootsForBlock
      <4> QED BY <1>1, <2>1, <3>1, <4>1, Zenon
    <3> QED BY <2>1, <3>1, Zenon DEF HasEntry
  <2>2. CASE ~(r = q /\ k \in gone)
    <3>1. ASSUME HasEntry(index, r, k) PROVE HasEntry(index', r, k)
      <4>1. PICK y \in Roots : <<r, k, y>> \in index
        BY <3>1, Zenon DEF HasEntry
      <4>2. CASE <<r, k, y>> \in index'
        BY <4>2, Zenon DEF HasEntry
      <4>3. CASE <<r, k, y>> \notin index'
        <5>1. r = q /\ k \in S /\ y = x
          BY <1>1, <4>1, <4>3, Zenon
        <5>2. PICK z \in Roots : <<q, k, z>> \in index /\ z # x
          BY <1>s, <2>2, <5>1, Zenon DEF RootsForBlock
        <5>3. <<q, k, z>> \in index'
          BY <1>1, <5>2, Zenon
        <5> QED BY <5>1, <5>3, Zenon DEF HasEntry
      <4> QED BY <4>2, <4>3, Zenon
    <3>2. index' \subseteq index
      BY <1>1, Zenon
    <3> QED BY <2>2, <3>1, <3>2, Zenon DEF HasEntry
  <2> QED BY <2>1, <2>2, Zenon
<1>8. gone \subseteq RingBlocks(q)
  BY <1>s, RingBlocksEntry, Zenon DEF HasEntry
<1>9. \A r \in Rings : RingBlocks(r)' = IF r = q THEN RingBlocks(r) \ gone ELSE RingBlocks(r)
  BY <1>7, RingBlocksEntry, Zenon
<1> HIDE DEF gone
<1>10. RingExact'
  <2> SUFFICES ASSUME NEW r \in Rings
               PROVE  /\ ringUsed'[r] = Weight[RingBlocks(r)' \cup RingReserved(r)']
                      /\ ringCount'[r] = Cardinality(RingBlocks(r)' \ RingReserved(r)')
    BY Zenon DEF RingExact
  <2>0. ringUsed \in [Rings -> Nat] /\ ringCount \in [Rings -> Nat]
    BY Zenon DEF TypeOK, CountersOK
  <2>1. CASE r = q
    <3> DEFINE B == RingBlocks(r)
    <3>1. B \cup RingReserved(r) = B /\ B \ RingReserved(r) = B
      BY <1>6, Zenon
    <3>2. RingBlocks(r)' \cup RingReserved(r)' = B \ gone /\ RingBlocks(r)' \ RingReserved(r)' = B \ gone
      BY <1>6, <1>9, <2>1, Zenon
    <3>3. ringUsed[r] = Weight[B] /\ ringCount[r] = Cardinality(B)
      BY <3>1, Zenon DEF RingExact
    <3>4. ringUsed'[r] = Clamp(ringUsed[r] - Weight[gone]) /\ ringCount'[r] = Clamp(ringCount[r] - Cardinality(gone))
      BY <1>1, <2>0, <2>1, ZenonT(60)
    <3>5. B \in SUBSET Keys /\ gone \in SUBSET B
      BY <1>8, <2>1, RingSets, Zenon
    <3> HIDE DEF B
    <3>6. /\ Weight[B] = Weight[B \ gone] + Weight[gone]
          /\ Weight[B] \in Nat /\ Weight[B \ gone] \in Nat /\ Weight[gone] \in Nat
      BY <3>5, WeightDiff, Zenon
    <3>7. /\ Cardinality(B \ gone) = Cardinality(B) - Cardinality(gone)
          /\ Cardinality(B) \in Nat /\ Cardinality(B \ gone) \in Nat /\ Cardinality(gone) \in Nat
      <4>1. IsFiniteSet(B) /\ IsFiniteSet(gone) /\ IsFiniteSet(B \ gone)
        BY <3>5, FiniteAssumption, FS_Subset, Zenon
      <4>2. B \cap gone = gone
        BY <3>5, Zenon
      <4>3. Cardinality(B \ gone) = Cardinality(B) - Cardinality(B \cap gone)
        BY <4>1, FS_Difference, Zenon
      <4> QED BY <4>1, <4>2, <4>3, FS_CardinalityType, Zenon
    <3>8. ringUsed'[r] = Weight[B \ gone] /\ ringCount'[r] = Cardinality(B \ gone)
      <4>1. ringUsed'[r] = Weight[B \ gone]
        BY <3>3, <3>4, <3>6 DEF Clamp
      <4>2. ringCount'[r] = Cardinality(B \ gone)
        BY <3>3, <3>4, <3>7 DEF Clamp
      <4> QED BY <4>1, <4>2, Zenon
    <3> QED BY <3>2, <3>8, Zenon
  <2>2. CASE r # q
    <3>1. ringUsed'[r] = ringUsed[r] /\ ringCount'[r] = ringCount[r]
      BY <1>1, <2>0, <2>2, Zenon
    <3> QED BY <1>6, <1>9, <2>2, <3>1, Zenon DEF RingExact
  <2> QED BY <2>1, <2>2, Zenon
<1> QED BY <1>1, <1>4, <1>5, <1>10, Zenon

\* A step that does not touch what the invariant speaks of.
LEMMA RingFrame ==
    ASSUME RingInv, UNCHANGED <<blocks, index, ringUsed, ringCount, gc, disk, pc, arg>>
    PROVE  RingInv'
<1>1. \A r : RingBlocks(r)' = RingBlocks(r) /\ RingReserved(r)' = RingReserved(r)
  <2>1. \A r : RingBlocks(r)' = RingBlocks(r)
    BY RingBlocksEntry, Zenon
  <2>2. \A r : RingReserved(r)' = RingReserved(r)
    BY Zenon DEF RingReserved
  <2> QED BY <2>1, <2>2, Zenon
<1>2. RingExact'
  BY <1>1, Zenon DEF RingInv, RingExact
<1>3. LockInv' /\ FileInv' /\ AddingInv' /\ SnapInv'
  BY Zenon DEF RingInv, LockInv, FileInv, AddingInv, SnapInv
<1> QED BY <1>2, <1>3, Zenon DEF RingInv

\* One step per action: the calls and steps PutsAndRemovals allows, and the clock.
LEMMA RingNext ==
    ASSUME PutsAndRemovals, TypeOK, RingInv, [Next]_vars
    PROVE  RingInv'
<1>a. \A w \in Workers : Ops[w] \cap {"index", "delete", "drop"} = {} /\ pc[w] \notin {"freed", "drop"}
  BY Zenon DEF PutsAndRemovals, RingInv, SnapInv
<1>1. ASSUME NEW w \in Workers, Call(w) PROVE RingInv'
  <2>1. ASSUME NEW k \in Keys, Put(w, k) PROVE RingInv'
    <3> DEFINE a == [NoArg EXCEPT !.key = k]
    <3>1. a.key = k /\ a.adding = FALSE /\ a.root = None
      BY Zenon DEF NoArg
    <3>2. /\ Enter(w, "write", a) /\ ~Locked(k) /\ pc[w] = "idle"
          /\ UNCHANGED <<blocks, index, ringUsed, ringCount, gc, disk>>
      BY <2>1, Zenon DEF Put, Start, meta
    <3> HIDE DEF a
    <3> QED BY <3>1, <3>2, RingQuiet, Zenon DEF Adds
  <2>2. ASSUME NEW k \in Keys, NEW r \in Rings, NEW x \in Roots, PutWithRoot(w, k, r, x) PROVE RingInv'
    <3> DEFINE a == [NoArg EXCEPT !.key = k, !.ring = r, !.root = x, !.has = k \in blocks]
    <3>1. a.key = k /\ (a.has <=> k \in blocks)
      BY Zenon DEF NoArg
    <3>2. /\ Enter(w, "ring", a) /\ ~Locked(k) /\ pc[w] = "idle"
          /\ UNCHANGED <<blocks, index, ringUsed, ringCount, gc, disk>>
      BY <2>2, Zenon DEF PutWithRoot, Start, meta
    <3> HIDE DEF a
    <3> QED BY <3>1, <3>2, RingQuiet, Zenon DEF Adds
  <2>3. ASSUME NEW r \in Rings, NEW x \in Roots, RemoveRoot(w, r, x) PROVE RingInv'
    <3> DEFINE S == {k \in Keys : <<r, k, x>> \in index}
               a == [NoArg EXCEPT !.ring = r, !.root = x, !.snap = S]
    <3>1. a.ring = r /\ a.root = x /\ a.snap = S
      BY Zenon DEF NoArg
    <3>2. /\ Enter(w, "unlink", a) /\ pc[w] = "idle" /\ "rmroot" \in Ops[w]
          /\ UNCHANGED <<blocks, index, ringUsed, ringCount, gc, disk>>
      BY <2>3, Zenon DEF RemoveRoot, Start, counters
    <3> HIDE DEF a
    <3>3. \A k \in a.snap : <<a.ring, k, a.root>> \in index
      BY <3>1, Zenon
    <3> QED BY <3>2, <3>3, RingQuiet, Zenon DEF Adds, LockedSteps
  <2>4. ASSUME NEW r \in Rings, NEW m \in Quotas, CheckQuota(w, r, m) PROVE RingInv'
    <3> DEFINE a == [NoArg EXCEPT !.ring = r, !.max = m]
    <3>1. /\ Enter(w, "quota", a) /\ pc[w] = "idle"
          /\ UNCHANGED <<blocks, index, ringUsed, ringCount, gc, disk>>
      BY <2>4, Zenon DEF CheckQuota, Start, counters, meta
    <3> HIDE DEF a
    <3> QED BY <3>1, RingQuiet, Zenon DEF Adds, LockedSteps
  <2>5. ASSUME NEW r \in Rings, NEW x \in Roots, AddRootWithExpiry(w, r, x) PROVE RingInv'
    <3>1. UNCHANGED <<blocks, index, ringUsed, ringCount, gc, disk, pc, arg>>
      BY <2>5, Zenon DEF AddRootWithExpiry, counters, locals
    <3> QED BY <3>1, RingFrame, Zenon
  <2> QED BY <1>1, <1>a, <2>1, <2>2, <2>3, <2>4, <2>5, ZenonT(60)
          DEF Call, Delete, DropQuery, AddBlockRootIndex, Start
<1>2. ASSUME NEW w \in Workers, WorkerStep(w) PROVE RingInv'
  <2>w. arg[w] \in Args /\ HasArgs(pc[w], arg[w])
    BY Zenon DEF TypeOK, LocalsOK
  <2>1. CASE RingFull(w)
    <3>1. /\ Enter(w, "idle", NoArg) /\ pc[w] = "ring"
          /\ UNCHANGED <<blocks, index, ringUsed, ringCount, gc, disk>>
      BY <2>1, Zenon DEF RingFull, Return, meta
    <3> QED BY <3>1, RingQuiet, Zenon DEF Adds, LockedSteps
  <2>2. CASE WriteBlock(w)
    <3>1. /\ Enter(w, "count", arg[w]) /\ pc[w] = "write" /\ blocks' = blocks \cup {arg[w].key}
          /\ UNCHANGED <<index, ringUsed, ringCount, gc, disk>>
      BY <2>2, Zenon DEF WriteBlock, Goto, Enter, TypeOK, LocalsOK, counters, meta
    <3> QED BY <3>1, RingQuiet DEF Adds, LockedSteps
  <2>3. CASE CountBlock(w)
    <3>1. pc[w] = "count" /\ UNCHANGED <<blocks, index, ringUsed, ringCount, gc, disk>>
      BY <2>3, Zenon DEF CountBlock, meta
    <3>2. CASE arg[w].root = None
      <4>1. Enter(w, "idle", NoArg)
        BY <2>3, <3>2, Zenon DEF CountBlock, Return
      <4>2. ~arg[w].adding
        BY <2>w, <3>1, <3>2, NoneAssumption, Zenon DEF HasArgs
      <4> QED BY <3>1, <4>1, <4>2, RingQuiet, ZenonT(60) DEF Adds, LockedSteps
    <3>3. CASE arg[w].root # None
      <4>1. Enter(w, "link", arg[w])
        BY <2>3, <3>3, Zenon DEF CountBlock, Goto, Enter, TypeOK, LocalsOK
      <4>2. arg[w].key \in blocks
        BY <3>1, Zenon DEF RingInv, FileInv
      <4> QED BY <3>1, <4>1, <4>2, RingQuiet DEF Adds, LockedSteps
    <3> QED BY <3>2, <3>3, Zenon
  <2>4. CASE LinkRoot(w)
    <3>1. /\ Enter(w, "idle", NoArg) /\ pc[w] = "root"
          /\ UNCHANGED <<blocks, index, ringUsed, ringCount, gc, disk>>
      BY <2>4, Zenon DEF LinkRoot, Return, counters
    <3> QED BY <3>1, RingQuiet, Zenon DEF Adds, LockedSteps
  <2>5. CASE StoreQuota(w)
    <3>1. /\ Enter(w, "idle", NoArg) /\ pc[w] = "quota"
          /\ UNCHANGED <<blocks, index, ringUsed, ringCount, gc>>
      BY <2>5, Zenon DEF StoreQuota, Return
    <3>2. disk'.closed = disk.closed
      BY <2>5, Zenon DEF StoreQuota, TypeOK, CountersOK
    <3> QED BY <3>1, <3>2, RingQuiet, Zenon DEF Adds, LockedSteps
  <2>6. ~DeleteDone(w) /\ ~DropBlock(w)
    BY <1>a, Zenon DEF DeleteDone, DropBlock
  <2> QED BY <1>2, <2>1, <2>2, <2>3, <2>4, <2>5, <2>6, RingReserve, RingGiveBack, RingLink, RingUnlink, Zenon
          DEF WorkerStep
<1>3. ~(GcStart \/ GcStep \/ Close \/ Reopen \/ \E r \in Rings : ForgetRing(r))
  BY Zenon DEF PutsAndRemovals, RingInv, GcStart, GcStep, GcPrune, GcUnlink, GcMark, GcCheck, GcClean,
         GcRemove, GcRemoveFails, GcDone, Close, Reopen, ForgetRing
<1>4. ASSUME NEW r \in Rings, NEW x \in Roots, Expire(r, x) PROVE RingInv'
  BY <1>4, RingFrame, Zenon DEF Expire, counters, locals
<1>5. CASE UNCHANGED vars
  BY <1>5, RingFrame, Zenon DEF vars, counters, locals, meta
<1> QED BY <1>1, <1>2, <1>3, <1>4, <1>5, Zenon DEF Next

\* A ring's used bytes and block count are those of the blocks its index lists and of
\* the puts under way, however puts of the same block into several rings, under
\* several roots, failed writes and the removal of a root interleave
\* (store/network_block_store.go 694-767, 572-581, 976-1010).
THEOREM StoreRingExact ==
    ASSUME PutsAndRemovals
    PROVE  Spec => []RingExact
<1>1. Init => RingInv
  <2> SUFFICES ASSUME Init PROVE RingInv
    BY Zenon
  <2>1. \A w \in Workers : pc[w] = "idle"
    BY Zenon DEF Init
  <2>2. index = {} /\ gc.pc = "idle" /\ ~disk.closed
    BY GcIdleType, Zenon DEF Init
  <2>3. \A r \in Rings : RingReserved(r) = {} /\ RingBlocks(r) = {}
    BY <2>1, <2>2, RingBlocksEntry, Zenon DEF RingReserved, HasEntry
  <2>4. \A r \in Rings : ringUsed[r] = 0 /\ ringCount[r] = 0
    BY Zenon DEF Init
  <2>5. RingExact
    BY <2>3, <2>4, WeightAssumption, FS_EmptySet, Zenon DEF RingExact
  <2> QED BY <2>1, <2>2, <2>5, Zenon DEF RingInv, LockInv, LockedSteps, FileInv, AddingInv, Adds, SnapInv
<1>2. TypeOK /\ RingInv /\ [Next]_vars => RingInv'
  BY RingNext, Zenon
<1>3. RingInv => RingExact
  BY Zenon DEF RingInv
<1> QED BY <1>1, <1>2, <1>3, StoreTypeCorrect, PTL DEF Spec
============================================================================
