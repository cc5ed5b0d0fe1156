------------------------- MODULE NetworkBlockStore -------------------------
(***************************************************************************)
(* The per-node store of ring blocks (store/network_block_store.go).       *)
(*                                                                         *)
(* Blocks live in a flat file store and are shared by all the rings of the *)
(* node.  A metadata store keeps, per ring, the root records (a root CID   *)
(* with an expiry) and the reverse index "block, root".  The bytes and the *)
(* number of blocks, in total and per ring, are counters in memory that    *)
(* are written to disk only by Close.                                      *)
(*                                                                         *)
(* Goroutines (Workers) call the operations concurrently.  Put,            *)
(* PutWithRoot, Delete, DropBlock and AddBlockRootIndex hold the lock      *)
(* shard of their key; the collector takes no lock at all.  An operation   *)
(* is cut into steps where another goroutine can interfere: at a counter,  *)
(* at the block file, at the metadata, before the lock is taken.           *)
(*                                                                         *)
(* Abstractions: a root record is absent, live or expired; the clock is    *)
(* Expire.  Every key has a lock shard of its own, the most concurrent     *)
(* case.  The usage counter per root CID (cidusage) is left out.           *)
(***************************************************************************)
EXTENDS Integers, FiniteSets

CONSTANTS
  Keys,      \* block CIDs
  Roots,     \* root CIDs
  Rings,     \* ring identifiers
  Workers,   \* goroutines that call the store
  Size,      \* length of a block's data
  Weight,    \* total length of a set of blocks
  MaxBytes,  \* storageMax of OpenNetworkBlockStore, 0 for no limit
  Quotas,    \* values a caller passes to SetQuota, 0 for no limit
  Ops,       \* the operations each worker calls
  Env,       \* what else happens: collections, expiry, ring removal, restarts
  None       \* no value

OpNames == {"put", "putroot", "index", "addroot", "delete", "drop", "rmroot", "quota"}
EnvNames == {"gc", "gcerr", "expire", "forget", "restart", "crash"}

ASSUME SizeAssumption == Size \in [Keys -> Nat]
ASSUME MaxAssumption == MaxBytes \in Nat /\ Quotas \subseteq Nat
ASSUME OpsAssumption == Ops \in [Workers -> SUBSET OpNames] /\ Env \subseteq EnvNames
ASSUME NoneAssumption == None \notin Keys \cup Rings \cup Roots
ASSUME FiniteAssumption == IsFiniteSet(Keys)

(* Weight is the additive extension of Size to sets of blocks. *)
ASSUME WeightAssumption ==
  /\ Weight \in [SUBSET Keys -> Nat]
  /\ Weight[{}] = 0
  /\ \A k \in Keys : Weight[{k}] = Size[k]
  /\ \A S, T \in SUBSET Keys : S \cap T = {} => Weight[S \cup T] = Weight[S] + Weight[T]

VARIABLES
  blocks,      \* keys with a file in flatfs
  index,       \* <<ring, key, root>> entries of the blockroots index
  roots,       \* root records: [Rings -> [Roots -> absent, live or expired]]
  known,       \* rings with a presence key
  used, count,           \* usedBytesAtomic, blockCountAtomic
  ringUsed, ringCount,   \* ringCounters[r].used, .count
  quota,                 \* ringCounters[r].quota
  disk,        \* the counters as last written to the metadata store
  pc,          \* program counter of each worker
  arg,         \* its arguments and locals: key, ring, root and max; hasBlock and
               \* addingToRing of PutWithRoot; a query made before the lock is taken
  gc,          \* locals of the collector
  protected    \* ghost: index entries live at the mark and ever since

counters == <<used, count, ringUsed, ringCount, quota>>
meta == <<index, roots, known>>
locals == <<pc, arg>>
vars == <<blocks, meta, counters, disk, locals, gc, protected>>
----------------------------------------------------------------------------
(* applySignedDelta: a counter never goes below zero. *)
Clamp(n) == IF n < 0 THEN 0 ELSE n

(* ringHasBlock: the ring has an index entry for the key. *)
RootsForBlock(r, k) == {x \in Roots : <<r, k, x>> \in index}
ringHasBlock(r, k) == RootsForBlock(r, k) # {}
RingBlocks(r) == {k \in Keys : ringHasBlock(r, k)}

(* The shard of the key is held: a worker is inside a locked operation. *)
Locked(k) == \E w \in Workers :
               pc[w] \in {"ring", "write", "count", "link", "root", "freed"} /\ arg[w].key = k

(* The root CIDs live in some ring of R, whichever ring that is. *)
LiveRoots(R) == {x \in Roots : \E r \in R : roots[r][x] = "live"}

(* blockHasLiveRootInSet *)
blockHasLiveRootInSet(k, R, live) == \E r \in R : RootsForBlock(r, k) \cap live # {}

(* The ghost keeps the entries that are still indexed and still live. *)
Retain(idx, rts) == {t \in protected : t \in idx /\ rts[t[1]][t[3]] = "live"}
----------------------------------------------------------------------------
NoArg == [key |-> None, ring |-> None, root |-> None, max |-> 0, has |-> FALSE, adding |-> FALSE,
          snap |-> {}]

GcIdle == [pc |-> "idle", expired |-> {}, cur |-> <<None, None>>, rm |-> {}, rings |-> {},
           live |-> {}, todo |-> {}, seen |-> {}, key |-> None, size |-> 0,
           bytes |-> 0, blocks |-> 0]

(* A store without blocks: loadCounters counts nothing and writes zeros.   *)
(* The quotas are those an earlier session left in the metadata.           *)
Init ==
  /\ blocks = {}
  /\ index = {}
  /\ roots = [r \in Rings |-> [x \in Roots |-> "absent"]]
  /\ quota \in [Rings -> Quotas]
  /\ known = {r \in Rings : quota[r] > 0}
  /\ used = 0
  /\ count = 0
  /\ ringUsed = [r \in Rings |-> 0]
  /\ ringCount = [r \in Rings |-> 0]
  /\ disk = [used |-> 0, count |-> 0, ringUsed |-> ringUsed, ringCount |-> ringCount,
             quota |-> quota, closed |-> FALSE]
  /\ pc = [w \in Workers |-> "idle"]
  /\ arg = [w \in Workers |-> NoArg]
  /\ gc = GcIdle
  /\ protected = {}
----------------------------------------------------------------------------
(* Operations of a worker.                                                 *)

Start(w, op) == pc[w] = "idle" /\ op \in Ops[w]

Enter(w, label, a) == pc' = [pc EXCEPT ![w] = label] /\ arg' = [arg EXCEPT ![w] = a]
Goto(w, label) == pc' = [pc EXCEPT ![w] = label] /\ UNCHANGED arg
Return(w) == Enter(w, "idle", NoArg)

(* Mutant: the check leaves the new bytes out. *)
reserveAggBytes_IgnoresSize(n) == MaxBytes = 0 \/ used <= MaxBytes

(* reserveAggBytes: the compare-and-swap succeeds when the bytes fit. *)
reserveAggBytes(n) == MaxBytes = 0 \/ used + n <= MaxBytes

(* Mutant: the check leaves the new bytes out. *)
reserveBytes_IgnoresSize(r, n) == quota[r] = 0 \/ ringUsed[r] <= quota[r]

(* ringCounters.reserveBytes *)
reserveBytes(r, n) == quota[r] = 0 \/ ringUsed[r] + n <= quota[r]

(* Put of a block no ring refers to; a block that exists or does not fit   *)
(* changes nothing.                                                        *)
Put(w, k) ==
  /\ Start(w, "put")
  /\ ~Locked(k)
  /\ k \notin blocks
  /\ reserveAggBytes(Size[k])
  /\ used' = used + Size[k]
  /\ Enter(w, "write", [NoArg EXCEPT !.key = k])
  /\ UNCHANGED <<blocks, meta, count, ringUsed, ringCount, quota, disk, gc, protected>>

(* PutWithRoot up to the reservation in the aggregate counter. *)
PutWithRoot(w, k, r, x) ==
  /\ Start(w, "putroot")
  /\ ~Locked(k)
  /\ k \notin blocks => reserveAggBytes(Size[k])
  /\ used' = IF k \in blocks THEN used ELSE used + Size[k]
  /\ Enter(w, "ring", [NoArg EXCEPT !.key = k, !.ring = r, !.root = x, !.has = k \in blocks])
  /\ UNCHANGED <<blocks, meta, count, ringUsed, ringCount, quota, disk, gc, protected>>

(* The ring's share, unless the ring lists the block already. *)
ReserveInRing(w) ==
  LET k == arg[w].key
      r == arg[w].ring
      new == ~ringHasBlock(r, k)
  IN /\ pc[w] = "ring"
     /\ new => reserveBytes(r, Size[k])
     /\ ringUsed' = IF new THEN [ringUsed EXCEPT ![r] = @ + Size[k]] ELSE ringUsed
     /\ Enter(w, IF arg[w].has THEN "link" ELSE "write", [arg[w] EXCEPT !.adding = new])
     /\ UNCHANGED <<blocks, meta, used, count, ringCount, quota, disk, gc, protected>>

(* Mutant: the aggregate reservation is kept. *)
RingFull_KeepsBytes(w) ==
  /\ pc[w] = "ring"
  /\ ~ringHasBlock(arg[w].ring, arg[w].key)
  /\ ~reserveBytes(arg[w].ring, Size[arg[w].key])
  /\ Return(w)
  /\ UNCHANGED <<blocks, meta, counters, disk, gc, protected>>

(* A full ring: the aggregate reservation goes back. *)
RingFull(w) ==
  LET k == arg[w].key
      r == arg[w].ring
  IN /\ pc[w] = "ring"
     /\ ~ringHasBlock(r, k)
     /\ ~reserveBytes(r, Size[k])
     /\ used' = IF arg[w].has THEN used ELSE Clamp(used - Size[k])
     /\ Return(w)
     /\ UNCHANGED <<blocks, meta, count, ringUsed, ringCount, quota, disk, gc, protected>>

(* bs.Put of the file ... *)
WriteBlock(w) ==
  /\ pc[w] = "write"
  /\ blocks' = blocks \cup {arg[w].key}
  /\ Goto(w, "count")
  /\ UNCHANGED <<meta, counters, disk, gc, protected>>

(* Mutant: the failure leaves the ring's reservation. *)
WriteFails_KeepsRingBytes(w) ==
  /\ pc[w] = "write"
  /\ used' = Clamp(used - Size[arg[w].key])
  /\ Return(w)
  /\ UNCHANGED <<blocks, meta, count, ringUsed, ringCount, quota, disk, gc, protected>>

(* ... or its failure, which gives both reservations back. *)
WriteFails(w) ==
  LET k == arg[w].key
      r == arg[w].ring
  IN /\ pc[w] = "write"
     /\ used' = Clamp(used - Size[k])
     /\ ringUsed' = IF arg[w].adding THEN [ringUsed EXCEPT ![r] = Clamp(@ - Size[k])] ELSE ringUsed
     /\ Return(w)
     /\ UNCHANGED <<blocks, meta, count, ringCount, quota, disk, gc, protected>>

CountBlock(w) ==
  /\ pc[w] = "count"
  /\ count' = count + 1
  /\ IF arg[w].root = None THEN Return(w) ELSE Goto(w, "link")
  /\ UNCHANGED <<blocks, meta, used, ringUsed, ringCount, quota, disk, gc, protected>>

(* The index entry and the ring's count ... *)
LinkBlock(w) ==
  LET k == arg[w].key
      r == arg[w].ring
  IN /\ pc[w] = "link"
     /\ ringCount' = IF arg[w].adding THEN [ringCount EXCEPT ![r] = @ + 1] ELSE ringCount
     /\ index' = index \cup {<<r, k, arg[w].root>>}
     /\ Goto(w, "root")
     /\ UNCHANGED <<blocks, roots, known, used, count, ringUsed, quota, disk, gc, protected>>

(* ... then the root record, unless there is a live one, and the presence key. *)
LinkRoot(w) ==
  LET r == arg[w].ring IN
  /\ pc[w] = "root"
  /\ roots' = [roots EXCEPT ![r][arg[w].root] = "live"]
  /\ known' = known \cup {r}
  /\ Return(w)
  /\ UNCHANGED <<blocks, index, counters, disk, gc, protected>>

(* AddBlockRootIndex: no quota is asked. *)
AddBlockRootIndex(w, k, r, x) ==
  LET new == k \in blocks /\ Size[k] > 0 /\ ~ringHasBlock(r, k) IN
  /\ Start(w, "index")
  /\ ~Locked(k)
  /\ <<r, k, x>> \notin index
  /\ ringUsed' = IF new THEN [ringUsed EXCEPT ![r] = @ + Size[k]] ELSE ringUsed
  /\ ringCount' = IF new THEN [ringCount EXCEPT ![r] = @ + 1] ELSE ringCount
  /\ index' = index \cup {<<r, k, x>>}
  /\ known' = known \cup {r}
  /\ UNCHANGED <<blocks, roots, used, count, quota, disk, locals, gc, protected>>

(* AddRootWithExpiry overwrites the record; no lock. *)
AddRootWithExpiry(w, r, x) ==
  /\ Start(w, "addroot")
  /\ roots' = [roots EXCEPT ![r][x] = "live"]
  /\ known' = known \cup {r}
  /\ UNCHANGED <<blocks, index, counters, disk, locals, gc, protected>>

(* Delete removes the file, then takes it off the counters; every index    *)
(* entry stays.                                                            *)
Delete(w, k) ==
  /\ Start(w, "delete")
  /\ ~Locked(k)
  /\ k \in blocks
  /\ blocks' = blocks \ {k}
  /\ Enter(w, "freed", [NoArg EXCEPT !.key = k])
  /\ UNCHANGED <<meta, counters, disk, gc, protected>>

DeleteDone(w) ==
  /\ pc[w] = "freed"
  /\ used' = Clamp(used - Size[arg[w].key])
  /\ count' = Clamp(count - 1)
  /\ Return(w)
  /\ UNCHANGED <<blocks, meta, ringUsed, ringCount, quota, disk, gc, protected>>

(* DropBlock: the entries are read before the lock is taken ... *)
DropQuery(w, k, r) ==
  /\ Start(w, "drop")
  /\ ringHasBlock(r, k)
  /\ Enter(w, "drop", [NoArg EXCEPT !.key = k, !.ring = r, !.snap = RootsForBlock(r, k)])
  /\ UNCHANGED <<blocks, meta, counters, disk, gc, protected>>

(* ... and deleted under it; the ring's counters go down if the file is there. *)
DropBlock(w) ==
  LET k == arg[w].key
      r == arg[w].ring
  IN /\ pc[w] = "drop"
     /\ ~Locked(k)
     /\ index' = index \ {<<r, k, x>> : x \in arg[w].snap}
     /\ IF k \in blocks /\ Size[k] > 0
          THEN /\ ringUsed' = [ringUsed EXCEPT ![r] = Clamp(@ - Size[k])]
               /\ ringCount' = [ringCount EXCEPT ![r] = Clamp(@ - 1)]
          ELSE UNCHANGED <<ringUsed, ringCount>>
     /\ protected' = Retain(index', roots)
     /\ Return(w)
     /\ UNCHANGED <<blocks, roots, known, used, count, quota, disk, gc>>

(* RemoveRootStr deletes the record; removeBlockRootEntries lists the index *)
(* before it takes all the lock shards ...                                  *)
RemoveRoot(w, r, x) ==
  /\ Start(w, "rmroot")
  /\ roots' = [roots EXCEPT ![r][x] = "absent"]
  /\ Enter(w, "unlink", [NoArg EXCEPT !.ring = r, !.root = x,
                                      !.snap = {k \in Keys : <<r, k, x>> \in index}])
  /\ protected' = Retain(index, roots')
  /\ UNCHANGED <<blocks, index, known, counters, disk, gc>>

(* ... and for each listed key deletes the entry and, if it was the ring's  *)
(* last entry for a block that is there, takes the block off the counters. *)
removeBlockRootEntries(r, x, S) ==
  LET gone == {k \in S \cap blocks : RootsForBlock(r, k) \subseteq {x}} IN
  /\ \A k \in Keys : ~Locked(k)
  /\ index' = index \ {<<r, k, x>> : k \in S}
  /\ ringUsed' = [ringUsed EXCEPT ![r] = Clamp(@ - Weight[gone])]
  /\ ringCount' = [ringCount EXCEPT ![r] = Clamp(@ - Cardinality(gone))]
  /\ protected' = Retain(index', roots)

UnlinkRoot(w) ==
  /\ pc[w] = "unlink"
  /\ removeBlockRootEntries(arg[w].ring, arg[w].root, arg[w].snap)
  /\ Return(w)
  /\ UNCHANGED <<blocks, roots, known, used, count, quota, disk, gc>>

(* SetQuota refuses a quota below the usage it reads ... *)
CheckQuota(w, r, m) ==
  /\ Start(w, "quota")
  /\ m > 0 => ringUsed[r] <= m
  /\ Enter(w, "quota", [NoArg EXCEPT !.ring = r, !.max = m])
  /\ UNCHANGED <<blocks, meta, counters, disk, gc, protected>>

(* ... and stores it, in memory and on disk, without looking again. *)
StoreQuota(w) ==
  LET r == arg[w].ring IN
  /\ pc[w] = "quota"
  /\ quota' = [quota EXCEPT ![r] = arg[w].max]
  /\ disk' = [disk EXCEPT !.quota[r] = arg[w].max]
  /\ known' = known \cup {r}
  /\ Return(w)
  /\ UNCHANGED <<blocks, index, roots, used, count, ringUsed, ringCount, gc, protected>>
----------------------------------------------------------------------------
(* The collector.  Store.GC holds gcMu, so one collection runs at a time.  *)

(* PruneExpiredRoots: the expired records of the known rings. *)
GcStart ==
  /\ "gc" \in Env
  /\ gc.pc = "idle"
  /\ gc' = [GcIdle EXCEPT !.pc = "prune",
                          !.expired = {t \in known \X Roots : roots[t[1]][t[2]] = "expired"}]
  /\ UNCHANGED <<blocks, meta, counters, disk, locals, protected>>

(* RemoveRootStr of a listed record, whatever has become of it. *)
GcPrune(r, x) ==
  /\ gc.pc = "prune"
  /\ <<r, x>> \in gc.expired
  /\ roots' = [roots EXCEPT ![r][x] = "absent"]
  /\ gc' = [gc EXCEPT !.pc = "unlink", !.cur = <<r, x>>, !.expired = @ \ {<<r, x>>},
                      !.rm = {k \in Keys : <<r, k, x>> \in index}]
  /\ UNCHANGED <<blocks, index, known, counters, disk, locals, protected>>

GcUnlink ==
  /\ gc.pc = "unlink"
  /\ removeBlockRootEntries(gc.cur[1], gc.cur[2], gc.rm)
  /\ gc' = [gc EXCEPT !.pc = "prune", !.cur = <<None, None>>, !.rm = {}]
  /\ UNCHANGED <<blocks, roots, known, used, count, quota, disk, locals>>

(* Mutant: the live roots are not listed. *)
GcMark_NoRoots ==
  /\ gc.pc = "prune"
  /\ gc.expired = {}
  /\ gc' = [gc EXCEPT !.pc = "sweep", !.rings = known, !.todo = blocks]
  /\ protected' = {t \in index : t[2] \in blocks /\ roots[t[1]][t[3]] = "live"}
  /\ UNCHANGED <<blocks, meta, counters, disk, locals>>

(* The rings, their live roots and the keys on disk. *)
GcMark ==
  /\ gc.pc = "prune"
  /\ gc.expired = {}
  /\ gc' = [gc EXCEPT !.pc = "sweep", !.rings = known, !.live = LiveRoots(known), !.todo = blocks]
  /\ protected' = {t \in index : t[2] \in blocks /\ roots[t[1]][t[3]] = "live"}
  /\ UNCHANGED <<blocks, meta, counters, disk, locals>>

(* One key of AllKeysChan, which may also list keys written since the mark. *)
GcCheck(k) ==
  /\ gc.pc = "sweep"
  /\ k \in (gc.todo \cup blocks) \ gc.seen
  /\ IF blockHasLiveRootInSet(k, gc.rings, gc.live)
       THEN gc' = [gc EXCEPT !.seen = @ \cup {k}]
       ELSE gc' = [gc EXCEPT !.seen = @ \cup {k}, !.pc = "clean", !.key = k,
                             !.size = IF k \in blocks THEN Size[k] ELSE 0]
  /\ UNCHANGED <<blocks, meta, counters, disk, locals, protected>>

(* cleanupRingBlockIndex for each ring, without a lock. *)
GcClean ==
  LET R == {r \in gc.rings : ringHasBlock(r, gc.key)} IN
  /\ gc.pc = "clean"
  /\ index' = {t \in index : ~(t[1] \in R /\ t[2] = gc.key)}
  /\ ringUsed' = [r \in Rings |-> IF r \in R THEN Clamp(ringUsed[r] - gc.size) ELSE ringUsed[r]]
  /\ ringCount' = [r \in Rings |-> IF r \in R THEN Clamp(ringCount[r] - 1) ELSE ringCount[r]]
  /\ gc' = [gc EXCEPT !.pc = "remove"]
  /\ protected' = Retain(index', roots)
  /\ UNCHANGED <<blocks, roots, known, used, count, quota, disk, locals>>

(* DeleteBlock, which does not fail when the file is gone. *)
GcRemove ==
  /\ gc.pc = "remove"
  /\ blocks' = blocks \ {gc.key}
  /\ gc' = [gc EXCEPT !.pc = "sweep", !.key = None, !.size = 0,
                      !.bytes = @ + gc.size, !.blocks = @ + 1]
  /\ UNCHANGED <<meta, counters, disk, locals, protected>>

(* A failing DeleteBlock ends the collection before the counters go down. *)
GcRemoveFails ==
  /\ "gcerr" \in Env
  /\ gc.pc = "remove"
  /\ gc' = GcIdle
  /\ protected' = {}
  /\ UNCHANGED <<blocks, meta, counters, disk, locals>>

(* The aggregate counters go down once, at the end. *)
GcDone ==
  /\ gc.pc = "sweep"
  /\ gc.todo \cap blocks \subseteq gc.seen
  /\ used' = Clamp(used - gc.bytes)
  /\ count' = Clamp(count - gc.blocks)
  /\ gc' = GcIdle
  /\ protected' = {}
  /\ UNCHANGED <<blocks, meta, ringUsed, ringCount, quota, disk, locals>>
----------------------------------------------------------------------------
(* Time, ring removal and the process.                                     *)

Expire(r, x) ==
  /\ "expire" \in Env
  /\ roots[r][x] = "live"
  /\ roots' = [roots EXCEPT ![r][x] = "expired"]
  /\ protected' = Retain(index, roots')
  /\ UNCHANGED <<blocks, index, known, counters, disk, locals, gc>>

(* ForgetRing deletes what the metadata store has on the ring; the         *)
(* counters in memory stay.                                                *)
ForgetRing(r) ==
  /\ "forget" \in Env
  /\ index' = {t \in index : t[1] # r}
  /\ roots' = [roots EXCEPT ![r] = [x \in Roots |-> "absent"]]
  /\ known' = known \ {r}
  /\ disk' = [disk EXCEPT !.ringUsed[r] = 0, !.ringCount[r] = 0, !.quota[r] = 0]
  /\ protected' = Retain(index', roots')
  /\ UNCHANGED <<blocks, counters, locals, gc>>

(* flushAggCountersLocked and flushRingCountersLocked. *)
flushRingCountersLocked ==
  disk' = [used |-> used, count |-> count, ringUsed |-> ringUsed, ringCount |-> ringCount,
           quota |-> quota, closed |-> TRUE]

(* Close writes the counters while goroutines may still be running. *)
Close ==
  /\ "restart" \in Env
  /\ flushRingCountersLocked
  /\ UNCHANGED <<blocks, meta, counters, locals, gc, protected>>

(* A ring's counters are read when the ring is first used, and nothing     *)
(* writes them before the next Close.                                      *)
getRingCounters ==
  /\ ringUsed' = disk.ringUsed
  /\ ringCount' = disk.ringCount
  /\ quota' = disk.quota

(* The process ends, after Close or by a crash, and OpenNetworkBlockStore  *)
(* takes the counters it finds.                                            *)
Reopen ==
  /\ "crash" \in Env \/ disk.closed
  /\ used' = disk.used
  /\ count' = disk.count
  /\ getRingCounters
  /\ pc' = [w \in Workers |-> "idle"]
  /\ arg' = [w \in Workers |-> NoArg]
  /\ gc' = GcIdle
  /\ protected' = {}
  /\ disk' = [disk EXCEPT !.closed = FALSE]
  /\ UNCHANGED <<blocks, meta>>
----------------------------------------------------------------------------
WorkerStep(w) ==
  \/ ReserveInRing(w) \/ RingFull(w) \/ WriteBlock(w) \/ WriteFails(w) \/ CountBlock(w)
  \/ LinkBlock(w) \/ LinkRoot(w) \/ DeleteDone(w) \/ DropBlock(w) \/ UnlinkRoot(w) \/ StoreQuota(w)

GcStep ==
  \/ \E r \in Rings, x \in Roots : GcPrune(r, x)
  \/ GcUnlink \/ GcMark \/ GcClean \/ GcRemove \/ GcRemoveFails \/ GcDone
  \/ \E k \in Keys : GcCheck(k)

Call(w) ==
  \/ \E k \in Keys : Put(w, k) \/ Delete(w, k)
  \/ \E k \in Keys, r \in Rings : DropQuery(w, k, r)
  \/ \E r \in Rings, x \in Roots : AddRootWithExpiry(w, r, x) \/ RemoveRoot(w, r, x)
  \/ \E k \in Keys, r \in Rings, x \in Roots : PutWithRoot(w, k, r, x) \/ AddBlockRootIndex(w, k, r, x)
  \/ \E r \in Rings, m \in Quotas : CheckQuota(w, r, m)

Next ==
  \/ \E w \in Workers : Call(w) \/ WorkerStep(w)
  \/ GcStart \/ GcStep
  \/ \E r \in Rings, x \in Roots : Expire(r, x)
  \/ \E r \in Rings : ForgetRing(r)
  \/ Close \/ Reopen

Spec == Init /\ [][Next]_vars

----------------------------------------------------------------------------
Args == [key : Keys \cup {None}, ring : Rings \cup {None}, root : Roots \cup {None}, max : Nat,
         has : BOOLEAN, adding : BOOLEAN, snap : (SUBSET Keys) \cup (SUBSET Roots)]

GcState == [pc : {"idle", "prune", "unlink", "sweep", "clean", "remove"},
            expired : SUBSET (Rings \X Roots),
            cur : (Rings \cup {None}) \X (Roots \cup {None}), rm : SUBSET Keys,
            rings : SUBSET Rings, live : SUBSET Roots, todo : SUBSET Keys, seen : SUBSET Keys,
            key : Keys \cup {None}, size : Nat, bytes : Nat, blocks : Nat]

Steps == {"idle", "ring", "write", "count", "link", "root", "freed", "drop", "unlink", "quota"}

(* A step that needs a key, a ring or a root has one. *)
HasArgs(step, a) ==
  /\ step \in {"ring", "write", "count", "link", "root", "freed", "drop"} => a.key \in Keys
  /\ step \in {"ring", "link", "root", "drop", "unlink", "quota"} => a.ring \in Rings
  /\ step \in {"ring", "link", "root", "unlink"} => a.root \in Roots
  /\ step \in {"write", "count"} /\ (a.adding \/ a.root # None)
       => a.ring \in Rings /\ a.root \in Roots
  /\ step = "drop" => a.snap \subseteq Roots
  /\ step = "unlink" => a.snap \subseteq Keys

(* The store, the counters, the workers and the collector, each with its    *)
(* type.                                                                    *)
StoreOK ==
  /\ blocks \in SUBSET Keys
  /\ index \in SUBSET (Rings \X Keys \X Roots)
  /\ roots \in [Rings -> [Roots -> {"absent", "live", "expired"}]]
  /\ known \in SUBSET Rings
  /\ protected \in SUBSET (Rings \X Keys \X Roots)

CountersOK ==
  /\ used \in Nat /\ count \in Nat
  /\ ringUsed \in [Rings -> Nat] /\ ringCount \in [Rings -> Nat] /\ quota \in [Rings -> Nat]
  /\ disk \in [used : Nat, count : Nat, ringUsed : [Rings -> Nat], ringCount : [Rings -> Nat],
               quota : [Rings -> Nat], closed : BOOLEAN]

LocalsOK ==
  /\ pc \in [Workers -> Steps]
  /\ arg \in [Workers -> Args]
  /\ \A w \in Workers : HasArgs(pc[w], arg[w])

GcOK ==
  /\ gc \in GcState
  /\ gc.pc = "unlink" => gc.cur \in Rings \X Roots
  /\ gc.pc \in {"clean", "remove"} => gc.key \in Keys

(* The type of the state: a step has the arguments it needs, and no counter *)
(* of the store is ever negative (applySignedDelta).                        *)
TypeOK == StoreOK /\ CountersOK /\ LocalsOK /\ GcOK

(* The aggregate counter never exceeds storageMax: two reservations that    *)
(* race in reserveAggBytes cannot both take the last bytes, and neither a   *)
(* rollback, a collection nor a restart from stale counters lifts it.       *)
CounterWithinMax == MaxBytes > 0 => used <= MaxBytes

(* The keys without a file whose bytes the counter includes: reserved and   *)
(* not written yet, or deleted and not yet taken off.                       *)
Reserved == {k \in Keys : \E w \in Workers :
               pc[w] \in {"ring", "write", "freed"} /\ arg[w].key = k /\ ~arg[w].has}

(* The counter accounts for every byte on disk, every byte reserved and     *)
(* every byte a running collection has freed but not yet given back.        *)
BytesExact == used = Weight[blocks \cup Reserved] + gc.bytes

(* Each ring's counters account for the blocks its index lists and for the  *)
(* puts under way, when each root is removed by one goroutine at a time.    *)
RingReserved(r) == {k \in Keys : \E w \in Workers :
               pc[w] \in {"write", "count", "link"} /\ arg[w].key = k /\ arg[w].ring = r /\ arg[w].adding}
RingExact ==
  \A r \in Rings :
    /\ ringUsed[r] = Weight[RingBlocks(r) \cup RingReserved(r)]
    /\ ringCount[r] = Cardinality(RingBlocks(r) \ RingReserved(r))

(* No ring exceeds its own quota, whatever other rings store. *)
RingWithinQuota == \A r \in Rings : quota[r] > 0 => ringUsed[r] <= quota[r]

(* The collector never picks a block whose index entry and root record      *)
(* were live when it marked and have been ever since, although it tests     *)
(* the index without a lock and against a set of roots of the past.         *)
GcSparesMarked ==
  gc.pc \in {"clean", "remove"} => \A t \in protected : t[2] # gc.key

(* A block that no ring lists under a live root. *)
Orphan(k) == k \in blocks /\ ~blockHasLiveRootInSet(k, known, LiveRoots(known))
============================================================================
