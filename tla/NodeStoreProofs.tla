--------------------------- MODULE NodeStoreProofs ---------------------------
(***************************************************************************)
(* Proofs about NodeStore: the registry and the local blocks behave as     *)
(* LocalRoots says, and its three safety properties hold for any DAGs, any *)
(* number of requests at the same time and any number of roots.            *)
(***************************************************************************)
EXTENDS NodeStore, TLAPS

\* Ids are drawn in order; a record is found under its name and, before its
\* first removal, under its CID.
RegistryOK ==
  /\ \A i \in Ids : i > issued => rec[i] = None /\ i \notin removed
  /\ \A i \in Live : <<rec[i].name, i>> \in nameIdx
  /\ \A i \in Live \ removed : <<rec[i].cid, i>> \in cidIdx

\* The roots that no collection overlapped before they were registered.
Kept == {i \in Live \ removed : ~born[i].gc}

\* They are whole, and a collection under way has marked, or is going to,
\* all that they reach.
CollectorOK ==
  /\ \A i \in Kept : Dag[rec[i].cid] \subseteq local
  /\ lgc.pc # "idle" => \A i \in Kept :
       /\ rec[i].cid \in lgc.todo \cup lgc.reachable
       /\ \A b \in lgc.reachable \cap Dag[rec[i].cid] : Links[b] \subseteq lgc.todo \cup lgc.reachable
  /\ lgc.pc = "sweep" => lgc.todo = {}

\* A Remove or Rename knows the record it works on, unless that was removed.
RecordKnown(r) ==
  /\ r.id \in Ids /\ r.id <= issued
  /\ r.cid \in Blocks /\ r.old \in Names
  /\ r.pc = "rename" => r.name \in Names
  /\ r.id \notin removed => rec[r.id] \in RootRecord /\ rec[r.id].cid = r.cid

\* What a request stored that no collection overlaps is there.
BlocksThere(r) ==
  /\ r.cid \in Blocks /\ r.name \in Names /\ r.base <= issued
  /\ ~r.gc => lgc.pc = "idle" /\ r.got \subseteq local

\* A request that has checked the index came in before its CID got any id.
CheckHolds(r) ==
  /\ r.got = Dag[r.cid]
  /\ \A i \in Live \ removed : rec[i].cid = r.cid => r.base < i

RequestOK(r) ==
  /\ r.pc \in {"remove", "rename"} => RecordKnown(r)
  /\ r.pc \in Storing \cup {"commit"} => BlocksThere(r)
  /\ r.pc = "commit" => CheckHolds(r)

LInv ==
  /\ LTypeOK
  /\ RegistryOK
  /\ TwinsOverlap
  /\ CollectorOK
  /\ \A c \in Clients : RequestOK(req[c])
-----------------------------------------------------------------------------
\* A client without a request is of its type (api/api.go).
LEMMA IdleType == Idle \in RequestType /\ Idle.pc = "idle"
BY MaxRootsAssumption DEF Idle, RequestType, Requests, Storing

\* gcLocal starts from nothing (store/store.go 140-151).
LEMMA GcIdleType == GcIdle \in GcType /\ GcIdle.pc = "idle"
BY Zenon DEF GcIdle, GcType

\* Store.Open on an empty directory (store/store.go 40-94).
LEMMA InitInv == LInit => LInv
<1> SUFFICES ASSUME LInit PROVE LInv
  BY Zenon
<1>1. LTypeOK
  BY IdleType, GcIdleType, MaxRootsAssumption DEF LInit, LTypeOK, OriginType, Ids
<1>2. Live = {}
  BY Zenon DEF LInit, Live
<1>3. \A c \in Clients : RequestOK(req[c])
  BY IdleType, Zenon DEF LInit, RequestOK, Storing
<1> QED BY <1>1, <1>2, <1>3, GcIdleType, Zenon DEF LInit, LInv, RegistryOK, TwinsOverlap, CollectorOK, Kept

\* A step of a request that only changes its locals.
LEMMA RequestMoves ==
    ASSUME LInv, NEW c \in Clients, NEW r \in RequestType, RequestOK(r),
           req' = [req EXCEPT ![c] = r], UNCHANGED <<local, registry, lgc>>
    PROVE  LInv'
<1>1. req' \in [Clients -> RequestType]
  BY Zenon DEF LInv, LTypeOK
<1>2. LTypeOK'
  BY <1>1, Zenon DEF LInv, LTypeOK, registry
<1>3. \A d \in Clients : req'[d] = r \/ req'[d] = req[d]
  BY Zenon DEF LInv, LTypeOK
<1>4. ASSUME NEW d \in Clients PROVE RequestOK(req[d])'
  BY <1>3 DEF LInv, RequestOK, RecordKnown, BlocksThere, CheckHolds, Live, registry
<1> QED
  BY <1>2, <1>4, Zenon DEF LInv, RegistryOK, TwinsOverlap, CollectorOK, Kept, Live, registry

\* handleAdd, handleDHTDownload, /dht/get and /ring/{group}/fetch come in
\* (api/api.go 103-141, 190-235, 752-801, 921-970).
LEMMA BeginInv ==
    ASSUME LInv, NEW c \in Clients, NEW op, NEW label \in Storing, NEW x \in Cids, NEW n \in Names,
           Begin(c, op, label, x, n)
    PROVE  LInv'
<1> DEFINE r == [Idle EXCEPT !.pc = label, !.cid = x, !.name = n,
                             !.base = issued, !.gc = lgc.pc # "idle"]
<1>1. r \in RequestType
  BY CidsAssumption, IdleType, Zenon DEF LInv, LTypeOK, RequestType, Requests, Storing
<1>2. /\ r.pc = label /\ r.cid = x /\ r.name = n /\ r.got = {} /\ r.base = issued
      /\ r.gc = (lgc.pc # "idle")
  BY Zenon DEF Idle
<1>3. issued <= issued
  BY MaxRootsAssumption DEF LInv, LTypeOK
<1>4. RequestOK(r)
  BY <1>2, <1>3, CidsAssumption, Zenon DEF RequestOK, BlocksThere, Storing
<1> HIDE DEF r
<1>5. req' = [req EXCEPT ![c] = r] /\ UNCHANGED <<local, registry, lgc>>
  BY Zenon DEF Begin, r
<1> QED BY <1>1, <1>4, <1>5, RequestMoves, Zenon

\* RootRegistry.Remove and Rename read their record (store/roots.go 133-142, 160-171).
LEMMA ReadRecordInv ==
    ASSUME LInv, NEW c \in Clients, NEW i \in Ids, NEW label \in {"remove", "rename"},
           NEW n \in Names \cup {None}, label = "rename" => n \in Names, ReadRecord(c, i, label, n)
    PROVE  LInv'
<1> DEFINE r == [Idle EXCEPT !.pc = label, !.id = i, !.cid = rec[i].cid,
                             !.old = rec[i].name, !.name = n]
<1>1. rec[i] \in RootRecord
  BY Zenon DEF ReadRecord, LInv, LTypeOK
<1>2. i \in 0..MaxRoots /\ i <= issued
  <2>1. issued \in Nat /\ i \in 0..MaxRoots /\ i \in Nat
    BY MaxRootsAssumption DEF LInv, LTypeOK, Ids
  <2>2. ~(i > issued)
    BY Zenon DEF ReadRecord, LInv, RegistryOK
  <2> QED BY <2>1, <2>2
<1>3. r \in RequestType
  BY <1>1, <1>2, IdleType, Zenon DEF RootRecord, RequestType, Requests
<1>4. /\ r.pc = label /\ r.id = i /\ r.cid = rec[i].cid /\ r.old = rec[i].name /\ r.name = n
  BY Zenon DEF Idle
<1>5. RequestOK(r)
  BY <1>1, <1>2, <1>4, Zenon DEF RequestOK, RecordKnown, RootRecord, Storing
<1> HIDE DEF r
<1>6. req' = [req EXCEPT ![c] = r] /\ UNCHANGED <<local, registry, lgc>>
  BY Zenon DEF ReadRecord, r
<1> QED BY <1>3, <1>5, <1>6, RequestMoves, Zenon

\* A request comes in (api/api.go).
LEMMA RequestInv ==
    ASSUME LInv, NEW c \in Clients, Request(c)
    PROVE  LInv'
<1>1. ASSUME NEW x \in Cids, NEW n \in Names,
             handleAdd(c, x, n) \/ handleDHTDownload(c, x, n) \/ handleDHTGet(c, x, n)
               \/ handleRingFetch(c, x, n)
      PROVE  LInv'
  BY <1>1, BeginInv, Zenon DEF handleAdd, handleDHTDownload, handleDHTGet, handleRingFetch, Storing
<1>2. ASSUME NEW ref \in Cids \cup Names \cup Ids, handleRemove(c, ref)
      PROVE  LInv'
  <2>1. PICK i \in resolveRootID(ref) : ReadRecord(c, i, "remove", None)
    BY <1>2, Zenon DEF handleRemove
  <2>2. i \in Ids
    BY <2>1, Zenon DEF resolveRootID, GetByCID, GetByName, Live
  <2> QED BY <2>1, <2>2, ReadRecordInv, Zenon
<1>3. ASSUME NEW i \in Ids, NEW n \in Names, handleRename(c, i, n)
      PROVE  LInv'
  BY <1>3, ReadRecordInv, Zenon DEF handleRename
<1> QED BY <1>1, <1>2, <1>3, Zenon DEF Request

\* A block of the request is stored (store/blockstore.go 24-60).
LEMMA StoreBlockInv ==
    ASSUME LInv, NEW c \in Clients, NEW b \in Blocks, req[c].pc \in Storing, StoreBlock(c, b)
    PROVE  LInv'
<1> DEFINE r == [req[c] EXCEPT !.got = @ \cup {b}]
<1>1. req[c] \in RequestType
  BY Zenon DEF LInv, LTypeOK
<1>2. r \in RequestType /\ r.pc \in Storing /\ r.pc = req[c].pc
  BY <1>1, Zenon DEF RequestType, StoreBlock
<1>3. req' = [req EXCEPT ![c] = r] /\ local' = local \cup {b} /\ UNCHANGED <<registry, lgc>>
  BY Zenon DEF StoreBlock
<1>4. /\ r.got = req[c].got \cup {b} /\ r.cid = req[c].cid /\ r.name = req[c].name
      /\ r.base = req[c].base /\ r.gc = req[c].gc
  BY <1>1, Zenon DEF RequestType
<1> HIDE DEF r
<1>5. req' \in [Clients -> RequestType] /\ local' \subseteq Blocks
  BY <1>2, <1>3, Zenon DEF LInv, LTypeOK
<1>6. LTypeOK'
  BY <1>3, <1>5, Zenon DEF LInv, LTypeOK, registry
<1>7. ASSUME NEW d \in Clients PROVE RequestOK(req[d])'
  <2>1. CASE d = c
    <3>1. req'[d] = r
      BY <1>3, <2>1, Zenon DEF LInv, LTypeOK
    <3>2. BlocksThere(req[c])
      BY Zenon DEF LInv, RequestOK
    <3> QED BY <1>2, <1>3, <1>4, <3>1, <3>2, Zenon DEF RequestOK, BlocksThere, Storing, registry
  <2>2. CASE d # c
    <3>1. req'[d] = req[d]
      BY <1>3, <2>2, Zenon DEF LInv, LTypeOK
    <3> QED BY <1>3, <3>1 DEF LInv, RequestOK, RecordKnown, BlocksThere, CheckHolds, Live, registry
  <2> QED BY <2>1, <2>2, Zenon
<1> QED BY <1>3, <1>6, <1>7, Zenon DEF LInv, RegistryOK, TwinsOverlap, CollectorOK, Kept, Live, registry

\* RootRegistry.Add looks for its CID (store/roots.go 93-102).
LEMMA AddCheckInv ==
    ASSUME LInv, NEW c \in Clients, AddCheck(c)
    PROVE  LInv'
<1> DEFINE r == [req[c] EXCEPT !.pc = "commit"]
<1>1. req[c] \in RequestType /\ RequestOK(req[c])
  BY Zenon DEF LInv, LTypeOK
<1>2. CASE GetByCID(req[c].cid) # {}
  <2>1. RequestOK(Idle)
    BY IdleType, Zenon DEF RequestOK, Storing
  <2> QED BY <1>2, <2>1, IdleType, RequestMoves, Zenon DEF AddCheck, Done
<1>3. CASE GetByCID(req[c].cid) = {}
  <2>1. r \in RequestType /\ r.pc = "commit" /\ r.cid = req[c].cid /\ r.name = req[c].name
        /\ r.got = req[c].got /\ r.base = req[c].base /\ r.gc = req[c].gc
    BY <1>1, Zenon DEF RequestType, Requests
  <2>2. BlocksThere(r)
    BY <1>1, <2>1, Zenon DEF AddCheck, RequestOK, BlocksThere
  <2>3. CheckHolds(r)
    BY <1>3, <2>1, Zenon DEF AddCheck, CheckHolds, GetByCID, LInv, RegistryOK
  <2>4. RequestOK(r)
    BY <2>1, <2>2, <2>3, Zenon DEF RequestOK
  <2> HIDE DEF r
  <2>5. req' = [req EXCEPT ![c] = r] /\ UNCHANGED <<local, registry, lgc>>
    BY <1>3, Zenon DEF AddCheck, r
  <2> QED BY <2>1, <2>4, <2>5, RequestMoves, Zenon
<1> QED BY <1>2, <1>3, Zenon

\* FetchDAGFromProviders turns to the next provider (dht/public.go 322-346).
LEMMA NextProviderInv ==
    ASSUME LInv, NEW c \in Clients, FetchDAGFromProviders(c)
    PROVE  LInv'
<1> DEFINE r == [req[c] EXCEPT !.got = {}]
<1>1. req[c] \in RequestType /\ RequestOK(req[c])
  BY DEF LInv, LTypeOK
<1>2. /\ r \in RequestType /\ r.pc = "get" /\ r.got = {} /\ r.cid = req[c].cid
      /\ r.name = req[c].name /\ r.base = req[c].base /\ r.gc = req[c].gc
  BY <1>1, Zenon DEF RequestType, FetchDAGFromProviders
<1>3. RequestOK(r)
  BY <1>1, <1>2, Zenon DEF FetchDAGFromProviders, RequestOK, BlocksThere, Storing
<1> HIDE DEF r
<1>4. req' = [req EXCEPT ![c] = r] /\ UNCHANGED <<local, registry, lgc>>
  BY Zenon DEF FetchDAGFromProviders, r
<1> QED BY <1>2, <1>3, <1>4, RequestMoves, Zenon

\* An id, once drawn, is new (store/roots.go 104-131).
LEMMA AddCommitInv ==
    ASSUME LInv, NEW c \in Clients, AddCommit(c)
    PROVE  LInv'
<1> DEFINE id == issued + 1
<1>1. /\ issued \in Nat /\ id \in Ids /\ id <= MaxRoots /\ issued' = id
      /\ rec[id] = None /\ id \notin removed
  BY MaxRootsAssumption DEF AddCommit, LInv, LTypeOK, RegistryOK, Ids
<1> HIDE DEF id
<1>2. req[c] \in RequestType /\ BlocksThere(req[c]) /\ CheckHolds(req[c])
  BY Zenon DEF AddCommit, LInv, LTypeOK, RequestOK
<1>3. /\ rec' = [rec EXCEPT ![id] = [cid |-> req[c].cid, name |-> req[c].name]]
      /\ born' = [born EXCEPT ![id] = [base |-> req[c].base, gc |-> req[c].gc]]
      /\ cidIdx' = cidIdx \cup {<<req[c].cid, id>>}
      /\ nameIdx' = nameIdx \cup {<<req[c].name, id>>}
      /\ req' = [req EXCEPT ![c] = Idle]
      /\ UNCHANGED <<local, lgc, removed>>
  BY <1>1, Zenon DEF AddCommit, Done
<1>4. LTypeOK'
  <2>1. req' \in [Clients -> RequestType]
    BY <1>3, IdleType, Zenon DEF LInv, LTypeOK
  <2>2. rec' \in [Ids -> RootRecord \cup {None}]
    BY <1>2, <1>3, Zenon DEF LInv, LTypeOK, RootRecord, BlocksThere
  <2>3. born' \in [Ids -> OriginType]
    <3>1. [base |-> req[c].base, gc |-> req[c].gc] \in OriginType
      BY <1>2, Zenon DEF RequestType, OriginType
    <3> QED BY <1>3, <3>1, Zenon DEF LInv, LTypeOK
  <2>4. issued' \in 0..MaxRoots
    BY <1>1, MaxRootsAssumption DEF id
  <2>5. cidIdx' \subseteq Blocks \X Ids /\ nameIdx' \subseteq Names \X Ids
    BY <1>1, <1>2, <1>3 DEF LInv, LTypeOK, BlocksThere
  <2> QED BY <1>3, <2>1, <2>2, <2>3, <2>4, <2>5, Zenon DEF LInv, LTypeOK
<1>5. /\ rec'[id].cid = req[c].cid /\ rec'[id].name = req[c].name
      /\ born'[id].base = req[c].base /\ born'[id].gc = req[c].gc
      /\ \A i \in Ids : i # id => rec'[i] = rec[i] /\ born'[i] = born[i]
      /\ \A d \in Clients : req'[d] = Idle \/ (d # c /\ req'[d] = req[d])
  BY <1>1, <1>3, Zenon DEF LInv, LTypeOK
<1>6. Live' \subseteq Live \cup {id} /\ id \notin Live /\ \A i \in Live : i < id
  <2>1. \A i \in Live : ~(i > issued)
    BY Zenon DEF LInv, RegistryOK, Live
  <2>2. \A i \in Ids : i \in Nat
    BY DEF Ids
  <2> QED BY <1>1, <1>5, <2>1, <2>2 DEF Live, id
<1>7. RegistryOK'
  <2>1. \A i \in Ids : i > id => i > issued /\ i # id
    BY <1>1 DEF id, Ids
  <2> QED BY <1>1, <1>3, <1>5, <1>6, <2>1 DEF LInv, RegistryOK, Live
<1>8. TwinsOverlap'
  <2> SUFFICES ASSUME NEW i \in (Live \ removed)', NEW j \in (Live \ removed)',
                      i < j, rec'[i].cid = rec'[j].cid
               PROVE  born'[j].base < i
    BY Zenon DEF TwinsOverlap
  <2>1. i # id
    BY <1>6, <1>1 DEF Ids, Live
  <2>2. i \in Live \ removed /\ rec'[i] = rec[i]
    BY <1>3, <1>5, <1>6, <2>1, Zenon DEF Live
  <2>3. CASE j = id
    BY <1>2, <1>5, <2>2, <2>3, Zenon DEF CheckHolds
  <2>4. CASE j # id
    BY <1>3, <1>5, <1>6, <2>2, <2>4 DEF LInv, TwinsOverlap, Live
  <2> QED BY <2>3, <2>4, Zenon
<1>9. CollectorOK'
  <2>1. \A i \in Kept' : (i \in Kept /\ i # id) \/ (i = id /\ ~req[c].gc)
    BY <1>3, <1>5, <1>6, Zenon DEF Kept, Live
  <2>2. ~req[c].gc => lgc.pc = "idle" /\ Dag[req[c].cid] \subseteq local
    BY <1>2, Zenon DEF BlocksThere, CheckHolds
  <2>3. Kept' \subseteq Ids
    BY Zenon DEF Kept, Live
  <2> QED BY <1>3, <1>5, <2>1, <2>2, <2>3 DEF LInv, CollectorOK
<1>10. ASSUME NEW d \in Clients PROVE RequestOK(req[d])'
  <2>1. CASE req'[d] = Idle
    BY <2>1, IdleType, Zenon DEF RequestOK, Storing
  <2>2. CASE req'[d] = req[d]
    <3>1. RequestOK(req[d]) /\ req[d] \in RequestType
      BY Zenon DEF LInv, LTypeOK
    <3>2. req[d].pc \in {"remove", "rename"} => RecordKnown(req[d])'
      <4>1. req[d].pc \in {"remove", "rename"} => req[d].id # id /\ req[d].id <= id
        BY <1>1, <3>1 DEF RequestOK, RecordKnown, RequestType, id
      <4> SUFFICES ASSUME req[d].pc \in {"remove", "rename"} PROVE RecordKnown(req[d])'
        BY Zenon
      <4>2. RecordKnown(req[d]) /\ req[d].id \in Ids
        BY <3>1, Zenon DEF RequestOK, RecordKnown
      <4>3. rec'[req[d].id] = rec[req[d].id]
        BY <1>5, <4>1, <4>2, Zenon
      <4>4. removed' = removed /\ issued' = id
        BY <1>1, <1>3, Zenon
      <4> QED BY <2>2, <4>1, <4>2, <4>3, <4>4, Zenon DEF RecordKnown
    <3>3. req[d].pc \in Storing \cup {"commit"} => BlocksThere(req[d])' /\ req[d].base < id
      <4>1. req[d].pc \in Storing \cup {"commit"} => req[d].base <= id /\ req[d].base < id
        BY <1>1, <3>1 DEF RequestOK, BlocksThere, RequestType, id
      <4> QED BY <1>1, <1>3, <2>2, <3>1, <4>1, Zenon DEF RequestOK, BlocksThere
    <3>4. req[d].pc = "commit" => CheckHolds(req[d])'
      BY <1>3, <1>5, <1>6, <2>2, <3>1, <3>3, Zenon DEF RequestOK, CheckHolds, Live
    <3> QED BY <2>2, <3>2, <3>3, <3>4, Zenon DEF RequestOK
  <2> QED BY <1>5, <2>1, <2>2, Zenon
<1> QED BY <1>4, <1>7, <1>8, <1>9, <1>10, Zenon DEF LInv

\* A record goes with the entries of the name that was read
\* (store/roots.go 143-158).
LEMMA RemoveCommitInv ==
    ASSUME LInv, NEW c \in Clients, RemoveCommit(c)
    PROVE  LInv'
<1> DEFINE id == req[c].id
<1>1. req[c] \in RequestType /\ RecordKnown(req[c]) /\ id \in Ids
  BY Zenon DEF RemoveCommit, LInv, LTypeOK, RequestOK, RecordKnown
<1>2. /\ rec' = [rec EXCEPT ![id] = None]
      /\ cidIdx' = cidIdx \ {<<req[c].cid, id>>}
      /\ nameIdx' = nameIdx \ {<<req[c].old, id>>}
      /\ removed' = removed \cup {id}
      /\ req' = [req EXCEPT ![c] = Idle]
      /\ UNCHANGED <<issued, born, local, lgc>>
  BY Zenon DEF RemoveCommit, Done
<1>3. req' \in [Clients -> RequestType] /\ rec' \in [Ids -> RootRecord \cup {None}]
  BY <1>1, <1>2, IdleType, Zenon DEF LInv, LTypeOK
<1>4. LTypeOK'
  BY <1>1, <1>2, <1>3, Zenon DEF LInv, LTypeOK
<1>5. /\ \A i \in Ids : rec'[i] = IF i = id THEN None ELSE rec[i]
      /\ \A d \in Clients : req'[d] = Idle \/ req'[d] = req[d]
  BY <1>2, Zenon DEF LInv, LTypeOK
<1> HIDE DEF id
<1>6. Live' = Live \ {id} /\ (Live \ removed)' = (Live \ removed) \ {id}
  BY <1>1, <1>2, <1>5, Zenon DEF Live
<1>7. Live \subseteq Ids /\ \A i \in Live' : rec'[i] = rec[i] /\ i # id
  BY <1>5, <1>6, Zenon DEF Live
<1>8. RegistryOK'
  <2>1. \A i \in Ids : i > issued => i # id
    BY <1>1 DEF RecordKnown, id, Ids, RequestType, LInv, LTypeOK
  <2> QED BY <1>2, <1>5, <1>6, <1>7, <2>1 DEF LInv, RegistryOK
<1>9. TwinsOverlap'
  BY <1>2, <1>6, <1>7 DEF LInv, TwinsOverlap
<1>10. CollectorOK'
  <2>1. Kept' = Kept \ {id}
    BY <1>2, <1>6, Zenon DEF Kept
  <2>2. \A i \in Kept' : i \in Kept /\ rec'[i] = rec[i]
    BY <1>6, <1>7, <2>1, Zenon DEF Kept
  <2> QED BY <1>2, <2>2, Zenon DEF LInv, CollectorOK
<1>11. ASSUME NEW d \in Clients PROVE RequestOK(req[d])'
  <2>1. CASE req'[d] = Idle
    BY <2>1, IdleType DEF RequestOK, Storing
  <2>2. CASE req'[d] = req[d]
    <3>1. RequestOK(req[d])
      BY Zenon DEF LInv
    <3>2. req[d].pc \in {"remove", "rename"} => RecordKnown(req[d])'
      BY <1>2, <1>5, <2>2, <3>1 DEF RequestOK, RecordKnown
    <3>3. req[d].pc \in Storing \cup {"commit"} => BlocksThere(req[d])'
      BY <1>2, <2>2, <3>1, Zenon DEF RequestOK, BlocksThere
    <3>4. req[d].pc = "commit" => CheckHolds(req[d])'
      BY <1>6, <1>7, <2>2, <3>1, Zenon DEF RequestOK, CheckHolds
    <3> QED BY <2>2, <3>2, <3>3, <3>4, Zenon DEF RequestOK
  <2> QED BY <1>5, <2>1, <2>2, Zenon
<1> QED BY <1>4, <1>8, <1>9, <1>10, <1>11 DEF LInv

\* A record is written again with another name, also one that was removed
\* since it was read (store/roots.go 172-196).
LEMMA RenameCommitInv ==
    ASSUME LInv, NEW c \in Clients, RenameCommit(c)
    PROVE  LInv'
<1> DEFINE id == req[c].id
           new == [cid |-> req[c].cid, name |-> req[c].name]
<1>1. req[c] \in RequestType /\ RecordKnown(req[c]) /\ id \in Ids
  BY Zenon DEF RenameCommit, LInv, LTypeOK, RequestOK, RecordKnown
<1>2. new \in RootRecord /\ new.cid = req[c].cid /\ new.name = req[c].name
  BY <1>1, Zenon DEF RenameCommit, RecordKnown, RootRecord
<1> HIDE DEF new
<1>3. /\ rec' = [rec EXCEPT ![id] = new]
      /\ nameIdx' = (nameIdx \ {<<req[c].old, id>>}) \cup {<<req[c].name, id>>}
      /\ req' = [req EXCEPT ![c] = Idle]
      /\ UNCHANGED <<cidIdx, issued, born, local, lgc, removed>>
  BY Zenon DEF RenameCommit, Done, new
<1>4. req' \in [Clients -> RequestType] /\ rec' \in [Ids -> RootRecord \cup {None}]
  BY <1>1, <1>2, <1>3, IdleType, Zenon DEF LInv, LTypeOK
<1>5. LTypeOK'
  BY <1>1, <1>2, <1>3, <1>4 DEF LInv, LTypeOK, RecordKnown, RenameCommit
<1>6. /\ \A i \in Ids : rec'[i] = IF i = id THEN new ELSE rec[i]
      /\ \A d \in Clients : req'[d] = Idle \/ req'[d] = req[d]
  BY <1>3, Zenon DEF LInv, LTypeOK
<1>7. id \notin removed => id \in Live /\ rec[id].cid = new.cid
  BY <1>1, <1>2, NoneAssumption, Zenon DEF RecordKnown, RootRecord, Live
<1>8. id \in Live'
  BY <1>1, <1>2, <1>6, NoneAssumption, Zenon DEF RootRecord, Live
<1> HIDE DEF id
<1>9. /\ Live' = Live \cup {id}
      /\ (Live \ removed)' = Live \ removed
      /\ \A i \in Live \ removed : rec'[i].cid = rec[i].cid
  BY <1>1, <1>3, <1>6, <1>7, <1>8 DEF Live
<1>10. RegistryOK'
  <2>1. \A i \in Ids : i > issued => i # id
    BY <1>1 DEF RecordKnown, id, Ids, RequestType, LInv, LTypeOK
  <2>2. \A i \in Live' : i = id \/ (i \in Live /\ rec'[i] = rec[i])
    BY <1>6, <1>9, Zenon DEF Live
  <2> QED BY <1>2, <1>3, <1>6, <1>9, <2>1, <2>2, <1>1 DEF LInv, RegistryOK
<1>11. TwinsOverlap'
  <2> SUFFICES ASSUME NEW i \in Live \ removed, NEW j \in Live \ removed,
                      i < j, rec'[i].cid = rec'[j].cid
               PROVE  born[j].base < i
    BY <1>3, <1>9, Zenon DEF TwinsOverlap
  <2>1. rec[i].cid = rec[j].cid
    BY <1>9, Zenon
  <2> QED BY <2>1, Zenon DEF LInv, TwinsOverlap
<1>12. CollectorOK'
  <2>1. Kept' = Kept /\ \A i \in Kept : rec'[i].cid = rec[i].cid
    BY <1>3, <1>9, Zenon DEF Kept
  <2> QED BY <1>3, <2>1, Zenon DEF LInv, CollectorOK
<1>13. ASSUME NEW d \in Clients PROVE RequestOK(req[d])'
  <2>1. CASE req'[d] = Idle
    BY <2>1, IdleType DEF RequestOK, Storing
  <2>2. CASE req'[d] = req[d]
    <3>1. RequestOK(req[d])
      BY DEF LInv
    <3>2. req[d].pc \in {"remove", "rename"} => RecordKnown(req[d])'
      <4> SUFFICES ASSUME req[d].pc \in {"remove", "rename"} PROVE RecordKnown(req[d])'
        OBVIOUS
      <4>1. RecordKnown(req[d]) /\ req[d].id \in Ids
        BY <3>1, Zenon DEF RequestOK, RecordKnown
      <4>2. req[d].id \notin removed =>
              rec'[req[d].id] \in RootRecord /\ rec'[req[d].id].cid = req[d].cid
        BY <1>2, <1>6, <1>7, <4>1, Zenon DEF RecordKnown
      <4> QED BY <1>3, <2>2, <4>1, <4>2 DEF RecordKnown
    <3>3. req[d].pc \in Storing \cup {"commit"} => BlocksThere(req[d])'
      BY <1>3, <2>2, <3>1, Zenon DEF RequestOK, BlocksThere
    <3>4. req[d].pc = "commit" => CheckHolds(req[d])'
      BY <1>9, <2>2, <3>1, Zenon DEF RequestOK, CheckHolds
    <3> QED BY <2>2, <3>2, <3>3, <3>4 DEF RequestOK
  <2> QED BY <1>6, <2>1, <2>2, Zenon
<1> QED BY <1>5, <1>10, <1>11, <1>12, <1>13 DEF LInv
-----------------------------------------------------------------------------
(* The collector.                                                          *)

\* A step of gcLocal after it has listed the roots: every request under way
\* is known to be overlapped.
LEMMA CollectorMoves ==
    ASSUME LInv, lgc.pc # "idle", lgc' \in GcType, local' \subseteq Blocks, CollectorOK',
           UNCHANGED <<registry, req>>
    PROVE  LInv'
<1>1. LTypeOK'
  BY Zenon DEF LInv, LTypeOK, registry
<1>2. ASSUME NEW d \in Clients PROVE RequestOK(req[d])'
  BY Zenon DEF LInv, RequestOK, RecordKnown, BlocksThere, CheckHolds, Live, registry
<1> QED BY <1>1, <1>2, Zenon DEF LInv, RegistryOK, TwinsOverlap, Live, registry

\* The list of roots that a collection starts from (store/store.go 140-146).
LEMMA GcListInv ==
    ASSUME LInv, GcList
    PROVE  LInv'
<1> DEFINE cids == {rec[i].cid : i \in Live}
<1>1. cids \subseteq Blocks
  BY Zenon DEF LInv, LTypeOK, RootRecord, Live
<1>2. /\ lgc' = [GcIdle EXCEPT !.pc = "mark", !.todo = cids]
      /\ req' = [c \in Clients |-> [req[c] EXCEPT !.gc = @ \/ req[c].pc \in Storing \cup {"commit"}]]
      /\ UNCHANGED <<local, registry>>
  BY Zenon DEF GcList
<1>3. lgc' \in GcType /\ lgc'.pc = "mark" /\ lgc'.todo = cids /\ lgc'.reachable = {}
  BY <1>1, <1>2, Zenon DEF GcIdle, GcType
<1> HIDE DEF cids
<1>4. \A c \in Clients :
        /\ req[c] \in RequestType /\ req'[c] \in RequestType
        /\ req'[c] = [req[c] EXCEPT !.gc = @ \/ req[c].pc \in Storing \cup {"commit"}]
        /\ req'[c].pc = req[c].pc /\ req'[c].cid = req[c].cid /\ req'[c].name = req[c].name
        /\ req'[c].got = req[c].got /\ req'[c].id = req[c].id /\ req'[c].old = req[c].old
        /\ req'[c].base = req[c].base
        /\ req[c].pc \in Storing \cup {"commit"} => req'[c].gc
  BY <1>2, Zenon DEF LInv, LTypeOK, RequestType
<1>5. LTypeOK'
  <2>1. req' \in [Clients -> RequestType]
    BY <1>2, <1>4, Zenon
  <2> QED BY <1>2, <1>3, <2>1, Zenon DEF LInv, LTypeOK, registry
<1>6. CollectorOK'
  <2>1. \A i \in Kept' : i \in Kept /\ rec'[i].cid \in cids /\ rec'[i] = rec[i]
    BY <1>2, Zenon DEF Kept, Live, registry, cids
  <2> QED BY <1>2, <1>3, <2>1, Zenon DEF LInv, CollectorOK
<1>7. ASSUME NEW d \in Clients PROVE RequestOK(req[d])'
  BY <1>2, <1>4 DEF LInv, RequestOK, RecordKnown, BlocksThere, CheckHolds, Live, registry
<1> QED BY <1>2, <1>5, <1>6, <1>7, Zenon DEF LInv, RegistryOK, TwinsOverlap, Live, registry

\* The blocks a sweep may delete are of no root that is kept: marked blocks
\* are closed under links, and a DAG is the least closed set with its root.
LEMMA MarkedAll ==
    ASSUME LInv, lgc.pc = "sweep", NEW i \in Kept
    PROVE  Dag[rec[i].cid] \subseteq lgc.reachable
<1> DEFINE x == rec[i].cid
           S == Dag[x] \cap lgc.reachable
<1>1. x \in Blocks
  BY Zenon DEF LInv, LTypeOK, RootRecord, Kept, Live
<1>2. x \in lgc.reachable /\ \A b \in S : Links[b] \subseteq lgc.reachable
  BY Zenon DEF LInv, CollectorOK
<1>3. x \in S /\ S \in SUBSET Dag[x] /\ \A b \in S : Links[b] \subseteq S
  BY <1>1, <1>2, DagAssumption, Zenon
<1>4. S = Dag[x]
  <2> HIDE DEF S, x
  <2> QED BY <1>1, <1>3, DagAssumption, Zenon
<1> QED BY <1>4, Zenon

\* The steps of gcLocal and gcWalkDAG (store/store.go 140-166, store/gc.go 18-38).
LEMMA CollectorInv ==
    ASSUME LInv, GcList \/ GcKeys \/ GcEnd \/ GcFails \/ \E b \in Blocks : gcWalkDAG(b) \/ GcSweep(b)
    PROVE  LInv'
<1>t. lgc \in GcType /\ local \subseteq Blocks
  BY Zenon DEF LInv, LTypeOK
<1>1. CASE GcList
  BY <1>1, GcListInv, Zenon
<1>2. CASE GcKeys
  <2>1. lgc' \in GcType /\ lgc'.pc = "sweep" /\ lgc'.todo = {} /\ lgc'.reachable = lgc.reachable
    BY <1>2, <1>t, Zenon DEF GcKeys, GcType
  <2>2. CollectorOK'
    BY <1>2, <2>1, Zenon DEF GcKeys, LInv, CollectorOK, Kept, Live, registry
  <2> QED BY <1>2, <1>t, <2>1, <2>2, CollectorMoves, Zenon DEF GcKeys
<1>3. CASE GcEnd \/ GcFails
  <2>1. CollectorOK'
    BY <1>3, GcIdleType, Zenon DEF GcEnd, GcFails, LInv, CollectorOK, Kept, Live, registry
  <2> QED BY <1>3, <1>t, <2>1, GcIdleType, CollectorMoves, Zenon DEF GcEnd, GcFails
<1>4. ASSUME NEW b \in Blocks, gcWalkDAG(b) PROVE LInv'
  <2> DEFINE marked == lgc.reachable \cup {b}
             next == (lgc.todo \cup IF b \in local THEN Links[b] ELSE {}) \ marked
  <2>1. next \subseteq Blocks /\ marked \subseteq Blocks
    BY <1>t, LinksAssumption, Zenon DEF GcType
  <2>2. lgc' = [lgc EXCEPT !.reachable = marked, !.todo = next] /\ UNCHANGED <<local, registry, req>>
    BY <1>4, Zenon DEF gcWalkDAG
  <2> HIDE DEF marked, next
  <2>3. lgc' \in GcType /\ lgc'.pc = "mark" /\ lgc'.todo = next /\ lgc'.reachable = marked
    BY <1>4, <1>t, <2>1, <2>2, Zenon DEF GcType, gcWalkDAG
  <2>4. /\ lgc.todo \cup lgc.reachable \subseteq next \cup marked
        /\ b \in local => Links[b] \subseteq next \cup marked
    BY Zenon DEF next, marked
  <2>5. CollectorOK'
    <3>1. Kept' = Kept /\ \A i \in Kept : rec'[i] = rec[i]
      BY <2>2, Zenon DEF Kept, Live, registry
    <3>2. \A i \in Kept : b \in Dag[rec[i].cid] => b \in local
      BY Zenon DEF LInv, CollectorOK
    <3>3. ASSUME NEW i \in Kept
          PROVE  /\ rec[i].cid \in next \cup marked
                 /\ \A a \in marked \cap Dag[rec[i].cid] : Links[a] \subseteq next \cup marked
      BY <1>4, <2>4, <3>2, Zenon DEF gcWalkDAG, LInv, CollectorOK, marked
    <3> QED BY <2>2, <2>3, <3>1, <3>3 DEF LInv, CollectorOK
  <2> QED BY <1>4, <1>t, <2>2, <2>3, <2>5, CollectorMoves, Zenon DEF gcWalkDAG
<1>5. ASSUME NEW b \in Blocks, GcSweep(b) PROVE LInv'
  <2>1. /\ lgc' \in GcType /\ lgc'.pc = "sweep" /\ lgc'.todo = lgc.todo
        /\ lgc'.reachable = lgc.reachable /\ local' \subseteq Blocks
    BY <1>5, <1>t, Zenon DEF GcSweep, GcType
  <2>2. CollectorOK'
    <3>1. Kept' = Kept /\ \A i \in Kept : rec'[i] = rec[i]
      BY <1>5, Zenon DEF GcSweep, Kept, Live, registry
    <3>2. \A i \in Kept : Dag[rec[i].cid] \subseteq local'
      BY <1>5, MarkedAll, Zenon DEF GcSweep, LInv, CollectorOK
    <3> QED BY <1>5, <2>1, <3>1, <3>2 DEF GcSweep, LInv, CollectorOK
  <2> QED BY <1>5, <2>1, <2>2, CollectorMoves, Zenon DEF GcSweep
<1> QED BY <1>1, <1>2, <1>3, <1>4, <1>5, Zenon
-----------------------------------------------------------------------------
\* A step of a request: a block, the check and the batch of RootRegistry.Add,
\* the batches of Remove and Rename, an error.
LEMMA RequestStepInv ==
    ASSUME LInv, NEW c \in Clients, RequestStep(c)
    PROVE  LInv'
<1>1. ASSUME NEW b \in Blocks, IngestBlock(c, b) \/ FetchBlock(c, b) PROVE LInv'
  BY <1>1, StoreBlockInv, Zenon DEF IngestBlock, FetchBlock, Storing
<1>2. CASE StoreFails(c)
  <2>1. RequestOK(Idle)
    BY IdleType DEF RequestOK, Storing
  <2> QED BY <1>2, <2>1, IdleType, RequestMoves, Zenon DEF StoreFails, Done
<1> QED
  BY <1>1, <1>2, NextProviderInv, AddCheckInv, AddCommitInv, RemoveCommitInv, RenameCommitInv, Zenon
  DEF RequestStep

\* A crash leaves the disk; requests and collection are gone.
LEMMA CrashInv ==
    ASSUME LInv, Crash
    PROVE  LInv'
<1>1. /\ req' \in [Clients -> RequestType] /\ lgc' \in GcType /\ lgc'.pc = "idle"
      /\ \A d \in Clients : req'[d].pc = "idle"
      /\ UNCHANGED <<local, registry>>
  BY IdleType, GcIdleType, Zenon DEF Crash
<1>2. LTypeOK'
  BY <1>1, Zenon DEF LInv, LTypeOK, registry
<1>3. ASSUME NEW d \in Clients PROVE RequestOK(req[d])'
  BY <1>1, Zenon DEF RequestOK, Storing
<1> QED
  BY <1>1, <1>2, <1>3, Zenon DEF LInv, RegistryOK, TwinsOverlap, CollectorOK, Kept, Live, registry

\* LInv is inductive, for the requests of the API and the collector alike.
THEOREM LocalInvariant == LSpec => []LInv
<1>1. LInv /\ UNCHANGED lvars => LInv'
  <2> SUFFICES ASSUME LInv, UNCHANGED lvars PROVE LInv'
    BY Zenon
  <2>1. LTypeOK'
    BY Zenon DEF LInv, LTypeOK, lvars, registry
  <2>2. ASSUME NEW d \in Clients PROVE RequestOK(req[d])'
    BY Zenon DEF LInv, RequestOK, RecordKnown, BlocksThere, CheckHolds, Live, lvars, registry
  <2> QED
    BY <2>1, <2>2, Zenon DEF LInv, RegistryOK, TwinsOverlap, CollectorOK, Kept, Live, lvars, registry
<1>2. LInv /\ LNext => LInv'
  BY RequestInv, RequestStepInv, CollectorInv, CrashInv, Zenon DEF LNext
<1> QED BY <1>1, <1>2, InitInv, PTL DEF LSpec

\* Store.GC, the ring's blocks and the daemon's restarts do to the local half
\* what LocalRoots lets them do, so that what is proved of it holds of the
\* whole store (store/store.go 109-138).
THEOREM StoreImplementsLocal == Spec => LSpec
<1>1. Init => LInit
  BY Zenon DEF Init
<1>2. [Next]_vars => [LNext]_lvars
  <2> SUFFICES ASSUME [Next]_vars PROVE [LNext]_lvars
    BY Zenon
  <2>1. CASE GcBegin \/ GcLocalStep \/ GcLocalDone \/ GcLocalFails
    BY <2>1, Zenon DEF GcBegin, GcLocalStep, GcLocalDone, GcLocalFails, LNext
  <2>2. CASE GcNetwork
    BY <2>2, Zenon DEF GcNetwork
  <2>3. CASE \E c \in Clients : Client(c) \/ ClientStep(c)
    BY <2>3, Zenon DEF Client, ClientStep, LNext
  <2>4. CASE \E w \in Workers : Peer(w) \/ PeerStep(w)
    BY <2>4, Zenon DEF Peer, PeerStep
  <2>5. CASE \E r \in Rings, x \in Roots : Expire(r, x)
    BY <2>5, Zenon DEF Expire
  <2>6. CASE Restart
    BY <2>6, Zenon DEF Restart, LNext
  <2>7. CASE UNCHANGED vars
    BY <2>7, Zenon DEF vars
  <2> QED BY <2>1, <2>2, <2>3, <2>4, <2>5, <2>6, <2>7, Zenon DEF Next
<1> QED BY <1>1, <1>2, PTL DEF Spec, LSpec

\* A registered root is found under its name and its CID (store/roots.go).
THEOREM StoreFindable == Spec => []Findable
<1>1. LInv => Findable
  BY Zenon DEF LInv, RegistryOK, Findable, GetByName, GetByCID
<1> QED BY <1>1, LocalInvariant, StoreImplementsLocal, PTL

\* Only overlapping Adds register a CID twice (store/roots.go 93-131).
THEOREM StoreTwinsOverlap == Spec => []TwinsOverlap
<1>1. LInv => TwinsOverlap
  BY Zenon DEF LInv
<1> QED BY <1>1, LocalInvariant, StoreImplementsLocal, PTL

\* gcLocal never takes a block of a root whose request it did not overlap
\* (store/store.go 140-166).
THEOREM StoreRegisteredWhole == Spec => []RegisteredWhole
<1>1. LInv => RegisteredWhole
  BY Zenon DEF LInv, CollectorOK, Kept, RegisteredWhole
<1> QED BY <1>1, LocalInvariant, StoreImplementsLocal, PTL
=============================================================================
