----------------------------- MODULE LocalRoots -----------------------------
(***************************************************************************)
(* The local half of a node's store: the blocks of the DAGs its user keeps *)
(* (store/ingest.go, store/blockstore.go), the registry of their roots     *)
(* (store/roots.go), the requests that add, fetch, remove and rename them  *)
(* (api/api.go), and the collection of what no root reaches                *)
(* (store/store.go, store/gc.go).                                          *)
(*                                                                         *)
(* No lock spans a request, and neither does the registry hold one: a      *)
(* request is cut at every read and at every batch it commits.  Blocks and *)
(* registry are on disk; a crash loses the requests and the collection.    *)
(*                                                                         *)
(* Abstractions: a block is its CID, with the links it holds; an id is the *)
(* number of Add's that drew one; what is left of a directory that cannot  *)
(* be read, or of a DAG that cannot be fetched, is the blocks stored so    *)
(* far.  The list of roots can be read (List answers an empty one when it  *)
(* cannot).                                                                *)
(***************************************************************************)
EXTENDS Naturals

CONSTANTS
  Blocks,    \* block CIDs
  Links,     \* the links of each block
  Dag,       \* the blocks of the DAG under each block
  Cids,      \* the roots a user adds or fetches
  Names,     \* names of roots
  MaxRoots,  \* bound: ids drawn
  Clients,   \* requests served at the same time
  Ops,       \* the requests each client makes
  None       \* no value

OpNames == {"add", "download", "get", "ringfetch", "remove", "rename"}

ASSUME LinksAssumption == Links \in [Blocks -> SUBSET Blocks]
ASSUME CidsAssumption == Cids \subseteq Blocks
ASSUME MaxRootsAssumption == MaxRoots \in Nat
ASSUME OpsAssumption == Ops \in [Clients -> SUBSET OpNames]
ASSUME NoneAssumption == None \notin Blocks \cup Names \cup [cid : Blocks, name : Names]

(* Dag[x] is the least set with x that is closed under links. *)
ASSUME DagAssumption ==
  /\ Dag \in [Blocks -> SUBSET Blocks]
  /\ \A x \in Blocks : x \in Dag[x] /\ \A b \in Dag[x] : Links[b] \subseteq Dag[x]
  /\ \A x \in Blocks : \A S \in SUBSET Dag[x] :
       x \in S /\ (\A b \in S : Links[b] \subseteq S) => S = Dag[x]

VARIABLES
  local,     \* LocalBlocks: the blocks on disk
  rec,       \* rec/<id>: the record of each id, or None
  cidIdx,    \* idx/cid/<cid>/<id> entries
  nameIdx,   \* idx/name/<name>/<id> entries
  issued,    \* ids drawn so far
  req,       \* each client's request: program counter and locals
  lgc,       \* locals of gcLocal, under gcMu
  born,      \* ghost: how the Add of each id came about, see Idle
  removed    \* ghost: ids whose record was removed

registry == <<rec, cidIdx, nameIdx, issued, born, removed>>
lvars == <<local, registry, req, lgc>>

Ids == 1..MaxRoots
Storing == {"ingest", "fetch", "get"}
Requests == Storing \cup {"idle", "commit", "remove", "rename"}

(* got: the blocks the request has walked.  id, old: the record a Remove or *)
(* Rename works on and the name it read.  base, gc: ghosts; the ids drawn   *)
(* when the request came in, and whether a collection has overlapped it.    *)
Idle == [pc |-> "idle", cid |-> None, name |-> None, got |-> {}, id |-> 0, old |-> None,
         base |-> 0, gc |-> FALSE]
GcIdle == [pc |-> "idle", todo |-> {}, reachable |-> {}, keys |-> {}, seen |-> {}]

Live == {i \in Ids : rec[i] # None}

LInit ==
  /\ local = {}
  /\ rec = [i \in Ids |-> None]
  /\ cidIdx = {}
  /\ nameIdx = {}
  /\ issued = 0
  /\ req = [c \in Clients |-> Idle]
  /\ lgc = GcIdle
  /\ born = [i \in Ids |-> [base |-> 0, gc |-> FALSE]]
  /\ removed = {}
-----------------------------------------------------------------------------
(* The registry.                                                           *)

(* queryByIndexPrefix: the ids of an index whose record is there. *)
GetByCID(x) == {i \in Live : <<x, i>> \in cidIdx}
GetByName(n) == {i \in Live : <<n, i>> \in nameIdx}

(* resolveRootID: the ids a reference may stand for, a CID before a name,  *)
(* and the reference itself when neither is registered.                    *)
resolveRootID(ref) ==
  IF GetByCID(ref) # {} THEN GetByCID(ref)
  ELSE IF GetByName(ref) # {} THEN GetByName(ref) ELSE {ref} \cap Ids

Done(c) == req' = [req EXCEPT ![c] = Idle]

(* Mutant: the second read of the index is left out. *)
AddCheck_Never(c) ==
  /\ req[c].pc \in Storing
  /\ req[c].got = Dag[req[c].cid]
  /\ req' = [req EXCEPT ![c].pc = "commit"]
  /\ UNCHANGED <<local, registry, lgc>>

(* RootRegistry.Add, the check: a CID that is registered is left alone. *)
AddCheck(c) ==
  /\ req[c].pc \in Storing
  /\ req[c].got = Dag[req[c].cid]
  /\ IF GetByCID(req[c].cid) # {} THEN Done(c) ELSE req' = [req EXCEPT ![c].pc = "commit"]
  /\ UNCHANGED <<local, registry, lgc>>

(* RootRegistry.Add, the batch: the record and its two index entries. *)
AddCommit(c) ==
  /\ req[c].pc = "commit"
  /\ issued < MaxRoots
  /\ issued' = issued + 1
  /\ rec' = [rec EXCEPT ![issued'] = [cid |-> req[c].cid, name |-> req[c].name]]
  /\ born' = [born EXCEPT ![issued'] = [base |-> req[c].base, gc |-> req[c].gc]]
  /\ cidIdx' = cidIdx \cup {<<req[c].cid, issued'>>}
  /\ nameIdx' = nameIdx \cup {<<req[c].name, issued'>>}
  /\ Done(c)
  /\ UNCHANGED <<local, lgc, removed>>

(* RootRegistry.Remove and Rename, the read: a request for an id without a *)
(* record is answered with ErrNotFound and changes nothing.                *)
ReadRecord(c, i, label, n) ==
  /\ rec[i] # None
  /\ req' = [req EXCEPT ![c] = [Idle EXCEPT !.pc = label, !.id = i, !.cid = rec[i].cid,
                                            !.old = rec[i].name, !.name = n]]
  /\ UNCHANGED <<local, registry, lgc>>

(* RootRegistry.Remove, the batch: the index entries are those of the name *)
(* that was read.                                                          *)
RemoveCommit(c) ==
  /\ req[c].pc = "remove"
  /\ rec' = [rec EXCEPT ![req[c].id] = None]
  /\ cidIdx' = cidIdx \ {<<req[c].cid, req[c].id>>}
  /\ nameIdx' = nameIdx \ {<<req[c].old, req[c].id>>}
  /\ removed' = removed \cup {req[c].id}
  /\ Done(c)
  /\ UNCHANGED <<issued, born, local, lgc>>

(* Mutant: the old name's entry is deleted after the new one is put. *)
RenameCommit_DeleteLast(c) ==
  /\ req[c].pc = "rename"
  /\ rec' = [rec EXCEPT ![req[c].id] = [cid |-> req[c].cid, name |-> req[c].name]]
  /\ nameIdx' = (nameIdx \cup {<<req[c].name, req[c].id>>}) \ {<<req[c].old, req[c].id>>}
  /\ Done(c)
  /\ UNCHANGED <<cidIdx, issued, born, local, lgc, removed>>

(* RootRegistry.Rename, the batch: the record as it was read but for its    *)
(* name, whatever happened to it since, then the two entries in this order. *)
RenameCommit(c) ==
  /\ req[c].pc = "rename"
  /\ rec' = [rec EXCEPT ![req[c].id] = [cid |-> req[c].cid, name |-> req[c].name]]
  /\ nameIdx' = (nameIdx \ {<<req[c].old, req[c].id>>}) \cup {<<req[c].name, req[c].id>>}
  /\ Done(c)
  /\ UNCHANGED <<cidIdx, issued, born, local, lgc, removed>>
-----------------------------------------------------------------------------
(* Requests that store blocks, then register their root.                   *)

Begin(c, op, label, x, n) ==
  /\ req[c].pc = "idle"
  /\ op \in Ops[c]
  /\ req' = [req EXCEPT ![c] = [Idle EXCEPT !.pc = label, !.cid = x, !.name = n,
                                            !.base = issued, !.gc = lgc.pc # "idle"]]
  /\ UNCHANGED <<local, registry, lgc>>

(* handleAdd: IngestPath, then RootRegistry.Add. *)
handleAdd(c, x, n) == Begin(c, "add", "ingest", x, n)

(* handleDHTDownload: FetchDAG from the public ring, then Add. *)
handleDHTDownload(c, x, n) == Begin(c, "download", "fetch", x, n)

(* POST /dht/get: FetchDAGFromProviders, then Add. *)
handleDHTGet(c, x, n) == Begin(c, "get", "get", x, n)

(* POST /ring/{group}/fetch: FetchDAG from a private ring, then Add. *)
handleRingFetch(c, x, n) == Begin(c, "ringfetch", "fetch", x, n)

StoreBlock(c, b) ==
  /\ local' = local \cup {b}
  /\ req' = [req EXCEPT ![c].got = @ \cup {b}]
  /\ UNCHANGED <<registry, lgc>>

(* ingestDir, ingestFile: a node is stored after the nodes it links to. *)
IngestBlock(c, b) ==
  /\ req[c].pc = "ingest"
  /\ b \in Dag[req[c].cid] \ req[c].got
  /\ Links[b] \subseteq req[c].got
  /\ StoreBlock(c, b)

(* fetchOneDAGBlock: a block is stored, unless it is local, once the block *)
(* that links to it was read.                                              *)
FetchBlock(c, b) ==
  /\ req[c].pc \in {"fetch", "get"}
  /\ b \in Dag[req[c].cid] \ req[c].got
  /\ b = req[c].cid \/ \E p \in req[c].got : b \in Links[p]
  /\ StoreBlock(c, b)

(* FetchDAGFromProviders: a provider fails, its blocks stay, and the next  *)
(* one is asked from the root on.                                          *)
FetchDAGFromProviders(c) ==
  /\ req[c].pc = "get"
  /\ req[c].got # Dag[req[c].cid]
  /\ req' = [req EXCEPT ![c].got = {}]
  /\ UNCHANGED <<local, registry, lgc>>

(* A file cannot be read, or no peer has a block: the request is answered  *)
(* with the error, and the blocks stored so far stay.                      *)
StoreFails(c) ==
  /\ req[c].pc \in Storing
  /\ req[c].got # Dag[req[c].cid]
  /\ Done(c)
  /\ UNCHANGED <<local, registry, lgc>>

(* handleRemove: resolve the reference, then RootRegistry.Remove.  Nothing *)
(* is lost by resolving and reading in one step: the id itself is a        *)
(* reference that resolves to it at any later time.                        *)
handleRemove(c, ref) ==
  /\ req[c].pc = "idle"
  /\ "remove" \in Ops[c]
  /\ \E i \in resolveRootID(ref) : ReadRecord(c, i, "remove", None)

(* handleRename: RootRegistry.Rename of an id, to the same name perhaps. *)
handleRename(c, i, n) ==
  /\ req[c].pc = "idle"
  /\ "rename" \in Ops[c]
  /\ ReadRecord(c, i, "rename", n)

Request(c) ==
  \/ \E x \in Cids, n \in Names :
       \/ handleAdd(c, x, n)
       \/ handleDHTDownload(c, x, n)
       \/ handleDHTGet(c, x, n)
       \/ handleRingFetch(c, x, n)
  \/ \E ref \in Cids \cup Names \cup Ids : handleRemove(c, ref)
  \/ \E i \in Ids, n \in Names : handleRename(c, i, n)

RequestStep(c) ==
  \/ \E b \in Blocks : IngestBlock(c, b) \/ FetchBlock(c, b)
  \/ FetchDAGFromProviders(c)
  \/ StoreFails(c)
  \/ AddCheck(c)
  \/ AddCommit(c)
  \/ RemoveCommit(c)
  \/ RenameCommit(c)
-----------------------------------------------------------------------------
(* Store.gcLocal.                                                          *)

(* List: the CIDs of all records.  Requests under way are overlapped. *)
GcList ==
  /\ lgc.pc = "idle"
  /\ lgc' = [GcIdle EXCEPT !.pc = "mark", !.todo = {rec[i].cid : i \in Live}]
  /\ req' = [c \in Clients |-> [req[c] EXCEPT !.gc = @ \/ req[c].pc \in Storing \cup {"commit"}]]
  /\ UNCHANGED <<local, registry>>

(* Mutant: the walk does not go below the children of a root. *)
gcWalkDAG_Shallow(b) ==
  /\ lgc.pc = "mark"
  /\ b \in lgc.todo
  /\ lgc' = [lgc EXCEPT !.todo = @ \ {b}, !.reachable = @ \cup {b}]
  /\ UNCHANGED <<local, registry, req>>

(* gcWalkDAG: a block is marked before it is read; one that is missing     *)
(* hides what it links to.                                                 *)
gcWalkDAG(b) ==
  /\ lgc.pc = "mark"
  /\ b \in lgc.todo
  /\ LET marked == lgc.reachable \cup {b}
     IN lgc' = [lgc EXCEPT !.reachable = marked,
                           !.todo = (@ \cup IF b \in local THEN Links[b] ELSE {}) \ marked]
  /\ UNCHANGED <<local, registry, req>>

(* AllKeysChan: the keys it will yield for certain. *)
GcKeys ==
  /\ lgc.pc = "mark"
  /\ lgc.todo = {}
  /\ lgc' = [lgc EXCEPT !.pc = "sweep", !.keys = local]
  /\ UNCHANGED <<local, registry, req>>

(* A key of the channel, one that was stored since perhaps. *)
GcSweep(b) ==
  /\ lgc.pc = "sweep"
  /\ b \in (lgc.keys \cup local) \ lgc.seen
  /\ local' = IF b \in lgc.reachable THEN local ELSE local \ {b}
  /\ lgc' = [lgc EXCEPT !.seen = @ \cup {b}]
  /\ UNCHANGED <<registry, req>>

GcEnd ==
  /\ lgc.pc = "sweep"
  /\ lgc.keys \subseteq lgc.seen
  /\ lgc' = GcIdle
  /\ UNCHANGED <<local, registry, req>>

(* A Delete fails: the collection is given up. *)
GcFails ==
  /\ lgc.pc = "sweep"
  /\ ~(lgc.keys \subseteq lgc.reachable \cup lgc.seen)
  /\ lgc' = GcIdle
  /\ UNCHANGED <<local, registry, req>>

(* The process dies: requests and collection are gone, the disk stays. *)
Crash ==
  /\ req' = [c \in Clients |-> Idle]
  /\ lgc' = GcIdle
  /\ UNCHANGED <<local, registry>>

LNext ==
  \/ \E c \in Clients : Request(c) \/ RequestStep(c)
  \/ GcList \/ GcKeys \/ GcEnd \/ GcFails
  \/ \E b \in Blocks : gcWalkDAG(b) \/ GcSweep(b)
  \/ Crash

LSpec == LInit /\ [][LNext]_lvars
-----------------------------------------------------------------------------
RootRecord == [cid : Blocks, name : Names]
RequestType ==
  [pc : Requests, cid : Blocks \cup {None}, name : Names \cup {None}, got : SUBSET Blocks,
   id : 0..MaxRoots, old : Names \cup {None}, base : 0..MaxRoots, gc : BOOLEAN]
GcType ==
  [pc : {"idle", "mark", "sweep"}, todo : SUBSET Blocks, reachable : SUBSET Blocks,
   keys : SUBSET Blocks, seen : SUBSET Blocks]
OriginType == [base : 0..MaxRoots, gc : BOOLEAN]

LTypeOK ==
  /\ local \subseteq Blocks
  /\ rec \in [Ids -> RootRecord \cup {None}]
  /\ cidIdx \subseteq Blocks \X Ids
  /\ nameIdx \subseteq Names \X Ids
  /\ issued \in 0..MaxRoots
  /\ born \in [Ids -> OriginType]
  /\ removed \subseteq Ids
  /\ req \in [Clients -> RequestType]
  /\ lgc \in GcType

(* A registered root is found under its name, and under its CID too unless  *)
(* a Rename that read it before it was removed has written it again: no     *)
(* other race of Adds, Removes and Renames hides a record that List, and so *)
(* the collector, still sees.                                               *)
Findable ==
  \A i \in Live :
    /\ i \in GetByName(rec[i].name)
    /\ i \notin removed => i \in GetByCID(rec[i].cid)

(* A CID is registered twice only by Adds that overlapped: the request that *)
(* registered the later id had come in before the earlier id was drawn.     *)
TwinsOverlap ==
  \A i, j \in Live \ removed :
    i < j /\ rec[i].cid = rec[j].cid => born[j].base < i

(* A registered root has all its blocks, whatever requests, crashes and     *)
(* collections came since, unless a collection overlapped the request that  *)
(* stored them: its list of roots may be older than the record, and it then *)
(* deletes the blocks under it.                                             *)
RegisteredWhole ==
  \A i \in Live \ removed : ~born[i].gc => Dag[rec[i].cid] \subseteq local

=============================================================================
