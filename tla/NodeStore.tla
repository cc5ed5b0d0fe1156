----------------------------- MODULE NodeStore -----------------------------
(***************************************************************************)
(* A node's store as the daemon uses it (store/store.go): the local blocks *)
(* with their registry (LocalRoots) and the ring blocks                    *)
(* (NetworkBlockStore), tied by Store.GC.  Under gcMu, GC first collects   *)
(* the local blocks; only when that succeeds does it collect the ring      *)
(* blocks.                                                                 *)
(*                                                                         *)
(* Bound: focus, fixed for a behaviour, is the half that clients use, and  *)
(* the requests they make there; the collector goes over both halves all   *)
(* the same.                                                               *)
(***************************************************************************)
EXTENDS LocalRoots

CONSTANTS Keys, Roots, Rings, Workers, Size, Weight, MaxBytes, Quotas, NetOps, NetEnv,
  Menus    \* the requests of a behaviour: their CIDs, names, ids and each client's kinds

VARIABLES
  blocks, index, roots, known, used, count, ringUsed, ringCount, quota, disk, pc, arg, gc, protected,
  stage,   \* where Store.GC is: idle, in gcLocal, in NetworkBlocks.GC
  focus

N == INSTANCE NetworkBlockStore WITH Ops <- NetOps, Env <- NetEnv

nvars == <<blocks, index, roots, known, used, count, ringUsed, ringCount, quota, disk, pc, arg, gc,
           protected>>
vars == <<lvars, nvars, stage, focus>>

Init ==
  /\ LInit
  /\ N!Init
  /\ stage = "idle"
  /\ focus \in Menus
----------------------------------------------------------------------------
(* Store.GC: gcMu is held from the first step to the last. *)
GcBegin ==
  /\ stage = "idle"
  /\ GcList
  /\ stage' = "local"
  /\ UNCHANGED <<nvars, focus>>

GcLocalStep ==
  /\ GcKeys \/ \E b \in Blocks : gcWalkDAG(b) \/ GcSweep(b)
  /\ UNCHANGED <<nvars, stage, focus>>

GcLocalDone ==
  /\ GcEnd
  /\ stage' = "network"
  /\ UNCHANGED <<nvars, focus>>

(* Mutant: gcMu stays locked. *)
GcLocalFails_KeepsLock ==
  /\ GcFails
  /\ UNCHANGED <<nvars, stage, focus>>

(* An error of gcLocal is returned; the ring blocks are not collected. *)
GcLocalFails ==
  /\ GcFails
  /\ stage' = "idle"
  /\ UNCHANGED <<nvars, focus>>

GcNetwork ==
  /\ stage = "network"
  /\ N!GcStart \/ N!GcStep
  /\ stage' = IF gc'.pc = "idle" THEN "idle" ELSE "network"
  /\ UNCHANGED <<lvars, focus>>
----------------------------------------------------------------------------
Client(c) ==
  /\ Request(c)
  /\ req'[c].pc \in focus.kinds[c]
  /\ req'[c].cid \in focus.cids /\ req'[c].name \in focus.names \cup {None}
  /\ UNCHANGED <<nvars, stage, focus>>

ClientStep(c) ==
  /\ RequestStep(c)
  /\ issued' <= focus.ids
  /\ UNCHANGED <<nvars, stage, focus>>

Peer(w) ==
  /\ focus.cids = {}
  /\ N!Call(w)
  /\ UNCHANGED <<lvars, stage, focus>>

PeerStep(w) == N!WorkerStep(w) /\ UNCHANGED <<lvars, stage, focus>>

Expire(r, x) == N!Expire(r, x) /\ UNCHANGED <<lvars, stage, focus>>

(* The process dies and Store.Open opens the three stores again. *)
Restart ==
  /\ focus.cids # {}
  /\ Crash
  /\ N!Reopen
  /\ stage' = "idle"
  /\ UNCHANGED focus

Next ==
  \/ GcBegin \/ GcLocalStep \/ GcLocalDone \/ GcLocalFails \/ GcNetwork
  \/ \E c \in Clients : Client(c) \/ ClientStep(c)
  \/ \E w \in Workers : Peer(w) \/ PeerStep(w)
  \/ \E r \in Rings, x \in Roots : Expire(r, x)
  \/ Restart

Spec == Init /\ [][Next]_vars

(* The daemon's ticker calls GC for ever, the process does not restart for *)
(* ever, and deleting a block does not fail for ever.  A goroutine that    *)
(* waits for a lock shard gets it.                                         *)
FairSpec ==
  /\ Spec
  /\ <>[][~Restart /\ ~GcLocalFails]_vars
  /\ WF_vars(GcBegin \/ GcLocalStep \/ GcLocalDone \/ GcNetwork)
  /\ SF_vars(N!GcUnlink /\ UNCHANGED <<lvars, stage, focus>>)
  /\ \A w \in Workers : WF_vars(PeerStep(w))
----------------------------------------------------------------------------
(* A block that no registered root reaches, or that no ring lists under a   *)
(* live root, does not stay for ever: one call of GC deletes both kinds,    *)
(* although it skips the second kind whenever the first gives an error.     *)
LocalOrphan(b) == b \in local /\ \A i \in Live : b \notin Dag[rec[i].cid]
OrphansCollected ==
  /\ \A b \in Blocks : LocalOrphan(b) ~> ~LocalOrphan(b)
  /\ \A k \in Keys : N!Orphan(k) ~> ~N!Orphan(k)
============================================================================
