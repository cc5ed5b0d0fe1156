---------------------------- MODULE PeerRecords ----------------------------
(***************************************************************************)
(* One signed, versioned record (a PeerIdentityRecord) on the nodes that   *)
(* may hold it, and its publisher (dht/node.go, dht/public.go).            *)
(*                                                                         *)
(* Records of different keys do not interact, so there is one key.  The    *)
(* publisher keeps a version counter in memory.  A put is routed to the    *)
(* node responsible for the key, which stores the record and pushes it to  *)
(* its replicas; when the ring changes, records are copied from node to    *)
(* node.  Pushes and copies are messages, delivered in any order or lost.  *)
(*                                                                         *)
(* Abstractions: encoding and signatures (a record in the ring is valid);  *)
(* a record carries the number of its put, which the properties use;       *)
(* pushes of one put are not ordered among themselves.                     *)
(***************************************************************************)
EXTENDS Integers, FiniteSets

CONSTANTS
  Nodes,       \* nodes that may hold the record
  Callers,     \* concurrent calls of PublishSelf
  TTL,         \* Node.peerRecordTTL
  MaxVersion,  \* bound on the publisher's version
  MaxPuts,     \* bound on records stored by puts
  MaxTime,     \* bound on the clock
  MaxNet,      \* bound on messages in flight
  Env,         \* what the environment does
  Nil

ASSUME PeerAssumption ==
  /\ IsFiniteSet(Nodes) /\ TTL \in Nat \ {0} /\ MaxVersion \in Nat
  /\ MaxPuts \in Nat /\ MaxTime \in Nat /\ MaxNet \in Nat
  /\ Env \subseteq {"lose", "transfer", "takeover", "delete", "restart", "tick", "error"}
  /\ Nil \notin Nodes
ASSUME NilAssumption ==
  /\ Nil \notin [ver : Nat, put : Nat]
  /\ Nil \notin [data : [ver : Nat, put : Nat], at : Nat]

VARIABLES
  now,
  owner,    \* the node lookups of the key lead to
  rec,      \* the record stored on each node, or Nil
  version,  \* PublicDring.version
  call,     \* the calls of PublishSelf
  net,      \* pushes on their way
  puts,     \* number of records stored by a put so far
  seen      \* what has happened so far that the properties exclude

vars == <<now, owner, rec, version, call, net, puts, seen>>
----------------------------------------------------------------------------
(* recordMeta.isExpiredAt *)
isExpiredAt(r, t) == t - r.at > TTL

Readable(n) == rec[n] # Nil /\ ~isExpiredAt(rec[n], now)

(* The version in a record's signed data. *)
extractRecordVersion(data) == data.ver

(* RecordGet: what the owner can serve. *)
RecordGet == IF Readable(owner) THEN rec[owner].data ELSE Nil

IdleCall == [pc |-> "idle", ver |-> 0]

Init ==
  /\ now = 0
  /\ owner \in Nodes
  /\ rec = [n \in Nodes |-> Nil]
  /\ version = 0
  /\ call = [c \in Callers |-> IdleCall]
  /\ net = {}
  /\ puts = 0
  /\ seen = {}

(* "moved": another owner, or a record gone; it makes the others irrelevant. *)
See(e) == seen' = IF "moved" \in seen \cup {e} THEN {"moved"} ELSE seen \cup {e}

Goto(c, label, v) == call' = [call EXCEPT ![c] = [pc |-> label, ver |-> v]]
----------------------------------------------------------------------------
(* The publisher.                                                          *)

PublishSelf(c) ==
  /\ call[c].pc = "idle"
  /\ version < MaxVersion
  /\ version' = version + 1
  /\ Goto(c, "put", version + 1)
  /\ IF \E d \in Callers : call[d].pc # "idle" THEN See("overlap") ELSE UNCHANGED seen
  /\ UNCHANGED <<now, owner, rec, net, puts>>

(* Mutant: a record with the stored version is accepted. *)
Newer_OrEqual(n, v) == Readable(n) => v >= extractRecordVersion(rec[n].data)

(* Mutant: no version is looked at. *)
Newer_Always(n, v) == TRUE

(* The test both storeSignedRecord and localRecordPut make: a record that   *)
(* has not expired gives way to a newer version only.                       *)
Newer(n, v) == Readable(n) => v > extractRecordVersion(rec[n].data)

storeSignedRecord(n, data) ==
  /\ Newer(n, extractRecordVersion(data))
  /\ rec' = [rec EXCEPT ![n] = [data |-> data, at |-> now]]

(* The owner pushes the record to its replicas, and ignores their answers. *)
replicateRecordBestEffort(data) ==
  /\ net' = net \cup {[to |-> n, data |-> data] : n \in Nodes \ {owner}}
  /\ Cardinality(net') <= MaxNet

(* PutRecord on the owner; a conflict sends the publisher to look at the    *)
(* stored version, once.                                                    *)
PutRecord(c) ==
  LET data == [ver |-> call[c].ver, put |-> puts + 1] IN
  /\ call[c].pc \in {"put", "retry"}
  /\ \/ /\ puts < MaxPuts
        /\ storeSignedRecord(owner, data)
        /\ puts' = puts + 1
        /\ replicateRecordBestEffort(data)
        /\ Goto(c, "idle", 0)
     \/ /\ ~Newer(owner, extractRecordVersion(data))
        /\ Goto(c, IF call[c].pc = "put" THEN "fetch" ELSE "failed", 0)
        /\ UNCHANGED <<rec, puts, net>>
  /\ UNCHANGED <<now, owner, version, seen>>

(* Mutant: the retry uses the stored version itself. *)
fetchStoredPeerVersion_Same(c) ==
  /\ call[c].pc = "fetch"
  /\ IF RecordGet # Nil
       THEN version' = extractRecordVersion(RecordGet) /\ Goto(c, "retry", version')
       ELSE Goto(c, "failed", 0) /\ UNCHANGED version
  /\ UNCHANGED <<now, owner, rec, net, puts, seen>>

(* fetchStoredPeerVersion and the new counter: PublishSelf fails when the   *)
(* record cannot be read any more.                                          *)
fetchStoredPeerVersion(c) ==
  /\ call[c].pc = "fetch"
  /\ IF RecordGet # Nil
       THEN /\ extractRecordVersion(RecordGet) < MaxVersion
            /\ version' = extractRecordVersion(RecordGet) + 1
            /\ Goto(c, "retry", version')
       ELSE Goto(c, "failed", 0) /\ UNCHANGED version
  /\ UNCHANGED <<now, owner, rec, net, puts, seen>>

(* The put or the fetch does not reach the owner.  A put whose answer is    *)
(* lost is PutRecord: the call returns then as well.                        *)
CallFails(c) ==
  /\ "error" \in Env
  /\ call[c].pc \in {"put", "fetch", "retry"}
  /\ Goto(c, "failed", 0)
  /\ See("error")
  /\ UNCHANGED <<now, owner, rec, version, net, puts>>

(* The error is logged, and the loop goes on. *)
Return(c) ==
  /\ call[c].pc = "failed"
  /\ Goto(c, "idle", 0)
  /\ UNCHANGED <<now, owner, rec, version, net, puts, seen>>

(* The publisher starts again: its counter is lost. *)
Restart ==
  /\ "restart" \in Env
  /\ version' = 0
  /\ call' = [c \in Callers |-> IdleCall]
  /\ UNCHANGED <<now, owner, rec, net, puts, seen>>
----------------------------------------------------------------------------
(* The nodes.                                                              *)

(* Mutant: the version of a push is not looked at. *)
localRecordPut_Unchecked(m) ==
  /\ m \in net
  /\ net' = net \ {m}
  /\ rec' = [rec EXCEPT ![m.to] = [data |-> m.data, at |-> now]]
  /\ UNCHANGED <<now, owner, version, call, puts, seen>>

(* PushRecords: localRecordPut.  The age of the record starts again. *)
localRecordPut(m) ==
  /\ m \in net
  /\ net' = net \ {m}
  /\ rec' = IF Newer(m.to, extractRecordVersion(m.data))
              THEN [rec EXCEPT ![m.to] = [data |-> m.data, at |-> now]]
              ELSE rec
  /\ UNCHANGED <<now, owner, version, call, puts, seen>>

Lose(m) ==
  /\ "lose" \in Env
  /\ m \in net
  /\ net' = net \ {m}
  /\ See("lose")
  /\ UNCHANGED <<now, owner, rec, version, call, puts>>

(* transferRecordsRange, TransferRecords of a joining node, and the push of *)
(* a leaving one: what is stored, expired or not, is sent as it is.         *)
transferRecordsRange(m, n) ==
  /\ "transfer" \in Env
  /\ m # n
  /\ rec[m] # Nil
  /\ net' = net \cup {[to |-> n, data |-> rec[m].data]}
  /\ Cardinality(net') <= MaxNet
  /\ UNCHANGED <<now, owner, rec, version, call, puts, seen>>

(* A join, a departure or a failure makes another node responsible. *)
TakeOver(n) ==
  /\ "takeover" \in Env
  /\ n # owner
  /\ owner' = n
  /\ See("moved")
  /\ UNCHANGED <<now, rec, version, call, net, puts>>

purgeExpiredRecords(n) ==
  /\ rec[n] # Nil
  /\ isExpiredAt(rec[n], now)
  /\ rec' = [rec EXCEPT ![n] = Nil]
  /\ UNCHANGED <<now, owner, version, call, net, puts, seen>>

DeleteRecord(n) ==
  /\ "delete" \in Env
  /\ rec[n] # Nil
  /\ rec' = [rec EXCEPT ![n] = Nil]
  /\ See("moved")
  /\ UNCHANGED <<now, owner, version, call, net, puts>>

Tick ==
  /\ "tick" \in Env
  /\ now < MaxTime
  /\ now' = now + 1
  /\ See("moved")
  /\ UNCHANGED <<owner, rec, version, call, net, puts>>
----------------------------------------------------------------------------
Publisher(c) ==
  PublishSelf(c) \/ PutRecord(c) \/ fetchStoredPeerVersion(c) \/ CallFails(c) \/ Return(c)

Next ==
  \/ \E c \in Callers : Publisher(c)
  \/ \E m \in net : localRecordPut(m) \/ Lose(m)
  \/ \E n \in Nodes : TakeOver(n) \/ purgeExpiredRecords(n) \/ DeleteRecord(n)
  \/ \E m, n \in Nodes : transferRecordsRange(m, n)
  \/ Restart
  \/ Tick

Spec == Init /\ [][Next]_vars
----------------------------------------------------------------------------
(* As long as the owner stays the same and no record expires, a version is  *)
(* never used for two records, whatever the callers, the restarts of the    *)
(* publisher and the order of the pushes: copies of one version are equal.  *)
SameVersionSameRecord ==
  "moved" \notin seen =>
    \A m, n \in Nodes :
      rec[m] # Nil /\ rec[n] # Nil /\ rec[m].data.ver = rec[n].data.ver => rec[m].data = rec[n].data

(* ... and once no push is on its way and none was lost, every node has the *)
(* last record that was accepted.                                           *)
ReplicasAgree ==
  seen \cap {"moved", "lose"} = {} /\ net = {} /\ puts > 0 =>
    \A n \in Nodes : rec[n] # Nil /\ rec[n].data.put = puts

(* With one call at a time and an owner that answers, PublishSelf gets its  *)
(* record stored at its second try at the latest, also after a restart that *)
(* lost the counter.                                                        *)
PublishSucceeds ==
  seen \cap {"moved", "error", "overlap"} = {} => \A c \in Callers : call[c].pc # "failed"

(* Whatever else happens, a record that a node can serve is never replaced  *)
(* there by an older version (storeSignedRecord, localRecordPut).           *)
VersionNeverBack ==
  [][\A n \in Nodes :
       Readable(n) /\ rec'[n] # Nil => rec'[n].data.ver >= rec[n].data.ver]_vars
============================================================================
