-------------------------- MODULE ProviderRecords --------------------------
(***************************************************************************)
(* The providers announced for one content hash, on the nodes that may     *)
(* hold the record (dht/node.go, dht/records.go, dht/public.go).           *)
(*                                                                         *)
(* The owner merges announcements into a list and remembers when each      *)
(* entry was made.  What is stored is bytes in one of two encodings: a     *)
(* single ProviderRecord, which is what an announcement pushes to the      *)
(* replicas, or a ProviderRecordList, with or without timestamps.  Reading *)
(* a single record as a list fails: its first field is the 20 bytes of the *)
(* hash, too short to hold an entry.                                       *)
(*                                                                         *)
(* Abstractions: one content hash; the order of a list; pushes of one      *)
(* announcement are not ordered among themselves.                          *)
(***************************************************************************)
EXTENDS Integers, FiniteSets

CONSTANTS
  Nodes,      \* nodes that may hold the record
  Providers,  \* peers that announce the content
  TTL,        \* Node.providerRecordTTL
  MaxTime,    \* bound on the clock
  MaxNet,     \* bound on messages in flight
  Env,        \* what the environment does
  Nil

VARIABLES
  now,
  owner,      \* the node lookups of the hash lead to
  records,    \* the bytes stored on each node, Nil when there are none
  times,      \* providerEntryTimes of each node, Nil when there is no map
  net,        \* pushes on their way
  announced,  \* when each provider last announced itself, or Nil
  moved       \* another owner, a copy on its way or a record deleted so far

vars == <<now, owner, records, times, net, announced, moved>>
----------------------------------------------------------------------------
NoTimes == [p \in Providers |-> Nil]

Single(p) == [enc |-> "single", list |-> {p}, stamps |-> NoTimes]
(* encodeProviderRecordList and encodeProviderRecordListWithTimestamps *)
List(S) == [enc |-> "list", list |-> S, stamps |-> NoTimes]
StampedList(S, t) == [enc |-> "list", list |-> S, stamps |-> [p \in Providers |-> IF p \in S THEN t[p] ELSE Nil]]

(* DecodeProviderRecords, where it does not fail. *)
Decode(d) == IF d # Nil /\ d.enc = "list" THEN d.list ELSE {}

Fresh(t) == t # Nil /\ now - t <= TTL

(* The entries a node still counts. *)
Current(n) == IF times[n] = Nil THEN {} ELSE {p \in Decode(records[n]) : Fresh(times[n][p])}

(* What FindProviders returns from node n: localRecordGet leaves expired     *)
(* entries out, or hands the bytes over as they are when no entry has a      *)
(* time; the caller decodes them.                                            *)
FindProviders(n) == IF times[n] = Nil THEN Decode(records[n]) ELSE Current(n)

Init ==
  /\ now = 0
  /\ owner \in Nodes
  /\ records = [n \in Nodes |-> Nil]
  /\ times = [n \in Nodes |-> Nil]
  /\ net = {}
  /\ announced = [p \in Providers |-> Nil]
  /\ moved = FALSE
----------------------------------------------------------------------------
(* Mutant: the entries of other providers are dropped. *)
storeProviderRecord_NoMerge(p) ==
  LET t == [NoTimes EXCEPT ![p] = now]
      pushes == {[to |-> n, data |-> Single(p)] : n \in Nodes \ {owner}}
  IN /\ Cardinality(net \cup pushes) <= MaxNet
     /\ times' = [times EXCEPT ![owner] = t]
     /\ records' = [records EXCEPT ![owner] = StampedList({p}, t)]
     /\ net' = net \cup pushes

(* storeProviderRecord on the owner, then replicateRecordBestEffort with    *)
(* the bytes of the announcement.                                           *)
storeProviderRecord(p) ==
  LET t == [(IF times[owner] = Nil THEN NoTimes ELSE times[owner]) EXCEPT ![p] = now]
      pushes == {[to |-> n, data |-> Single(p)] : n \in Nodes \ {owner}}
  IN /\ Cardinality(net \cup pushes) <= MaxNet
     /\ times' = [times EXCEPT ![owner] = t]
     /\ records' = [records EXCEPT ![owner] = StampedList(Current(owner) \cup {p}, t)]
     /\ net' = net \cup pushes

(* AnnounceProvider: the peer remembers what it announced. *)
publishProvider(p) ==
  /\ storeProviderRecord(p)
  /\ announced' = [announced EXCEPT ![p] = now]
  /\ UNCHANGED <<now, owner, moved>>

(* A turn of the republish loop: to the ring, one more announcement. *)
RepublishProvider(p) ==
  /\ announced[p] # Nil
  /\ publishProvider(p)

(* PushRecords: localRecordPut overwrites what is stored.  Entries without  *)
(* a timestamp are taken to be new; expired ones get no time.               *)
localRecordPut(m) ==
  LET n == m.to
      at(p) == IF m.data.stamps[p] = Nil THEN now ELSE m.data.stamps[p]
      base == IF times[n] = Nil THEN NoTimes ELSE times[n]
  IN /\ m \in net
     /\ net' = net \ {m}
     /\ records' = [records EXCEPT ![n] = m.data]
     /\ times' = IF m.data.enc = "single" \/ m.data.list = {} THEN times
                 ELSE [times EXCEPT ![n] =
                         [p \in Providers |-> IF p \in m.data.list /\ Fresh(at(p)) THEN at(p) ELSE base[p]]]
     /\ UNCHANGED <<now, owner, announced, moved>>

Lose(m) ==
  /\ "lose" \in Env
  /\ m \in net
  /\ net' = net \ {m}
  /\ UNCHANGED <<now, owner, records, times, announced, moved>>

(* transferRecordsRange, TransferRecords and the push of a leaving node. *)
transferRecordsRange(m, n) ==
  /\ "transfer" \in Env
  /\ m # n
  /\ records[m] # Nil
  /\ net' = net \cup {[to |-> n, data |-> records[m]]}
  /\ Cardinality(net') <= MaxNet
  /\ moved' = TRUE
  /\ UNCHANGED <<now, owner, records, times, announced>>

(* A join, a departure or a failure makes another node responsible. *)
TakeOver(n) ==
  /\ "takeover" \in Env
  /\ n # owner
  /\ owner' = n
  /\ moved' = TRUE
  /\ UNCHANGED <<now, records, times, net, announced>>

(* Mutant: an entry that has no time is taken to be new. *)
purgeExpiredRecords_Revives(n) ==
  LET left == [p \in Providers |-> IF Fresh(times[n][p]) THEN times[n][p]
                                  ELSE IF p \in Decode(records[n]) /\ times[n][p] = Nil THEN now ELSE Nil]
  IN /\ times[n] # Nil
     /\ IF left = NoTimes
          THEN times' = [times EXCEPT ![n] = Nil] /\ records' = [records EXCEPT ![n] = Nil]
          ELSE /\ times' = [times EXCEPT ![n] = left]
               /\ records' = IF records[n] # Nil /\ records[n].enc = "single" THEN records
                             ELSE [records EXCEPT ![n] = List({p \in Decode(@) : left[p] # Nil})]
     /\ UNCHANGED <<now, owner, net, announced, moved>>

(* purgeExpiredRecords goes by the entry times.  The list is written again  *)
(* without timestamps, whether an entry expired or not; bytes that are not  *)
(* a list stay; a record deleted meanwhile comes back as an empty list.     *)
purgeExpiredRecords(n) ==
  LET left == [p \in Providers |-> IF Fresh(times[n][p]) THEN times[n][p] ELSE Nil]
  IN /\ times[n] # Nil
     /\ IF left = NoTimes
          THEN times' = [times EXCEPT ![n] = Nil] /\ records' = [records EXCEPT ![n] = Nil]
          ELSE /\ times' = [times EXCEPT ![n] = left]
               /\ records' = IF records[n] # Nil /\ records[n].enc = "single" THEN records
                             ELSE [records EXCEPT ![n] = List({p \in Decode(@) : left[p] # Nil})]
     /\ UNCHANGED <<now, owner, net, announced, moved>>

(* DeleteRecord leaves the entry times. *)
DeleteRecord(n) ==
  /\ "delete" \in Env
  /\ records[n] # Nil
  /\ records' = [records EXCEPT ![n] = Nil]
  /\ moved' = TRUE
  /\ UNCHANGED <<now, owner, times, net, announced>>

Tick ==
  /\ "tick" \in Env
  /\ now < MaxTime
  /\ now' = now + 1
  /\ UNCHANGED <<owner, records, times, net, announced, moved>>
----------------------------------------------------------------------------
Next ==
  \/ \E p \in Providers : publishProvider(p) \/ RepublishProvider(p)
  \/ \E m \in net : localRecordPut(m) \/ Lose(m)
  \/ \E n \in Nodes : TakeOver(n) \/ purgeExpiredRecords(n) \/ DeleteRecord(n)
  \/ \E m, n \in Nodes : transferRecordsRange(m, n)
  \/ Tick

Spec == Init /\ [][Next]_vars
============================================================================
