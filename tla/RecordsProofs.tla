--------------------------- MODULE RecordsProofs ---------------------------
(***************************************************************************)
(* What the nodes of the public ring keep and say to each other, for every *)
(* set of nodes, callers, providers, peers and addresses.                  *)
(*                                                                         *)
(* The records (Records), with every time to live: a version names one     *)
(* record, replicas that got every push agree, PublishSelf succeeds at its *)
(* second try, no version goes back, the owner's list of providers is      *)
(* exact, and a purge cannot be seen.                                      *)
(*                                                                         *)
(* The calls (RpcPool), with any faults: a request is sent at most once,   *)
(* and an answer is taken for the answer of the peer that gave it.  The    *)
(* two specifications share no variable.                                   *)
(***************************************************************************)
EXTENDS Records, RpcPool, TLAPS

Datum == [ver : Nat, put : Nat]
Stored == [data : Datum, at : Nat]
Steps == {"idle", "put", "fetch", "retry", "failed"}

(* The types of the variables of a signed record. *)
PeerType ==
  /\ now \in Nat /\ owner \in Nodes
  /\ rec \in [Nodes -> Stored \cup {Nil}]
  /\ version \in Nat /\ puts \in Nat
  /\ call \in [Callers -> [pc : Steps, ver : Nat]]
  /\ seen \subseteq {"moved", "lose", "error", "overlap"}

(* d is stored on a node, or on its way to one. *)
IsCopy(r, nt, d) ==
  \/ \E n \in Nodes : r[n] # Nil /\ r[n].data = d
  \/ \E m \in nt : m.data = d

(* The owner has the newest version there is, and a version is one record. *)
Newest(r, nt, o) ==
  /\ r[o] # Nil
  /\ \A d : IsCopy(r, nt, d) => d.ver <= r[o].data.ver
  /\ \A d, e : IsCopy(r, nt, d) /\ IsCopy(r, nt, e) /\ d.ver = e.ver => d = e

(* Nothing was stored yet, or the owner has the last record put. *)
CopyInv ==
  "moved" \notin seen =>
    /\ now = 0
    /\ \/ puts = 0 /\ net = {} /\ \A n \in Nodes : rec[n] = Nil
       \/ Newest(rec, net, owner) /\ rec[owner].data.put = puts

(* A node that lacks the owner's record has it on its way. *)
PushInv ==
  seen \cap {"moved", "lose"} = {} /\ rec[owner] # Nil =>
    \A n \in Nodes : \/ rec[n] # Nil /\ rec[n].data = rec[owner].data
                     \/ [to |-> n, data |-> rec[owner].data] \in net

(* What a lone call of PublishSelf knows about the owner. *)
CallInv ==
  seen \cap {"moved", "error", "overlap"} = {} =>
    /\ \A c, d \in Callers : call[c].pc # "idle" /\ call[d].pc # "idle" => c = d
    /\ \A c \in Callers :
         /\ call[c].pc # "failed"
         /\ call[c].pc = "fetch" => rec[owner] # Nil
         /\ call[c].pc = "retry" /\ rec[owner] # Nil => call[c].ver > rec[owner].data.ver

NetType == net \subseteq [to : Nodes, data : Datum]

(* The inductive invariant of a signed record; under a key of providers     *)
(* nothing of this is used.                                                 *)
PeerInv ==
  /\ PeerType
  /\ typ = "recPeer" => NetType /\ CopyInv /\ PushInv /\ CallInv
  /\ typ # "recPeer" =>
       /\ puts = 0 /\ \A n \in Nodes : rec[n] = Nil
       /\ \A c \in Callers : call[c].pc = "idle"

Stamps == [Providers -> Nat \cup {Nil}]
Bytes == [enc : {"single", "list"}, list : SUBSET Providers, stamps : Stamps]

(* The types of the variables of a provider list. *)
ListType ==
  /\ records \in [Nodes -> Bytes \cup {Nil}]
  /\ times \in [Nodes -> Stamps \cup {Nil}]
  /\ announced \in Stamps
  /\ moved \in BOOLEAN
  /\ typ = "recProvider" => net \subseteq [to : Nodes, data : Bytes]

(* What the owner has of each announcement. *)
Listed(o) ==
  IF times[o] = Nil THEN records[o] = Nil /\ \A p \in Providers : ~V!Fresh(announced[p])
  ELSE /\ records[o] # Nil /\ records[o].enc = "list"
       /\ \A p \in Providers :
            /\ V!Fresh(announced[p]) => p \in records[o].list /\ times[o][p] = announced[p]
            /\ p \in records[o].list /\ V!Fresh(times[o][p]) => announced[p] = times[o][p]

ListInv ==
  /\ ListType
  /\ ~moved /\ typ = "recProvider" => Listed(owner) /\ \A m \in net : m.to # owner
  /\ ~moved /\ typ # "recProvider" =>
       /\ \A n \in Nodes : times[n] = Nil /\ records[n] = Nil
       /\ \A p \in Providers : announced[p] = Nil
----------------------------------------------------------------------------
(* The bookkeeping of what happened: nothing is forgotten but by "moved". *)
LEMMA SeeGrows ==
  ASSUME NEW e, See(e), "moved" \notin seen'
  PROVE  "moved" \notin seen /\ e # "moved" /\ seen' = seen \cup {e}
BY Zenon DEF See

LEMMA SeeType ==
  ASSUME NEW e \in {"moved", "lose", "error", "overlap"}, See(e),
         seen \subseteq {"moved", "lose", "error", "overlap"}
  PROVE  seen' \subseteq {"moved", "lose", "error", "overlap"}
BY Zenon DEF See

(* Goto moves one call. *)
LEMMA GotoType ==
  ASSUME call \in [Callers -> [pc : Steps, ver : Nat]], NEW c \in Callers,
         NEW l \in Steps, NEW v \in Nat, Goto(c, l, v)
  PROVE  /\ call' \in [Callers -> [pc : Steps, ver : Nat]]
         /\ call'[c].pc = l /\ call'[c].ver = v
         /\ \A d \in Callers \ {c} : call'[d] = call[d]
BY Zenon DEF Goto

(* Types are kept by the steps of a signed record. *)
LEMMA PeerTypeStep ==
  ASSUME PeerType, NetType, Next
  PROVE  PeerType' /\ NetType'
<1> USE DEF PeerType, NetType
<1> "idle" \in Steps /\ "put" \in Steps /\ "fetch" \in Steps /\ "retry" \in Steps /\ "failed" \in Steps /\ 0 \in Nat
  BY Zenon DEF Steps
<1>1. ASSUME NEW c \in Callers, PublishSelf(c) PROVE PeerType' /\ NetType'
  <2>1. call' \in [Callers -> [pc : Steps, ver : Nat]]
    BY <1>1, GotoType DEF PublishSelf
  <2>2. seen' \subseteq {"moved", "lose", "error", "overlap"}
    <3>1. CASE \E d \in Callers : call[d].pc # "idle"  BY <1>1, <3>1, SeeType, Zenon DEF PublishSelf
    <3>2. CASE ~\E d \in Callers : call[d].pc # "idle"  BY <1>1, <3>2, Zenon DEF PublishSelf
    <3> QED  BY <3>1, <3>2, Zenon
  <2> QED  BY <1>1, <2>1, <2>2 DEF PublishSelf
<1>2. ASSUME NEW c \in Callers, PutRecord(c) PROVE PeerType' /\ NetType'
  <2> DEFINE data == [ver |-> call[c].ver, put |-> puts + 1]
  <2>0. data \in Datum  BY DEF Datum
  <2>1. call' \in [Callers -> [pc : Steps, ver : Nat]]
    BY <1>2, GotoType, Zenon DEF PutRecord
  <2>2. CASE storeSignedRecord(owner, data) /\ puts' = puts + 1 /\ replicateRecordBestEffort(data)
    <3>1. rec' \in [Nodes -> Stored \cup {Nil}]
      BY <2>0, <2>2, Zenon DEF storeSignedRecord, Stored
    <3>2. net' \subseteq [to : Nodes, data : Datum]
      BY <2>0, <2>2 DEF replicateRecordBestEffort
    <3> QED  BY <1>2, <2>1, <2>2, <3>1, <3>2 DEF PutRecord
  <2>3. CASE UNCHANGED <<rec, puts, net>>
    BY <1>2, <2>1, <2>3, Zenon DEF PutRecord
  <2> QED  BY <1>2, <2>2, <2>3, Zenon DEF PutRecord
<1>3. ASSUME NEW c \in Callers, fetchStoredPeerVersion(c) PROVE PeerType' /\ NetType'
  <2>1. CASE RecordGet # Nil
    <3>1. RecordGet \in Datum
      BY <2>1, Zenon DEF RecordGet, Readable, Stored
    <3>2. version' \in Nat  BY <1>3, <2>1, <3>1 DEF fetchStoredPeerVersion, extractRecordVersion, Datum
    <3>3. call' \in [Callers -> [pc : Steps, ver : Nat]]
      BY <1>3, <2>1, <3>2, GotoType, Zenon DEF fetchStoredPeerVersion
    <3> QED  BY <1>3, <3>2, <3>3, Zenon DEF fetchStoredPeerVersion
  <2>2. CASE RecordGet = Nil
    <3>3. call' \in [Callers -> [pc : Steps, ver : Nat]]
      BY <1>3, <2>2, GotoType, Zenon DEF fetchStoredPeerVersion
    <3> QED  BY <1>3, <2>2, <3>3, Zenon DEF fetchStoredPeerVersion
  <2> QED  BY <2>1, <2>2, Zenon
<1>4. ASSUME NEW c \in Callers, CallFails(c) PROVE PeerType' /\ NetType'
  <2>1. call' \in [Callers -> [pc : Steps, ver : Nat]]
    BY <1>4, GotoType, Zenon DEF CallFails
  <2> QED  BY <1>4, <2>1, SeeType, Zenon DEF CallFails
<1>5. ASSUME NEW c \in Callers, Return(c) PROVE PeerType' /\ NetType'
  <2>1. call' \in [Callers -> [pc : Steps, ver : Nat]]
    BY <1>5, GotoType, Zenon DEF Return
  <2> QED  BY <1>5, <2>1, Zenon DEF Return
<1>6. ASSUME NEW m \in net, localRecordPut(m) PROVE PeerType' /\ NetType'
  <2>1. rec' \in [Nodes -> Stored \cup {Nil}]  BY <1>6, Zenon DEF localRecordPut, Stored
  <2> QED  BY <1>6, <2>1, Zenon DEF localRecordPut
<1>7. ASSUME NEW m \in net, Lose(m) PROVE PeerType' /\ NetType'
  BY <1>7, SeeType, Zenon DEF Lose
<1>8. ASSUME NEW n \in Nodes, TakeOver(n) PROVE PeerType' /\ NetType'
  BY <1>8, SeeType, Zenon DEF TakeOver
<1>9. ASSUME NEW n \in Nodes, purgeExpiredRecords(n) PROVE PeerType' /\ NetType'
  BY <1>9, Zenon DEF purgeExpiredRecords
<1>10. ASSUME NEW n \in Nodes, DeleteRecord(n) PROVE PeerType' /\ NetType'
  BY <1>10, SeeType, Zenon DEF DeleteRecord
<1>11. ASSUME NEW m \in Nodes, NEW n \in Nodes, transferRecordsRange(m, n) PROVE PeerType' /\ NetType'
  BY <1>11 DEF transferRecordsRange, Stored
<1>12. CASE Restart
  BY <1>12, Zenon DEF Restart, IdleCall
<1>13. CASE Tick
  <2>1. now' \in Nat  BY <1>13 DEF Tick
  <2>2. seen' \subseteq {"moved", "lose", "error", "overlap"}  BY <1>13, SeeType, Zenon DEF Tick
  <2> QED  BY <1>13, <2>1, <2>2, Zenon DEF Tick
<1> QED  BY <1>1, <1>2, <1>3, <1>4, <1>5, <1>6, <1>7, <1>8, <1>9, <1>10, <1>11, <1>12, <1>13, Zenon DEF Next, Publisher
----------------------------------------------------------------------------
(* Copies of fewer records, and the same one on the owner. *)
LEMMA NewestFewer ==
  ASSUME NEW r, NEW nt, NEW r2, NEW nt2, NEW o, Newest(r, nt, o),
         r2[o] # Nil, r2[o].data = r[o].data,
         \A d : IsCopy(r2, nt2, d) => IsCopy(r, nt, d)
  PROVE  Newest(r2, nt2, o)
BY Zenon DEF Newest

(* A record of a version above the owner's becomes the newest. *)
LEMMA NewestPut ==
  ASSUME PeerType, NetType, NEW d \in Datum,
         Newest(rec, net, owner) => d.ver > rec[owner].data.ver,
         Newest(rec, net, owner) \/ (net = {} /\ \A n \in Nodes : rec[n] = Nil),
         rec' = [rec EXCEPT ![owner] = [data |-> d, at |-> now]],
         net' = net \cup {[to |-> n, data |-> d] : n \in Nodes \ {owner}}
  PROVE  Newest(rec', net', owner) /\ rec'[owner].data = d
<1> USE DEF PeerType, NetType
<1>1. rec'[owner] = [data |-> d, at |-> now] /\ \A n \in Nodes \ {owner} : rec'[n] = rec[n]
  BY Zenon
<1>2. [data |-> d, at |-> now] # Nil
  BY NilAssumption DEF Datum
<1>3. ASSUME NEW e, IsCopy(rec', net', e), e # d
      PROVE  IsCopy(rec, net, e)
  BY <1>1, <1>3 DEF IsCopy
<1>4. ASSUME NEW e, IsCopy(rec', net', e), e # d
      PROVE  e \in Datum /\ e.ver < d.ver
  <2>1. IsCopy(rec, net, e)  BY <1>3, <1>4, Zenon
  <2>2. e \in Datum /\ rec[owner] \in Stored \cup {Nil}  BY <2>1, Zenon DEF IsCopy, Stored
  <2>3. Newest(rec, net, owner)  BY <2>1, Zenon DEF IsCopy
  <2>4. e.ver <= rec[owner].data.ver /\ rec[owner] # Nil  BY <2>1, <2>3, Zenon DEF Newest
  <2> QED  BY <2>2, <2>3, <2>4 DEF Datum, Stored
<1>5. \A e : IsCopy(rec', net', e) => e.ver <= d.ver
  BY <1>4 DEF Datum
<1>6. \A e, f : IsCopy(rec', net', e) /\ IsCopy(rec', net', f) /\ e.ver = f.ver => e = f
  <2> SUFFICES ASSUME NEW e, NEW f, IsCopy(rec', net', e), IsCopy(rec', net', f), e.ver = f.ver, e # f
              PROVE  FALSE
    BY Zenon
  <2>0. d.ver \in Nat  BY Zenon DEF Datum
  <2>1. CASE e = d
    <3>1. f \in Datum /\ f.ver < d.ver  BY <1>4, <2>1, Zenon
    <3> QED  BY <2>0, <2>1, <3>1 DEF Datum
  <2>2. CASE f = d
    <3>1. e \in Datum /\ e.ver < d.ver  BY <1>4, <2>2, Zenon
    <3> QED  BY <2>0, <2>2, <3>1 DEF Datum
  <2>3. CASE e # d /\ f # d
    <3>1. IsCopy(rec, net, e) /\ IsCopy(rec, net, f)  BY <1>3, <2>3, Zenon
    <3>2. Newest(rec, net, owner)  BY <3>1, Zenon DEF IsCopy
    <3> QED  BY <3>1, <3>2, Zenon DEF Newest
  <2> QED  BY <2>1, <2>2, <2>3, Zenon
<1> QED  BY <1>1, <1>2, <1>5, <1>6, Zenon DEF Newest

(* While nothing moved no record has expired. *)
LEMMA NothingExpires ==
  ASSUME PeerType, now = 0, NEW n \in Nodes
  PROVE  /\ Readable(n) <=> rec[n] # Nil
         /\ ~(rec[n] # Nil /\ isExpiredAt(rec[n], now))
<1>1. CASE rec[n] = Nil  BY <1>1, Zenon DEF Readable
<1>2. CASE rec[n] # Nil
  <2>1. rec[n].at \in Nat  BY <1>2, Zenon DEF PeerType, Stored
  <2>2. ~(0 - rec[n].at > TTL)  BY <2>1, PeerAssumption
  <2> QED  BY <1>2, <2>2, Zenon DEF Readable, isExpiredAt
<1> QED  BY <1>1, <1>2, Zenon

(* The invariants of a signed record together. *)
SignedInv == PeerType /\ NetType /\ CopyInv /\ PushInv /\ CallInv

(* A record the owner accepts is newer than every copy. *)
LEMMA PutStep ==
  ASSUME SignedInv, NEW c \in Callers, PutRecord(c), PeerType', NetType'
  PROVE  CopyInv' /\ PushInv' /\ CallInv'
<1> DEFINE data == [ver |-> call[c].ver, put |-> puts + 1]
<1> USE DEF SignedInv
<1>0. data \in Datum /\ data.put = puts + 1 /\ data.ver = call[c].ver
  BY DEF PeerType, Datum
<1>s. seen' = seen /\ now' = now /\ owner' = owner /\ owner \in Nodes /\ puts \in Nat
  BY Zenon DEF PutRecord, PeerType
<1>1. CASE storeSignedRecord(owner, data) /\ puts' = puts + 1 /\ replicateRecordBestEffort(data) /\ Goto(c, "idle", 0)
  <2>0. rec' = [rec EXCEPT ![owner] = [data |-> data, at |-> now]]
        /\ net' = net \cup {[to |-> n, data |-> data] : n \in Nodes \ {owner}}
    BY <1>1, Zenon DEF storeSignedRecord, replicateRecordBestEffort
  <2>c. call' \in [Callers -> [pc : Steps, ver : Nat]] /\ call'[c].pc = "idle"
        /\ \A d \in Callers \ {c} : call'[d] = call[d]
    BY <1>1, GotoType, Zenon DEF PeerType, Steps
  <2>r. rec'[owner] # Nil /\ rec'[owner].data = data /\ \A n \in Nodes \ {owner} : rec'[n] = rec[n]
    <3>1. [data |-> data, at |-> now] # Nil  BY <1>0, NilAssumption DEF Datum, PeerType
    <3> HIDE DEF data
    <3> QED  BY <2>0, <3>1, Zenon DEF PeerType
  <2>1. ASSUME "moved" \notin seen
        PROVE  Newest(rec', net', owner) /\ rec'[owner].data.put = puts'
    <3>1. now = 0 /\ (Newest(rec, net, owner) \/ (net = {} /\ \A n \in Nodes : rec[n] = Nil))
      BY <2>1, Zenon DEF CopyInv
    <3>2. Newest(rec, net, owner) => data.ver > rec[owner].data.ver
      <4> SUFFICES ASSUME Newest(rec, net, owner) PROVE data.ver > rec[owner].data.ver
        BY Zenon
      <4>1. Readable(owner)  BY <1>s, <3>1, NothingExpires, Zenon DEF Newest
      <4> QED  BY <1>1, <4>1, Zenon DEF storeSignedRecord, Newer, extractRecordVersion
    <3> HIDE DEF data
    <3>3. Newest(rec', net', owner) /\ rec'[owner].data = data
      BY <1>0, <2>0, <3>1, <3>2, NewestPut, Zenon
    <3> QED  BY <1>0, <1>1, <3>3, Zenon
  <2>2. CopyInv'
    BY <1>s, <2>1, Zenon DEF CopyInv
  <2>3. PushInv'
    <3> HIDE DEF data
    <3>1. \A n \in Nodes \ {owner} : [to |-> n, data |-> data] \in net'  BY <2>0, Zenon
    <3> QED  BY <1>s, <2>r, <3>1, Zenon DEF PushInv
  <2>4. CallInv'
    <3> SUFFICES ASSUME seen \cap {"moved", "error", "overlap"} = {} 
                PROVE  \A d \in Callers : call'[d].pc = "idle"
      BY <1>s, Zenon DEF CallInv
    <3>1. \A d \in Callers \ {c} : call[d].pc = "idle"
      BY Zenon DEF CallInv, PutRecord
    <3> QED  BY <2>c, <3>1, Zenon
  <2> QED  BY <2>2, <2>3, <2>4, Zenon
<1>2. CASE /\ ~Newer(owner, extractRecordVersion(data)) /\ UNCHANGED <<rec, puts, net>>
           /\ Goto(c, IF call[c].pc = "put" THEN "fetch" ELSE "failed", 0)
  <2>1. CopyInv' /\ PushInv'
    BY <1>2, <1>s DEF CopyInv, PushInv, Newest, IsCopy
  <2>2. CallInv'
    <3> SUFFICES ASSUME seen \cap {"moved", "error", "overlap"} = {}
                PROVE  CallInv'
      BY <1>s, Zenon DEF CallInv
    <3>1. now = 0  BY Zenon DEF CopyInv
    <3>2. rec[owner] # Nil /\ ~(call[c].ver > rec[owner].data.ver)
      BY <1>2, <1>s, <3>1, NothingExpires, Zenon DEF Newer, extractRecordVersion
    <3>3. call[c].pc = "put"
      BY <3>2, Zenon DEF CallInv, PutRecord
    <3>4. call'[c].pc = "fetch" /\ \A d \in Callers \ {c} : call'[d] = call[d]
      BY <1>2, <3>3, GotoType, Zenon DEF PeerType, Steps
    <3>5. \A d \in Callers \ {c} : call[d].pc = "idle"
      BY <3>3, Zenon DEF CallInv
    <3> QED  BY <1>2, <1>s, <3>2, <3>4, <3>5 DEF CallInv
  <2> QED  BY <2>1, <2>2, Zenon
<1> QED  BY <1>1, <1>2, Zenon DEF PutRecord

(* A push is stored only where it is newer, never on the owner. *)
LEMMA DeliverStep ==
  ASSUME SignedInv, NEW m \in net, localRecordPut(m), PeerType', NetType'
  PROVE  CopyInv' /\ PushInv' /\ CallInv'
<1> USE DEF SignedInv
<1>s. /\ seen' = seen /\ now' = now /\ owner' = owner /\ puts' = puts /\ call' = call
      /\ net' = net \ {m} /\ owner \in Nodes /\ m \in [to : Nodes, data : Datum]
  BY Zenon DEF localRecordPut, PeerType, NetType
<1> SUFFICES ASSUME "moved" \notin seen PROVE CopyInv' /\ PushInv' /\ CallInv'
  BY <1>s, Zenon DEF CopyInv, PushInv, CallInv
<1>1. now = 0 /\ Newest(rec, net, owner) /\ rec[owner].data.put = puts
  BY Zenon DEF CopyInv
<1>2. IsCopy(rec, net, m.data) /\ m.data.ver <= rec[owner].data.ver /\ rec[owner] \in Stored
  BY <1>1, Zenon DEF IsCopy, Newest, PeerType
<1>3. \A n \in Nodes : Readable(n) <=> rec[n] # Nil
  BY <1>1, NothingExpires, Zenon
<1>4. CASE Newer(m.to, m.data.ver)
  <2>0. rec' = [rec EXCEPT ![m.to] = [data |-> m.data, at |-> now]]
    BY <1>4, Zenon DEF localRecordPut, extractRecordVersion
  <2>1. m.to # owner
    BY <1>1, <1>2, <1>3, <1>4, <1>s DEF Newer, Newest, extractRecordVersion, Datum, Stored
  <2>2. /\ rec'[owner] = rec[owner] /\ \A n \in Nodes \ {m.to} : rec'[n] = rec[n]
        /\ rec'[m.to].data = m.data /\ rec'[m.to] # Nil
    <3>1. [data |-> m.data, at |-> now] # Nil  BY <1>s, NilAssumption DEF Datum, PeerType
    <3> QED  BY <1>s, <2>0, <2>1, <3>1, Zenon DEF PeerType
  <2>3. \A d : IsCopy(rec', net', d) => IsCopy(rec, net, d)
    BY <1>s, <2>2, Zenon DEF IsCopy
  <2>4. Newest(rec', net', owner)
    <3>1. rec[owner] # Nil  BY <1>1, Zenon DEF Newest
    <3> QED  BY <1>1, <2>2, <2>3, <3>1, NewestFewer, Zenon
  <2>5. CopyInv'
    BY <1>1, <1>s, <2>2, <2>4, Zenon DEF CopyInv
  <2>6. PushInv'
    <3> SUFFICES ASSUME seen \cap {"moved", "lose"} = {}, NEW n \in Nodes,
                       ~(rec'[n] # Nil /\ rec'[n].data = rec[owner].data)
                PROVE  [to |-> n, data |-> rec[owner].data] \in net'
      BY <1>s, <2>2, Zenon DEF PushInv
    <3>0. rec[owner] # Nil  BY <1>1, Zenon DEF Newest
    <3>1. CASE n # m.to
      BY <1>s, <2>2, <3>0, <3>1 DEF PushInv
    <3>2. CASE n = m.to
      <4>1. m.data # rec[owner].data  BY <2>2, <3>2, Zenon
      <4>2. [to |-> n, data |-> rec[owner].data] # m  BY <4>1
      <4>3. ~(rec[n] # Nil /\ rec[n].data = rec[owner].data)
        BY <1>2, <1>3, <1>4, <3>2, <1>s DEF Newer, extractRecordVersion, Stored, Datum
      <4> QED  BY <1>s, <3>0, <4>2, <4>3, Zenon DEF PushInv
    <3> QED  BY <3>1, <3>2, Zenon
  <2>7. CallInv'
    BY <1>s, <2>2, Zenon DEF CallInv
  <2> QED  BY <2>5, <2>6, <2>7, Zenon
<1>5. CASE ~Newer(m.to, m.data.ver)
  <2>0. rec' = rec
    BY <1>5, Zenon DEF localRecordPut, extractRecordVersion
  <2>1. Newest(rec', net', owner)
    <3>1. rec[owner] # Nil  BY <1>1 DEF Newest
    <3>2. \A d : IsCopy(rec', net', d) => IsCopy(rec, net, d)  BY <1>s, <2>0, Zenon DEF IsCopy
    <3> QED  BY <1>1, <2>0, <3>1, <3>2, NewestFewer, Zenon
  <2>2. CopyInv'
    BY <1>1, <1>s, <2>0, <2>1, Zenon DEF CopyInv
  <2>3. PushInv'
    <3> SUFFICES ASSUME seen \cap {"moved", "lose"} = {}, NEW n \in Nodes,
                       ~(rec[n] # Nil /\ rec[n].data = rec[owner].data)
                PROVE  [to |-> n, data |-> rec[owner].data] \in net'
      BY <1>s, <2>0, Zenon DEF PushInv
    <3>0. rec[owner] # Nil  BY <1>1, Zenon DEF Newest
    <3>1. [to |-> n, data |-> rec[owner].data] \in net  BY <3>0, Zenon DEF PushInv
    <3>2. ASSUME [to |-> n, data |-> rec[owner].data] = m PROVE FALSE
      <4>1. m.to = n /\ m.data = rec[owner].data  BY <3>2, Zenon
      <4>2. rec[n] # Nil /\ ~(m.data.ver > rec[n].data.ver)
        BY <1>3, <1>5, <4>1, Zenon DEF Newer, extractRecordVersion
      <4>3. rec[n] \in Stored  BY <4>2, Zenon DEF PeerType
      <4>4. IsCopy(rec, net, rec[n].data)  BY <4>2, Zenon DEF IsCopy
      <4>5. rec[n].data.ver <= rec[owner].data.ver  BY <1>1, <4>4, Zenon DEF Newest
      <4>6. rec[n].data.ver = m.data.ver
        BY <1>2, <1>s, <4>1, <4>2, <4>3, <4>5 DEF Stored, Datum
      <4>7. rec[n].data = m.data  BY <1>1, <1>2, <4>4, <4>6, Zenon DEF Newest
      <4> QED  BY <4>1, <4>2, <4>7, Zenon
    <3> QED  BY <1>s, <3>1, <3>2, Zenon
  <2>4. CallInv'
    BY <1>s, <2>0, Zenon DEF CallInv
  <2> QED  BY <2>2, <2>3, <2>4
<1> QED  BY <1>4, <1>5, Zenon

(* The other steps of a signed record. *)
LEMMA SignedStep ==
  ASSUME SignedInv, Next
  PROVE  SignedInv'
<1> USE DEF SignedInv
<1>0. PeerType' /\ NetType' /\ owner \in Nodes
  BY PeerTypeStep, Zenon DEF PeerType
<1> SUFFICES CopyInv' /\ PushInv' /\ CallInv'
  BY <1>0, Zenon
<1>1. ASSUME NEW c \in Callers, PublishSelf(c) PROVE CopyInv' /\ PushInv' /\ CallInv'
  <2>0. UNCHANGED <<now, owner, rec, net, puts>>  BY <1>1, Zenon DEF PublishSelf
  <2>c. call'[c].pc = "put" /\ \A d \in Callers \ {c} : call'[d] = call[d]
    BY <1>1, GotoType DEF PublishSelf, PeerType, Steps
  <2>1. CASE \E d \in Callers : call[d].pc # "idle"
    <3>1. "moved" \notin seen' => seen' = seen \cup {"overlap"} /\ "moved" \notin seen
      BY <1>1, <2>1, SeeGrows, Zenon DEF PublishSelf
    <3>2. CopyInv'  BY <2>0, <3>1, Zenon DEF CopyInv
    <3>3. PushInv'  BY <2>0, <3>1, Zenon DEF PushInv
    <3>4. CallInv'  BY <2>0, <3>1, Zenon DEF CallInv
    <3> QED  BY <3>2, <3>3, <3>4, Zenon
  <2>2. CASE ~\E d \in Callers : call[d].pc # "idle"
    <3>1. seen' = seen  BY <1>1, <2>2, Zenon DEF PublishSelf
    <3>2. CopyInv'  BY <2>0, <3>1, Zenon DEF CopyInv
    <3>3. PushInv'  BY <2>0, <3>1, Zenon DEF PushInv
    <3>4. CallInv'  BY <2>0, <2>2, <2>c, <3>1 DEF CallInv
    <3> QED  BY <3>2, <3>3, <3>4
  <2> QED  BY <2>1, <2>2, Zenon
<1>2. ASSUME NEW c \in Callers, PutRecord(c) PROVE CopyInv' /\ PushInv' /\ CallInv'
  BY <1>0, <1>2, PutStep, Zenon
<1>3. ASSUME NEW c \in Callers, fetchStoredPeerVersion(c) PROVE CopyInv' /\ PushInv' /\ CallInv'
  <2>0. UNCHANGED <<now, owner, rec, net, puts, seen>>  BY <1>3, Zenon DEF fetchStoredPeerVersion
  <2>1. CopyInv' /\ PushInv'  BY <2>0, Zenon DEF CopyInv, PushInv
  <2>2. CallInv'
    <3> SUFFICES ASSUME seen \cap {"moved", "error", "overlap"} = {} PROVE CallInv'
      BY <2>0, Zenon DEF CallInv
    <3>1. now = 0 /\ rec[owner] # Nil  BY <1>3, Zenon DEF CopyInv, CallInv, fetchStoredPeerVersion
    <3>2. RecordGet = rec[owner].data  BY <1>0, <3>1, NothingExpires, Zenon DEF RecordGet
    <3>3. rec[owner].data \in Datum  BY <1>0, <3>1, Zenon DEF PeerType, Stored
    <3>4. RecordGet # Nil  BY <3>2, <3>3, NilAssumption, Zenon DEF Datum
    <3>5. version' = rec[owner].data.ver + 1 /\ Goto(c, "retry", version')
      BY <1>3, <3>2, <3>4, Zenon DEF fetchStoredPeerVersion, extractRecordVersion
    <3>6. version' \in Nat /\ version' > rec[owner].data.ver  BY <3>3, <3>5 DEF Datum
    <3>7. call'[c].pc = "retry" /\ call'[c].ver = version' /\ \A d \in Callers \ {c} : call'[d] = call[d]
      BY <3>5, <3>6, GotoType DEF PeerType, Steps
    <3>8. \A d \in Callers \ {c} : call[d].pc = "idle"
      BY <1>3, Zenon DEF CallInv, fetchStoredPeerVersion
    <3> QED  BY <2>0, <3>6, <3>7, <3>8 DEF CallInv
  <2> QED  BY <2>1, <2>2, Zenon
<1>4. ASSUME NEW c \in Callers, CallFails(c) PROVE CopyInv' /\ PushInv' /\ CallInv'
  <2>1. "moved" \notin seen' => seen' = seen \cup {"error"} /\ "moved" \notin seen
    BY <1>4, SeeGrows, Zenon DEF CallFails
  <2>2. UNCHANGED <<now, owner, rec, net, puts>>  BY <1>4, Zenon DEF CallFails
  <2>3. CopyInv'  BY <2>1, <2>2, Zenon DEF CopyInv
  <2>4. PushInv'  BY <2>1, <2>2, Zenon DEF PushInv
  <2>5. CallInv'  BY <2>1, <2>2, Zenon DEF CallInv
  <2> QED  BY <2>3, <2>4, <2>5
<1>5. ASSUME NEW c \in Callers, Return(c) PROVE CopyInv' /\ PushInv' /\ CallInv'
  BY <1>5, Zenon DEF Return, CopyInv, PushInv, CallInv
<1>6. ASSUME NEW m \in net, localRecordPut(m) PROVE CopyInv' /\ PushInv' /\ CallInv'
  BY <1>0, <1>6, DeliverStep, Zenon
<1>7. ASSUME NEW m \in net, Lose(m) PROVE CopyInv' /\ PushInv' /\ CallInv'
  <2>1. "moved" \notin seen' => seen' = seen \cup {"lose"} /\ "moved" \notin seen
    BY <1>7, SeeGrows, Zenon DEF Lose
  <2>2. UNCHANGED <<now, owner, rec, call, puts>> /\ net' = net \ {m}  BY <1>7, Zenon DEF Lose
  <2>3. CopyInv'
    <3> SUFFICES ASSUME "moved" \notin seen' PROVE Newest(rec', net', owner)
      BY <2>1, <2>2, Zenon DEF CopyInv
    <3>1. Newest(rec, net, owner) /\ rec[owner] # Nil  BY <2>1, Zenon DEF CopyInv, Newest
    <3>2. \A d : IsCopy(rec', net', d) => IsCopy(rec, net, d)  BY <2>2, Zenon DEF IsCopy
    <3> QED  BY <2>2, <3>1, <3>2, NewestFewer, Zenon
  <2>4. PushInv'  BY <2>1, <2>2, Zenon DEF PushInv
  <2>5. CallInv'  BY <2>1, <2>2, Zenon DEF CallInv
  <2> QED  BY <2>3, <2>4, <2>5, Zenon
<1>m. ASSUME See("moved") PROVE CopyInv' /\ PushInv' /\ CallInv'
  BY <1>m, Zenon DEF See, CopyInv, PushInv, CallInv
<1>9. ASSUME NEW n \in Nodes, purgeExpiredRecords(n) PROVE CopyInv' /\ PushInv' /\ CallInv'
  <2>1. "moved" \in seen
    BY <1>9, NothingExpires, Zenon DEF purgeExpiredRecords, CopyInv
  <2> QED  BY <1>9, <2>1, Zenon DEF purgeExpiredRecords, CopyInv, PushInv, CallInv
<1>11. ASSUME NEW m \in Nodes, NEW n \in Nodes, transferRecordsRange(m, n)
       PROVE  CopyInv' /\ PushInv' /\ CallInv'
  <2>1. /\ UNCHANGED <<now, owner, rec, call, puts, seen>> /\ rec[m] # Nil
        /\ net' = net \cup {[to |-> n, data |-> rec[m].data]}
    BY <1>11, Zenon DEF transferRecordsRange
  <2>3. CopyInv'
    <3> SUFFICES ASSUME "moved" \notin seen' PROVE Newest(rec', net', owner)
      BY <2>1, Zenon DEF CopyInv
    <3>1. Newest(rec, net, owner) /\ rec[owner] # Nil  BY <2>1, Zenon DEF CopyInv, Newest
    <3>2. \A d : IsCopy(rec', net', d) => IsCopy(rec, net, d)  BY <2>1 DEF IsCopy
    <3> QED  BY <2>1, <3>1, <3>2, NewestFewer
  <2>4. PushInv'  BY <2>1, Zenon DEF PushInv
  <2>5. CallInv'  BY <2>1, Zenon DEF CallInv
  <2> QED  BY <2>3, <2>4, <2>5, Zenon
<1>12. ASSUME Restart PROVE CopyInv' /\ PushInv' /\ CallInv'
  <2>1. \A c \in Callers : call'[c].pc = "idle"  BY <1>12, Zenon DEF Restart, IdleCall
  <2> QED  BY <1>12, <2>1, Zenon DEF Restart, CopyInv, PushInv, CallInv
<1> QED  BY <1>1, <1>2, <1>3, <1>4, <1>5, <1>6, <1>7, <1>m, <1>9, <1>11, <1>12, Zenon
         DEF Next, Publisher, TakeOver, DeleteRecord, Tick

(* Under a key of providers the variables of a signed record stay. *)
LEMMA OtherStep ==
  ASSUME now \in Nat, owner \in Nodes, V!Next
  PROVE  now' \in Nat /\ owner' \in Nodes
<1>1. ASSUME NEW p \in Providers, V!publishProvider(p) \/ V!RepublishProvider(p) PROVE UNCHANGED <<now, owner>>
  BY <1>1, Zenon DEF V!publishProvider, V!RepublishProvider
<1>2. ASSUME NEW m \in net, V!localRecordPut(m) \/ V!Lose(m) PROVE UNCHANGED <<now, owner>>
  BY <1>2, Zenon DEF V!localRecordPut, V!Lose
<1>3. ASSUME NEW n \in Nodes, V!purgeExpiredRecords(n) \/ V!DeleteRecord(n) PROVE UNCHANGED <<now, owner>>
  BY <1>3, Zenon DEF V!purgeExpiredRecords, V!DeleteRecord
<1>4. ASSUME NEW m \in Nodes, NEW n \in Nodes, V!transferRecordsRange(m, n) PROVE UNCHANGED <<now, owner>>
  BY <1>4, Zenon DEF V!transferRecordsRange
<1>5. ASSUME NEW n \in Nodes, V!TakeOver(n) PROVE now' = now /\ owner' \in Nodes
  BY <1>5, Zenon DEF V!TakeOver
<1>6. ASSUME V!Tick PROVE now' \in Nat /\ owner' = owner
  BY <1>6 DEF V!Tick
<1> QED  BY <1>1, <1>2, <1>3, <1>4, <1>5, <1>6, Zenon DEF V!Next

LEMMA PeerInvariant == RSpec => []PeerInv
<1>1. RInit => PeerInv
  <2> SUFFICES ASSUME RInit PROVE PeerInv
    BY Zenon
  <2>1. PeerType
    BY Zenon DEF RInit, Init, PeerType, IdleCall, Steps
  <2>2. NetType /\ CopyInv /\ PushInv
    BY Zenon DEF RInit, Init, NetType, CopyInv, PushInv
  <2>3. \A c \in Callers : call[c].pc = "idle"
    BY Zenon DEF RInit, Init, IdleCall
  <2>4. CallInv
    BY <2>3, Zenon DEF RInit, Init, CallInv
  <2> QED  BY <2>1, <2>2, <2>3, <2>4, Zenon DEF RInit, Init, PeerInv
<1>2. PeerInv /\ [storeRecord]_rvars => PeerInv'
  <2> SUFFICES ASSUME PeerInv, [storeRecord]_rvars PROVE PeerInv'
    BY Zenon
  <2>1. CASE typ = "recPeer" /\ Next /\ UNCHANGED <<ofProviders, typ>>
    <3>1. SignedInv  BY <2>1, Zenon DEF PeerInv, SignedInv
    <3>2. SignedInv'  BY <2>1, <3>1, SignedStep, Zenon
    <3> QED  BY <2>1, <3>2, Zenon DEF PeerInv, SignedInv
  <2>2. CASE typ = "recProvider" /\ V!Next /\ UNCHANGED <<ofPeers, typ>>
    <3>1. now' \in Nat /\ owner' \in Nodes  BY <2>2, OtherStep, Zenon DEF PeerInv, PeerType
    <3> QED  BY <2>2, <3>1, Zenon DEF PeerInv, PeerType, ofPeers
  <2>3. CASE UNCHANGED rvars
    BY <2>3, Zenon DEF rvars, vars, PeerInv, PeerType, NetType, CopyInv, PushInv, CallInv
  <2> QED  BY <2>1, <2>2, <2>3, Zenon DEF storeRecord
<1> QED  BY <1>1, <1>2, PTL DEF RSpec

(* A version is one record (PublishSelf, storeSignedRecord, localRecordPut): *)
(* as long as the owner is the same and no record expires, whatever the      *)
(* number of callers, their restarts and the order of the pushes.            *)
THEOREM RecordsSameVersion == RSpec => []SameVersionSameRecord
<1>1. PeerInv => SameVersionSameRecord
  <2> SUFFICES ASSUME PeerInv, "moved" \notin seen, NEW m \in Nodes, NEW n \in Nodes,
                     rec[m] # Nil, rec[n] # Nil, rec[m].data.ver = rec[n].data.ver
              PROVE  rec[m].data = rec[n].data
    BY Zenon DEF SameVersionSameRecord
  <2>1. Newest(rec, net, owner)  BY Zenon DEF PeerInv, CopyInv
  <2>2. IsCopy(rec, net, rec[m].data) /\ IsCopy(rec, net, rec[n].data)  BY Zenon DEF IsCopy
  <2> QED  BY <2>1, <2>2, Zenon DEF Newest
<1> QED  BY <1>1, PeerInvariant, PTL

(* Once every push of the owner (replicateRecordBestEffort) has arrived and *)
(* none was lost, every node holds the last record put.                     *)
THEOREM RecordsReplicasAgree == RSpec => []ReplicasAgree
<1>1. PeerInv => ReplicasAgree
  <2> SUFFICES ASSUME PeerInv, seen \cap {"moved", "lose"} = {}, net = {}, puts > 0, NEW n \in Nodes
              PROVE  rec[n] # Nil /\ rec[n].data.put = puts
    BY Zenon DEF ReplicasAgree
  <2>0. "moved" \notin seen /\ puts # 0  OBVIOUS
  <2>1. rec[owner] # Nil /\ rec[owner].data.put = puts
    BY <2>0, Zenon DEF PeerInv, CopyInv, Newest
  <2> QED  BY <2>0, <2>1, Zenon DEF PeerInv, PushInv
<1> QED  BY <1>1, PeerInvariant, PTL

(* A lone call of PublishSelf that reaches the owner stores its record at   *)
(* the second try at the latest: the version fetched after a conflict is    *)
(* still the owner's when the retry arrives.                                *)
THEOREM RecordsPublishSucceeds == RSpec => []PublishSucceeds
<1>1. PeerInv => PublishSucceeds
  BY Zenon DEF PeerInv, CallInv, PublishSucceeds
<1> QED  BY <1>1, PeerInvariant, PTL

(* No step of any node, crash of the publisher or change of owner puts an   *)
(* older version in the place of one that can be served.                    *)
THEOREM RecordsVersionNeverBack == RSpec => VersionNeverBack
<1> DEFINE A == \A n \in Nodes : Readable(n) /\ rec'[n] # Nil => rec'[n].data.ver >= rec[n].data.ver
<1>1. PeerInv /\ [storeRecord]_rvars => [A]_vars
  <2> SUFFICES ASSUME PeerInv, [storeRecord]_rvars, NEW n \in Nodes, Readable(n), rec'[n] # Nil
              PROVE  rec'[n].data.ver >= rec[n].data.ver
    BY Zenon
  <2>0. rec[n] \in Stored /\ rec \in [Nodes -> Stored \cup {Nil}] /\ owner \in Nodes
    BY Zenon DEF PeerInv, PeerType, Readable
  <2>1. CASE rec' = rec
    BY <2>0, <2>1 DEF Stored, Datum
  <2>2. CASE typ = "recPeer" /\ Next
    <3>0. NetType /\ PeerType  BY <2>2, Zenon DEF PeerInv
    <3>1. ASSUME NEW c \in Callers, PutRecord(c), rec' # rec PROVE rec'[n].data.ver >= rec[n].data.ver
      <4>1. storeSignedRecord(owner, [ver |-> call[c].ver, put |-> puts + 1])  BY <3>1, Zenon DEF PutRecord
      <4>2. CASE n = owner
        <5>1. call[c].ver > rec[n].data.ver /\ rec'[n].data.ver = call[c].ver
          BY <2>0, <4>1, <4>2, Zenon DEF storeSignedRecord, Newer, extractRecordVersion
        <5> QED  BY <2>0, <3>0, <5>1 DEF Stored, Datum, PeerType
      <4>3. CASE n # owner
        BY <2>0, <4>1, <4>3 DEF storeSignedRecord, Stored, Datum
      <4> QED  BY <4>2, <4>3, Zenon
    <3>2. ASSUME NEW m \in net, localRecordPut(m), rec' # rec PROVE rec'[n].data.ver >= rec[n].data.ver
      <4>1. /\ Newer(m.to, m.data.ver) /\ rec' = [rec EXCEPT ![m.to] = [data |-> m.data, at |-> now]]
            /\ m.to \in Nodes /\ m.data \in Datum
        BY <3>0, <3>2, Zenon DEF localRecordPut, NetType, extractRecordVersion
      <4>2. CASE n = m.to
        BY <2>0, <4>1, <4>2 DEF Newer, Stored, Datum, extractRecordVersion
      <4>3. CASE n # m.to
        BY <2>0, <4>1, <4>3 DEF Stored, Datum
      <4> QED  BY <4>2, <4>3, Zenon
    <3>3. ASSUME NEW m \in Nodes, rec' = [rec EXCEPT ![m] = Nil] PROVE rec'[n].data.ver >= rec[n].data.ver
      BY <2>0, <3>3 DEF Stored, Datum
    <3> QED
      BY <2>1, <2>2, <3>1, <3>2, <3>3, Zenon
         DEF Next, Publisher, PublishSelf, fetchStoredPeerVersion, CallFails, Return, Lose, TakeOver,
             purgeExpiredRecords, DeleteRecord, transferRecordsRange, Restart, Tick
  <2> QED  BY <2>1, <2>2, Zenon DEF storeRecord, ofPeers, rvars, vars
<1>2. RSpec => [][A]_vars
  BY <1>1, PeerInvariant, PTL DEF RSpec
<1> QED  BY <1>2, Zenon DEF VersionNeverBack
----------------------------------------------------------------------------
(* Types are kept by the steps of a provider list. *)
ProviderType == ListType /\ now \in Nat /\ owner \in Nodes

LEMMA BytesTypes ==
  /\ V!NoTimes \in Stamps
  /\ \A p \in Providers : V!Single(p) \in Bytes
  /\ \A S \in SUBSET Providers : V!List(S) \in Bytes
  /\ \A S \in SUBSET Providers, t \in Stamps : V!StampedList(S, t) \in Bytes
  /\ \A d \in Bytes \cup {Nil} : V!Decode(d) \subseteq Providers
<1>1. V!NoTimes \in Stamps  BY Zenon DEF V!NoTimes, Stamps
<1>2. \A p \in Providers : V!Single(p) \in Bytes  BY <1>1, Zenon DEF V!Single, Bytes
<1>3. \A S \in SUBSET Providers : V!List(S) \in Bytes  BY <1>1, Zenon DEF V!List, Bytes
<1>4. ASSUME NEW S \in SUBSET Providers, NEW t \in Stamps PROVE V!StampedList(S, t) \in Bytes
  <2>1. [p \in Providers |-> IF p \in S THEN t[p] ELSE Nil] \in Stamps  BY Zenon DEF Stamps
  <2> QED  BY <2>1, Zenon DEF V!StampedList, Bytes
<1>5. \A d \in Bytes \cup {Nil} : V!Decode(d) \subseteq Providers  BY Zenon DEF V!Decode, Bytes
<1> QED  BY <1>1, <1>2, <1>3, <1>4, <1>5, Zenon

LEMMA ListFields ==
  ASSUME NEW T \in SUBSET Providers
  PROVE  V!List(T) # Nil /\ V!List(T).enc = "list" /\ V!List(T).list = T
<1>1. V!List(T) \in Bytes  BY BytesTypes, Zenon
<1>2. V!List(T) # Nil  BY <1>1, NoBytesAssumption, Zenon DEF Bytes, Stamps
<1> QED  BY <1>2, Zenon DEF V!List

LEMMA CurrentType ==
  ASSUME ListType, NEW n \in Nodes
  PROVE  V!Current(n) \in SUBSET Providers
BY BytesTypes, Zenon DEF V!Current, ListType

LEMMA AnnounceType ==
  ASSUME ProviderType, typ = "recProvider", UNCHANGED typ, NEW p \in Providers, V!publishProvider(p)
  PROVE  ProviderType'
<1> DEFINE t == [(IF times[owner] = Nil THEN V!NoTimes ELSE times[owner]) EXCEPT ![p] = now]
           pushes == {[to |-> n, data |-> V!Single(p)] : n \in Nodes \ {owner}}
<1> USE DEF ProviderType
<1>1. t \in Stamps
  <2>1. (IF times[owner] = Nil THEN V!NoTimes ELSE times[owner]) \in Stamps
    BY BytesTypes, Zenon DEF ListType
  <2> QED  BY <2>1, Zenon DEF Stamps
<1>2. V!StampedList(V!Current(owner) \cup {p}, t) \in Bytes
  <2> HIDE DEF t
  <2>1. V!Current(owner) \cup {p} \in SUBSET Providers  BY CurrentType, Zenon
  <2> QED  BY <1>1, <2>1, BytesTypes, Zenon
<1>3. pushes \subseteq [to : Nodes, data : Bytes]
  BY BytesTypes
<1>4. /\ times' = [times EXCEPT ![owner] = t]
      /\ records' = [records EXCEPT ![owner] = V!StampedList(V!Current(owner) \cup {p}, t)]
      /\ net' = net \cup pushes
      /\ announced' = [announced EXCEPT ![p] = now]
      /\ UNCHANGED <<now, owner, moved>>
  BY Zenon DEF V!publishProvider, V!storeProviderRecord
<1> HIDE DEF t, pushes
<1>5. announced' \in Stamps  BY <1>4, Zenon DEF ListType, Stamps
<1>6. times' \in [Nodes -> Stamps \cup {Nil}]  BY <1>1, <1>4, Zenon DEF ListType
<1>7. records' \in [Nodes -> Bytes \cup {Nil}]  BY <1>2, <1>4, Zenon DEF ListType
<1>8. net' \subseteq [to : Nodes, data : Bytes]  BY <1>3, <1>4, Zenon DEF ListType
<1> QED  BY <1>4, <1>5, <1>6, <1>7, <1>8, Zenon DEF ListType

LEMMA PushedType ==
  ASSUME ProviderType, typ = "recProvider", UNCHANGED typ, NEW m \in net, V!localRecordPut(m)
  PROVE  ProviderType'
<1> USE DEF ProviderType
<1>0. m.to \in Nodes /\ m.data \in Bytes /\ now \in Nat  BY Zenon DEF ListType
<1> DEFINE n == m.to
           entered(p) == IF m.data.stamps[p] = Nil THEN now ELSE m.data.stamps[p]
           base == IF times[n] = Nil THEN V!NoTimes ELSE times[n]
           new == [p \in Providers |-> IF p \in m.data.list /\ V!Fresh(entered(p)) THEN entered(p) ELSE base[p]]
<1>1. base \in Stamps  BY <1>0, BytesTypes, Zenon DEF ListType
<1>2. \A p \in Providers : entered(p) \in Nat \cup {Nil}  BY <1>0, Zenon DEF Bytes, Stamps
<1>3. new \in Stamps
  <2> HIDE DEF entered, base
  <2> QED  BY <1>1, <1>2, Zenon DEF Stamps
<1>4. /\ net' = net \ {m} /\ records' = [records EXCEPT ![n] = m.data]
      /\ times' = times \/ times' = [times EXCEPT ![n] = new]
      /\ UNCHANGED <<now, owner, announced, moved>>
  BY Zenon DEF V!localRecordPut
<1> HIDE DEF new
<1>5. times' \in [Nodes -> Stamps \cup {Nil}]  BY <1>0, <1>3, <1>4, Zenon DEF ListType
<1>6. records' \in [Nodes -> Bytes \cup {Nil}]  BY <1>0, <1>4, Zenon DEF ListType
<1> QED  BY <1>4, <1>5, <1>6, Zenon DEF ListType

(* What a purge leaves on a node. *)
Left(n) == [p \in Providers |-> IF V!Fresh(times[n][p]) THEN times[n][p] ELSE Nil]

LEMMA PurgeCases ==
  ASSUME ListType, NEW n \in Nodes, V!purgeExpiredRecords(n)
  PROVE  /\ times[n] \in Stamps /\ Left(n) \in Stamps /\ UNCHANGED <<now, owner, net, announced, moved>>
         /\ \/ /\ \A p \in Providers : ~V!Fresh(times[n][p])
               /\ times' = [times EXCEPT ![n] = Nil] /\ records' = [records EXCEPT ![n] = Nil]
            \/ /\ times' = [times EXCEPT ![n] = Left(n)]
               /\ \/ records' = records /\ records[n] # Nil /\ records[n].enc = "single"
                  \/ /\ ~(records[n] # Nil /\ records[n].enc = "single")
                     /\ records' = [records EXCEPT ![n] = V!List({p \in V!Decode(records[n]) : Left(n)[p] # Nil})]
<1>1. times[n] \in Stamps  BY Zenon DEF V!purgeExpiredRecords, ListType
<1>2. Left(n) \in Stamps  BY <1>1, Zenon DEF Left, Stamps
<1>3. IF Left(n) = V!NoTimes
        THEN times' = [times EXCEPT ![n] = Nil] /\ records' = [records EXCEPT ![n] = Nil]
        ELSE /\ times' = [times EXCEPT ![n] = Left(n)]
             /\ records' = IF records[n] # Nil /\ records[n].enc = "single" THEN records
                           ELSE [records EXCEPT ![n] = V!List({p \in V!Decode(@) : Left(n)[p] # Nil})]
  BY Zenon DEF V!purgeExpiredRecords, Left
<1>4. CASE Left(n) = V!NoTimes
  <2>1. ASSUME NEW p \in Providers, V!Fresh(times[n][p]) PROVE FALSE
    <3>1. Left(n)[p] = times[n][p]  BY <2>1, Zenon DEF Left
    <3>2. Left(n)[p] = Nil  BY <1>4, Zenon DEF V!NoTimes
    <3> QED  BY <2>1, <3>1, <3>2, Zenon DEF V!Fresh
  <2> QED  BY <1>1, <1>2, <1>3, <1>4, <2>1, Zenon DEF V!purgeExpiredRecords
<1>5. CASE Left(n) # V!NoTimes
  <2>1. CASE records[n] # Nil /\ records[n].enc = "single"
    BY <1>1, <1>2, <1>3, <1>5, <2>1, Zenon DEF V!purgeExpiredRecords
  <2>2. CASE ~(records[n] # Nil /\ records[n].enc = "single")
    <3>1. records' = [records EXCEPT ![n] = V!List({p \in V!Decode(records[n]) : Left(n)[p] # Nil})]
      BY <1>3, <1>5, <2>2, Zenon DEF ListType
    <3> QED  BY <1>1, <1>2, <1>3, <1>5, <2>2, <3>1, Zenon DEF V!purgeExpiredRecords
  <2> QED  BY <2>1, <2>2, Zenon
<1> QED  BY <1>4, <1>5, Zenon

LEMMA PurgeType ==
  ASSUME ProviderType, UNCHANGED typ, NEW n \in Nodes, V!purgeExpiredRecords(n)
  PROVE  ProviderType'
<1> USE DEF ProviderType
<1>1. V!List({p \in V!Decode(records[n]) : Left(n)[p] # Nil}) \in Bytes
  <2>1. {p \in V!Decode(records[n]) : Left(n)[p] # Nil} \in SUBSET Providers
    BY BytesTypes, Zenon DEF ListType
  <2> QED  BY <2>1, BytesTypes, Zenon
<1>2. records' \in [Nodes -> Bytes \cup {Nil}]  BY <1>1, PurgeCases, Zenon DEF ListType
<1>3. times' \in [Nodes -> Stamps \cup {Nil}]  BY PurgeCases, Zenon DEF ListType
<1>4. UNCHANGED <<now, owner, net, announced, moved>>  BY PurgeCases, Zenon
<1> QED  BY <1>2, <1>3, <1>4, Zenon DEF ListType

(* An announcement adds its provider and keeps the current ones. *)
LEMMA AnnounceStep ==
  ASSUME ProviderType, ProviderType', Listed(owner), NEW p \in Providers, V!publishProvider(p)
  PROVE  Listed(owner)'
<1> DEFINE old == IF times[owner] = Nil THEN V!NoTimes ELSE times[owner]
           t == [old EXCEPT ![p] = now]
<1> USE DEF ProviderType
<1>1. old \in Stamps /\ times \in [Nodes -> Stamps \cup {Nil}] /\ announced \in Stamps
  BY BytesTypes, Zenon DEF ListType
<1>2. t \in Stamps /\ t[p] = now /\ \A q \in Providers \ {p} : t[q] = old[q]
  <2> HIDE DEF old
  <2> QED  BY <1>1, Zenon DEF Stamps
<1>3. /\ times' = [times EXCEPT ![owner] = t]
      /\ records' = [records EXCEPT ![owner] = V!StampedList(V!Current(owner) \cup {p}, t)]
      /\ announced' = [announced EXCEPT ![p] = now]
      /\ UNCHANGED <<now, owner, moved>>
  BY Zenon DEF V!publishProvider, V!storeProviderRecord
<1> HIDE DEF t
<1>4. times'[owner] = t /\ t # Nil
  BY <1>1, <1>2, <1>3, NoBytesAssumption, Zenon DEF Stamps
<1>5. records'[owner].enc = "list" /\ records'[owner].list = V!Current(owner) \cup {p} /\ records'[owner] # Nil
  <2>1. records'[owner] = V!StampedList(V!Current(owner) \cup {p}, t)  BY <1>3, Zenon DEF ListType
  <2>2. V!Current(owner) \cup {p} \in SUBSET Providers  BY CurrentType, Zenon
  <2>3. records'[owner] \in Bytes  BY <1>2, <2>1, <2>2, BytesTypes, Zenon
  <2> QED  BY <2>1, <2>3, NoBytesAssumption DEF V!StampedList, Bytes, Stamps
<1>6. announced'[p] = now /\ \A q \in Providers \ {p} : announced'[q] = announced[q]
  BY <1>1, <1>3, Zenon DEF Stamps
<1>7. \A x : V!Fresh(x)' <=> V!Fresh(x)
  BY <1>3, Zenon DEF V!Fresh
<1>8. \A q \in Providers \ {p} :
        /\ V!Fresh(announced[q]) => q \in V!Current(owner) /\ old[q] = announced[q]
        /\ q \in V!Current(owner) => announced[q] = old[q]
  BY Zenon DEF Listed, V!Current, V!Decode
<1>9. \A q \in Providers :
        /\ V!Fresh(announced'[q]) => q \in records'[owner].list /\ t[q] = announced'[q]
        /\ q \in records'[owner].list /\ V!Fresh(t[q]) => announced'[q] = t[q]
  BY <1>2, <1>5, <1>6, <1>8
<1>10. \A q \in Providers : V!Fresh(announced[q])' <=> V!Fresh(announced'[q])
  BY <1>3, Zenon DEF V!Fresh
<1>11. \A q \in Providers : V!Fresh(times[owner][q])' <=> V!Fresh(t[q])
  BY <1>3, <1>4, Zenon DEF V!Fresh
<1>12. owner' = owner  BY <1>3, Zenon
<1>13. \A q \in Providers :
        /\ V!Fresh(announced[q])' => q \in records'[owner].list /\ times'[owner][q] = announced'[q]
        /\ q \in records'[owner].list /\ V!Fresh(times[owner][q])' => announced'[q] = times'[owner][q]
  BY <1>4, <1>9, <1>10, <1>11, Zenon
<1>14. times'[owner] # Nil  BY <1>4, Zenon
<1> QED  BY <1>5, <1>12, <1>13, <1>14, Zenon DEF Listed

(* A purge forgets what has expired only. *)
LEMMA PurgeStep ==
  ASSUME ProviderType, Listed(owner), NEW n \in Nodes, V!purgeExpiredRecords(n)
  PROVE  Listed(owner)'
<1> USE DEF ProviderType
<1>0. UNCHANGED <<now, owner, announced>>  BY PurgeCases, Zenon
<1>1. CASE n # owner
  <2>1. times'[owner] = times[owner] /\ records'[owner] = records[owner]
    BY <1>1, PurgeCases, Zenon DEF ListType
  <2>2. \A p \in Providers : (V!Fresh(announced[p])' <=> V!Fresh(announced[p]))
                             /\ (V!Fresh(times[owner][p])' <=> V!Fresh(times[owner][p]))
    BY <1>0, <2>1, Zenon DEF V!Fresh
  <2> QED  BY <1>0, <2>1, <2>2, Zenon DEF Listed
<1>2. CASE n = owner
  <2>0. times[owner] # Nil /\ records[owner] # Nil /\ records[owner].enc = "list"
        /\ records[owner] \in Bytes /\ times[owner] \in Stamps
    BY <1>2, Zenon DEF V!purgeExpiredRecords, Listed, ListType
  <2>f. \A p \in Providers : V!Fresh(announced[p])' <=> V!Fresh(announced[p])
    BY <1>0, Zenon DEF V!Fresh
  <2>1. CASE /\ \A p \in Providers : ~V!Fresh(times[n][p])
             /\ times' = [times EXCEPT ![n] = Nil] /\ records' = [records EXCEPT ![n] = Nil]
    <3>1. times'[owner] = Nil /\ records'[owner] = Nil  BY <1>2, <2>1, Zenon DEF ListType
    <3>2. \A p \in Providers : ~V!Fresh(announced[p])  BY <1>2, <2>0, <2>1, Zenon DEF Listed
    <3> QED  BY <1>0, <2>f, <3>1, <3>2, Zenon DEF Listed
  <2>2. CASE /\ times' = [times EXCEPT ![n] = Left(n)]
             /\ records' = [records EXCEPT ![n] = V!List({p \in V!Decode(records[n]) : Left(n)[p] # Nil})]
    <3>1. times'[owner] = Left(n) /\ Left(n) \in Stamps /\ Left(n) # Nil
      <4>1. Left(n) \in Stamps  BY PurgeCases, Zenon
      <4>2. Left(n) # Nil  BY <4>1, NoBytesAssumption, Zenon DEF Stamps
      <4> QED  BY <1>2, <2>2, <4>1, <4>2, Zenon DEF ListType
    <3>2. V!Decode(records[n]) = records[owner].list  BY <1>2, <2>0, Zenon DEF V!Decode
    <3>3. {p \in records[owner].list : Left(n)[p] # Nil} \in SUBSET Providers
      BY <2>0, Zenon DEF Bytes
    <3>4. records'[owner] = V!List({p \in records[owner].list : Left(n)[p] # Nil})
      BY <1>2, <2>2, <3>2, Zenon DEF ListType
    <3>5. records'[owner] # Nil /\ records'[owner].enc = "list"
          /\ records'[owner].list = {p \in records[owner].list : Left(n)[p] # Nil}
      BY <3>3, <3>4, ListFields, Zenon
    <3>6. \A p \in Providers : V!Fresh(Left(n)[p]) <=> V!Fresh(times[owner][p])
      BY <1>2, Zenon DEF Left, V!Fresh
    <3>7. \A p \in Providers : V!Fresh(times[owner][p]) => Left(n)[p] = times[owner][p] /\ Left(n)[p] # Nil
      BY <1>2, Zenon DEF Left, V!Fresh
    <3>8. \A p \in Providers : V!Fresh(times[owner][p])' <=> V!Fresh(Left(n)[p])
      BY <1>0, <3>1, Zenon DEF V!Fresh
    <3>9. \A p \in Providers :
            /\ V!Fresh(announced[p]) => p \in records[owner].list /\ times[owner][p] = announced[p]
            /\ p \in records[owner].list /\ V!Fresh(times[owner][p]) => announced[p] = times[owner][p]
      BY <2>0, Zenon DEF Listed
    <3>10. \A p \in Providers :
            /\ V!Fresh(announced[p]) => p \in records'[owner].list /\ Left(n)[p] = announced[p]
            /\ p \in records'[owner].list /\ V!Fresh(Left(n)[p]) => announced[p] = Left(n)[p]
      BY <3>5, <3>6, <3>7, <3>9, Zenon
    <3> QED  BY <1>0, <2>f, <3>1, <3>5, <3>8, <3>10, Zenon DEF Listed
  <2> QED  BY <1>2, <2>0, <2>1, <2>2, PurgeCases, Zenon
<1> QED  BY <1>1, <1>2, Zenon

(* What is fresh later is fresh now. *)
LEMMA TickStep ==
  ASSUME ProviderType, Listed(owner), V!Tick
  PROVE  Listed(owner)'
<1> USE DEF ProviderType
<1>1. now' = now + 1 /\ UNCHANGED <<owner, records, times, announced>>  BY Zenon DEF V!Tick
<1>2. ASSUME NEW x \in Nat \cup {Nil}, x # Nil /\ now' - x <= ProviderTTL PROVE V!Fresh(x)
  BY <1>1, <1>2, ProviderAssumption DEF V!Fresh
<1>3. \A p \in Providers : V!Fresh(announced[p])' => V!Fresh(announced[p])
  BY <1>1, <1>2, Zenon DEF V!Fresh, ListType, Stamps
<1>4. CASE times[owner] = Nil  BY <1>1, <1>3, <1>4, Zenon DEF Listed
<1>5. CASE times[owner] # Nil
  <2>1. times[owner] \in Stamps  BY <1>5, Zenon DEF ListType
  <2>2. \A p \in Providers : V!Fresh(times[owner][p])' => V!Fresh(times[owner][p])
    BY <1>1, <1>2, <2>1, Zenon DEF V!Fresh, Stamps
  <2> QED  BY <1>1, <1>3, <1>5, <2>2, Zenon DEF Listed
<1> QED  BY <1>4, <1>5, Zenon

LEMMA ListStep ==
  ASSUME ListInv, now \in Nat, owner \in Nodes, typ = "recProvider", UNCHANGED typ, V!Next
  PROVE  ListInv'
<1>0. ProviderType  BY Zenon DEF ListInv, ProviderType
<1> SUFFICES ListType' /\ (~moved' => ~moved /\ Listed(owner)' /\ \A m \in net' : m.to # owner')
  BY Zenon DEF ListInv
<1>1. ASSUME NEW p \in Providers, V!publishProvider(p)
      PROVE  ListType' /\ (~moved' => ~moved /\ Listed(owner)' /\ \A m \in net' : m.to # owner')
  <2>1. ProviderType'  BY <1>0, <1>1, AnnounceType, Zenon
  <2>2. /\ net' = net \cup {[to |-> n, data |-> V!Single(p)] : n \in Nodes \ {owner}}
        /\ UNCHANGED <<owner, moved>>
    BY <1>1, Zenon DEF V!publishProvider, V!storeProviderRecord
  <2>3. ~moved => Listed(owner)'  BY <1>0, <1>1, <2>1, AnnounceStep, Zenon DEF ListInv
  <2>4. ~moved => \A m \in net' : m.to # owner  BY <2>2 DEF ListInv
  <2> QED  BY <2>1, <2>2, <2>3, <2>4, Zenon DEF ProviderType
<1>2. ASSUME NEW m \in net, V!localRecordPut(m)
      PROVE  ListType' /\ (~moved' => ~moved /\ Listed(owner)' /\ \A d \in net' : d.to # owner')
  <2>1. ListType'  BY <1>0, <1>2, PushedType, Zenon DEF ProviderType
  <2>2. UNCHANGED <<now, owner, announced, moved>> /\ net' = net \ {m}
    BY <1>2, Zenon DEF V!localRecordPut
  <2>3. ASSUME ~moved PROVE Listed(owner)'
    <3>1. m.to # owner /\ m.to \in Nodes  BY <2>3, Zenon DEF ListInv, ListType
    <3>2. times'[owner] = times[owner] /\ records'[owner] = records[owner]
      BY <1>2, <3>1, Zenon DEF V!localRecordPut, ListInv, ListType
    <3>3. \A p \in Providers : (V!Fresh(announced[p])' <=> V!Fresh(announced[p]))
                               /\ (V!Fresh(times[owner][p])' <=> V!Fresh(times[owner][p]))
      BY <2>2, <3>2, Zenon DEF V!Fresh
    <3> QED  BY <2>2, <2>3, <3>2, <3>3, Zenon DEF Listed, ListInv
  <2> QED  BY <2>1, <2>2, <2>3, Zenon DEF ListInv
<1>3. ASSUME NEW m \in net, V!Lose(m)
      PROVE  ListType' /\ (~moved' => ~moved /\ Listed(owner)' /\ \A d \in net' : d.to # owner')
  <2>1. UNCHANGED <<now, owner, records, times, announced, moved>> /\ net' = net \ {m}  BY <1>3, Zenon DEF V!Lose
  <2>2. ListType'  BY <2>1, Zenon DEF ListInv, ListType
  <2>3. Listed(owner) => Listed(owner)'  BY <2>1, Zenon DEF Listed, V!Fresh
  <2> QED  BY <2>1, <2>2, <2>3, Zenon DEF ListInv
<1>4. ASSUME NEW n \in Nodes, V!TakeOver(n) PROVE ListType' /\ moved'
  BY <1>4, Zenon DEF V!TakeOver, ListInv, ListType
<1>5. ASSUME NEW n \in Nodes, V!DeleteRecord(n) PROVE ListType' /\ moved'
  BY <1>5, Zenon DEF V!DeleteRecord, ListInv, ListType
<1>6. ASSUME NEW m \in Nodes, NEW n \in Nodes, V!transferRecordsRange(m, n) PROVE ListType' /\ moved'
  BY <1>6 DEF V!transferRecordsRange, ListInv, ListType
<1>7. ASSUME NEW n \in Nodes, V!purgeExpiredRecords(n)
      PROVE  ListType' /\ (~moved' => ~moved /\ Listed(owner)' /\ \A m \in net' : m.to # owner')
  <2>1. ListType'  BY <1>0, <1>7, PurgeType, Zenon DEF ProviderType
  <2>2. UNCHANGED <<owner, net, moved>>  BY <1>7, Zenon DEF V!purgeExpiredRecords
  <2>3. Listed(owner) => Listed(owner)'  BY <1>0, <1>7, PurgeStep, Zenon
  <2> QED  BY <2>1, <2>2, <2>3, Zenon DEF ListInv
<1>8. ASSUME V!Tick
      PROVE  ListType' /\ (~moved' => ~moved /\ Listed(owner)' /\ \A m \in net' : m.to # owner')
  <2>1. UNCHANGED <<owner, records, times, net, announced, moved>>  BY <1>8, Zenon DEF V!Tick
  <2>2. Listed(owner) => Listed(owner)'  BY <1>0, <1>8, TickStep, Zenon
  <2>3. ListType'  BY <2>1, Zenon DEF ListInv, ListType
  <2> QED  BY <2>1, <2>2, <2>3, Zenon DEF ListInv
<1> QED  BY <1>1, <1>2, <1>3, <1>4, <1>5, <1>6, <1>7, <1>8, Zenon DEF V!Next, V!RepublishProvider

LEMMA ListInvariant == RSpec => []ListInv
<1>1. RInit => ListInv
  <2> SUFFICES ASSUME RInit PROVE ListInv
    OBVIOUS
  <2>1. ListType
    BY Zenon DEF RInit, V!Init, ListType, Stamps
  <2>2. Listed(owner)
    BY Zenon DEF RInit, V!Init, Listed, V!Fresh
  <2> QED  BY <2>1, <2>2, Zenon DEF RInit, V!Init, ListInv
<1>2. PeerInv /\ ListInv /\ [storeRecord]_rvars => ListInv'
  <2> SUFFICES ASSUME PeerInv, ListInv, [storeRecord]_rvars PROVE ListInv'
    BY Zenon
  <2>1. CASE typ = "recPeer" /\ Next /\ UNCHANGED <<ofProviders, typ>>
    BY <2>1, Zenon DEF ListInv, ListType, ofProviders
  <2>2. CASE typ = "recProvider" /\ V!Next /\ UNCHANGED <<ofPeers, typ>>
    BY <2>2, ListStep, Zenon DEF PeerInv, PeerType
  <2>3. CASE UNCHANGED rvars
    <3>1. UNCHANGED <<now, owner, net, records, times, announced, moved, typ>>
      BY <2>3, Zenon DEF rvars, vars, ofProviders
    <3>2. Listed(owner) => Listed(owner)'  BY <3>1, Zenon DEF Listed, V!Fresh
    <3> QED  BY <3>1, <3>2, Zenon DEF ListInv, ListType
  <2> QED  BY <2>1, <2>2, <2>3, Zenon DEF storeRecord
<1> QED  BY <1>1, <1>2, PeerInvariant, PTL DEF RSpec

(* As long as the ring stays the same, what FindProviders returns from the  *)
(* owner is exactly the providers that announced themselves in time, however *)
(* announcements, republishing, pushes and purges follow each other.         *)
THEOREM RecordsOwnerAnswers == RSpec => []OwnerAnswers
<1>1. PeerInv /\ ListInv => OwnerAnswers
  <2> SUFFICES ASSUME PeerInv, ListInv, ~moved
              PROVE  V!FindProviders(owner) = {p \in Providers : V!Fresh(announced[p])}
    BY Zenon DEF OwnerAnswers
  <2>0. owner \in Nodes /\ ListType  BY Zenon DEF PeerInv, PeerType, ListInv
  <2>1. CASE typ # "recProvider"
    BY <2>0, <2>1, Zenon DEF ListInv, V!FindProviders, V!Decode, V!Fresh
  <2>2. CASE typ = "recProvider" /\ times[owner] = Nil
    BY <2>0, <2>2, Zenon DEF ListInv, Listed, V!FindProviders, V!Decode
  <2>3. CASE typ = "recProvider" /\ times[owner] # Nil
    <3>1. V!FindProviders(owner) = {p \in records[owner].list : V!Fresh(times[owner][p])}
      BY <2>3, Zenon DEF ListInv, Listed, V!FindProviders, V!Current, V!Decode
    <3>2. records[owner].list \subseteq Providers
      BY <2>0, <2>3, Zenon DEF ListInv, Listed, ListType, Bytes
    <3>3. \A p \in Providers : V!Fresh(announced[p]) <=> p \in records[owner].list /\ V!Fresh(times[owner][p])
      BY <2>3, Zenon DEF ListInv, Listed
    <3> QED  BY <3>1, <3>2, <3>3, Zenon
  <2> QED  BY <2>1, <2>2, <2>3, Zenon
<1> QED  BY <1>1, PeerInvariant, ListInvariant, PTL

(* purgeExpiredRecords rewrites lists and forgets times, on every node and   *)
(* in every state that pushes, copies and deletions lead to: readers get the *)
(* same answer before and after.                                             *)
THEOREM RecordsPurgeInvisible == RSpec => PurgeInvisible
<1> DEFINE A == \A n \in Nodes : V!purgeExpiredRecords(n) => V!FindProviders(n)' = V!FindProviders(n)
<1>1. ListInv => A
  <2> SUFFICES ASSUME ListInv, NEW n \in Nodes, V!purgeExpiredRecords(n)
              PROVE  V!FindProviders(n)' = V!FindProviders(n)
    BY Zenon
  <2>0. ListType /\ times[n] # Nil /\ now' = now  BY PurgeCases, Zenon DEF ListInv, V!purgeExpiredRecords
  <2>1. V!FindProviders(n) = {p \in V!Decode(records[n]) : V!Fresh(times[n][p])}
    BY <2>0, Zenon DEF V!FindProviders, V!Current
  <2>2. V!Decode(records[n]) \subseteq Providers  BY <2>0, BytesTypes, Zenon DEF ListType
  <2>3. CASE /\ \A p \in Providers : ~V!Fresh(times[n][p])
             /\ times' = [times EXCEPT ![n] = Nil] /\ records' = [records EXCEPT ![n] = Nil]
    <3>1. times'[n] = Nil /\ records'[n] = Nil  BY <2>0, <2>3, Zenon DEF ListType
    <3>2. V!FindProviders(n)' = {}  BY <3>1, Zenon DEF V!FindProviders, V!Decode
    <3> QED  BY <2>1, <2>2, <2>3, <3>2, Zenon
  <2>4. CASE times' = [times EXCEPT ![n] = Left(n)]
    <3>1. times'[n] = Left(n)  BY <2>0, <2>4, Zenon DEF ListType
    <3>2. Left(n) # Nil
      <4>1. Left(n) \in Stamps  BY <2>0, PurgeCases, Zenon
      <4> QED  BY <4>1, NoBytesAssumption, Zenon DEF Stamps
    <3>3. \A p \in Providers : V!Fresh(Left(n)[p]) <=> V!Fresh(times[n][p])
      BY Zenon DEF Left, V!Fresh
    <3>4. \A p \in Providers : V!Fresh(times[n][p]) => Left(n)[p] # Nil
      BY Zenon DEF Left, V!Fresh
    <3>5. V!FindProviders(n)' = {p \in V!Decode(records'[n]) : V!Fresh(Left(n)[p])}
      BY <2>0, <3>1, <3>2, Zenon DEF V!FindProviders, V!Current, V!Decode, V!Fresh
    <3>6. CASE records' = records
      BY <2>1, <2>2, <3>3, <3>5, <3>6, Zenon
    <3>7. CASE records' = [records EXCEPT ![n] = V!List({p \in V!Decode(records[n]) : Left(n)[p] # Nil})]
      <4>1. records'[n] = V!List({p \in V!Decode(records[n]) : Left(n)[p] # Nil})
        BY <2>0, <3>7, Zenon DEF ListType
      <4>2. {p \in V!Decode(records[n]) : Left(n)[p] # Nil} \in SUBSET Providers  BY <2>2, Zenon
      <4>3. V!Decode(records'[n]) = {p \in V!Decode(records[n]) : Left(n)[p] # Nil}
        BY <4>1, <4>2, ListFields DEF V!Decode
      <4> QED  BY <2>1, <2>2, <3>3, <3>4, <3>5, <4>3, Zenon
    <3>8. records' = records \/ records' = [records EXCEPT ![n] = V!List({p \in V!Decode(records[n]) : Left(n)[p] # Nil})]
      BY <2>0, <2>4, <3>1, <3>2, PurgeCases, Zenon DEF ListType
    <3> QED  BY <3>6, <3>7, <3>8, Zenon
  <2> QED  BY <2>0, <2>3, <2>4, PurgeCases, Zenon
<1>2. RSpec => [][A]_rvars
  BY <1>1, ListInvariant, PTL
<1> QED  BY <1>2, Zenon DEF PurgeInvisible
----------------------------------------------------------------------------
\* The calls and their connections.

\* The peers a call can be meant for, and what the stubs of the calls do with a reply.
TargetSet == [id : Ids, addr : Addrs]
Stubs == {None} \cup UNION {{Methods[w.method] : w \in Work[kind][g]} : g \in Goroutines}

CallRec == [pc : {"idle", "get", "dial", "send", "wait", "drop"}, t : TargetSet \cup {None}, stub : Stubs,
            c : 0 .. MaxClients, try : {1, 2}, err : {"none", "io", "shutdown", "handler"},
            res : {"none", "ok", "error", "unreachable"}, sent : {0, 1}]

ClientRec == [peer : Ids \cup {None}, addr : Addrs \cup {None},
              is : {"free", "open", "broken", "shut", "closed"}]

\* A call r over the clients cl: its request is not sent before it waits, and a call
\* that is going to be tried again has not sent it, or was closed under.  On
\* a private ring its client is connected to the target.
CallOK(k, r, cl) ==
    /\ r.pc \in {"idle", "get", "dial", "send"} => r.sent = 0
    /\ r.pc # "idle" => r.res = "none" /\ r.t \in TargetSet
    /\ r.pc = "drop" /\ r.err = "shutdown" => r.sent = 0
    /\ r.pc \in {"send", "wait"} => r.c \in Clients
    /\ r.pc = "wait" /\ cl[r.c].is = "closed" => r.sent = 0
    /\ k = "private" /\ r.pc \in {"send", "wait"} => cl[r.c].peer = r.t.id

\* The pooled client of a private ring's peer is connected to it.
PoolOK(k, po, cl) == k = "private" => \A x \in Keys : po[x] # 0 => cl[po[x]].peer = x

\* The inductive invariant.
PoolInv ==
    /\ kind \in Kinds
    /\ at \in [Addrs -> Ids \cup {None}]
    /\ client \in [Clients -> ClientRec]
    /\ pool \in [Keys -> 0 .. MaxClients]
    /\ calls \in [Goroutines -> CallRec]
    /\ \A g \in Goroutines : CallOK(kind, calls[g], client)
    /\ PoolOK(kind, pool, client)

\* Constants of the records.
LEMMA Basics ==
    /\ 0 \in 0 .. MaxClients /\ \A i \in Clients : i \in 0 .. MaxClients /\ i # 0
    /\ \A i \in 0 .. MaxClients : i # 0 => i \in Clients
    /\ None \in Stubs
BY KindsAssumption DEF Clients, Stubs

\* The record of a call that has ended.
LEMMA QuietFacts ==
    ASSUME NEW t \in TargetSet \cup {None}, NEW res \in {"none", "ok", "error", "unreachable"}
    PROVE  /\ Quiet \in CallRec /\ Quiet.pc = "idle" /\ Quiet.sent = 0
           /\ [Quiet EXCEPT !.res = res] \in CallRec /\ [Quiet EXCEPT !.res = res].pc = "idle"
           /\ [Quiet EXCEPT !.res = res].sent = 0
           /\ [Quiet EXCEPT !.t = t, !.res = res] \in CallRec
           /\ [Quiet EXCEPT !.t = t, !.res = res].pc = "idle"
           /\ [Quiet EXCEPT !.t = t, !.res = res].sent = 0
BY Basics DEF Quiet, CallRec

\* A call that is idle needs nothing of the clients.
LEMMA IdleOK ==
    ASSUME NEW k, NEW r \in CallRec, r.pc = "idle", r.sent = 0, NEW cl
    PROVE  CallOK(k, r, cl)
BY DEF CallOK

\* The records of a call in progress.
LEMMA CallFacts ==
    ASSUME PoolInv, NEW g \in Goroutines
    PROVE  /\ calls[g] \in CallRec /\ CallOK(kind, calls[g], client)
           /\ calls[g].pc # "idle" => calls[g].t \in TargetSet /\ Key(calls[g].t) \in Keys
<1>1. calls[g] \in CallRec /\ CallOK(kind, calls[g], client)  BY Zenon DEF PoolInv
<1>2. \A t \in TargetSet : t.id \in Ids /\ t.addr \in Addrs  BY DEF TargetSet
<1> QED  BY <1>1, <1>2, Zenon DEF CallOK, Key, Keys

\* What a step of g must leave alone: the clients of the other calls.
Keeps(c) == /\ client'[c].peer = client[c].peer
            /\ client'[c].is = "closed" => client[c].is = "closed"

\* One call moves.
LEMMA CallStepOK ==
    ASSUME PoolInv, NEW g \in Goroutines, NEW r \in CallRec, Set(g, r), CallOK(kind, r, client'),
           kind' = kind, at' = at, client' \in [Clients -> ClientRec],
           pool' \in [Keys -> 0 .. MaxClients], PoolOK(kind, pool', client'),
           \A h \in Goroutines \ {g} : calls[h].c \in Clients => Keeps(calls[h].c)
    PROVE  PoolInv'
<1>1. CallRec' = CallRec
  <2>1. Stubs' = Stubs
    <3>1. Methods' = Methods  BY Zenon DEF Methods
    <3> QED  BY <3>1 DEF Stubs
  <2> QED  BY <2>1, Zenon DEF CallRec
<1>2. \A h \in Goroutines : calls'[h] = IF h = g THEN r ELSE calls[h]  BY Zenon DEF Set, PoolInv
<1>3. calls' \in [Goroutines -> CallRec]  BY Zenon DEF Set, PoolInv
<1>4. ASSUME NEW h \in Goroutines PROVE CallOK(kind, calls'[h], client')
  <2>1. CASE h = g  BY <1>2, <2>1, Zenon
  <2>2. CASE h # g
    <3>1. calls'[h] = calls[h] /\ CallOK(kind, calls[h], client)  BY <1>2, <2>2, CallFacts, Zenon
    <3>2. calls[h].c \in Clients => Keeps(calls[h].c)  BY <2>2, Zenon
    <3> QED  BY <3>1, <3>2, Zenon DEF CallOK, Keeps
  <2> QED  BY <2>1, <2>2, Zenon
<1>5. Clients' = Clients /\ ClientRec' = ClientRec /\ Keys' = Keys  BY Zenon DEF Clients, ClientRec, Keys
<1> QED  BY <1>1, <1>3, <1>4, <1>5, Zenon DEF PoolInv, PoolOK

\* A step that leaves the clients and the pool alone.
LEMMA LocalStepOK ==
    ASSUME PoolInv, NEW g \in Goroutines, NEW r \in CallRec, Set(g, r), CallOK(kind, r, client),
           UNCHANGED <<kind, at, client, pool>>
    PROVE  PoolInv'
<1>1. \A c : Keeps(c)  BY Zenon DEF Keeps
<1>2. /\ kind' = kind /\ at' = at /\ client' \in [Clients -> ClientRec]
      /\ pool' \in [Keys -> 0 .. MaxClients] /\ PoolOK(kind, pool', client')
      /\ CallOK(kind, r, client')
  BY Zenon DEF PoolInv
<1> QED  BY <1>1, <1>2, CallStepOK, Zenon

LEMMA InitPool == PoolInit => PoolInv
<1> SUFFICES ASSUME PoolInit PROVE PoolInv
  BY Zenon
<1>1. /\ kind \in Kinds /\ at = [a \in Addrs |-> None] /\ client = [i \in Clients |-> Free]
      /\ pool = [k \in Keys |-> 0] /\ calls = [g \in Goroutines |-> Quiet]
  BY Zenon DEF PoolInit
<1>2. Free \in ClientRec  BY DEF Free, ClientRec
<1>3. Quiet \in CallRec /\ Quiet.pc = "idle" /\ Quiet.sent = 0
  <2>1. "none" \in {"none", "ok", "error", "unreachable"}  OBVIOUS
  <2> QED  BY <2>1, QuietFacts, Zenon
<1>4. CallOK(kind, Quiet, client)  BY <1>3, IdleOK, Zenon
<1>5. 0 \in 0 .. MaxClients  BY Basics, Zenon
<1> QED  BY <1>1, <1>2, <1>3, <1>4, <1>5, Zenon DEF PoolInv, PoolOK

\* The end of a call.
LEMMA ReturnFacts ==
    ASSUME PoolInv, NEW g \in Goroutines, NEW res \in {"ok", "error", "unreachable"}, CallReturns(g, res)
    PROVE  \E r \in CallRec : Set(g, r) /\ r.pc = "idle" /\ r.sent = 0 /\ r.c = 0
<1>1. calls[g] \in CallRec  BY CallFacts, Zenon
<1>2. calls[g].t \in TargetSet \cup {None}
  <2> HIDE DEF TargetSet
  <2> QED  BY <1>1 DEF CallRec
<1>3. res \in {"none", "ok", "error", "unreachable"}  OBVIOUS
<1>4. \A t : [Quiet EXCEPT !.res = res].c = 0 /\ [Quiet EXCEPT !.t = t, !.res = res].c = 0  BY DEF Quiet
<1>5. CASE res = "unreachable"
  <2>1. Set(g, [Quiet EXCEPT !.t = calls[g].t, !.res = res])  BY <1>5, Zenon DEF CallReturns
  <2> QED  BY <2>1, <1>2, <1>3, <1>4, QuietFacts, Zenon
<1>6. CASE res # "unreachable"
  <2>1. Set(g, [Quiet EXCEPT !.res = res])  BY <1>6, Zenon DEF CallReturns
  <2> QED  BY <2>1, <1>2, <1>3, <1>4, QuietFacts, Zenon
<1> QED  BY <1>5, <1>6, Zenon

\* The end of an attempt.
LEMMA FailedFacts ==
    ASSUME PoolInv, NEW g \in Goroutines, NEW err \in {"io", "shutdown", "handler"}, Failed(g, err),
           calls[g].pc \in {"send", "wait"}, err = "shutdown" => calls[g].sent = 0
    PROVE  \E r \in CallRec : Set(g, r) /\ \A cl : CallOK(kind, r, cl)
<1> DEFINE r == [calls[g] EXCEPT !.pc = "drop", !.err = err]
<1>1. calls[g] \in CallRec /\ CallOK(kind, calls[g], client)  BY CallFacts, Zenon
<1>2. /\ r \in CallRec /\ r.pc = "drop" /\ r.err = err /\ r.sent = calls[g].sent
      /\ r.res = calls[g].res /\ r.t = calls[g].t
  <2> HIDE DEF TargetSet, Stubs
  <2> QED  BY <1>1 DEF CallRec
<1>3. Set(g, r)  BY Zenon DEF Failed
<1>4. calls[g].res = "none" /\ calls[g].t \in TargetSet
  <2>1. calls[g].pc # "idle"  OBVIOUS
  <2> QED  BY <1>1, <2>1, Zenon DEF CallOK
<1> HIDE DEF r
<1>5. \A cl : CallOK(kind, r, cl)
  <2>1. "drop" \notin {"idle", "get", "dial", "send", "wait"}  OBVIOUS
  <2> QED  BY <1>2, <1>4, <2>1, Zenon DEF CallOK
<1> QED  BY <1>2, <1>3, <1>5, Zenon

\* A call begins.
LEMMA CallOKStep ==
    ASSUME PoolInv, NEW g \in Goroutines, NEW w \in Work[kind][g], Call(g, w.target, w.method)
    PROVE  PoolInv'
<1> DEFINE r == [Quiet EXCEPT !.pc = "get", !.t = w.target, !.stub = Methods[w.method]]
<1>1. w.target \in TargetSet /\ Methods[w.method] \in Stubs
  <2>1. kind \in Kinds  BY Zenon DEF PoolInv
  <2>2. w.target \in TargetSet  BY <2>1, WorkAssumption, Zenon DEF TargetSet
  <2>3. Methods[w.method] \in UNION {{Methods[v.method] : v \in Work[kind][h]} : h \in Goroutines}
    <3> DEFINE M(h) == {Methods[v.method] : v \in Work[kind][h]}
    <3>1. Methods[w.method] \in M(g)  BY Zenon
    <3> HIDE DEF M
    <3>2. Methods[w.method] \in UNION {M(h) : h \in Goroutines}  BY <3>1, Zenon
    <3> QED  BY <3>2, Zenon DEF M
  <2> QED  BY <2>2, <2>3, Zenon DEF Stubs
<1>2. r \in CallRec /\ r.pc = "get" /\ r.sent = 0 /\ r.res = "none" /\ r.t \in TargetSet
  <2> HIDE DEF TargetSet, Stubs
  <2> QED  BY <1>1, Basics DEF Quiet, CallRec
<1>3. Set(g, r) /\ UNCHANGED <<kind, at, client, pool>>  BY Zenon DEF Call
<1> HIDE DEF r
<1>4. CallOK(kind, r, client)
  <2>1. "get" \notin {"drop", "send", "wait"}  OBVIOUS
  <2> QED  BY <1>2, <2>1, Zenon DEF CallOK
<1> QED  BY <1>2, <1>3, <1>4, LocalStepOK, Zenon

\* A call takes the pooled client, or the mutex.
LEMMA GetClientOK ==
    ASSUME PoolInv, NEW g \in Goroutines, getClient(g)
    PROVE  PoolInv'
<1> DEFINE c == pool[Key(calls[g].t)]
           r1 == [calls[g] EXCEPT !.pc = "send", !.c = c]
           r2 == [calls[g] EXCEPT !.pc = "dial"]
<1>1. /\ calls[g].pc = "get" /\ UNCHANGED <<kind, at, client, pool>>
      /\ IF c # 0 THEN Set(g, r1) ELSE Set(g, r2)
  BY Zenon DEF getClient
<1>2. /\ calls[g] \in CallRec /\ calls[g].t \in TargetSet /\ Key(calls[g].t) \in Keys
      /\ calls[g].res = "none" /\ calls[g].sent = 0
  <2>1. "get" # "idle" /\ "get" \in {"idle", "get", "dial", "send"}  OBVIOUS
  <2> QED  BY <1>1, <2>1, CallFacts, Zenon DEF CallOK
<1>3. c \in 0 .. MaxClients  BY <1>2, Zenon DEF PoolInv
<1>4. CASE c # 0
  <2>1. r1 \in CallRec /\ r1.pc = "send" /\ r1.c = c /\ r1.t = calls[g].t /\ r1.res = "none" /\ r1.sent = 0
    <3> HIDE DEF TargetSet, Stubs, c
    <3> QED  BY <1>2, <1>3 DEF CallRec
  <2>2. kind = "private" => client[c].peer = calls[g].t.id
    <3> SUFFICES ASSUME kind = "private" PROVE client[c].peer = calls[g].t.id
      BY Zenon
    <3>1. Key(calls[g].t) = calls[g].t.id
      <4>1. "private" # "public"  OBVIOUS
      <4> QED  BY <4>1, Zenon DEF Key
    <3>2. client[pool[Key(calls[g].t)]].peer = Key(calls[g].t)  BY <1>2, <1>4, Zenon DEF PoolInv, PoolOK
    <3> QED  BY <3>1, <3>2, Zenon
  <2> HIDE DEF r1
  <2>3. CallOK(kind, r1, client)
    <3>1. c \in Clients  BY <1>3, <1>4, Basics, Zenon
    <3>2. "send" # "wait" /\ "send" # "drop"  OBVIOUS
    <3> QED  BY <1>2, <2>1, <2>2, <3>1, <3>2, Zenon DEF CallOK
  <2> QED  BY <1>1, <1>4, <2>1, <2>3, LocalStepOK, Zenon
<1>5. CASE c = 0
  <2>1. r2 \in CallRec /\ r2.pc = "dial" /\ r2.t = calls[g].t /\ r2.res = "none" /\ r2.sent = 0
    <3> HIDE DEF TargetSet, Stubs, c
    <3> QED  BY <1>2 DEF CallRec
  <2> HIDE DEF r2
  <2>2. CallOK(kind, r2, client)
    <3>1. "dial" \notin {"drop", "send", "wait"}  OBVIOUS
    <3> QED  BY <1>2, <2>1, <3>1, Zenon DEF CallOK
  <2> QED  BY <1>1, <1>5, <2>1, <2>2, LocalStepOK, Zenon
<1> QED  BY <1>4, <1>5, Zenon

\* A dial makes a client that nobody refers to.
LEMMA DialOK ==
    ASSUME PoolInv, NEW g \in Goroutines, Dial(g)
    PROVE  PoolInv'
<1> DEFINE t == calls[g].t
<1>1. PICK i \in Clients \ InUse :
        /\ client' = [client EXCEPT ![i] = [peer |-> at[t.addr], addr |-> t.addr, is |-> "open"]]
        /\ pool' = [pool EXCEPT ![Key(t)] = i]
        /\ Set(g, [calls[g] EXCEPT !.pc = "send", !.c = i])
  BY Zenon DEF Dial
<1>2. calls[g].pc = "dial" /\ Accepts(t) /\ kind' = kind /\ at' = at  BY Zenon DEF Dial
<1>3. calls[g] \in CallRec /\ t \in TargetSet /\ Key(t) \in Keys /\ calls[g].res = "none" /\ calls[g].sent = 0
  <2>1. "dial" # "idle" /\ "dial" \in {"idle", "get", "dial", "send"}  OBVIOUS
  <2> QED  BY <1>2, <2>1, CallFacts, Zenon DEF CallOK
<1> DEFINE new == [peer |-> at[t.addr], addr |-> t.addr, is |-> "open"]
           r == [calls[g] EXCEPT !.pc = "send", !.c = i]
<1>4. i \in Clients /\ i \in 0 .. MaxClients /\ i # 0 /\ i \notin InUse  BY <1>1, Basics, Zenon
<1>5. r \in CallRec /\ r.pc = "send" /\ r.c = i /\ r.t = t /\ r.res = "none" /\ r.sent = 0
  <2> HIDE DEF TargetSet, Stubs
  <2> QED  BY <1>3, <1>4 DEF CallRec
<1>6. new \in ClientRec /\ new.peer = at[t.addr]
  <2>1. t.addr \in Addrs  BY <1>3 DEF TargetSet
  <2>2. at[t.addr] \in Ids \cup {None}  BY <2>1, Zenon DEF PoolInv
  <2> HIDE DEF t
  <2> QED  BY <2>1, <2>2 DEF ClientRec
<1>7. kind = "private" => new.peer = t.id /\ Key(t) = t.id
  <2>1. "private" # "public"  OBVIOUS
  <2> QED  BY <2>1, <1>2, <1>6, Zenon DEF Accepts, Key
<1> HIDE DEF new, r, t
<1>8. client' = [client EXCEPT ![i] = new] /\ Set(g, r)  BY <1>1, Zenon DEF new, r, t
<1>9. /\ client' \in [Clients -> ClientRec]
      /\ \A c \in Clients : client'[c] = IF c = i THEN new ELSE client[c]
  BY <1>4, <1>6, <1>8, Zenon DEF PoolInv
<1>10. /\ pool' \in [Keys -> 0 .. MaxClients]
       /\ \A x \in Keys : pool'[x] = IF x = Key(t) THEN i ELSE pool[x]
  BY <1>1, <1>3, <1>4, Zenon DEF PoolInv
<1>11. PoolOK(kind, pool', client')
  <2> SUFFICES ASSUME kind = "private", NEW x \in Keys, pool'[x] # 0
               PROVE  client'[pool'[x]].peer = x
    BY Zenon DEF PoolOK
  <2>1. CASE x = Key(t)
    <3>1. pool'[x] = i /\ client'[i] = new  BY <2>1, <1>4, <1>9, <1>10, Zenon
    <3> QED  BY <2>1, <3>1, <1>7, Zenon
  <2>2. CASE x # Key(t)
    <3>1. pool'[x] = pool[x] /\ pool[x] \in Clients  BY <2>2, <1>10, Basics, Zenon DEF PoolInv
    <3>2. pool[x] # i  BY <1>4, Zenon DEF InUse
    <3>3. client'[pool[x]] = client[pool[x]]  BY <1>9, <3>1, <3>2, Zenon
    <3> QED  BY <3>1, <3>3, Zenon DEF PoolInv, PoolOK
  <2> QED  BY <2>1, <2>2, Zenon
<1>12. ASSUME NEW h \in Goroutines, calls[h].c \in Clients PROVE Keeps(calls[h].c)
  <2>1. calls[h].c # i  BY <1>4, Zenon DEF InUse
  <2> QED  BY <1>9, <1>12, <2>1, Zenon DEF Keeps
<1>13. CallOK(kind, r, client')
  <2>1. "send" # "wait" /\ "send" # "drop"  OBVIOUS
  <2>2. client'[i] = new  BY <1>4, <1>9, Zenon
  <2> QED  BY <1>3, <1>4, <1>5, <1>7, <2>1, <2>2, Zenon DEF CallOK
<1> QED  BY <1>2, <1>5, <1>8, <1>9, <1>10, <1>11, <1>12, <1>13, CallStepOK, Zenon

\* A dial fails.
LEMMA DialEndsOK ==
    ASSUME PoolInv, NEW g \in Goroutines, DialEnds(g)
    PROVE  PoolInv'
<1>1. CallReturns(g, "unreachable") /\ UNCHANGED <<kind, at, client, pool>>  BY Zenon DEF DialEnds
<1>2. "unreachable" \in {"ok", "error", "unreachable"}  OBVIOUS
<1>3. PICK r \in CallRec : Set(g, r) /\ r.pc = "idle" /\ r.sent = 0  BY <1>1, <1>2, ReturnFacts, Zenon
<1>4. CallOK(kind, r, client)  BY <1>3, IdleOK, Zenon
<1> QED  BY <1>1, <1>3, <1>4, LocalStepOK, Zenon

\* The request is sent, or not.
LEMMA SendOK ==
    ASSUME PoolInv, NEW g \in Goroutines, Send(g)
    PROVE  PoolInv'
<1> DEFINE r == [calls[g] EXCEPT !.pc = "wait", !.sent = 1]
<1>1. /\ calls[g].pc = "send" /\ UNCHANGED <<kind, at, client, pool>>
      /\ \/ /\ client[calls[g].c].is \in {"open", "broken"}
            /\ Set(g, [calls[g] EXCEPT !.pc = "wait", !.sent = @ + 1])
         \/ Failed(g, "io")
         \/ Failed(g, "shutdown")
  BY Zenon DEF Send
<1>2. /\ calls[g] \in CallRec /\ calls[g].t \in TargetSet /\ calls[g].c \in Clients
      /\ calls[g].res = "none" /\ calls[g].sent = 0
      /\ kind = "private" => client[calls[g].c].peer = calls[g].t.id
  <2>1. "send" # "idle" /\ "send" \in {"idle", "get", "dial", "send"} /\ "send" \in {"send", "wait"}  OBVIOUS
  <2> QED  BY <1>1, <2>1, CallFacts, Zenon DEF CallOK
<1>3. CASE /\ client[calls[g].c].is \in {"open", "broken"}
           /\ Set(g, [calls[g] EXCEPT !.pc = "wait", !.sent = @ + 1])
  <2>1. calls[g].sent + 1 = 1  BY <1>2
  <2>2. Set(g, r)  BY <1>3, <2>1
  <2>3. /\ r \in CallRec /\ r.pc = "wait" /\ r.c = calls[g].c /\ r.t = calls[g].t /\ r.res = "none"
        /\ r.sent = 1
    <3> HIDE DEF TargetSet, Stubs
    <3> QED  BY <1>2 DEF CallRec
  <2> HIDE DEF r
  <2>4. CallOK(kind, r, client)
    <3>1. "wait" \notin {"idle", "get", "dial", "send", "drop"} /\ "closed" \notin {"open", "broken"}  OBVIOUS
    <3> QED  BY <1>2, <1>3, <2>3, <3>1, Zenon DEF CallOK
  <2> QED  BY <1>1, <2>2, <2>3, <2>4, LocalStepOK, Zenon
<1>4. ASSUME NEW err \in {"io", "shutdown"}, Failed(g, err) PROVE PoolInv'
  <2>1. err \in {"io", "shutdown", "handler"} /\ calls[g].pc \in {"send", "wait"}  BY <1>1
  <2>2. PICK q \in CallRec : Set(g, q) /\ \A cl : CallOK(kind, q, cl)
    BY <1>2, <1>4, <2>1, FailedFacts, Zenon
  <2> QED  BY <1>1, <2>2, LocalStepOK, Zenon
<1> QED  BY <1>1, <1>3, <1>4, Zenon

\* Clients that are forgotten are those that nobody refers to.
LEMMA ForgetFacts ==
    ASSUME PoolInv, NEW g \in Goroutines, NEW r, Set(g, r), Forget
    PROVE  /\ client' \in [Clients -> ClientRec]
           /\ \A h \in Goroutines \ {g} : calls[h].c \in Clients => client'[calls[h].c] = client[calls[h].c]
           /\ \A x \in Keys : pool'[x] \in Clients => client'[pool'[x]] = client[pool'[x]]
<1>1. Free \in ClientRec  BY DEF Free, ClientRec
<1>2. client' = [i \in Clients |-> IF i \in InUse' THEN client[i] ELSE Free]  BY Zenon DEF Forget
<1>3. client' \in [Clients -> ClientRec]  BY <1>1, <1>2, Zenon DEF PoolInv
<1>4. ASSUME NEW h \in Goroutines \ {g}, calls[h].c \in Clients
      PROVE  client'[calls[h].c] = client[calls[h].c]
  <2>1. calls'[h] = calls[h]  BY Zenon DEF Set, PoolInv
  <2>2. calls[h].c \in InUse'
    <3>1. calls'[h].c = calls[h].c  BY <2>1, Zenon
    <3>2. calls'[h].c \in {calls'[f].c : f \in Goroutines}  BY Zenon
    <3> QED  BY <3>1, <3>2, Zenon DEF InUse
  <2> QED  BY <1>2, <1>4, <2>2, Zenon
<1>5. ASSUME NEW x \in Keys, pool'[x] \in Clients PROVE client'[pool'[x]] = client[pool'[x]]
  <2>1. pool'[x] \in InUse'
    <3>1. pool'[x] \in {pool'[k] : k \in Keys}  BY Zenon
    <3> QED  BY <3>1, Zenon DEF InUse
  <2> QED  BY <1>2, <1>5, <2>1, Zenon
<1> QED  BY <1>3, <1>4, <1>5, Zenon

\* The end of a call, or of an attempt, with the clients that this leaves unused
\* forgotten.
LEMMA ForgetStepOK ==
    ASSUME PoolInv, NEW g \in Goroutines, NEW r \in CallRec, Set(g, r), Forget,
           \A cl : CallOK(kind, r, cl), kind' = kind, at' = at,
           pool' \in [Keys -> 0 .. MaxClients], \A x \in Keys : pool'[x] \in {pool[x], 0}
    PROVE  PoolInv'
<1>1. /\ client' \in [Clients -> ClientRec]
      /\ \A h \in Goroutines \ {g} : calls[h].c \in Clients => client'[calls[h].c] = client[calls[h].c]
      /\ \A x \in Keys : pool'[x] \in Clients => client'[pool'[x]] = client[pool'[x]]
  BY ForgetFacts, Zenon
<1>2. \A h \in Goroutines \ {g} : calls[h].c \in Clients => Keeps(calls[h].c)  BY <1>1, Zenon DEF Keeps
<1>3. PoolOK(kind, pool', client')
  <2> SUFFICES ASSUME kind = "private", NEW x \in Keys, pool'[x] # 0
               PROVE  client'[pool'[x]].peer = x
    BY Zenon DEF PoolOK
  <2>1. pool'[x] = pool[x]  BY Zenon
  <2>2. pool'[x] \in Clients  BY Basics, Zenon
  <2>3. client'[pool'[x]] = client[pool[x]]  BY <1>1, <2>1, <2>2, Zenon
  <2>4. client[pool[x]].peer = x  BY <2>1, Zenon DEF PoolInv, PoolOK
  <2> QED  BY <2>3, <2>4, Zenon
<1>4. CallOK(kind, r, client')  BY Zenon
<1> QED  BY <1>1, <1>2, <1>3, <1>4, CallStepOK, Zenon

\* A reply comes.
LEMMA ReplyOK ==
    ASSUME PoolInv, NEW g \in Goroutines, Reply(g)
    PROVE  PoolInv'
<1>1. /\ calls[g].pc = "wait" /\ kind' = kind /\ at' = at /\ pool' = pool /\ Forget
      /\ (\E res \in Answer(g) : CallReturns(g, res)) \/ Failed(g, "handler")
  BY Zenon DEF Reply
<1>2. pool' \in [Keys -> 0 .. MaxClients] /\ \A x \in Keys : pool'[x] \in {pool[x], 0}
  BY <1>1, Zenon DEF PoolInv
<1>3. ASSUME NEW res \in Answer(g), CallReturns(g, res) PROVE PoolInv'
  <2>1. res \in {"ok", "error", "unreachable"}  BY <1>3 DEF Answer
  <2>2. PICK r \in CallRec : Set(g, r) /\ r.pc = "idle" /\ r.sent = 0  BY <1>3, <2>1, ReturnFacts, Zenon
  <2>3. \A cl : CallOK(kind, r, cl)  BY <2>2, IdleOK, Zenon
  <2> QED  BY <1>1, <1>2, <2>2, <2>3, ForgetStepOK, Zenon
<1>4. CASE Failed(g, "handler")
  <2>1. "handler" \in {"io", "shutdown", "handler"} /\ "handler" # "shutdown" /\ calls[g].pc \in {"send", "wait"}
    BY <1>1
  <2>2. PICK r \in CallRec : Set(g, r) /\ \A cl : CallOK(kind, r, cl)  BY <1>4, <2>1, FailedFacts, Zenon
  <2> QED  BY <1>1, <1>2, <2>2, ForgetStepOK, Zenon
<1> QED  BY <1>1, <1>3, <1>4, Zenon

\* The connection ends while a call waits.
LEMMA NoReplyOK ==
    ASSUME PoolInv, NEW g \in Goroutines, NoReply(g)
    PROVE  PoolInv'
<1>1. /\ calls[g].pc = "wait" /\ UNCHANGED <<kind, at, client, pool>>
      /\ \/ Failed(g, "io")
         \/ client[calls[g].c].is = "closed" /\ Failed(g, "shutdown")
  BY Zenon DEF NoReply
<1>2. calls[g].pc \in {"send", "wait"} /\ "io" # "shutdown"
      /\ "io" \in {"io", "shutdown", "handler"} /\ "shutdown" \in {"io", "shutdown", "handler"}
  BY <1>1
<1>3. client[calls[g].c].is = "closed" => calls[g].sent = 0  BY <1>1, CallFacts, Zenon DEF CallOK
<1>4. PICK r \in CallRec : Set(g, r) /\ \A cl : CallOK(kind, r, cl)
  BY <1>1, <1>2, <1>3, FailedFacts, Zenon
<1> QED  BY <1>1, <1>4, LocalStepOK, Zenon

\* An attempt has failed: the call ends, or begins again without having sent anything.
LEMMA DropOK ==
    ASSUME PoolInv, NEW g \in Goroutines, drop(g)
    PROVE  PoolInv'
<1> DEFINE q == [calls[g] EXCEPT !.pc = "get", !.try = 2, !.c = 0, !.err = "none"]
           res == IF calls[g].err = "handler" THEN "error" ELSE "unreachable"
<1>1. /\ calls[g].pc = "drop" /\ pool' = [pool EXCEPT ![Key(calls[g].t)] = 0]
      /\ kind' = kind /\ at' = at /\ Forget
      /\ IF Again(g) THEN Set(g, q) ELSE CallReturns(g, res)
  BY Zenon DEF drop
<1>2. /\ calls[g] \in CallRec /\ calls[g].t \in TargetSet /\ Key(calls[g].t) \in Keys
      /\ calls[g].res = "none" /\ (calls[g].err = "shutdown" => calls[g].sent = 0)
  <2>1. "drop" # "idle"  OBVIOUS
  <2> QED  BY <1>1, <2>1, CallFacts, Zenon DEF CallOK
<1>3. pool' \in [Keys -> 0 .. MaxClients] /\ \A x \in Keys : pool'[x] \in {pool[x], 0}
  BY <1>1, <1>2, Basics, Zenon DEF PoolInv
<1>4. CASE Again(g)
  <2>1. calls[g].sent = 0  BY <1>2, <1>4, Zenon DEF Again
  <2>2. q \in CallRec /\ q.pc = "get" /\ q.t = calls[g].t /\ q.res = "none" /\ q.sent = 0
    <3> HIDE DEF TargetSet, Stubs
    <3> QED  BY <1>2, <2>1, Basics DEF CallRec
  <2>3. Set(g, q)  BY <1>1, <1>4, Zenon
  <2> HIDE DEF q
  <2>4. \A cl : CallOK(kind, q, cl)
    <3>1. "get" \notin {"drop", "send", "wait"}  OBVIOUS
    <3> QED  BY <1>2, <2>2, <3>1, Zenon DEF CallOK
  <2> QED  BY <1>1, <1>3, <2>2, <2>3, <2>4, ForgetStepOK, Zenon
<1>5. CASE ~Again(g)
  <2>1. res \in {"ok", "error", "unreachable"}  OBVIOUS
  <2>2. CallReturns(g, res)  BY <1>1, <1>5, Zenon
  <2> HIDE DEF res
  <2>3. PICK r \in CallRec : Set(g, r) /\ r.pc = "idle" /\ r.sent = 0  BY <2>1, <2>2, ReturnFacts, Zenon
  <2>4. \A cl : CallOK(kind, r, cl)  BY <2>3, IdleOK, Zenon
  <2> QED  BY <1>1, <1>3, <2>3, <2>4, ForgetStepOK, Zenon
<1> QED  BY <1>4, <1>5, Zenon

\* Close empties the pool and closes its clients under the calls that wait.
LEMMA CloseOK ==
    ASSUME PoolInv, Close
    PROVE  PoolInv'
<1> DEFINE closed == {pool[k] : k \in Keys} \ {0}
           used(i) == \E g \in Goroutines : calls[g].c = i
           r(g) == [calls[g] EXCEPT !.sent = IF calls[g].pc = "wait" /\ calls[g].c \in closed THEN 0 ELSE @]
<1>1. /\ client' = [i \in Clients |-> IF i \in closed /\ used(i) THEN [client[i] EXCEPT !.is = "closed"]
                                      ELSE IF i \in closed THEN Free ELSE client[i]]
      /\ calls' = [g \in Goroutines |-> r(g)]
      /\ pool' = [k \in Keys |-> 0] /\ kind' = kind /\ at' = at
  BY Zenon DEF Close
<1>2. Free \in ClientRec  BY DEF Free, ClientRec
<1>3. \A i \in Clients : client[i] \in ClientRec  BY Zenon DEF PoolInv
<1>4. \A i \in Clients : /\ [client[i] EXCEPT !.is = "closed"] \in ClientRec
                         /\ [client[i] EXCEPT !.is = "closed"].peer = client[i].peer
  BY <1>3 DEF ClientRec
<1>5. client' \in [Clients -> ClientRec]
  <2> HIDE DEF closed, used
  <2> QED  BY <1>1, <1>2, <1>3, <1>4, Zenon
<1>6. pool' \in [Keys -> 0 .. MaxClients] /\ PoolOK(kind, pool', client')
  BY <1>1, Basics, Zenon DEF PoolOK
<1>7. ASSUME NEW g \in Goroutines
      PROVE  /\ r(g) \in CallRec /\ r(g).pc = calls[g].pc /\ r(g).res = calls[g].res /\ r(g).t = calls[g].t
             /\ r(g).c = calls[g].c /\ r(g).err = calls[g].err
             /\ r(g).sent = IF calls[g].pc = "wait" /\ calls[g].c \in closed THEN 0 ELSE calls[g].sent
  <2>1. calls[g] \in CallRec  BY CallFacts, Zenon
  <2> HIDE DEF TargetSet, Stubs, closed
  <2> QED  BY <2>1 DEF CallRec
<1>8. ASSUME NEW g \in Goroutines PROVE CallOK(kind, r(g), client')
  <2>1. CallOK(kind, calls[g], client)  BY CallFacts, Zenon
  <2>2. ASSUME calls[g].c \in Clients
        PROVE  /\ client'[calls[g].c].peer = client[calls[g].c].peer
               /\ calls[g].c \in closed \/ client'[calls[g].c] = client[calls[g].c]
    <3>1. used(calls[g].c)  BY Zenon
    <3> HIDE DEF used, closed
    <3> QED  BY <1>1, <1>4, <2>2, <3>1, Zenon
  <2> HIDE DEF closed, r
  <2> QED  BY <1>7, <2>1, <2>2, Zenon DEF CallOK
<1>9. calls' \in [Goroutines -> CallRec] /\ \A g \in Goroutines : CallOK(kind, calls'[g], client')
  <2> HIDE DEF r
  <2> QED  BY <1>1, <1>7, <1>8, Zenon
<1>10. CallRec' = CallRec
  <2>1. Stubs' = Stubs
    <3>1. Methods' = Methods  BY <1>1, Zenon DEF Methods
    <3> QED  BY <1>1, <3>1 DEF Stubs
  <2> QED  BY <2>1, Zenon DEF CallRec
<1> QED  BY <1>1, <1>5, <1>6, <1>9, <1>10, Zenon DEF PoolInv, PoolOK

\* The peers and the network change no client's peer, and close none.
LEMMA PeersOK ==
    ASSUME PoolInv, Peers \/ \E i \in Clients : Notice(i)
    PROVE  PoolInv'
<1>1. /\ kind' = kind /\ pool' = pool /\ calls' = calls
      /\ at' \in [Addrs -> Ids \cup {None}]
  <2>1. at \in [Addrs -> Ids \cup {None}]  BY Zenon DEF PoolInv
  <2> QED  BY <2>1, Zenon DEF Peers, Stop, Crash, StartServer, startPrivateRPCServer, Listen, Notice
<1>2. \A i \in Clients : client[i] \in ClientRec  BY Zenon DEF PoolInv
<1>3. ASSUME NEW i \in Clients, NEW st \in {"broken", "shut"}
      PROVE  /\ [client[i] EXCEPT !.is = st] \in ClientRec
             /\ [client[i] EXCEPT !.is = st].peer = client[i].peer
             /\ [client[i] EXCEPT !.is = st].is # "closed"
  BY <1>2 DEF ClientRec
<1>4. client' \in [Clients -> ClientRec] /\ \A i \in Clients : Keeps(i)
  <2>1. CASE client' = client  BY <2>1, Zenon DEF PoolInv, Keeps
  <2>2. ASSUME NEW a \in Addrs, Crash(a)
        PROVE  client' \in [Clients -> ClientRec] /\ \A i \in Clients : Keeps(i)
    <3>1. client' = [i \in Clients |-> IF client[i].addr = a /\ client[i].is = "open"
                                       THEN [client[i] EXCEPT !.is = "broken"] ELSE client[i]]
      BY <2>2, Zenon DEF Crash
    <3>2. "broken" \in {"broken", "shut"}  OBVIOUS
    <3> QED  BY <1>2, <1>3, <3>1, <3>2, Zenon DEF Keeps
  <2>3. ASSUME NEW i \in Clients, Notice(i)
        PROVE  client' \in [Clients -> ClientRec] /\ \A j \in Clients : Keeps(j)
    <3>1. client' = [client EXCEPT ![i].is = "shut"]  BY <2>3, Zenon DEF Notice
    <3>2. client' = [client EXCEPT ![i] = [client[i] EXCEPT !.is = "shut"]]  BY <3>1
    <3>3. "shut" \in {"broken", "shut"}  OBVIOUS
    <3>4. client \in [Clients -> ClientRec]  BY Zenon DEF PoolInv
    <3> QED  BY <1>3, <3>2, <3>3, <3>4, Zenon DEF Keeps
  <2> QED  BY <2>1, <2>2, <2>3, Zenon DEF Peers, Stop, StartServer, startPrivateRPCServer, Listen
<1>5. ASSUME NEW g \in Goroutines PROVE CallOK(kind, calls[g], client')
  <2>1. CallOK(kind, calls[g], client)  BY CallFacts, Zenon
  <2>2. calls[g].c \in Clients => Keeps(calls[g].c)  BY <1>4, Zenon
  <2> QED  BY <2>1, <2>2, Zenon DEF CallOK, Keeps
<1>6. PoolOK(kind, pool, client')
  <2> SUFFICES ASSUME kind = "private", NEW x \in Keys, pool[x] # 0
               PROVE  client'[pool[x]].peer = x
    BY Zenon DEF PoolOK
  <2>1. pool[x] \in Clients  BY Basics, Zenon DEF PoolInv
  <2>2. client[pool[x]].peer = x  BY Zenon DEF PoolInv, PoolOK
  <2> QED  BY <1>4, <2>1, <2>2, Zenon DEF Keeps
<1>7. CallRec' = CallRec
  <2>1. Stubs' = Stubs
    <3>1. Methods' = Methods  BY <1>1, Zenon DEF Methods
    <3> QED  BY <1>1, <3>1 DEF Stubs
  <2> QED  BY <2>1, Zenon DEF CallRec
<1> QED  BY <1>1, <1>4, <1>5, <1>6, <1>7, Zenon DEF PoolInv, PoolOK

LEMMA NextPool == PoolInv /\ [PoolNext]_poolVars => PoolInv'
<1> SUFFICES ASSUME PoolInv, [PoolNext]_poolVars PROVE PoolInv'
  BY Zenon
<1>1. CASE UNCHANGED poolVars
  <2>1. UNCHANGED <<kind, at, client, pool, calls>>  BY <1>1, Zenon DEF poolVars
  <2>2. CallRec' = CallRec
    <3>1. Stubs' = Stubs
      <4>1. Methods' = Methods  BY <2>1, Zenon DEF Methods
      <4> QED  BY <2>1, <4>1 DEF Stubs
    <3> QED  BY <3>1, Zenon DEF CallRec
  <2> QED  BY <2>1, <2>2, Zenon DEF PoolInv, PoolOK
<1>2. CASE PoolNext
  <2>1. ASSUME NEW g \in Goroutines, \E w \in Work[kind][g] : Call(g, w.target, w.method) PROVE PoolInv'
    BY <2>1, CallOKStep, Zenon
  <2>2. ASSUME NEW g \in Goroutines, CallStep(g) \/ DialTimesOut(g) PROVE PoolInv'
    BY <2>2, GetClientOK, DialOK, DialEndsOK, SendOK, ReplyOK, NoReplyOK, DropOK, Zenon
       DEF CallStep, DialRefused, DialTimesOut
  <2>3. CASE Close  BY <2>3, CloseOK, Zenon
  <2>4. CASE Peers \/ \E i \in Clients : Notice(i)  BY <2>4, PeersOK, Zenon
  <2> QED  BY <1>2, <2>1, <2>2, <2>3, <2>4, Zenon DEF PoolNext
<1> QED  BY <1>1, <1>2, Zenon

\* However connections break, are replaced, refused or closed, a request is written at
\* most once to a connection that is not closed under the call: the second
\* attempt of call is only made when the first one was not sent (dht/rpc.go
\* and dht/private.go, method call).
THEOREM RequestSentAtMostOnce == PoolSpec => []AtMostOnce
<1>1. PoolInv => AtMostOnce
  <2> SUFFICES ASSUME PoolInv, NEW g \in Goroutines PROVE calls[g].sent <= 1
    BY Zenon DEF AtMostOnce
  <2>1. calls[g] \in CallRec  BY CallFacts, Zenon
  <2>2. calls[g].sent \in {0, 1}
    <3> HIDE DEF TargetSet, Stubs
    <3> QED  BY <2>1 DEF CallRec
  <2> QED  BY <2>2
<1> QED  BY <1>1, InitPool, NextPool, PTL DEF PoolSpec

\* Only a reply makes a waiting call succeed.
LEMMA StepRightPeer ==
    ASSUME PoolInv, [PoolNext]_poolVars, NEW g \in Goroutines, calls[g].pc = "wait", calls'[g].res = "ok",
           kind = "private" \/ calls[g].stub = "checked"
    PROVE  client[calls[g].c].peer = calls[g].t.id
<1>1. CallOK(kind, calls[g], client) /\ calls[g] \in CallRec  BY CallFacts, Zenon
<1>2. calls[g].res = "none" /\ (kind = "private" => client[calls[g].c].peer = calls[g].t.id)
  <2>1. "wait" # "idle" /\ "wait" \in {"send", "wait"}  OBVIOUS
  <2> QED  BY <1>1, <2>1, Zenon DEF CallOK
<1>3. SUFFICES ASSUME kind # "private", calls[g].stub = "checked" PROVE client[calls[g].c].peer = calls[g].t.id
  BY <1>2, Zenon
<1>4. calls'[g] # calls[g]
  <2>1. "ok" # "none"  OBVIOUS
  <2> QED  BY <1>2, <2>1, Zenon
<1>5. calls \in [Goroutines -> CallRec]  BY Zenon DEF PoolInv
<1>6. \A h \in Goroutines : \A r : Set(h, r) => calls'[g] = IF h = g THEN r ELSE calls[g]
  BY <1>5, Zenon DEF Set
<1>7. \A err : ~Failed(g, err)
  <2>1. \A err : [calls[g] EXCEPT !.pc = "drop", !.err = err].res = calls[g].res
    <3> HIDE DEF TargetSet, Stubs
    <3> QED  BY <1>1 DEF CallRec
  <2>2. "ok" # "none"  OBVIOUS
  <2>3. ASSUME NEW err, Failed(g, err) PROVE FALSE
    <3> DEFINE r == [calls[g] EXCEPT !.pc = "drop", !.err = err]
    <3>1. r.res = calls[g].res  BY <2>1, Zenon
    <3>2. Set(g, r)  BY <2>3, Zenon DEF Failed
    <3> HIDE DEF r
    <3>3. calls'[g] = r  BY <3>2, <1>6, Zenon
    <3> QED  BY <3>1, <3>3, <2>2, <1>2, Zenon
  <2> QED  BY <2>3, Zenon
<1>8. ~Close
  <2>1. ASSUME NEW x PROVE [calls[g] EXCEPT !.sent = x].res = calls[g].res
    <3> HIDE DEF TargetSet, Stubs
    <3> QED  BY <1>1 DEF CallRec
  <2> DEFINE closed == {pool[k] : k \in Keys} \ {0}
             x == IF calls[g].pc = "wait" /\ calls[g].c \in closed THEN 0 ELSE calls[g].sent
  <2>2. Close => calls'[g] = [calls[g] EXCEPT !.sent = x]  BY Zenon DEF Close
  <2>3. "ok" # "none"  OBVIOUS
  <2> HIDE DEF x
  <2> QED  BY <2>1, <2>2, <2>3, <1>2, Zenon
<1>9. PoolNext
  <2>1. ~UNCHANGED poolVars  BY <1>4, Zenon DEF poolVars
  <2> QED  BY <2>1, Zenon
<1>10. ~Peers /\ \A i \in Clients : ~Notice(i)
  BY <1>4, Zenon DEF Peers, Stop, Crash, StartServer, startPrivateRPCServer, Listen, Notice
<1>11. PICK h \in Goroutines :
         (\E w \in Work[kind][h] : Call(h, w.target, w.method)) \/ CallStep(h) \/ DialTimesOut(h)
  BY <1>8, <1>9, <1>10, Zenon DEF PoolNext
<1>12. \E r : Set(h, r)
  BY <1>11, Zenon DEF Call, CallStep, getClient, Dial, DialRefused, DialTimesOut, DialEnds, Send, Reply, NoReply,
     drop, CallReturns, Failed
<1>13. h = g  BY <1>4, <1>6, <1>12, Zenon
<1>14. Reply(g)
  <2>1. "wait" \notin {"idle", "get", "dial", "send", "drop"}  OBVIOUS
  <2>2. ~NoReply(g)  BY <1>7, Zenon DEF NoReply
  <2> QED  BY <2>1, <2>2, <1>11, <1>13, Zenon DEF Call, CallStep, getClient, Dial, DialRefused, DialTimesOut,
       DialEnds, Send, drop
<1>15. PICK res \in Answer(g) : CallReturns(g, res)  BY <1>7, <1>14, Zenon DEF Reply
<1>16. calls'[g].res = res
  <2>1. \A t : [Quiet EXCEPT !.t = t, !.res = res].res = res /\ [Quiet EXCEPT !.res = res].res = res
    BY DEF Quiet
  <2> QED  BY <2>1, <1>6, <1>15, Zenon DEF CallReturns
<1>17. "ok" # "error"  OBVIOUS
<1> QED  BY <1>3, <1>15, <1>16, <1>17, Zenon DEF Answer

\* On a private ring an answer is the answer of the peer the call was meant for, and so
\* is that of GetPredecessor on the public one, although another peer may be
\* listening on the address by then (privateRPCTransport.getClient in
\* dht/private.go; GetPredecessor in dht/rpc.go).
THEOREM AnswersAreFromTheTarget == PoolSpec => RightPeer
<1>1. PoolInv /\ [PoolNext]_poolVars =>
        [\A g \in Goroutines :
           calls[g].pc = "wait" /\ calls'[g].res = "ok" /\ (kind = "private" \/ calls[g].stub = "checked") =>
             client[calls[g].c].peer = calls[g].t.id]_poolVars
  BY StepRightPeer, Zenon
<1> QED  BY <1>1, InitPool, NextPool, PTL DEF PoolSpec, RightPeer
============================================================================
