------------------------- MODULE PrivateRingsProofs -------------------------
(***************************************************************************)
(* Private rings, for any number of groups, requests and peers.            *)
(*                                                                         *)
(* The group's side (GroupMembership): the updates of its record are an    *)
(* optimistic transaction, and until the record expires none is lost.      *)
(*                                                                         *)
(* The daemon's side (PrivateRings): the table of rings, the servers that  *)
(* run, the addresses published and the groups file agree for every group  *)
(* that no two requests have worked on at once.  The two specifications    *)
(* share no variable.                                                      *)
(***************************************************************************)
EXTENDS PrivateRings, GroupMembership, TLAPS

\* The record of a group.

\* The list an update of peer p makes of S.
Updated(op, p, S) == IF op = "add" THEN S \cup {p} ELSE S \ {p}

\* What holds of an update under way.  An update that can still be accepted was
\* computed from the record as it is; a removal is its peer's own, and comes
\* after the peer has given up its claims.
CallOK(p, t, c) ==
    /\ c.pc = "publish" =>
         /\ c.op \in {"add", "remove"}
         /\ c.ver <= Version + 1
         /\ c.ver >= c.first + c.attempt + 1
         /\ c.ver = Version + 1 =>
              c.peers = Updated(c.op, p, Listed)
    /\ c.pc = "cache" => rec # Nil
    /\ c.pc # "idle" =>
         /\ c.op \in {"add", "remove"}
         /\ c.op = "remove" => t = "api" /\ p \notin listed
         /\ c.op = "add" /\ t = "api" => p \notin left
         /\ Version >= c.first + c.attempt

\* NoLostJoin and LeaverNotReadded, of a record that has not expired.
Kept == \A p \in listed : rec # Nil /\ p \in rec.peers
Gone == \A p \in left \ again : rec # Nil => p \notin rec.peers

\* The inductive invariant until the record expires.  Before the first update there
\* is nothing to fall back on.
IInv ==
    /\ \A p \in Peers, t \in Threads : CallOK(p, t, call[p][t])
    /\ rec = Nil => listed = {} /\ \A p \in Peers : cache[p] = Nil
    /\ Kept
    /\ Gone

----------------------------------------------------------------------------
LEMMA VersionType == TypeOK => Version \in 0 .. MaxVersion /\ (rec = Nil \/ Version >= 1)
  BY GroupAssumption DEF TypeOK, Version, Record

LEMMA IdleCallType == IdleCall \in Calls /\ IdleCall.pc = "idle"
  BY GroupAssumption DEF IdleCall, Calls

\* Set changes one entry of call.
LEMMA SetType ==
    ASSUME TypeOK, NEW p \in Peers, NEW t \in Threads, NEW c \in Calls, Set(p, t, c)
    PROVE  /\ call' \in [Peers -> [Threads -> Calls]]
           /\ call'[p][t] = c
           /\ \A q \in Peers, s \in Threads : q # p \/ s # t => call'[q][s] = call[q][s]
  BY Zenon DEF TypeOK, Set

LEMMA FinishType ==
    ASSUME TypeOK, NEW p \in Peers, NEW t \in Threads, Finish(p, t)
    PROVE  /\ call' \in [Peers -> [Threads -> Calls]]
           /\ call'[p][t].pc = "idle"
           /\ \A q \in Peers, s \in Threads : q # p \/ s # t => call'[q][s] = call[q][s]
           /\ member' \subseteq Peers
<1>1. Set(p, t, IdleCall)
  BY Zenon DEF Finish
<1>2. member' \subseteq Peers
  BY Zenon DEF Finish, TypeOK
<1> QED BY <1>1, <1>2, IdleCallType, SetType

LEMMA BeginType ==
    ASSUME TypeOK, NEW p \in Peers, NEW t \in Threads, NEW op \in {"add", "remove"},
           Begin(p, t, op)
    PROVE  /\ call' \in [Peers -> [Threads -> Calls]]
           /\ call'[p][t].pc = "lookup" /\ call'[p][t].op = op
           /\ call'[p][t].first = Version /\ call'[p][t].attempt = 0
           /\ \A q \in Peers, s \in Threads : q # p \/ s # t => call'[q][s] = call[q][s]
<1> DEFINE c == [IdleCall EXCEPT !.pc = "lookup", !.op = op, !.first = Version]
<1>0. Version \in 0 .. MaxVersion
  BY VersionType, Zenon
<1>1. c \in Calls /\ c.pc = "lookup" /\ c.op = op /\ c.first = Version /\ c.attempt = 0
  <2>1. IdleCall.attempt = 0
    BY Zenon DEF IdleCall
  <2> QED BY <1>0, <2>1, IdleCallType, Zenon DEF Calls
<1>2. Set(p, t, c)
  BY Zenon DEF Begin
<1> HIDE DEF c
<1> QED BY <1>1, <1>2, SetType

\* What an attempt starts from.
Base(p) == IF rec # Nil THEN rec
           ELSE IF cache[p] # Nil THEN cache[p] ELSE [peers |-> {}, ver |-> 0]

\* The first half of an attempt.
LEMMA LookupType ==
    ASSUME TypeOK, NEW p \in Peers, NEW t \in Threads, LookupGroup(p, t),
           ~(call[p][t].op = "remove" /\ rec = Nil)
    PROVE  /\ call[p][t].pc = "lookup"
           /\ call' \in [Peers -> [Threads -> Calls]]
           /\ call'[p][t].pc = "publish" /\ call'[p][t].op = call[p][t].op
           /\ call'[p][t].ver = Base(p).ver + 1
           /\ call'[p][t].peers = Updated(call[p][t].op, p, Base(p).peers)
           /\ call'[p][t].first = call[p][t].first /\ call'[p][t].attempt = call[p][t].attempt
           /\ \A q \in Peers, s \in Threads : q # p \/ s # t => call'[q][s] = call[q][s]
           /\ UNCHANGED member
<1> DEFINE c == call[p][t]
           new == Updated(c.op, p, Base(p).peers)
           d == [c EXCEPT !.pc = "publish", !.ver = Base(p).ver + 1, !.peers = new]
<1>1. c.pc = "lookup" /\ Base(p).ver < MaxVersion /\ Set(p, t, d) /\ UNCHANGED member
  BY Zenon DEF LookupGroup, loadCachedGroupRecord, Base, Updated
<1>2. Base(p).ver \in 0 .. MaxVersion /\ Base(p).peers \in SUBSET Peers
  BY GroupAssumption DEF TypeOK, Record, Base
<1>3. c \in Calls
  BY Zenon DEF TypeOK
<1>4. new \in SUBSET Peers /\ Base(p).ver + 1 \in 0 .. MaxVersion
  BY <1>1, <1>2, GroupAssumption DEF Updated
<1> HIDE DEF c, new
<1>5. /\ d \in Calls /\ d.pc = "publish" /\ d.op = c.op /\ d.ver = Base(p).ver + 1
      /\ d.peers = new /\ d.first = c.first /\ d.attempt = c.attempt
  <2>1. PICK v \in 0 .. MaxVersion : v = Base(p).ver + 1
    BY <1>4, Zenon
  <2>2. d = [c EXCEPT !.pc = "publish", !.ver = v, !.peers = new]
    BY <2>1, Zenon
  <2> QED BY <1>3, <1>4, <2>1, <2>2, Zenon DEF Calls
<1> HIDE DEF d
<1>6. /\ call' \in [Peers -> [Threads -> Calls]]
      /\ call'[p][t] = d
      /\ \A q \in Peers, s \in Threads : q # p \/ s # t => call'[q][s] = call[q][s]
  BY <1>1, <1>5, SetType, Zenon
<1> QED BY <1>1, <1>5, <1>6, Zenon DEF c, new
----------------------------------------------------------------------------
\* The type invariant, and what keeps the copies on disk in it: only a version that
\* was accepted is cached.
TInv ==
    /\ TypeOK
    /\ \A p \in Peers, t \in Threads : call[p][t].pc = "cache" => call[p][t].ver >= 1

LEMMA InitTInv == Init => TInv
<1> SUFFICES ASSUME Init PROVE TInv
  BY Zenon
<1>1. TypeOK
  BY IdleCallType, GroupAssumption DEF Init, TypeOK
<1>2. \A p \in Peers, t \in Threads : call[p][t].pc = "idle"
  BY IdleCallType, Zenon DEF Init
<1> QED BY <1>1, <1>2, Zenon DEF TInv

LEMMA UpdateTInv ==
    ASSUME TInv, NEW p \in Peers, NEW t \in Threads, Update(p, t)
    PROVE  TInv'
<1> USE DEF TInv
<1> DEFINE c == call[p][t]
<1>c. c \in Calls
  BY Zenon DEF TypeOK
<1>1. CASE LookupGroup(p, t)
  <2>1. CASE c.op = "remove" /\ rec = Nil
    <3>1. Finish(p, t)
      BY <1>1, <2>1, Zenon DEF LookupGroup, loadCachedGroupRecord
    <3> QED BY <1>1, <3>1, FinishType DEF LookupGroup, loadCachedGroupRecord, TypeOK, ghosts
  <2>2. CASE ~(c.op = "remove" /\ rec = Nil)
    <3>1. /\ call' \in [Peers -> [Threads -> Calls]] /\ call'[p][t].pc = "publish"
          /\ \A q \in Peers, s \in Threads : q # p \/ s # t => call'[q][s] = call[q][s]
          /\ UNCHANGED member
      BY <1>1, <2>2, LookupType
    <3>2. UNCHANGED <<rec, cache, republish, expiries, listed, left, again>>
      BY <1>1, Zenon DEF LookupGroup, ghosts
    <3>3. TypeOK'
      BY <3>1, <3>2, Zenon DEF TypeOK
    <3> QED BY <3>1, <3>3, Zenon
  <2> QED BY <2>1, <2>2, Zenon
<1>2. CASE PublishGroup(p, t) \/ ReplyLost(p, t)
  <2>1. c.ver \in 1 .. MaxVersion /\ c.peers \in SUBSET Peers
    BY <1>2, <1>c, VersionType, GroupAssumption DEF PublishGroup, ReplyLost, Stores, Accepts, Calls
  <2>2. rec' \in Record
    BY <1>2, <2>1 DEF PublishGroup, ReplyLost, Stores, Record
  <2>3. listed' \subseteq Peers /\ left' \subseteq Peers /\ again' \subseteq Peers
    BY <1>2, Zenon DEF PublishGroup, ReplyLost, Stores, TypeOK
  <2>4. CASE c.op = "add" /\ PublishGroup(p, t)
    <3> DEFINE d == [c EXCEPT !.pc = "cache"]
    <3>1. Set(p, t, d) /\ UNCHANGED member
      BY <1>2, <2>4, Zenon DEF PublishGroup
    <3>2. d \in Calls /\ d.ver = c.ver
      BY <1>c, Zenon DEF Calls
    <3> HIDE DEF d
    <3>3. /\ call' \in [Peers -> [Threads -> Calls]] /\ call'[p][t] = d
          /\ \A q \in Peers, s \in Threads : q # p \/ s # t => call'[q][s] = call[q][s]
      BY <3>1, <3>2, SetType
    <3>4. TypeOK'
      BY <1>2, <2>2, <2>3, <3>1, <3>3, Zenon DEF PublishGroup, ReplyLost, Stores, TypeOK
    <3>5. \A q \in Peers, s \in Threads : call'[q][s].pc = "cache" => call'[q][s].ver >= 1
      BY <2>1, <3>2, <3>3
    <3> QED BY <3>4, <3>5, Zenon
  <2>5. CASE ~(c.op = "add" /\ PublishGroup(p, t))
    <3>1. Finish(p, t)
      BY <1>2, <2>5, Zenon DEF PublishGroup, ReplyLost
    <3>2. /\ call' \in [Peers -> [Threads -> Calls]] /\ call'[p][t].pc = "idle"
          /\ \A q \in Peers, s \in Threads : q # p \/ s # t => call'[q][s] = call[q][s]
          /\ member' \subseteq Peers
      BY <3>1, FinishType, Zenon
    <3>3. TypeOK'
      BY <1>2, <2>2, <2>3, <3>2, Zenon DEF PublishGroup, ReplyLost, Stores, TypeOK
    <3> QED BY <3>2, <3>3, Zenon
  <2> QED BY <2>4, <2>5, Zenon
<1>3. CASE Conflict(p, t)
  <2>1. CASE c.attempt + 1 < MaxRetries
    <3> DEFINE d == [c EXCEPT !.pc = "lookup", !.peers = {}, !.ver = 0, !.attempt = @ + 1]
    <3>1. Set(p, t, d) /\ UNCHANGED member
      BY <1>3, <2>1, Zenon DEF Conflict
    <3>2. d \in Calls /\ d.pc = "lookup"
      <4>1. PICK n \in 0 .. MaxRetries - 1 : n = c.attempt + 1
        BY <1>c, <2>1, GroupAssumption DEF Calls
      <4>2. d = [c EXCEPT !.pc = "lookup", !.peers = {}, !.ver = 0, !.attempt = n]
        BY <4>1, Zenon
      <4>3. 0 \in 0 .. MaxVersion
        BY GroupAssumption
      <4> QED BY <1>c, <4>1, <4>2, <4>3, Zenon DEF Calls
    <3> HIDE DEF d
    <3>3. /\ call' \in [Peers -> [Threads -> Calls]] /\ call'[p][t] = d
          /\ \A q \in Peers, s \in Threads : q # p \/ s # t => call'[q][s] = call[q][s]
      BY <3>1, <3>2, SetType
    <3> QED BY <1>3, <3>1, <3>2, <3>3 DEF Conflict, TypeOK, ghosts
  <2>2. CASE ~(c.attempt + 1 < MaxRetries)
    <3>1. Finish(p, t)
      BY <1>3, <2>2, Zenon DEF Conflict
    <3> QED BY <1>3, <3>1, FinishType DEF Conflict, TypeOK, ghosts
  <2> QED BY <2>1, <2>2, Zenon
<1>4. CASE PublishFails(p, t)
  <2>1. Finish(p, t)
    BY <1>4, Zenon DEF PublishFails
  <2> QED BY <1>4, <2>1, FinishType DEF PublishFails, TypeOK, ghosts
<1>5. CASE cacheGroupRecord(p, t)
  <2>1. Finish(p, t)
    BY <1>5, Zenon DEF cacheGroupRecord
  <2>2. c.ver \in 1 .. MaxVersion /\ c.peers \in SUBSET Peers
    BY <1>5, <1>c, GroupAssumption DEF cacheGroupRecord, Calls
  <2>3. cache' \in [Peers -> Record \cup {Nil}]
    BY <1>5, <2>2, Zenon DEF cacheGroupRecord, Record, TypeOK
  <2> QED BY <1>5, <2>1, <2>3, FinishType DEF cacheGroupRecord, TypeOK, ghosts
<1> QED BY <1>1, <1>2, <1>3, <1>4, <1>5, Zenon DEF Update

LEMMA NextTInv == TInv /\ [Next]_vars => TInv'
<1> SUFFICES ASSUME TInv, [Next]_vars PROVE TInv'
  BY Zenon
<1> USE DEF TInv
<1>1. ASSUME NEW p \in Peers, JoinRing(p) \/ LeaveRing(p) PROVE TInv'
  <2>1. "api" \in Threads /\ \E op \in {"add", "remove"} : Begin(p, "api", op)
    BY <1>1, Zenon DEF Threads, JoinRing, LeaveRing
  <2>2. /\ call' \in [Peers -> [Threads -> Calls]] /\ call'[p]["api"].pc = "lookup"
        /\ \A q \in Peers, s \in Threads : q # p \/ s # "api" => call'[q][s] = call[q][s]
    BY <2>1, BeginType
  <2>3. TypeOK'
    BY <1>1, <2>2, Zenon DEF JoinRing, LeaveRing, TypeOK
  <2> QED BY <2>2, <2>3, Zenon
<1>2. ASSUME NEW p \in Peers, Republish(p) PROVE TInv'
  <2>1. "loop" \in Threads /\ Begin(p, "loop", "add")
    BY <1>2, Zenon DEF Threads, Republish
  <2>2. /\ call' \in [Peers -> [Threads -> Calls]] /\ call'[p]["loop"].pc = "lookup"
        /\ \A q \in Peers, s \in Threads : q # p \/ s # "loop" => call'[q][s] = call[q][s]
    BY <2>1, BeginType, Zenon
  <2>3. TypeOK'
    BY <1>2, <2>2, Zenon DEF Republish, TypeOK, ghosts
  <2> QED BY <2>2, <2>3, Zenon
<1>3. ASSUME NEW p \in Peers, NEW t \in Threads, Update(p, t) PROVE TInv'
  BY <1>3, UpdateTInv, Zenon
<1>4. CASE Expire
  BY <1>4, GroupAssumption DEF Expire, TypeOK, ghosts
<1>5. CASE UNCHANGED vars
  BY <1>5, Zenon DEF vars, ghosts, TypeOK
<1> QED BY <1>1, <1>2, <1>3, <1>4, <1>5, Zenon DEF Next

LEMMA SpecTInv == Spec => []TInv
  BY InitTInv, NextTInv, PTL DEF Spec

\* The state of the group keeps its type: no attempt is counted beyond
\* maxGroupRecordRetries and no record has version zero (dht/private.go).
THEOREM GroupTypeCorrect == Spec => []TypeOK
<1>1. TInv => TypeOK
  BY Zenon DEF TInv
<1> QED BY <1>1, SpecTInv, PTL

----------------------------------------------------------------------------
LEMMA InitIInv == Init => IInv
<1> SUFFICES ASSUME Init PROVE IInv
  OBVIOUS
<1>1. \A p \in Peers, t \in Threads : call[p][t].pc = "idle"
  BY IdleCallType DEF Init
<1>2. \A p \in Peers, t \in Threads : CallOK(p, t, call[p][t])
  BY <1>1 DEF CallOK
<1> QED BY <1>2, Zenon DEF Init, IInv, Kept, Gone

\* A step that leaves the record alone and takes no claim up.
LEMMA QuietIInv ==
    ASSUME TInv, IInv, NEW p \in Peers, NEW t \in Threads,
           rec' = rec, listed' \subseteq listed, left' \subseteq left, again' = again,
           \A q \in Peers : cache'[q] = Nil \/ rec # Nil,
           CallOK(p, t, call[p][t])',
           \A q \in Peers, s \in Threads : q # p \/ s # t => call'[q][s] = call[q][s]
    PROVE  IInv'
<1>1. \A q \in Peers, s \in Threads : q # p \/ s # t => CallOK(q, s, call[q][s])'
  BY DEF IInv, CallOK, Version, Listed
<1>2. \A q \in Peers, s \in Threads : CallOK(q, s, call[q][s])'
  BY <1>1, Zenon
<1>3. rec' = Nil => listed' = {} /\ \A q \in Peers : cache'[q] = Nil
  BY Zenon DEF IInv
<1>4. Kept' /\ Gone'
  BY Zenon DEF IInv, Kept, Gone
<1> QED BY <1>2, <1>3, <1>4, Zenon DEF IInv

\* The steps of an update that store nothing.
LEMMA AttemptIInv ==
    ASSUME TInv, IInv, NEW p \in Peers, NEW t \in Threads,
           LookupGroup(p, t) \/ Conflict(p, t) \/ PublishFails(p, t) \/ cacheGroupRecord(p, t)
    PROVE  IInv'
<1> DEFINE c == call[p][t]
<1>c. c \in Calls /\ CallOK(p, t, c) /\ TypeOK
  BY Zenon DEF TInv, TypeOK, IInv
<1>v. Version \in Nat /\ (Version' = Version \/ rec' # rec)
  BY <1>c, VersionType, GroupAssumption DEF Version
<1>n. \A q \in Peers : cache[q] = Nil \/ rec # Nil
  BY Zenon DEF IInv
<1>f. ASSUME Finish(p, t), rec' = rec, listed' = listed, left' = left, again' = again,
             \A q \in Peers : cache'[q] = Nil \/ rec # Nil
      PROVE  IInv'
  <2>1. /\ call'[p][t].pc = "idle"
        /\ \A q \in Peers, s \in Threads : q # p \/ s # t => call'[q][s] = call[q][s]
    BY <1>c, <1>f, FinishType, Zenon
  <2>2. CallOK(p, t, call[p][t])'
    BY <2>1, Zenon DEF CallOK
  <2> QED BY <1>f, <2>1, <2>2, QuietIInv, Zenon
<1>1. CASE LookupGroup(p, t)
  <2>u. rec' = rec /\ cache' = cache /\ listed' = listed /\ left' = left /\ again' = again
    BY <1>1, Zenon DEF LookupGroup, loadCachedGroupRecord, ghosts
  <2>1. CASE c.op = "remove" /\ rec = Nil
    <3>1. Finish(p, t)
      BY <1>1, <2>1, Zenon DEF LookupGroup, loadCachedGroupRecord
    <3> QED BY <1>f, <1>n, <2>u, <3>1, Zenon
  <2>2. CASE ~(c.op = "remove" /\ rec = Nil)
    <3>1. /\ c.pc = "lookup"
          /\ call'[p][t].pc = "publish" /\ call'[p][t].op = c.op
          /\ call'[p][t].ver = Base(p).ver + 1
          /\ call'[p][t].peers = Updated(c.op, p, Base(p).peers)
          /\ call'[p][t].first = c.first /\ call'[p][t].attempt = c.attempt
          /\ \A q \in Peers, s \in Threads : q # p \/ s # t => call'[q][s] = call[q][s]
      BY <1>1, <1>c, <2>2, LookupType
    <3>2. Base(p).ver = Version /\ Base(p).peers = Listed
      BY <1>n, Zenon DEF Base, Version, Listed
    <3>3. /\ c.op \in {"add", "remove"} /\ Version >= c.first + c.attempt
          /\ c.op = "remove" => t = "api" /\ p \notin listed
          /\ c.op = "add" /\ t = "api" => p \notin left
      BY <1>c, <3>1, Zenon DEF CallOK
    <3>4. c.first \in Nat /\ c.attempt \in Nat /\ Version \in Nat
      BY <1>c, VersionType, GroupAssumption DEF Calls
    <3>5. Version' = Version /\ Listed' = Listed
      BY <2>u, Zenon DEF Version, Listed
    <3> HIDE DEF c
    <3>6. CallOK(p, t, call[p][t])'
      BY <2>u, <3>1, <3>2, <3>3, <3>4, <3>5 DEF CallOK
    <3> QED BY <1>n, <2>u, <3>1, <3>6, QuietIInv, Zenon
  <2> QED BY <2>1, <2>2, Zenon
<1>2. CASE Conflict(p, t)
  <2>u. rec' = rec /\ cache' = cache /\ listed' = listed /\ left' = left /\ again' = again
    BY <1>2, Zenon DEF Conflict, ghosts
  <2>1. CASE c.attempt + 1 < MaxRetries
    <3> DEFINE d == [c EXCEPT !.pc = "lookup", !.peers = {}, !.ver = 0, !.attempt = c.attempt + 1]
    <3>1. call' = [call EXCEPT ![p][t] = d]
      BY <1>2, <2>1, Zenon DEF Conflict, Set
    <3>2. /\ d.pc = "lookup" /\ d.op = c.op /\ d.first = c.first /\ d.attempt = c.attempt + 1
      BY <1>c, Zenon DEF Calls
    <3> HIDE DEF d
    <3>3. /\ call'[p][t] = d
          /\ \A q \in Peers, s \in Threads : q # p \/ s # t => call'[q][s] = call[q][s]
      BY <1>c, <3>1, Zenon DEF TypeOK
    <3>4. /\ c.op \in {"add", "remove"} /\ c.ver >= c.first + c.attempt + 1 /\ Version >= c.ver
          /\ c.op = "remove" => t = "api" /\ p \notin listed
          /\ c.op = "add" /\ t = "api" => p \notin left
      BY <1>2, <1>c, VersionType, GroupAssumption DEF Conflict, Accepts, CallOK, Calls
    <3>5. c.first \in Nat /\ c.attempt \in Nat /\ c.ver \in Nat /\ Version \in Nat
      BY <1>c, VersionType, GroupAssumption DEF Calls
    <3>6. Version' = Version
      BY <2>u, Zenon DEF Version
    <3>7. CallOK(p, t, call[p][t])'
      <4> HIDE DEF c
      <4> QED BY <2>u, <3>2, <3>3, <3>4, <3>5, <3>6 DEF CallOK
    <3> QED BY <1>n, <2>u, <3>3, <3>7, QuietIInv, Zenon
  <2>2. CASE ~(c.attempt + 1 < MaxRetries)
    <3>1. Finish(p, t)
      BY <1>2, <2>2, Zenon DEF Conflict
    <3> QED BY <1>f, <1>n, <2>u, <3>1
  <2> QED BY <2>1, <2>2, Zenon
<1>3. CASE PublishFails(p, t)
  BY <1>3, <1>f, <1>n, Zenon DEF PublishFails, ghosts
<1>4. CASE cacheGroupRecord(p, t)
  <2>1. rec # Nil
    BY <1>4, <1>c, Zenon DEF cacheGroupRecord, CallOK
  <2> QED BY <1>4, <1>f, <2>1, Zenon DEF cacheGroupRecord, ghosts
<1> QED BY <1>1, <1>2, <1>3, <1>4, Zenon

\* The step that stores: the version is the next one, so the list was made from the
\* record it replaces, and every other update under way is now too old.
LEMMA PublishIInv ==
    ASSUME TInv, IInv, NEW p \in Peers, NEW t \in Threads,
           PublishGroup(p, t) \/ ReplyLost(p, t)
    PROVE  IInv'
<1> DEFINE c == call[p][t]
<1>c. c \in Calls /\ CallOK(p, t, c) /\ TypeOK
  BY Zenon DEF TInv, TypeOK, IInv
<1>1. /\ c.pc = "publish" /\ Version < c.ver
      /\ rec' = [ver |-> c.ver, peers |-> c.peers]
      /\ listed' = (IF c.op = "add" /\ t = "api" THEN listed \cup {p} ELSE listed)
      /\ left' = (IF c.op = "add" THEN left ELSE left \cup {p})
      /\ again' = (IF c.op = "add" THEN (IF t = "loop" THEN again \cup {p} ELSE again) ELSE again \ {p})
      /\ cache' = cache
  BY Zenon DEF PublishGroup, ReplyLost, Stores, Accepts
<1>2. /\ c.op \in {"add", "remove"}
      /\ c.op = "remove" => t = "api" /\ p \notin listed
      /\ c.op = "add" /\ t = "api" => p \notin left
      /\ c.ver <= Version + 1 /\ Version >= c.first + c.attempt
      /\ c.ver = Version + 1 => c.peers = Updated(c.op, p, Listed)
  BY <1>1, <1>c, Zenon DEF CallOK
<1>3. c.ver \in Nat /\ Version \in Nat /\ c.peers \in SUBSET Peers /\ c.first \in Nat /\ c.attempt \in Nat
  BY <1>c, VersionType, GroupAssumption DEF Calls
<1>4. c.ver = Version + 1 /\ c.peers = Updated(c.op, p, Listed)
  <2> HIDE DEF c
  <2>1. c.ver = Version + 1
    <3>1. Version < c.ver /\ c.ver <= Version + 1 /\ c.ver \in Nat /\ Version \in Nat
      BY <1>1, <1>2, <1>3, Zenon
    <3> QED BY <3>1
  <2> QED BY <1>2, <2>1, Zenon
<1>5. rec' # Nil
  <2>1. rec' \in [ver : Nat, peers : SUBSET Peers]
    BY <1>1, <1>3, Zenon
  <2> QED BY <2>1, NilAssumption, Zenon
<1>6. Version' = Version + 1 /\ rec'.peers = Updated(c.op, p, Listed)
  BY <1>1, <1>4, <1>5, Zenon DEF Version
<1>7. /\ call'[p][t].pc \in {"cache", "idle"}
      /\ call'[p][t].pc = "cache" => /\ c.op = "add" /\ call'[p][t].op = "add"
                                     /\ call'[p][t].first = c.first /\ call'[p][t].attempt = c.attempt
      /\ \A q \in Peers, s \in Threads : q # p \/ s # t => call'[q][s] = call[q][s]
  <2>1. CASE c.op = "add" /\ PublishGroup(p, t)
    <3> DEFINE d == [c EXCEPT !.pc = "cache"]
    <3>1. Set(p, t, d)
      BY <2>1, Zenon DEF PublishGroup
    <3>2. d \in Calls /\ d.pc = "cache" /\ d.op = c.op /\ d.first = c.first /\ d.attempt = c.attempt
      BY <1>c, Zenon DEF Calls
    <3> HIDE DEF d
    <3>3. /\ call'[p][t] = d
          /\ \A q \in Peers, s \in Threads : q # p \/ s # t => call'[q][s] = call[q][s]
      BY <1>c, <3>1, <3>2, SetType
    <3> QED BY <2>1, <3>2, <3>3, Zenon
  <2>2. CASE ~(c.op = "add" /\ PublishGroup(p, t))
    <3>1. Finish(p, t)
      BY <2>2, Zenon DEF PublishGroup, ReplyLost
    <3> QED BY <1>c, <3>1, FinishType, Zenon
  <2> QED BY <2>1, <2>2, Zenon
<1> HIDE DEF c
<1>8. CallOK(p, t, call[p][t])'
  BY <1>1, <1>2, <1>3, <1>5, <1>6, <1>7 DEF CallOK
<1>9. ASSUME NEW q \in Peers, NEW s \in Threads, q # p \/ s # t
      PROVE  CallOK(q, s, call[q][s])'
  <2>1. call'[q][s] = call[q][s] /\ CallOK(q, s, call[q][s])
    BY <1>7, <1>9, Zenon DEF IInv
  <2>2. PICK b \in Calls : b = call[q][s]
    BY <1>c, Zenon DEF TypeOK
  <2>3. b.ver \in Nat /\ b.first \in Nat /\ b.attempt \in Nat
    BY <2>2, GroupAssumption DEF Calls
  <2>4. Threads = {"api", "loop"}
    BY Zenon DEF Threads
  <2>5. CallOK(q, s, b)
    BY <2>1, <2>2, Zenon
  <2>6. b.pc = "publish" => /\ b.ver <= Version \/ b.ver = Version + 1
                            /\ b.op \in {"add", "remove"}
                            /\ b.ver >= b.first + b.attempt + 1
    <3>1. b.pc = "publish" => /\ b.op \in {"add", "remove"} /\ b.ver <= Version + 1
                              /\ b.ver >= b.first + b.attempt + 1
      BY <2>5, Zenon DEF CallOK
    <3>2. Version \in Nat /\ b.ver \in Nat
      BY <1>3, <2>3, Zenon
    <3>3. b.ver <= Version + 1 => b.ver <= Version \/ b.ver = Version + 1
      BY <3>2
    <3> QED BY <3>1, <3>3, Zenon
  <2>7. b.pc # "idle" => /\ b.op \in {"add", "remove"}
                         /\ b.op = "remove" => s = "api" /\ q \notin listed'
                         /\ b.op = "add" /\ s = "api" => q \notin left'
                         /\ Version' >= b.first + b.attempt
    BY <1>1, <1>2, <1>3, <1>6, <1>9, <2>3, <2>4, <2>5 DEF CallOK
  <2> QED BY <1>3, <1>5, <1>6, <2>1, <2>2, <2>3, <2>6, <2>7 DEF CallOK
<1>10. Kept'
  BY <1>1, <1>2, <1>5, <1>6, Zenon DEF IInv, Kept, Updated, Listed
<1>11. Gone'
  BY <1>1, <1>2, <1>5, <1>6, Zenon DEF IInv, Gone, Updated, Listed, Threads
<1> QED BY <1>5, <1>8, <1>9, <1>10, <1>11, Zenon DEF IInv

LEMMA NextIInv == TInv /\ IInv /\ [Next]_vars /\ expiries' = 0 => IInv'
<1> SUFFICES ASSUME TInv, IInv, [Next]_vars, expiries' = 0 PROVE IInv'
  BY Zenon
<1>n. \A q \in Peers : cache[q] = Nil \/ rec # Nil
  BY Zenon DEF IInv
<1>v. Version \in Nat /\ TypeOK
  BY VersionType, GroupAssumption DEF TInv
<1>t. "api" \in Threads /\ "loop" \in Threads
  BY Zenon DEF Threads
<1>1. ASSUME NEW p \in Peers, JoinRing(p) PROVE IInv'
  <2>1. /\ call'[p]["api"].pc = "lookup" /\ call'[p]["api"].op = "add"
        /\ call'[p]["api"].first = Version /\ call'[p]["api"].attempt = 0
        /\ \A q \in Peers, s \in Threads : q # p \/ s # "api" => call'[q][s] = call[q][s]
    BY <1>1, <1>t, <1>v, BeginType, Zenon DEF JoinRing
  <2>2. /\ rec' = rec /\ cache' = cache /\ listed' = listed /\ again' = again
        /\ left' = left \ {p} /\ Version' = Version
    BY <1>1, Zenon DEF JoinRing, Version
  <2>3. CallOK(p, "api", call[p]["api"])'
    BY <1>v, <2>1, <2>2 DEF CallOK
  <2> QED BY <1>n, <1>t, <2>1, <2>2, <2>3, QuietIInv, Zenon
<1>2. ASSUME NEW p \in Peers, LeaveRing(p) PROVE IInv'
  <2>1. /\ call'[p]["api"].pc = "lookup" /\ call'[p]["api"].op = "remove"
        /\ call'[p]["api"].first = Version /\ call'[p]["api"].attempt = 0
        /\ \A q \in Peers, s \in Threads : q # p \/ s # "api" => call'[q][s] = call[q][s]
    BY <1>2, <1>t, <1>v, BeginType, Zenon DEF LeaveRing
  <2>2. /\ rec' = rec /\ cache' = cache /\ listed' = listed \ {p} /\ again' = again
        /\ left' = left /\ Version' = Version
    BY <1>2, Zenon DEF LeaveRing, Version
  <2>3. CallOK(p, "api", call[p]["api"])'
    BY <1>v, <2>1, <2>2 DEF CallOK
  <2> QED BY <1>n, <1>t, <2>1, <2>2, <2>3, QuietIInv, Zenon
<1>3. ASSUME NEW p \in Peers, Republish(p) PROVE IInv'
  <2>1. /\ call'[p]["loop"].pc = "lookup" /\ call'[p]["loop"].op = "add"
        /\ call'[p]["loop"].first = Version /\ call'[p]["loop"].attempt = 0
        /\ \A q \in Peers, s \in Threads : q # p \/ s # "loop" => call'[q][s] = call[q][s]
    BY <1>3, <1>t, <1>v, BeginType, Zenon DEF Republish
  <2>2. /\ rec' = rec /\ cache' = cache /\ listed' = listed /\ again' = again
        /\ left' = left /\ Version' = Version
    BY <1>3, Zenon DEF Republish, Version, ghosts
  <2>3. CallOK(p, "loop", call[p]["loop"])'
    BY <1>v, <2>1, <2>2 DEF CallOK
  <2> QED BY <1>n, <1>t, <2>1, <2>2, <2>3, QuietIInv, Zenon
<1>4. ASSUME NEW p \in Peers, NEW t \in Threads, Update(p, t) PROVE IInv'
  BY <1>4, AttemptIInv, PublishIInv, Zenon DEF Update
<1>5. ~Expire
  BY GroupAssumption DEF Expire, TInv, TypeOK
<1>6. CASE UNCHANGED vars
  BY <1>6 DEF vars, ghosts, IInv, CallOK, Version, Listed, Kept, Gone
<1> QED BY <1>1, <1>2, <1>3, <1>4, <1>5, <1>6, Zenon DEF Next

\* Nothing takes an expiry back.
LEMMA NextExpiries == TInv /\ [Next]_vars /\ expiries' = 0 => expiries = 0
<1> SUFFICES ASSUME TInv, [Next]_vars, expiries' = 0 PROVE expiries = 0
  BY Zenon
<1>1. ASSUME NEW p \in Peers, JoinRing(p) \/ LeaveRing(p) \/ Republish(p) PROVE expiries' = expiries
  BY <1>1, Zenon DEF JoinRing, LeaveRing, Republish
<1>2. ASSUME NEW p \in Peers, NEW t \in Threads, Update(p, t) PROVE expiries' = expiries
  <2>1. CASE PublishGroup(p, t) \/ ReplyLost(p, t)
    BY <2>1, Zenon DEF PublishGroup, ReplyLost, Stores
  <2>2. CASE LookupGroup(p, t)
    BY <2>2, Zenon DEF LookupGroup, loadCachedGroupRecord
  <2>3. CASE Conflict(p, t)
    BY <2>3, Zenon DEF Conflict
  <2>4. CASE PublishFails(p, t) \/ cacheGroupRecord(p, t)
    BY <2>4, Zenon DEF PublishFails, cacheGroupRecord
  <2> QED BY <1>2, <2>1, <2>2, <2>3, <2>4, Zenon DEF Update
<1>3. CASE Expire
  BY <1>3, GroupAssumption DEF Expire, TInv, TypeOK
<1>4. CASE UNCHANGED vars
  BY <1>4, Zenon DEF vars
<1> QED BY <1>1, <1>2, <1>3, <1>4, Zenon DEF Next

GInv == expiries = 0 => IInv

LEMMA SpecGInv == Spec => []GInv
<1>1. Init => GInv
  BY InitIInv, Zenon DEF GInv
<1>2. TInv /\ GInv /\ [Next]_vars => GInv'
  BY NextIInv, NextExpiries, Zenon DEF GInv
<1> QED BY <1>1, <1>2, SpecTInv, PTL DEF Spec

\* Until the record expires, a join that was stored is not undone by any
\* concurrent update: the version check of storeSignedRecord makes read,
\* modify and put back one transaction (dht/private.go 164-252).
THEOREM GroupNoLostJoin == Spec => []NoLostJoin
<1>1. GInv => NoLostJoin
  BY Zenon DEF GInv, IInv, Kept, NoLostJoin
<1> QED BY <1>1, SpecGInv, PTL

\* Until the record expires, no update of another peer brings a peer back that has
\* left (removeFromGroupRecord, UpdateGroupRecord).
THEOREM GroupLeaverNotReadded == Spec => []LeaverNotReadded
<1>1. GInv => LeaverNotReadded
  BY Zenon DEF GInv, IInv, Gone, LeaverNotReadded
<1> QED BY <1>1, SpecGInv, PTL

\* Until the record expires, an update that conflicted n times has been overtaken by
\* n other updates since it began: the retry loop only ever gives up under
\* contention.
THEOREM GroupConflictMeansProgress == Spec => []ConflictMeansProgress
<1>1. GInv => ConflictMeansProgress
  BY Zenon DEF GInv, IInv, CallOK, ConflictMeansProgress
<1> QED BY <1>1, SpecGInv, PTL
----------------------------------------------------------------------------
\* A call under way is an addition or a removal, also after an expiry.
OInv ==
    \A p \in Peers, t \in Threads :
        call[p][t].pc # "idle" => call[p][t].op \in {"add", "remove"}

LEMMA UpdateOInv ==
    ASSUME TInv, OInv, NEW p \in Peers, NEW t \in Threads, Update(p, t)
    PROVE  OInv'
<1> DEFINE c == call[p][t]
<1>c. c \in Calls /\ TypeOK
  BY Zenon DEF TInv, TypeOK
<1>f. ASSUME Finish(p, t) PROVE OInv'
  <2>1. /\ call'[p][t].pc = "idle"
        /\ \A q \in Peers, s \in Threads : q # p \/ s # t => call'[q][s] = call[q][s]
    BY <1>c, <1>f, FinishType, Zenon
  <2> QED BY <2>1, Zenon DEF OInv
<1>s. ASSUME NEW d, Set(p, t, d), d.op = c.op, c.pc # "idle" PROVE OInv'
  <2>1. /\ call'[p][t] = d
        /\ \A q \in Peers, s \in Threads : q # p \/ s # t => call'[q][s] = call[q][s]
    BY <1>c, <1>s, Zenon DEF TypeOK, Set
  <2> QED BY <1>s, <2>1 DEF OInv
<1>1. CASE LookupGroup(p, t)
  <2>1. CASE c.op = "remove" /\ rec = Nil
    BY <1>1, <1>f, <2>1, Zenon DEF LookupGroup, loadCachedGroupRecord
  <2>2. CASE ~(c.op = "remove" /\ rec = Nil)
    <3>1. /\ c.pc = "lookup" /\ call'[p][t].op = c.op
          /\ \A q \in Peers, s \in Threads : q # p \/ s # t => call'[q][s] = call[q][s]
      BY <1>1, <1>c, <2>2, LookupType
    <3> QED BY <3>1 DEF OInv
  <2> QED BY <2>1, <2>2, Zenon
<1>2. CASE PublishGroup(p, t)
  <2>1. CASE c.op = "add"
    <3>1. Set(p, t, [c EXCEPT !.pc = "cache"]) /\ c.pc # "idle"
      BY <1>2, <2>1, Zenon DEF PublishGroup, Stores
    <3>2. [c EXCEPT !.pc = "cache"].op = c.op
      BY <1>c, Zenon DEF Calls
    <3> QED BY <1>s, <3>1, <3>2, Zenon
  <2>2. CASE c.op # "add"
    BY <1>2, <1>f, <2>2, Zenon DEF PublishGroup
  <2> QED BY <2>1, <2>2, Zenon
<1>3. CASE Conflict(p, t)
  <2>1. CASE c.attempt + 1 < MaxRetries
    <3> DEFINE d == [c EXCEPT !.pc = "lookup", !.peers = {}, !.ver = 0, !.attempt = c.attempt + 1]
    <3>1. Set(p, t, d) /\ c.pc # "idle"
      BY <1>3, <2>1, Zenon DEF Conflict
    <3>2. d.op = c.op
      BY <1>c, Zenon DEF Calls
    <3> QED BY <1>s, <3>1, <3>2, Zenon
  <2>2. CASE ~(c.attempt + 1 < MaxRetries)
    BY <1>3, <1>f, <2>2, Zenon DEF Conflict
  <2> QED BY <2>1, <2>2, Zenon
<1>4. CASE ReplyLost(p, t) \/ PublishFails(p, t) \/ cacheGroupRecord(p, t)
  BY <1>4, <1>f, Zenon DEF ReplyLost, PublishFails, cacheGroupRecord
<1> QED BY <1>1, <1>2, <1>3, <1>4, Zenon DEF Update

LEMMA SpecOInv == Spec => []OInv
<1>1. Init => OInv
  BY IdleCallType DEF Init, OInv
<1>2. TInv /\ OInv /\ [Next]_vars => OInv'
  <2> SUFFICES ASSUME TInv, OInv, [Next]_vars PROVE OInv'
    BY Zenon
  <2>1. ASSUME NEW p \in Peers, JoinRing(p) \/ LeaveRing(p) \/ Republish(p) PROVE OInv'
    <3>1. \E t \in Threads, op \in {"add", "remove"} : Begin(p, t, op)
      BY <2>1, Zenon DEF JoinRing, LeaveRing, Republish, Threads
    <3>2. PICK t \in Threads, op \in {"add", "remove"} : Begin(p, t, op)
      BY <3>1, Zenon
    <3>3. /\ call'[p][t].op = op
          /\ \A q \in Peers, s \in Threads : q # p \/ s # t => call'[q][s] = call[q][s]
      BY <3>2, BeginType DEF TInv
    <3> QED BY <3>3 DEF OInv
  <2>2. ASSUME NEW p \in Peers, NEW t \in Threads, Update(p, t) PROVE OInv'
    BY <2>2, UpdateOInv, Zenon
  <2>3. CASE Expire \/ UNCHANGED vars
    BY <2>3, Zenon DEF Expire, vars, OInv
  <2> QED BY <2>1, <2>2, <2>3, Zenon DEF Next
<1> QED BY <1>1, <1>2, SpecTInv, PTL DEF Spec

\* What every thread asks for, as the abstract specification sees it.
Asked == [x \in Peers \X Threads |-> Ask(call[x[1]][x[2]])]

\* A step of one call changes one entry of Asked.
LEMMA AskedStep ==
    ASSUME NEW p \in Peers, NEW t \in Threads,
           \A q \in Peers, s \in Threads : q # p \/ s # t => call'[q][s] = call[q][s]
    PROVE  /\ Asked[<<p, t>>] = Ask(call[p][t])
           /\ Asked' = [Asked EXCEPT ![<<p, t>>] = Ask(call[p][t])']
<1>1. Asked[<<p, t>>] = Ask(call[p][t])
  BY Zenon DEF Asked
<1>2. Asked' = [x \in Peers \X Threads |-> Ask(call[x[1]][x[2]])']
  BY Zenon DEF Asked
<1>3. ASSUME NEW x \in Peers \X Threads
      PROVE  Ask(call[x[1]][x[2]])' = [Asked EXCEPT ![<<p, t>>] = Ask(call[p][t])'][x]
  <2>1. CASE x = <<p, t>>
    BY <2>1, Zenon DEF Asked
  <2>2. CASE x # <<p, t>>
    <3>1. x[1] # p \/ x[2] # t
      BY <2>2
    <3>2. call'[x[1]][x[2]] = call[x[1]][x[2]]
      BY <3>1, Zenon
    <3> QED BY <2>2, <3>2, Zenon DEF Asked, Ask
  <2> QED BY <2>1, <2>2, Zenon
<1> QED BY <1>1, <1>2, <1>3, Zenon DEF Asked

\* A step that changes neither the record nor what a call asks for is a stutter.
LEMMA StutterRefines ==
    ASSUME NEW p \in Peers, NEW t \in Threads, rec' = rec, expiries' = expiries,
           \A q \in Peers, s \in Threads : q # p \/ s # t => call'[q][s] = call[q][s],
           Ask(call[p][t])' = Ask(call[p][t])
    PROVE  UNCHANGED A!vars
<1>1. Asked' = [Asked EXCEPT ![<<p, t>>] = Asked[<<p, t>>]]
  BY AskedStep
<1>2. Asked' = Asked
  BY <1>1, Zenon DEF Asked
<1> QED BY <1>2, Zenon DEF A!vars, Asked, Listed

\* A call that ends without an effect of this step returns.
LEMMA FinishRefines ==
    ASSUME TypeOK, OInv, NEW p \in Peers, NEW t \in Threads, Finish(p, t),
           rec' = rec, expiries' = expiries, call[p][t].pc # "idle"
    PROVE  A!Next
<1>1. /\ call'[p][t].pc = "idle"
      /\ \A q \in Peers, s \in Threads : q # p \/ s # t => call'[q][s] = call[q][s]
  BY FinishType, Zenon
<1>2. Ask(call[p][t])' = "none" /\ Ask(call[p][t]) # "none"
  BY <1>1, Zenon DEF Ask, OInv
<1>3. Asked[<<p, t>>] # "none" /\ Asked' = [Asked EXCEPT ![<<p, t>>] = "none"]
  BY <1>1, <1>2, AskedStep, Zenon
<1>4. A!Return(p, t)
  BY <1>3, Zenon DEF A!Return, Asked, Listed
<1> QED BY <1>4, Zenon DEF A!Next

\* The step that stores the record is the one effect of its call.
LEMMA StoreRefines ==
    ASSUME TInv, OInv, GInv, NEW p \in Peers, NEW t \in Threads,
           PublishGroup(p, t) \/ ReplyLost(p, t)
    PROVE  A!Next
<1> DEFINE c == call[p][t]
<1>t. TypeOK /\ c \in Calls /\ expiries \in Nat
  BY GroupAssumption DEF TInv, TypeOK
<1>1. /\ c.pc = "publish" /\ Version < c.ver /\ expiries' = expiries
      /\ rec' = [ver |-> c.ver, peers |-> c.peers]
  BY Zenon DEF PublishGroup, ReplyLost, Stores, Accepts
<1>2. c.op \in {"add", "remove"} /\ Ask(c) = c.op
  BY <1>1, Zenon DEF OInv, Ask
<1>3. c.ver \in Nat /\ c.peers \in SUBSET Peers /\ Version \in Nat
  BY <1>t, VersionType, GroupAssumption DEF Calls
<1>4. rec' # Nil /\ Listed' = c.peers
  <2>1. rec' \in [ver : Nat, peers : SUBSET Peers]
    BY <1>1, <1>3, Zenon
  <2> QED BY <1>1, <2>1, NilAssumption, Zenon DEF Listed
<1>5. expiries = 0 => c.peers = Updated(c.op, p, Listed)
  <2> SUFFICES ASSUME expiries = 0 PROVE c.peers = Updated(c.op, p, Listed)
    BY Zenon
  <2>1. CallOK(p, t, c)
    BY Zenon DEF GInv, IInv
  <2>2. c.ver <= Version + 1 /\ (c.ver = Version + 1 => c.peers = Updated(c.op, p, Listed))
    BY <1>1, <2>1, Zenon DEF CallOK
  <2> HIDE DEF c
  <2>3. c.ver = Version + 1
    BY <1>1, <1>3, <2>2
  <2> QED BY <2>2, <2>3, Zenon
<1>6. /\ Ask(call[p][t])' \in {"done", "none"}
      /\ \A q \in Peers, s \in Threads : q # p \/ s # t => call'[q][s] = call[q][s]
  <2>1. CASE c.op = "add" /\ PublishGroup(p, t)
    <3> DEFINE d == [c EXCEPT !.pc = "cache"]
    <3>1. Set(p, t, d)
      BY <2>1, Zenon DEF PublishGroup
    <3>2. d \in Calls /\ d.pc = "cache"
      BY <1>t, Zenon DEF Calls
    <3> HIDE DEF d
    <3> QED BY <1>t, <3>1, <3>2, SetType DEF Ask
  <2>2. CASE ~(c.op = "add" /\ PublishGroup(p, t))
    <3>1. Finish(p, t)
      BY <2>2, Zenon DEF PublishGroup, ReplyLost
    <3> QED BY <1>t, <3>1, FinishType, Zenon DEF Ask
  <2> QED BY <2>1, <2>2, Zenon
<1>7. /\ Asked[<<p, t>>] = c.op
      /\ \E r \in {"done", "none"} : Asked' = [Asked EXCEPT ![<<p, t>>] = r]
  BY <1>2, <1>6, AskedStep, Zenon
<1>8. \/ expiries > 0 /\ Listed' \in SUBSET Peers
      \/ c.op = "add" /\ Listed' = Listed \cup {p}
      \/ c.op = "remove" /\ Listed' = Listed \ {p}
  BY <1>t, <1>2, <1>3, <1>4, <1>5 DEF Updated
<1> HIDE DEF c
<1>9. A!TakeEffect(p, t)
  BY <1>1, <1>2, <1>7, <1>8, Zenon DEF A!TakeEffect, Asked
<1> QED BY <1>9, Zenon DEF A!Next

LEMMA UpdateRefines ==
    ASSUME TInv, OInv, GInv, NEW p \in Peers, NEW t \in Threads, Update(p, t)
    PROVE  A!Next \/ UNCHANGED A!vars
<1> DEFINE c == call[p][t]
<1>t. TypeOK /\ c \in Calls
  BY Zenon DEF TInv, TypeOK
<1>1. CASE LookupGroup(p, t)
  <2>u. rec' = rec /\ expiries' = expiries /\ c.pc = "lookup"
    BY <1>1, Zenon DEF LookupGroup, loadCachedGroupRecord
  <2>1. CASE c.op = "remove" /\ rec = Nil
    <3>1. Finish(p, t)
      BY <1>1, <2>1, Zenon DEF LookupGroup, loadCachedGroupRecord
    <3> QED BY <1>t, <2>u, <3>1, FinishRefines, Zenon
  <2>2. CASE ~(c.op = "remove" /\ rec = Nil)
    <3>1. /\ call'[p][t].pc = "publish" /\ call'[p][t].op = c.op
          /\ \A q \in Peers, s \in Threads : q # p \/ s # t => call'[q][s] = call[q][s]
      BY <1>1, <1>t, <2>2, LookupType
    <3>2. Ask(call[p][t])' = Ask(call[p][t])
      BY <2>u, <3>1, Zenon DEF Ask
    <3> QED BY <2>u, <3>1, <3>2, StutterRefines, Zenon
  <2> QED BY <2>1, <2>2, Zenon
<1>2. CASE PublishGroup(p, t) \/ ReplyLost(p, t)
  BY <1>2, StoreRefines, Zenon
<1>3. CASE Conflict(p, t)
  <2>u. rec' = rec /\ expiries' = expiries /\ c.pc = "publish"
    BY <1>3, Zenon DEF Conflict
  <2>1. CASE c.attempt + 1 < MaxRetries
    <3> DEFINE d == [c EXCEPT !.pc = "lookup", !.peers = {}, !.ver = 0, !.attempt = c.attempt + 1]
    <3>1. call' = [call EXCEPT ![p][t] = d]
      BY <1>3, <2>1, Zenon DEF Conflict, Set
    <3>2. d.pc = "lookup" /\ d.op = c.op
      BY <1>t, Zenon DEF Calls
    <3> HIDE DEF d
    <3>3. /\ call'[p][t] = d
          /\ \A q \in Peers, s \in Threads : q # p \/ s # t => call'[q][s] = call[q][s]
      BY <1>t, <3>1, Zenon DEF TypeOK
    <3>4. Ask(call[p][t])' = Ask(call[p][t])
      BY <2>u, <3>2, <3>3, Zenon DEF Ask
    <3> QED BY <2>u, <3>3, <3>4, StutterRefines, Zenon
  <2>2. CASE ~(c.attempt + 1 < MaxRetries)
    <3>1. Finish(p, t)
      BY <1>3, <2>2, Zenon DEF Conflict
    <3> QED BY <1>t, <2>u, <3>1, FinishRefines, Zenon
  <2> QED BY <2>1, <2>2, Zenon
<1>4. CASE PublishFails(p, t) \/ cacheGroupRecord(p, t)
  <2>1. Finish(p, t) /\ rec' = rec /\ expiries' = expiries /\ c.pc # "idle"
    BY <1>4, Zenon DEF PublishFails, cacheGroupRecord
  <2> QED BY <1>t, <2>1, FinishRefines, Zenon
<1> QED BY <1>1, <1>2, <1>3, <1>4, Zenon DEF Update

LEMMA InitRefines == Init => A!Init
<1> SUFFICES ASSUME Init PROVE A!Init
  OBVIOUS
<1>1. \A p \in Peers, t \in Threads : Ask(call[p][t]) = "none"
  BY IdleCallType, Zenon DEF Init, Ask
<1>2. Asked = [x \in Peers \X Threads |-> "none"]
  BY <1>1, Zenon DEF Asked
<1> QED BY <1>2 DEF Init, A!Init, Asked, Listed

LEMMA NextRefines == TInv /\ OInv /\ GInv /\ [Next]_vars => [A!Next]_(A!vars)
<1> SUFFICES ASSUME TInv, OInv, GInv, [Next]_vars PROVE A!Next \/ UNCHANGED A!vars
  BY Zenon
<1>1. ASSUME NEW p \in Peers, JoinRing(p) \/ LeaveRing(p) \/ Republish(p) PROVE A!Next
  <2>1. /\ rec' = rec /\ expiries' = expiries
        /\ \E t \in Threads : /\ call[p][t].pc = "idle"
                              /\ \E op \in {"add", "remove"} : Begin(p, t, op)
    BY <1>1, Zenon DEF JoinRing, LeaveRing, Republish, Threads
  <2>2. PICK t \in Threads : /\ call[p][t].pc = "idle"
                             /\ \E op \in {"add", "remove"} : Begin(p, t, op)
    BY <2>1, Zenon
  <2>3. PICK op \in {"add", "remove"} : Begin(p, t, op)
    BY <2>2, Zenon
  <2>4. /\ call'[p][t].pc = "lookup" /\ call'[p][t].op = op
        /\ \A q \in Peers, s \in Threads : q # p \/ s # t => call'[q][s] = call[q][s]
    BY <2>3, BeginType DEF TInv
  <2>5. Ask(call[p][t]) = "none" /\ Ask(call[p][t])' = op
    BY <2>2, <2>4, Zenon DEF Ask
  <2>6. Asked[<<p, t>>] = "none" /\ Asked' = [Asked EXCEPT ![<<p, t>>] = op]
    BY <2>4, <2>5, AskedStep, Zenon
  <2>7. A!Invoke(p, t, op)
    BY <2>1, <2>6, Zenon DEF A!Invoke, Asked, Listed
  <2> QED BY <2>7, Zenon DEF A!Next
<1>2. ASSUME NEW p \in Peers, NEW t \in Threads, Update(p, t)
      PROVE  A!Next \/ UNCHANGED A!vars
  BY <1>2, UpdateRefines, Zenon
<1>3. CASE Expire
  <2>1. rec' = Nil /\ expiries' > 0 /\ Asked' = Asked
    BY <1>3, GroupAssumption DEF Expire, TInv, TypeOK, Asked
  <2>2. A!Lapse
    BY <2>1, Zenon DEF A!Lapse, Listed, Asked
  <2> QED BY <2>2, Zenon DEF A!Next
<1>4. CASE UNCHANGED vars
  BY <1>4, Zenon DEF vars, A!vars, Listed
<1> QED BY <1>1, <1>2, <1>3, <1>4, Zenon DEF Next

\* The loop of UpdateGroupRecord and removeFromGroupRecord implements a set with
\* atomic additions and removals, for any number of peers, retries and versions
\* (dht/private.go 164-252).
THEOREM GroupImplementsSet == Spec => A!Spec
  BY InitRefines, NextRefines, SpecTInv, SpecOInv, SpecGInv, PTL DEF Spec, A!Spec

\* The same, as the property the model checker examines.
THEOREM GroupUpdatesAtomic == Spec => UpdatesAtomic
  BY NextRefines, SpecTInv, SpecOInv, SpecGInv, PTL DEF Spec, UpdatesAtomic
----------------------------------------------------------------------------
\* The rings of one daemon.

FileSet == [Groups -> Quotas \cup {None}]
Starting == {"check", "quota", "listen", "insert"}
Saving == {"load", "truncate", "write"}
ReqRec == [pc : Starting \cup Saving \cup {"idle", "leave", "setquota"},
           op : {"none", "boot", "join", "leave", "quota"}, group : Groups \cup {None}, max : Quotas,
           inst : 0 .. MaxRings, snap : FileSet]

\* Which goroutine works on what: main starts rings, the others serve requests.
ReqOK(h, r) ==
    /\ r.pc = "idle" => r = Idle
    /\ r.pc # "idle" => r.group \in Groups /\ (r.op = "boot" <=> h = Main)
    /\ r.pc \in Starting => r.op \in {"boot", "join"}
    /\ r.pc = "leave" => r.op = "leave"
    /\ r.pc = "setquota" => r.op = "quota"
    /\ r.pc \in Saving => r.op \in {"join", "leave", "quota"}

RTypeOK ==
    /\ proc \in {"down", "starting", "up", "stopping"}
    /\ boot \subseteq Groups /\ leftRings \subseteq Groups /\ clash \subseteq Groups
    /\ rings \in [Groups -> 0 .. MaxRings] /\ provider \in [Groups -> 0 .. MaxRings]
    /\ infos \in [Groups -> Nat] /\ running \subseteq Instances
    /\ quota \in [Groups -> Quotas] /\ file \in FileSet \cup {Torn}
    /\ req \in [Routines -> ReqRec] /\ \A h \in Routines : ReqOK(h, req[h])
    /\ unsaved \in BOOLEAN

\* The requests at work on a group.
Works(rq, h, g) == rq[h].pc # "idle" /\ rq[h].group = g
Acting(rq, g) == IF \E h \in Routines : Works(rq, h, g) THEN {rq[h] : h \in {k \in Routines : Works(rq, k, g)}}
                 ELSE {Idle}

\* One request at a time works on a group outside clash.
Alone(rq, cl) == \A g \in Groups \ cl, h, k \in Routines : Works(rq, h, g) /\ Works(rq, k, g) => h = k

\* The instances a group has to do with; no two groups share one.
Owned(g, ri, pr, rq) == ({ri[g], pr[g]} \cup {rq[h].inst : h \in {k \in Routines : rq[k].group = g}}) \ {0}
Apart(ri, pr, rq) == \A g, x \in Groups : g # x => Owned(g, ri, pr, rq) \cap Owned(x, ri, pr, rq) = {}

\* The table, the list, the servers and the published address of a group r works on.
Fine(r, ri, inf, pr, run) ==
    /\ inf = IF ri = 0 THEN 0 ELSE 1
    /\ ri # 0 => ri \in run
    /\ r.pc \in {"quota", "listen", "insert", "leave"} => ri = 0
    /\ r.pc \in {"insert", "leave"} => r.inst \in run /\ pr = r.inst
    /\ r.pc \notin {"insert", "leave"} => pr = ri

\* A server that runs is one of the table, or that of a request at work.
Accounted(i, ri, rq) ==
    \E g \in Groups : ri[g] = i \/ \E r \in Acting(rq, g) : r.pc \in {"insert", "leave"} /\ r.inst = i

TableInv ==
    /\ Alone(req, clash)
    /\ Apart(rings, provider, req)
    /\ \A g \in Groups \ clash : \A r \in Acting(req, g) : Fine(r, rings[g], infos[g], provider[g], running)
    /\ clash = {} => \A i \in running : Accounted(i, rings, req)

\* What the file must say of a group: v is its entry, ri its instance, q its quota, lf whether it was left.
Good(ri, q, lf, v) == (ri # 0 => v \in {0, q}) /\ (lf => v = None)

\* The entry v of a group that r works on.
FileFine(r, ri, q, lf, v) ==
    /\ r.op = "boot" => v = r.max
    /\ r.pc \in {"listen", "insert", "load"} /\ r.op \in {"boot", "join"} => r.max \in {0, q}
    /\ r.pc = "load" => /\ r.op = "join" => ~lf
                        /\ r.op = "leave" => ri = 0
                        /\ r.op = "quota" => q = r.max /\ (ri # 0 => v # None) /\ (lf => v = None)
    /\ r.pc \notin {"leave", "load", "truncate"} => Good(ri, q, lf, v)
    /\ r.pc = "truncate" => Good(ri, q, lf, r.snap[r.group])

\* The file as it is, or as the request that has truncated it is going to write it.
Contents(fi, rq) == {f \in FileSet : f = fi \/ \E h \in Routines : rq[h].pc = "write" /\ rq[h].snap = f}

\* One request at a time writes the file.
WritersOK(fi, rq) ==
    /\ \A h, k \in Routines : rq[h].pc \in {"truncate", "write"} /\ rq[k].pc \in {"truncate", "write"} => h = k
    /\ fi = Torn <=> \E h \in Routines : rq[h].pc = "write"
    /\ \A h \in Routines : rq[h].pc = "truncate" => rq[h].snap = Changed(rq[h].op, fi, rq[h].group, rq[h].max)

FileInv ==
    ~unsaved =>
      /\ WritersOK(file, req)
      /\ \A g \in Groups \ clash : \A r \in Acting(req, g) : \A f \in Contents(file, req) :
           FileFine(r, rings[g], quota[g], g \in leftRings, f[g])

\* Nothing is left of the process but its disk.
Quiet ==
    /\ boot = {} /\ running = {} /\ leftRings = {} /\ clash = {}
    /\ \A g \in Groups : rings[g] = 0 /\ provider[g] = 0 /\ infos[g] = 0
    /\ \A h \in Routines : req[h] = Idle
    /\ file = Torn => unsaved

\* Requests are served after the start.
PhaseOK ==
    /\ proc = "starting" => \A h \in Handlers : req[h].pc = "idle"
    /\ proc = "starting" /\ boot # {} => file # Torn /\ \A g \in boot : file[g] # None
    /\ proc = "up" => req[Main].pc = "idle"

\* The inductive invariant.
RingsInv ==
    /\ RTypeOK
    /\ proc = "down" => Quiet
    /\ proc \in {"starting", "up"} => PhaseOK /\ TableInv /\ FileInv
----------------------------------------------------------------------------
\* Constants, and the record of a goroutine without a request.
LEMMA RingBasics ==
    /\ 0 \in Quotas /\ 0 \in 0 .. MaxRings /\ Main \in Routines /\ Empty \in FileSet
    /\ None \notin Groups /\ None \notin Quotas /\ Torn \notin FileSet
    /\ 0 \notin Instances /\ Instances \subseteq 0 .. MaxRings
    /\ \A i \in 0 .. MaxRings : i = 0 \/ i \in Instances
BY QuotasAssumption, MaxRingsAssumption, NoneAssumption DEF Routines, Empty, FileSet, Instances

LEMMA IdleFacts ==
    /\ Idle \in ReqRec /\ Idle.pc = "idle" /\ Idle.op = "none" /\ Idle.inst = 0 /\ Idle.group = None
    /\ \A h : ReqOK(h, Idle)
<1>1. Idle \in ReqRec /\ Idle.pc = "idle" /\ Idle.op = "none" /\ Idle.inst = 0 /\ Idle.group = None
  BY RingBasics DEF Idle, ReqRec
<1> QED  BY <1>1 DEF ReqOK, Starting, Saving

\* The record of a request that begins (BeginRequest), and which ones there are.
Opened(op, label, g, max, i) == [Idle EXCEPT !.pc = label, !.op = op, !.group = g, !.max = max, !.inst = i]
Opens(h, op, label) ==
    \/ label = "check" /\ op = "boot" /\ h = Main
    \/ h # Main /\ \/ label = "check" /\ op = "join"
                   \/ label = "leave" /\ op = "leave"
                   \/ label = "setquota" /\ op = "quota"

LEMMA BeginFacts ==
    ASSUME NEW h, NEW op, NEW label, Opens(h, op, label),
           NEW g \in Groups, NEW max \in Quotas, NEW i \in 0 .. MaxRings, NEW s, s = Opened(op, label, g, max, i)
    PROVE  /\ s \in ReqRec /\ s.pc = label /\ s.op = op /\ s.group = g /\ s.max = max /\ s.inst = i
           /\ ReqOK(h, s)
<1>1. label \in {"check", "leave", "setquota"} /\ op \in {"boot", "join", "leave", "quota"}  BY DEF Opens
<1>2. s \in ReqRec /\ s.pc = label /\ s.op = op /\ s.group = g /\ s.max = max /\ s.inst = i
  BY <1>1, RingBasics, Zenon DEF Opened, Idle, ReqRec, Starting, Saving
<1>3. ReqOK(h, s)
  <2> HIDE DEF Opened
  <2> QED  BY <1>2 DEF Opens, ReqOK, Starting, Saving
<1> QED  BY <1>2, <1>3, Zenon

\* The record of a request that moves on.
Moved(r, s, label) ==
    s \in ReqRec /\ s.pc = label /\ s.op = r.op /\ s.group = r.group /\ s.max = r.max

Labels == Starting \cup Saving \cup {"leave", "setquota"}

LEMMA GotoFacts ==
    ASSUME NEW r \in ReqRec, NEW label \in Labels
    PROVE  /\ Moved(r, [r EXCEPT !.pc = label], label)
           /\ [r EXCEPT !.pc = label].inst = r.inst /\ [r EXCEPT !.pc = label].snap = r.snap
<1> HIDE DEF FileSet, Starting, Saving
<1> QED  BY DEF ReqRec, Labels, Moved

LEMMA InstFacts ==
    ASSUME NEW r \in ReqRec, NEW label \in Labels, NEW i \in 0 .. MaxRings
    PROVE  Moved(r, [r EXCEPT !.pc = label, !.inst = i], label) /\ [r EXCEPT !.pc = label, !.inst = i].inst = i
<1> HIDE DEF FileSet, Starting, Saving
<1> QED  BY Zenon DEF ReqRec, Labels, Moved

\* What holds of a request at work.
LEMMA ReqFacts ==
    ASSUME RTypeOK, NEW h \in Routines
    PROVE  /\ req[h] \in ReqRec /\ ReqOK(h, req[h]) /\ (req[h].pc = "idle" => req[h] = Idle)
           /\ req[h].pc # "idle" => req[h].group \in Groups
           /\ req[h].max \in Quotas /\ req[h].inst \in 0 .. MaxRings /\ req[h].snap \in FileSet
<1>1. req[h] \in ReqRec /\ ReqOK(h, req[h])  BY Zenon DEF RTypeOK
<1>2. req[h].max \in Quotas /\ req[h].inst \in 0 .. MaxRings /\ req[h].snap \in FileSet
  <2> HIDE DEF FileSet, Starting, Saving
  <2> QED  BY <1>1 DEF ReqRec
<1> QED  BY <1>1, <1>2, Zenon DEF ReqOK

\* A step of h, on group g: its record becomes s.
Turn(h, g, s) ==
    /\ s \in ReqRec /\ ReqOK(h, s) /\ req' = [req EXCEPT ![h] = s]
    /\ s.pc = "idle" \/ s.group = g
    /\ \/ Works(req, h, g) /\ clash' = clash
       \/ /\ req[h].pc = "idle"
          /\ clash' = IF \E other \in Routines \ {h} : req[other].pc # "idle" /\ req[other].group = g
                      THEN clash \cup {g} ELSE clash

\* The other groups see nothing of it; on g it is the only request, unless two have met.
LEMMA TurnActing ==
    ASSUME RTypeOK, Alone(req, clash), NEW h \in Routines, NEW g \in Groups, NEW s, Turn(h, g, s)
    PROVE  /\ Alone(req', clash') /\ clash \subseteq clash' /\ clash' \subseteq clash \cup {g}
           /\ g \notin clash' => Acting(req, g) = {req[h]} /\ Acting(req', g) = {s}
           /\ \A x \in Groups \ {g} : Acting(req', x) = Acting(req, x)
           /\ req'[h] = s /\ \A k \in Routines \ {h} : req'[k] = req[k]
<1>1. req'[h] = s /\ \A k \in Routines \ {h} : req'[k] = req[k]
  BY Zenon DEF Turn, RTypeOK
<1>2. ReqOK(h, req[h]) /\ ReqOK(h, s)  BY ReqFacts, Zenon DEF Turn
<1>3. clash \subseteq clash' /\ clash' \subseteq clash \cup {g}  BY Zenon DEF Turn
<1>4. ASSUME NEW x \in Groups \ {g}, NEW k \in Routines
      PROVE  Works(req', k, x) <=> Works(req, k, x)
  <2>1. CASE k # h  BY <1>1, <2>1, Zenon DEF Works
  <2>2. CASE k = h
    <3>1. ~Works(req, h, x)  BY Zenon DEF Turn, Works
    <3>2. ~Works(req', h, x)  BY <1>1, Zenon DEF Turn, Works
    <3> QED  BY <2>2, <3>1, <3>2, Zenon
  <2> QED  BY <2>1, <2>2, Zenon
<1>5. \A x \in Groups \ {g} : ~Works(req, h, x)  BY Zenon DEF Turn, Works
<1>6. ASSUME NEW x \in Groups \ {g} PROVE Acting(req', x) = Acting(req, x)
  <2> DEFINE W == {k \in Routines : Works(req, k, x)}
             V == {k \in Routines : Works(req', k, x)}
  <2>1. V = W  BY <1>4, Zenon
  <2>2. \A k \in W : req'[k] = req[k]  BY <1>1, <1>5, Zenon
  <2> HIDE DEF V, W
  <2>3. {req'[k] : k \in V} = {req[k] : k \in W}  BY <2>1, <2>2, Zenon
  <2>4. (\E k \in Routines : Works(req', k, x)) <=> (\E k \in Routines : Works(req, k, x))  BY <1>4, Zenon
  <2> QED  BY <2>3, <2>4, Zenon DEF Acting, V, W
<1>7. ASSUME g \notin clash', NEW k \in Routines \ {h} PROVE ~Works(req, k, g) /\ ~Works(req', k, g)
  <2>1. ~Works(req, k, g)
    <3>1. CASE Works(req, h, g)  BY <1>3, <1>7, <3>1, Zenon DEF Alone
    <3>2. CASE req[h].pc = "idle"
      <4>1. ~Works(req, h, g)  BY <3>2, Zenon DEF Works
      <4> QED  BY <1>7, <4>1, Zenon DEF Turn, Works
    <3> QED  BY <3>1, <3>2, Zenon DEF Turn
  <2> QED  BY <1>1, <2>1, Zenon DEF Works
<1>8. ASSUME g \notin clash' PROVE Acting(req, g) = {req[h]}
  <2>1. CASE Works(req, h, g)
    <3>1. {k \in Routines : Works(req, k, g)} = {h}  BY <1>7, <1>8, <2>1, Zenon
    <3>2. {req[k] : k \in {h}} = {req[h]}  BY Zenon
    <3> QED  BY <2>1, <3>1, <3>2, Zenon DEF Acting
  <2>2. CASE ~Works(req, h, g)
    <3>1. req[h] = Idle  BY <2>2, ReqFacts, Zenon DEF Turn
    <3> QED  BY <1>7, <1>8, <2>2, <3>1, Zenon DEF Acting
  <2> QED  BY <2>1, <2>2, Zenon
<1>9. ASSUME g \notin clash' PROVE Acting(req', g) = {s}
  <2>1. CASE Works(req', h, g)
    <3>1. {k \in Routines : Works(req', k, g)} = {h}  BY <1>7, <1>9, <2>1, Zenon
    <3>2. {req'[k] : k \in {h}} = {s}  BY <1>1, Zenon
    <3> QED  BY <2>1, <3>1, <3>2, Zenon DEF Acting
  <2>2. CASE ~Works(req', h, g)
    <3>1. s = Idle  BY <1>1, <1>2, <2>2, Zenon DEF Turn, Works, ReqOK
    <3> QED  BY <1>7, <1>9, <2>2, <3>1, Zenon DEF Acting
  <2> QED  BY <2>1, <2>2, Zenon
<1>10. Alone(req', clash')
  <2> SUFFICES ASSUME NEW x \in Groups \ clash', NEW k \in Routines, NEW j \in Routines,
                      Works(req', k, x), Works(req', j, x)
               PROVE  k = j
    BY Zenon DEF Alone
  <2>1. CASE x = g  BY <1>7, <2>1, Zenon
  <2>2. CASE x # g  BY <1>3, <1>4, <2>2, Zenon DEF Alone
  <2> QED  BY <2>1, <2>2, Zenon
<1> QED  BY <1>1, <1>3, <1>6, <1>8, <1>9, <1>10, Zenon

\* A step on group g leaves the other groups alone; the instances N are none of theirs.
OthersKept(g, N) ==
    \A x \in Groups \ {g} : /\ rings'[x] = rings[x] /\ provider'[x] = provider[x] /\ infos'[x] = infos[x]
                            /\ \A i \in N : i \notin Owned(x, rings, provider, req)

\* The instances of g are its own, or among N.
OwnOrNew(g, s, N) ==
    \A i \in {rings'[g], provider'[g], s.inst} : i = 0 \/ i \in N \/ i \in Owned(g, rings, provider, req)

\* A server that stops is one of g.
ServersKept(g) == \A i \in running : i \in running' \/ i \in Owned(g, rings, provider, req)

\* No two groups share an instance after the step, when those that g has then are its own or new.
LEMMA TurnApart ==
    ASSUME RTypeOK, Alone(req, clash), Apart(rings, provider, req), NEW h \in Routines, NEW g \in Groups, NEW s,
           Turn(h, g, s), NEW N, OthersKept(g, N), OwnOrNew(g, s, N)
    PROVE  Apart(rings', provider', req')
<1>1. req'[h] = s /\ \A k \in Routines \ {h} : req'[k] = req[k]  BY TurnActing, Zenon
<1>2. s.group \notin Groups \ {g}
  <2>1. s.pc = "idle" => s.group = None  BY IdleFacts, Zenon DEF Turn, ReqOK
  <2> QED  BY <2>1, RingBasics, Zenon DEF Turn
<1>3. ASSUME NEW x \in Groups \ {g}
      PROVE  Owned(x, rings', provider', req') \subseteq Owned(x, rings, provider, req)
  <2>1. ASSUME NEW k \in Routines, req'[k].group = x PROVE req[k].group = x /\ req'[k].inst = req[k].inst
    BY <1>1, <1>2, <2>1, Zenon
  <2>2. rings'[x] = rings[x] /\ provider'[x] = provider[x]  BY Zenon DEF OthersKept
  <2> QED  BY <2>1, <2>2, Zenon DEF Owned
<1>4. Owned(g, rings', provider', req') \subseteq Owned(g, rings, provider, req) \cup N
  <2>1. ASSUME NEW i \in Owned(g, rings', provider', req') PROVE i \in Owned(g, rings, provider, req) \cup N
    <3>1. i # 0  BY Zenon DEF Owned
    <3>2. i = rings'[g] \/ i = provider'[g] \/ \E k \in Routines : req'[k].group = g /\ req'[k].inst = i
      BY Zenon DEF Owned
    <3>3. ASSUME NEW k \in Routines, req'[k].group = g, req'[k].inst = i
          PROVE  i = s.inst \/ i \in Owned(g, rings, provider, req)
      <4>1. CASE k = h  BY <1>1, <3>3, <4>1, Zenon
      <4>2. CASE k # h
        <5>1. req[k].group = g /\ req[k].inst = i  BY <1>1, <3>3, <4>2, Zenon
        <5> QED  BY <3>1, <5>1, Zenon DEF Owned
      <4> QED  BY <4>1, <4>2, Zenon
    <3>4. i \in {rings'[g], provider'[g], s.inst} \/ i \in Owned(g, rings, provider, req)
      BY <3>2, <3>3, Zenon
    <3>5. i \in {rings'[g], provider'[g], s.inst} => i \in N \/ i \in Owned(g, rings, provider, req)
      BY <3>1, Zenon DEF OwnOrNew
    <3> QED  BY <3>4, <3>5, Zenon
  <2> QED  BY <2>1, Zenon
<1>5. ASSUME NEW x \in Groups, NEW y \in Groups, x # y, NEW i,
             i \in Owned(x, rings', provider', req'), i \in Owned(y, rings', provider', req')
      PROVE  FALSE
  <2>1. \A z \in Groups \ {g} : 
          i \in Owned(z, rings', provider', req') => i \in Owned(z, rings, provider, req) /\ i \notin N
    BY <1>3, Zenon DEF OthersKept
  <2>2. CASE x = g  BY <1>4, <1>5, <2>1, <2>2, Zenon DEF Apart
  <2>3. CASE y = g  BY <1>4, <1>5, <2>1, <2>3, Zenon DEF Apart
  <2>4. CASE x # g /\ y # g  BY <1>5, <2>1, <2>4, Zenon DEF Apart
  <2> QED  BY <2>2, <2>3, <2>4, Zenon
<1> QED  BY <1>5, Zenon DEF Apart

\* g accounts for a server that runs.
AccountedBy(i, g, ri, rq) == ri[g] = i \/ \E r \in Acting(rq, g) : r.pc \in {"insert", "leave"} /\ r.inst = i

\* The table after a step on group g: only g needs looking at.
LEMMA TurnTable ==
    ASSUME RTypeOK, TableInv, NEW h \in Routines, NEW g \in Groups, NEW s, Turn(h, g, s), NEW N,
           OthersKept(g, N), OwnOrNew(g, s, N), ServersKept(g),
           g \notin clash' => /\ Fine(req[h], rings[g], infos[g], provider[g], running) =>
                                   Fine(s, rings'[g], infos'[g], provider'[g], running')
                              /\ \A i \in running' : \/ i \in running /\ ~AccountedBy(i, g, rings, req)
                                                     \/ AccountedBy(i, g, rings', req')
    PROVE  TableInv'
<1>1. /\ Alone(req', clash') /\ clash \subseteq clash'
      /\ g \notin clash' => Acting(req, g) = {req[h]} /\ Acting(req', g) = {s}
      /\ \A x \in Groups \ {g} : Acting(req', x) = Acting(req, x)
  BY TurnActing, ZenonT(30) DEF TableInv
<1>2. Apart(rings', provider', req')
  <2>1. Alone(req, clash) /\ Apart(rings, provider, req)  BY Zenon DEF TableInv
  <2> QED  BY <2>1, TurnApart, Zenon
<1>3. ASSUME NEW x \in Groups \ clash', NEW r \in Acting(req', x)
      PROVE  Fine(r, rings'[x], infos'[x], provider'[x], running')
  <2>1. CASE x = g
    <3>1. r = s /\ Acting(req, g) = {req[h]} /\ g \notin clash /\ g \notin clash'  BY <1>1, <2>1, Zenon
    <3>2. Fine(req[h], rings[g], infos[g], provider[g], running)  BY <3>1, Zenon DEF TableInv
    <3> QED  BY <2>1, <3>1, <3>2, Zenon
  <2>2. CASE x # g
    <3>1. x \in Groups \ clash /\ r \in Acting(req, x) /\ x \in Groups \ {g}  BY <1>1, <2>2, Zenon
    <3>2. Fine(r, rings[x], infos[x], provider[x], running)  BY <3>1, Zenon DEF TableInv
    <3>3. \A i \in running : i \in Owned(x, rings, provider, req) => i \in running'
      BY <2>2, <3>1, Zenon DEF TableInv, Apart, ServersKept
    <3>4. rings[x] # 0 => rings[x] \in Owned(x, rings, provider, req)  BY Zenon DEF Owned
    <3>5. r.pc \in {"insert", "leave"} /\ r.inst \in running => r.inst \in running'
      <4> SUFFICES ASSUME r.pc \in {"insert", "leave"}, r.inst \in running PROVE r.inst \in running'
        BY Zenon
      <4>1. r # Idle
        <5>1. "idle" \notin {"insert", "leave"}  OBVIOUS
        <5> QED  BY <5>1, IdleFacts, Zenon
      <4>2. \E k \in Routines : Works(req, k, x) /\ r = req[k]  BY <3>1, <4>1, Zenon DEF Acting
      <4>3. r.inst # 0  BY RingBasics, Zenon DEF RTypeOK
      <4>4. r.inst \in Owned(x, rings, provider, req)  BY <4>2, <4>3, Zenon DEF Owned, Works
      <4> QED  BY <3>3, <4>4, Zenon
    <3>6. rings'[x] = rings[x] /\ provider'[x] = provider[x] /\ infos'[x] = infos[x]
      BY <3>1, Zenon DEF OthersKept
    <3>7. Fine(r, rings[x], infos[x], provider[x], running')  BY <3>2, <3>3, <3>4, <3>5, Zenon DEF Fine
    <3> QED  BY <3>6, <3>7, Zenon
  <2> QED  BY <2>1, <2>2, Zenon
<1>4. ASSUME clash' = {}, NEW i \in running' PROVE Accounted(i, rings', req')
  <2>1. CASE AccountedBy(i, g, rings', req')  BY <2>1, Zenon DEF Accounted, AccountedBy
  <2>2. CASE i \in running /\ ~AccountedBy(i, g, rings, req)
    <3>1. clash = {}  BY <1>1, <1>4, Zenon
    <3>2. Accounted(i, rings, req)  BY <2>2, <3>1, Zenon DEF TableInv
    <3>3. PICK x \in Groups : AccountedBy(i, x, rings, req)  BY <3>2, Zenon DEF Accounted, AccountedBy
    <3>4. x \in Groups \ {g}  BY <2>2, <3>3, Zenon
    <3>5. rings'[x] = rings[x] /\ Acting(req', x) = Acting(req, x)  BY <1>1, <3>4, Zenon DEF OthersKept
    <3>6. AccountedBy(i, x, rings', req')  BY <3>3, <3>5, Zenon DEF AccountedBy
    <3> QED  BY <3>6, Zenon DEF Accounted, AccountedBy
  <2> QED  BY <1>4, <2>1, <2>2, Zenon
<1> QED  BY <1>1, <1>2, <1>3, <1>4, Zenon DEF TableInv

\* ... and a step that leaves the table and the servers alone.
LEMMA TurnTableSame ==
    ASSUME RTypeOK, TableInv, NEW h \in Routines, NEW g \in Groups, NEW s, Turn(h, g, s),
           UNCHANGED <<rings, infos, provider, running>>, s.inst \in {0, req[h].inst},
           req[h].pc \notin {"insert", "leave"}, s.pc \notin {"insert", "leave"},
           s.pc \in {"quota", "listen"} => rings[g] = 0 \/ req[h].pc \in {"quota", "listen"}
    PROVE  TableInv'
<1>1. OwnOrNew(g, s, {})
  <2>1. s.inst # 0 => req[h].group = g /\ s.inst = req[h].inst
    <3>1. CASE req[h].pc = "idle"  BY <3>1, IdleFacts, ReqFacts, Zenon
    <3>2. CASE req[h].pc # "idle"  BY <3>2, Zenon DEF Turn, Works
    <3> QED  BY <3>1, <3>2, Zenon
  <2> QED  BY <2>1, Zenon DEF Owned, OwnOrNew
<1>2. Fine(req[h], rings[g], infos[g], provider[g], running) =>
        Fine(s, rings'[g], infos'[g], provider'[g], running')
  BY Zenon DEF Fine
<1>3. ASSUME g \notin clash', NEW i \in running'
      PROVE  \/ i \in running /\ ~AccountedBy(i, g, rings, req)
             \/ AccountedBy(i, g, rings', req')
  <2>1. Acting(req, g) = {req[h]}  BY <1>3, TurnActing, Zenon DEF TableInv
  <2>2. AccountedBy(i, g, rings, req) => rings[g] = i  BY <2>1, Zenon DEF AccountedBy
  <2> QED  BY <2>2, Zenon DEF AccountedBy
<1>4. OthersKept(g, {}) /\ ServersKept(g)  BY Zenon DEF OthersKept, ServersKept
<1> QED  BY <1>1, <1>2, <1>3, <1>4, TurnTable, Zenon

\* The types after a step on group g.
LEMMA TurnType ==
    ASSUME RTypeOK, NEW h \in Routines, NEW g \in Groups, NEW s, Turn(h, g, s),
           proc' = proc, boot' \subseteq boot, leftRings' \subseteq leftRings \cup {g},
           rings' \in [Groups -> 0 .. MaxRings], provider' \in [Groups -> 0 .. MaxRings],
           infos' \in [Groups -> Nat], running' \subseteq Instances,
           quota' \in [Groups -> Quotas], file' \in FileSet \cup {Torn}, unsaved' \in BOOLEAN
    PROVE  RTypeOK'
<1>1. boot' \subseteq Groups /\ leftRings' \subseteq Groups /\ clash' \subseteq Groups /\ proc' = proc
  BY Zenon DEF RTypeOK, Turn
<1>2. req' \in [Routines -> ReqRec] /\ \A k \in Routines : ReqOK(k, req'[k])
  <2>1. req \in [Routines -> ReqRec] /\ \A k \in Routines : ReqOK(k, req[k])  BY Zenon DEF RTypeOK
  <2>2. req' = [req EXCEPT ![h] = s] /\ s \in ReqRec /\ ReqOK(h, s)  BY Zenon DEF Turn
  <2> HIDE DEF ReqOK
  <2> QED  BY <2>1, <2>2, Zenon
<1> QED  BY <1>1, <1>2, Zenon DEF RTypeOK

\* The phase of the process after it: before the service only main is at work, and then it is not.
LEMMA TurnPhase ==
    ASSUME RTypeOK, PhaseOK, NEW h \in Routines, NEW g \in Groups, NEW s, Turn(h, g, s),
           proc' = proc, boot' \subseteq boot,
           req[h].pc # "idle" \/ (proc = "up" /\ h \in Handlers) \/ (proc = "starting" /\ h = Main),
           proc = "starting" => file' = file
    PROVE  PhaseOK'
<1>1. req'[h] = s /\ \A k \in Routines \ {h} : req'[k] = req[k]
  BY Zenon DEF Turn, RTypeOK
<1>2. proc = "starting" => h = Main  BY Zenon DEF PhaseOK, Routines
<1>3. proc = "up" => h # Main
  <2>1. "up" # "starting"  OBVIOUS
  <2> QED  BY <2>1, MainAssumption, Zenon DEF PhaseOK
<1>4. \A k \in Handlers : k \in Routines /\ k # Main  BY MainAssumption, Zenon DEF Routines
<1>5. Main \in Routines  BY RingBasics, Zenon
<1>6. proc' = "starting" => \A k \in Handlers : req'[k].pc = "idle"  BY <1>1, <1>2, <1>4, Zenon DEF PhaseOK
<1>7. proc' = "up" => req'[Main].pc = "idle"  BY <1>1, <1>3, <1>5, Zenon DEF PhaseOK
<1>8. proc' = "starting" /\ boot' # {} => file' # Torn /\ \A x \in boot' : file'[x] # None
  BY Zenon DEF PhaseOK
<1> QED  BY <1>6, <1>7, <1>8, Zenon DEF PhaseOK

\* A step on group g leaves what the file is about alone, of the other groups.
OthersFiled(g) ==
    \A x \in Groups \ {g} : /\ rings'[x] = rings[x] /\ quota'[x] = quota[x]
                            /\ x \in leftRings' <=> x \in leftRings

\* The content f0 becomes f by a step of h on g.
Follows(h, g, s, f0, f) ==
    /\ \A x \in Groups \ {g} : f[x] = f0[x]
    /\ /\ g \notin clash'
       /\ FileFine(req[h], rings[g], quota[g], g \in leftRings, f0[g])
       => FileFine(s, rings'[g], quota'[g], g \in leftRings', f[g])

\* The groups file after a step on group g: for every content f there was a content f0 that only
\* differs from it at g.
LEMMA TurnFile ==
    ASSUME RTypeOK, Alone(req, clash), FileInv, NEW h \in Routines, NEW g \in Groups, NEW s, Turn(h, g, s),
           OthersFiled(g),
           unsaved => unsaved',
           ~unsaved' => WritersOK(file', req'),
           ~unsaved' => \A f \in Contents(file', req') : \E f0 \in Contents(file, req) : Follows(h, g, s, f0, f)
    PROVE  FileInv'
<1> SUFFICES ASSUME ~unsaved' PROVE /\ WritersOK(file', req')
      /\ \A x \in Groups \ clash' : \A r \in Acting(req', x) : \A f \in Contents(file', req') :
           FileFine(r, rings'[x], quota'[x], x \in leftRings', f[x])
  BY Zenon DEF FileInv
<1>1. ~unsaved  BY Zenon
<1>2. /\ clash \subseteq clash'
      /\ g \notin clash' => Acting(req, g) = {req[h]} /\ Acting(req', g) = {s}
      /\ \A x \in Groups \ {g} : Acting(req', x) = Acting(req, x)
  BY TurnActing, ZenonT(30)
<1>3. ASSUME NEW x \in Groups \ clash', NEW r \in Acting(req', x), NEW f \in Contents(file', req')
      PROVE  FileFine(r, rings'[x], quota'[x], x \in leftRings', f[x])
  <2>1. PICK f0 \in Contents(file, req) : Follows(h, g, s, f0, f)
    BY Zenon
  <2>2. x \notin clash  BY <1>2, Zenon
  <2>3. CASE x = g
    <3>1. r = s /\ req[h] \in Acting(req, g)  BY <1>2, <2>3, Zenon
    <3>2. FileFine(req[h], rings[g], quota[g], g \in leftRings, f0[g])
      BY <1>1, <2>2, <2>3, <3>1, Zenon DEF FileInv
    <3> QED  BY <2>1, <2>3, <3>1, <3>2, Zenon DEF Follows
  <2>4. CASE x # g
    <3>1. x \in Groups \ {g} /\ r \in Acting(req, x)  BY <1>2, <2>4, Zenon
    <3>2. FileFine(r, rings[x], quota[x], x \in leftRings, f0[x])  BY <1>1, <2>2, <3>1, Zenon DEF FileInv
    <3>3. rings'[x] = rings[x] /\ quota'[x] = quota[x] /\ f[x] = f0[x]
      BY <2>1, <3>1, Zenon DEF Follows, OthersFiled
    <3>4. x \in leftRings' <=> x \in leftRings  BY <3>1, Zenon DEF OthersFiled
    <3> QED  BY <3>2, <3>3, <3>4, Zenon DEF FileFine, Good
  <2> QED  BY <2>3, <2>4, Zenon
<1> QED  BY <1>3, Zenon

\* ... and a step that leaves the file alone, of a request that does not write.
LEMMA TurnFileSame ==
    ASSUME RTypeOK, Alone(req, clash), FileInv, NEW h \in Routines, NEW g \in Groups, NEW s, Turn(h, g, s),
           OthersFiled(g),
           unsaved' = unsaved, file' = file,
           req[h].pc \notin {"truncate", "write"}, s.pc \notin {"truncate", "write"},
           ~unsaved => \A f \in Contents(file, req) : Follows(h, g, s, f, f)
    PROVE  FileInv'
<1>1. req'[h] = s /\ \A k \in Routines \ {h} : req'[k] = req[k]  BY TurnActing, Zenon
<1>2. s.pc # "truncate" /\ s.pc # "write" /\ req[h].pc # "truncate" /\ req[h].pc # "write"  BY Zenon
<1>3. ASSUME NEW k \in Routines
      PROVE  /\ req'[k].pc = "truncate" <=> req[k].pc = "truncate"
             /\ req'[k].pc = "write" <=> req[k].pc = "write"
             /\ req[k].pc \in {"truncate", "write"} => req'[k] = req[k]
  <2>1. CASE k = h  BY <1>1, <1>2, <2>1, Zenon
  <2>2. CASE k # h  BY <1>1, <2>2, Zenon
  <2> QED  BY <2>1, <2>2, Zenon
<1>4. Contents(file', req') = Contents(file, req)
  <2>1. \A k \in Routines : req[k].pc = "write" => req'[k] = req[k]  BY <1>3, Zenon
  <2> QED  BY <1>3, <2>1, Zenon DEF Contents
<1>5. WritersOK(file, req) => WritersOK(file', req')
  <2>1. \A k \in Routines : req[k].pc = "truncate" => req'[k] = req[k]  BY <1>3, Zenon
  <2> QED  BY <1>3, <2>1, Zenon DEF WritersOK
<1>6. ~unsaved' => WritersOK(file', req')  BY <1>5, Zenon DEF FileInv
<1>7. ~unsaved' => \A f \in Contents(file', req') : \E f0 \in Contents(file, req) : Follows(h, g, s, f0, f)
  BY <1>4, Zenon
<1> QED  BY <1>6, <1>7, TurnFile, Zenon
----------------------------------------------------------------------------
\* The steps of the requests.

\* A request that returns.
LEMMA ReturnTurn ==
    ASSUME RTypeOK, NEW h \in Routines, req[h].pc # "idle", Return(h), clash' = clash
    PROVE  req[h].group \in Groups /\ Turn(h, req[h].group, Idle)
<1>1. req[h].group \in Groups  BY ReqFacts, Zenon
<1>2. req' = [req EXCEPT ![h] = Idle]  BY Zenon DEF Return
<1> QED  BY <1>1, <1>2, IdleFacts, Zenon DEF Turn, Works

\* A request that moves on.
LEMMA MoveTurn ==
    ASSUME RTypeOK, NEW h \in Routines, NEW s \in ReqRec, req[h].pc # "idle", s.pc # "idle",
           req' = [req EXCEPT ![h] = s], clash' = clash, s.group = req[h].group, s.op = req[h].op,
           \/ s.pc \in Starting /\ req[h].pc \in Starting
           \/ s.pc \in Saving /\ req[h].pc \in Saving \cup {"leave", "setquota"}
           \/ s.pc \in Saving /\ req[h].pc \in Starting /\ h # Main
    PROVE  req[h].group \in Groups /\ Turn(h, req[h].group, s)
<1>1. req[h].group \in Groups /\ ReqOK(h, req[h])  BY ReqFacts, Zenon
<1>2. ReqOK(h, s)  BY <1>1 DEF ReqOK, Starting, Saving
<1> QED  BY <1>1, <1>2, Zenon DEF Turn, Works

\* A request that begins.
LEMMA BeginTurn ==
    ASSUME RTypeOK, NEW h \in Routines, NEW op, NEW label, Opens(h, op, label),
           NEW g \in Groups, NEW max \in Quotas, NEW i \in 0 .. MaxRings,
           BeginRequest(h, op, label, g, max, i)
    PROVE  \E s : /\ Turn(h, g, s) /\ req[h] = Idle
                 /\ s.pc = label /\ s.op = op /\ s.group = g /\ s.max = max /\ s.inst = i
<1> DEFINE s == Opened(op, label, g, max, i)
<1>1. s \in ReqRec /\ s.pc = label /\ s.op = op /\ s.group = g /\ s.max = max /\ s.inst = i /\ ReqOK(h, s)
  BY BeginFacts
<1>2. req[h].pc = "idle" /\ req' = [req EXCEPT ![h] = s]  BY Zenon DEF BeginRequest, Opened
<1> HIDE DEF s
<1>3. req[h] = Idle  BY <1>2, ReqFacts, Zenon
<1>4. Turn(h, g, s)  BY <1>1, <1>2, Zenon DEF BeginRequest, Turn
<1> QED  BY <1>1, <1>3, <1>4, Zenon

\* What the invariant says of the group a request works on.
LEMMA ActingFine ==
    ASSUME TableInv, NEW h \in Routines, NEW g \in Groups, Works(req, h, g), g \notin clash
    PROVE  Fine(req[h], rings[g], infos[g], provider[g], running)
<1>1. req[h] \in Acting(req, g)  BY Zenon DEF Acting
<1> QED  BY <1>1, Zenon DEF TableInv

\* No request is at work while the process is down.
LEMMA AtWork ==
    ASSUME RingsInv, NEW h \in Routines, req[h].pc # "idle"
    PROVE  RTypeOK /\ proc # "down" /\ req[h].group \in Groups /\ Works(req, h, req[h].group)
<1>1. RTypeOK  BY Zenon DEF RingsInv
<1>2. proc # "down"  BY IdleFacts, Zenon DEF RingsInv, Quiet
<1> QED  BY <1>1, <1>2, ReqFacts, Zenon DEF Works

\* The parts make the whole.
LEMMA TurnInv ==
    ASSUME RingsInv, proc' = proc, proc # "down", RTypeOK',
           PhaseOK /\ TableInv /\ FileInv => PhaseOK' /\ TableInv' /\ FileInv'
    PROVE  RingsInv'
BY Zenon DEF RingsInv

\* handleRingJoin and SetRingQuota: a request comes in, and nothing else changes.
LEMMA ArriveOK ==
    ASSUME RingsInv, NEW h \in Handlers, NEW g \in Groups, NEW max \in Quotas,
           handleRingJoin(h, g, max) \/ SetRingQuota(h, g, max)
    PROVE  RingsInv'
<1>1. proc = "up" /\ UNCHANGED <<memory, quota, file, leftRings, unsaved>>
  BY Zenon DEF handleRingJoin, SetRingQuota
<1>2. /\ UNCHANGED <<proc, boot, rings, infos, running, provider>>
      /\ UNCHANGED <<quota, file, leftRings, unsaved>>
  BY <1>1, Zenon DEF memory, table
<1>3. h \in Routines /\ h # Main /\ RTypeOK  BY MainAssumption, Zenon DEF Routines, RingsInv
<1>4. \E s : Turn(h, g, s) /\ req[h] = Idle /\ s.pc \in {"check", "setquota"} /\ s.op # "boot" /\ s.inst = 0
  <2>1. CASE handleRingJoin(h, g, max)
    <3>1. BeginRequest(h, "join", "check", g, max, 0)  BY <2>1, Zenon DEF handleRingJoin
    <3>2. Opens(h, "join", "check")  BY <1>3, Zenon DEF Opens
    <3>3. \E s : Turn(h, g, s) /\ req[h] = Idle /\ s.pc = "check" /\ s.op = "join" /\ s.inst = 0
      BY <1>3, <3>1, <3>2, BeginTurn, RingBasics
    <3>4. "join" # "boot"  OBVIOUS
    <3> QED  BY <3>3, <3>4, Zenon
  <2>2. CASE SetRingQuota(h, g, max)
    <3>1. BeginRequest(h, "quota", "setquota", g, max, 0)  BY <2>2, Zenon DEF SetRingQuota
    <3>2. Opens(h, "quota", "setquota")  BY <1>3, Zenon DEF Opens
    <3>3. \E s : Turn(h, g, s) /\ req[h] = Idle /\ s.pc = "setquota" /\ s.op = "quota" /\ s.inst = 0
      BY <1>3, <3>1, <3>2, BeginTurn, RingBasics
    <3>4. "quota" # "boot"  OBVIOUS
    <3> QED  BY <3>3, <3>4, Zenon
  <2> QED  BY <2>1, <2>2, Zenon
<1>5. PICK s : Turn(h, g, s) /\ req[h] = Idle /\ s.pc \in {"check", "setquota"} /\ s.op # "boot" /\ s.inst = 0
  BY <1>4, Zenon
<1>6. /\ s.pc \notin {"insert", "leave"} /\ s.pc \notin {"quota", "listen"} /\ s.pc \notin {"truncate", "write"}
      /\ s.pc # "load" /\ s.pc \notin {"listen", "insert", "load"} /\ s.pc \notin {"leave", "load", "truncate"}
      /\ req[h].pc \notin {"insert", "leave"} /\ req[h].pc \notin {"truncate", "write"}
      /\ req[h].pc \notin {"leave", "load", "truncate"} /\ s.pc # "truncate"
  BY <1>5, IdleFacts
<1>7. RTypeOK'  BY <1>2, <1>3, <1>5, TurnType, Zenon DEF RTypeOK
<1>8. ASSUME PhaseOK, TableInv, FileInv PROVE PhaseOK' /\ TableInv' /\ FileInv'
  <2>1. PhaseOK'
    <3>1. "up" # "starting"  OBVIOUS
    <3> QED  BY <1>1, <1>2, <1>3, <1>5, <1>8, <3>1, TurnPhase, Zenon
  <2>2. TableInv'
    <3>1. s.inst \in {0, req[h].inst}  BY <1>5, Zenon
    <3> QED  BY <1>2, <1>3, <1>5, <1>6, <1>8, <3>1, TurnTableSame, Zenon
  <2>3. OthersFiled(g)  BY <1>2, Zenon DEF OthersFiled
  <2>4. \A f : Follows(h, g, s, f, f)
    BY <1>2, <1>5, <1>6, Zenon DEF Follows, FileFine
  <2>5. FileInv'
    <3>1. Alone(req, clash)  BY <1>8, Zenon DEF TableInv
    <3> QED  BY <1>2, <1>3, <1>5, <1>6, <1>8, <2>3, <2>4, <3>1, TurnFileSame, Zenon
  <2> QED  BY <2>1, <2>2, <2>5, Zenon
<1>9. proc # "down"
  <2>1. "up" # "down"  OBVIOUS
  <2> QED  BY <1>1, <2>1, Zenon
<1> QED  BY <1>2, <1>7, <1>8, <1>9, TurnInv, Zenon

\* BootRing: main starts a group of the file, with the limit that it gives.
LEMMA BootRingOK ==
    ASSUME RingsInv, NEW g \in Groups, BootRing(g)
    PROVE  RingsInv'
<1>1. /\ proc = "starting" /\ g \in boot /\ boot' = boot \ {g}
      /\ BeginRequest(Main, "boot", "check", g, file[g], 0)
      /\ UNCHANGED <<proc, rings, infos, running, provider>>
      /\ UNCHANGED <<quota, file, leftRings, unsaved>>
  BY Zenon DEF BootRing, table
<1>2. Main \in Routines /\ RTypeOK  BY RingBasics, Zenon DEF RingsInv
<1>3. PhaseOK  BY <1>1, Zenon DEF RingsInv
<1>4. file \in FileSet /\ file[g] \in Quotas
  BY <1>1, <1>2, <1>3, Zenon DEF PhaseOK, RTypeOK, FileSet
<1>5. Opens(Main, "boot", "check")  BY Zenon DEF Opens
<1>6. PICK s : /\ Turn(Main, g, s) /\ req[Main] = Idle
               /\ s.pc = "check" /\ s.op = "boot" /\ s.inst = 0 /\ s.max = file[g]
  BY <1>1, <1>2, <1>4, <1>5, BeginTurn, RingBasics, SMTT(20)
<1>7. /\ s.pc \notin {"insert", "leave"} /\ s.pc \notin {"quota", "listen"} /\ s.pc \notin {"truncate", "write"}
      /\ s.pc # "load" /\ s.pc \notin {"listen", "insert", "load"} /\ s.pc \notin {"leave", "load", "truncate"}
      /\ req[Main].pc \notin {"insert", "leave"} /\ req[Main].pc \notin {"truncate", "write"}
      /\ req[Main].pc \notin {"leave", "load", "truncate"} /\ s.pc # "truncate"
  BY <1>6, IdleFacts
<1>8. RTypeOK'
  <2>1. boot' \subseteq boot  BY <1>1, Zenon
  <2> QED  BY <1>1, <1>2, <1>6, <2>1, TurnType, Zenon DEF RTypeOK
<1>9. ASSUME TableInv, FileInv PROVE PhaseOK' /\ TableInv' /\ FileInv'
  <2>1. PhaseOK'
    <3>1. boot' \subseteq boot  BY <1>1, Zenon
    <3> QED  BY <1>1, <1>2, <1>3, <1>6, <3>1, TurnPhase, Zenon
  <2>2. TableInv'
    <3>1. s.inst \in {0, req[Main].inst}  BY <1>6, Zenon
    <3> QED  BY <1>1, <1>2, <1>6, <1>7, <1>9, <3>1, TurnTableSame, Zenon
  <2>3. OthersFiled(g)  BY <1>1, Zenon DEF OthersFiled
  <2>4. \A f \in Contents(file, req) : f = file
    <3>1. \A h \in Routines : req[h].pc = "idle"  BY <1>1, <1>3, <1>6, IdleFacts, Zenon DEF PhaseOK, Routines
    <3>2. "idle" # "write"  OBVIOUS
    <3> QED  BY <3>1, <3>2, Zenon DEF Contents
  <2>5. \A f \in Contents(file, req) : Follows(Main, g, s, f, f)
    BY <1>1, <1>6, <1>7, <2>4, Zenon DEF Follows, FileFine
  <2>6. FileInv'
    <3>1. Alone(req, clash)  BY <1>9, Zenon DEF TableInv
    <3> QED  BY <1>1, <1>2, <1>6, <1>7, <1>9, <2>3, <2>5, <3>1, TurnFileSame, Zenon
  <2> QED  BY <2>1, <2>2, <2>6, Zenon
<1>10. proc # "down" /\ proc' = proc
  <2>1. "starting" # "down"  OBVIOUS
  <2> QED  BY <1>1, <2>1, Zenon
<1> QED  BY <1>8, <1>9, <1>10, TurnInv, Zenon

\* A step that leaves the table, the servers and the file alone.
LEMMA LocalOK ==
    ASSUME RingsInv, NEW h \in Routines, NEW s, NEW g \in Groups, g = req[h].group, req[h].pc # "idle",
           Turn(h, g, s),
           UNCHANGED <<proc, boot, rings, infos, running, provider>>, UNCHANGED <<file, leftRings, unsaved>>,
           quota' \in [Groups -> Quotas], \A x \in Groups \ {g} : quota'[x] = quota[x],
           s.inst \in {0, req[h].inst},
           req[h].pc \notin {"insert", "leave", "truncate", "write"},
           s.pc \notin {"insert", "leave", "truncate", "write"},
           s.pc \in {"quota", "listen"} => rings[g] = 0 \/ req[h].pc \in {"quota", "listen"},
           \A v \in Quotas \cup {None} :
             /\ Fine(req[h], rings[g], infos[g], provider[g], running)
             /\ FileFine(req[h], rings[g], quota[g], g \in leftRings, v)
             => FileFine(s, rings[g], quota'[g], g \in leftRings, v)
    PROVE  RingsInv'
<1>1. RTypeOK /\ proc # "down" /\ Works(req, h, g)  BY AtWork, Zenon
<1>2. /\ req[h].pc \notin {"insert", "leave"} /\ s.pc \notin {"insert", "leave"}
      /\ req[h].pc \notin {"truncate", "write"} /\ s.pc \notin {"truncate", "write"}
  BY Zenon
<1>3. RTypeOK'
  <2>1. /\ boot' \subseteq boot /\ leftRings' \subseteq leftRings \cup {g}
        /\ rings' \in [Groups -> 0 .. MaxRings] /\ provider' \in [Groups -> 0 .. MaxRings]
        /\ infos' \in [Groups -> Nat] /\ running' \subseteq Instances
        /\ file' \in FileSet \cup {Torn} /\ unsaved' \in BOOLEAN
    BY <1>1, Zenon DEF RTypeOK
  <2> QED  BY <1>1, <2>1, TurnType, Zenon
<1>4. ASSUME PhaseOK, TableInv, FileInv PROVE PhaseOK' /\ TableInv' /\ FileInv'
  <2>1. PhaseOK'
    <3>1. proc' = proc /\ file' = file /\ boot' \subseteq boot  BY Zenon
    <3> QED  BY <1>1, <1>4, <3>1, TurnPhase, Zenon
  <2>2. TableInv'
    <3>1. UNCHANGED <<rings, infos, provider, running>>  BY Zenon
    <3> QED  BY <1>1, <1>2, <1>4, <3>1, TurnTableSame, Zenon
  <2>3. Alone(req, clash)  BY <1>4, Zenon DEF TableInv
  <2>4. OthersFiled(g)  BY Zenon DEF OthersFiled
  <2>5. \A f \in Contents(file, req) : Follows(h, g, s, f, f)
    <3> SUFFICES ASSUME NEW f \in Contents(file, req), g \notin clash',
                        FileFine(req[h], rings[g], quota[g], g \in leftRings, f[g])
                 PROVE  FileFine(s, rings[g], quota'[g], g \in leftRings, f[g])
      BY Zenon DEF Follows
    <3>1. f[g] \in Quotas \cup {None}  BY Zenon DEF Contents, FileSet
    <3>2. g \notin clash  BY <1>1, <2>3, TurnActing, Zenon
    <3>3. Fine(req[h], rings[g], infos[g], provider[g], running)  BY <1>1, <1>4, <3>2, ActingFine, Zenon
    <3> QED  BY <3>1, <3>3, Zenon
  <2>6. FileInv'
    <3>1. file' = file /\ unsaved' = unsaved  BY Zenon
    <3> QED  BY <1>1, <1>2, <1>4, <2>3, <2>4, <2>5, <3>1, TurnFileSame, Zenon
  <2> QED  BY <2>1, <2>2, <2>6, Zenon
<1> QED  BY <1>1, <1>3, <1>4, TurnInv, Zenon

\* CheckExists, ApplyQuota, SetQuota and ListenFails.
LEMMA LocalStepsOK ==
    ASSUME RingsInv, NEW h \in Routines, CheckExists(h) \/ ApplyQuota(h) \/ SetQuota(h) \/ ListenFails(h)
    PROVE  RingsInv'
<1> DEFINE g == req[h].group
           r == req[h]
<1>1. r.pc \in {"check", "quota", "setquota", "listen"}
  BY Zenon DEF CheckExists, ApplyQuota, SetQuota, ListenFails
<1>2. r.pc # "idle" /\ r.pc \notin {"insert", "leave", "truncate", "write"}  BY <1>1
<1>3. RTypeOK /\ g \in Groups  BY <1>2, AtWork, Zenon
<1>4. r \in ReqRec /\ r.max \in Quotas /\ r.inst \in 0 .. MaxRings /\ r.snap \in FileSet /\ ReqOK(h, r)
  BY <1>3, ReqFacts, Zenon
<1>5. /\ UNCHANGED <<proc, boot, rings, infos, running, provider>> /\ UNCHANGED <<file, leftRings, unsaved>>
      /\ clash' = clash
  BY Zenon DEF CheckExists, ApplyQuota, SetQuota, ListenFails, memory, table, ringGhosts
<1>6. quota \in [Groups -> Quotas]  BY <1>3, Zenon DEF RTypeOK
<1>7. quota' \in [Groups -> Quotas] /\ \A x \in Groups \ {g} : quota'[x] = quota[x]
  BY <1>3, <1>4, <1>6, Zenon DEF CheckExists, ApplyQuota, SetQuota, ListenFails
<1>8. CASE Return(h) /\ quota' = quota
  <2>1. Turn(h, g, Idle)  BY <1>2, <1>3, <1>5, <1>8, ReturnTurn, Zenon
  <2>2. /\ Idle.pc \notin {"insert", "leave", "truncate", "write"} /\ Idle.pc \notin {"quota", "listen"}
        /\ Idle.pc \notin {"listen", "insert", "load"} /\ Idle.pc # "load" /\ Idle.pc # "truncate"
        /\ Idle.op # "boot" /\ Idle.inst \in {0, r.inst} /\ r.pc \notin {"leave", "load", "truncate"}
    BY <1>1, IdleFacts
  <2>3. \A v : FileFine(r, rings[g], quota[g], g \in leftRings, v) =>
                 FileFine(Idle, rings[g], quota'[g], g \in leftRings, v)
    BY <1>8, <2>2, Zenon DEF FileFine
  <2> HIDE DEF g, r
  <2> QED  BY <1>2, <1>3, <1>5, <1>7, <2>1, <2>2, <2>3, LocalOK, Zenon DEF g, r
<1>9. ASSUME CheckExists(h), Goto(h, "quota"), rings[g] = 0, quota' = quota PROVE RingsInv'
  <2> DEFINE s == [r EXCEPT !.pc = "quota"]
  <2>1. /\ s \in ReqRec /\ s.pc = "quota" /\ s.op = r.op /\ s.group = r.group /\ s.max = r.max
        /\ s.inst = r.inst
    <3>1. "quota" \in Labels  BY DEF Labels, Starting
    <3> QED  BY <1>4, <3>1, GotoFacts, Zenon DEF Moved
  <2>2. r.pc = "check"  BY <1>9, Zenon DEF CheckExists
  <2>3. req' = [req EXCEPT ![h] = s]  BY <1>9 DEF Goto
  <2> HIDE DEF s
  <2>4. Turn(h, g, s)
    <3>1. s.pc \in Starting /\ r.pc \in Starting /\ s.pc # "idle"  BY <2>1, <2>2 DEF Starting
    <3> QED  BY <1>2, <1>3, <1>5, <2>1, <2>3, <3>1, MoveTurn, Zenon
  <2>5. /\ s.pc \notin {"insert", "leave", "truncate", "write"}
        /\ s.pc \notin {"listen", "insert", "load"} /\ s.pc # "load" /\ s.pc # "truncate"
        /\ s.inst \in {0, r.inst} /\ r.pc \notin {"leave", "load", "truncate"}
    BY <1>1, <2>1
  <2>6. \A v : FileFine(r, rings[g], quota[g], g \in leftRings, v) =>
                 FileFine(s, rings[g], quota'[g], g \in leftRings, v)
    BY <1>9, <2>1, <2>5, Zenon DEF FileFine
  <2> HIDE DEF g, r
  <2> QED  BY <1>2, <1>3, <1>5, <1>7, <1>9, <2>4, <2>5, <2>6, LocalOK, Zenon DEF g, r
<1>10. ASSUME ApplyQuota(h), Goto(h, "listen"),
              quota' = IF r.max > 0 THEN [quota EXCEPT ![g] = r.max] ELSE quota
       PROVE  RingsInv'
  <2> DEFINE s == [r EXCEPT !.pc = "listen"]
  <2>1. /\ s \in ReqRec /\ s.pc = "listen" /\ s.op = r.op /\ s.group = r.group /\ s.max = r.max
        /\ s.inst = r.inst
    <3>1. "listen" \in Labels  BY DEF Labels, Starting
    <3> QED  BY <1>4, <3>1, GotoFacts, Zenon DEF Moved
  <2>2. r.pc = "quota"  BY <1>10, Zenon DEF ApplyQuota
  <2>3. req' = [req EXCEPT ![h] = s]  BY <1>10 DEF Goto
  <2> HIDE DEF s
  <2>4. Turn(h, g, s)
    <3>1. s.pc \in Starting /\ r.pc \in Starting /\ s.pc # "idle"  BY <2>1, <2>2 DEF Starting
    <3> QED  BY <1>2, <1>3, <1>5, <2>1, <2>3, <3>1, MoveTurn, Zenon
  <2>5. /\ s.pc \notin {"insert", "leave", "truncate", "write"}
        /\ s.pc # "load" /\ s.pc # "truncate" /\ s.inst \in {0, r.inst}
        /\ r.pc \notin {"leave", "load", "truncate"} /\ r.pc \in {"quota", "listen"}
        /\ r.pc \in {"quota", "listen", "insert", "leave"}
    BY <1>1, <2>1, <2>2
  <2>6. s.max \in {0, quota'[g]}
    <3>1. r.max \in Nat /\ (r.max > 0 => quota'[g] = r.max)  BY <1>3, <1>4, <1>6, <1>10, QuotasAssumption, Zenon
    <3> QED  BY <2>1, <3>1
  <2>7. \A v : /\ Fine(r, rings[g], infos[g], provider[g], running)
               /\ FileFine(r, rings[g], quota[g], g \in leftRings, v)
               => FileFine(s, rings[g], quota'[g], g \in leftRings, v)
    BY <2>1, <2>5, <2>6, Zenon DEF FileFine, Fine, Good
  <2> HIDE DEF g, r
  <2> QED  BY <1>2, <1>3, <1>5, <1>7, <2>4, <2>5, <2>7, LocalOK, Zenon DEF g, r
<1>11. ASSUME SetQuota(h), Goto(h, "load"), quota' = [quota EXCEPT ![g] = r.max] PROVE RingsInv'
  <2> DEFINE s == [r EXCEPT !.pc = "load"]
  <2>1. /\ s \in ReqRec /\ s.pc = "load" /\ s.op = r.op /\ s.group = r.group /\ s.max = r.max
        /\ s.inst = r.inst
    <3>1. "load" \in Labels  BY DEF Labels, Saving
    <3> QED  BY <1>4, <3>1, GotoFacts, Zenon DEF Moved
  <2>2. r.pc = "setquota"  BY <1>11, Zenon DEF SetQuota
  <2>3. req' = [req EXCEPT ![h] = s]  BY <1>11 DEF Goto
  <2> HIDE DEF s
  <2>4. Turn(h, g, s)
    <3>1. s.pc \in Saving /\ r.pc \in Saving \cup {"leave", "setquota"} /\ s.pc # "idle"
      BY <2>1, <2>2 DEF Saving
    <3> QED  BY <1>2, <1>3, <1>5, <2>1, <2>3, <3>1, MoveTurn, Zenon
  <2>5. /\ s.pc \notin {"insert", "leave", "truncate", "write"} /\ s.pc \notin {"quota", "listen"}
        /\ s.pc # "truncate" /\ s.inst \in {0, r.inst} /\ s.pc \in {"leave", "load", "truncate"}
        /\ r.pc \notin {"leave", "load", "truncate"}
    BY <1>1, <2>1
  <2>6. r.op = "quota" /\ r.op \notin {"boot", "join"} /\ r.op # "boot" /\ r.op # "join" /\ r.op # "leave"
    <3>1. r.op = "quota"  BY <1>4, <2>2, Zenon DEF ReqOK
    <3> QED  BY <3>1
  <2>7. quota'[g] = r.max  BY <1>3, <1>6, <1>11, Zenon
  <2>8. quota[g] # None /\ 0 # None  BY <1>3, <1>6, RingBasics, Zenon
  <2>9. \A v : FileFine(r, rings[g], quota[g], g \in leftRings, v) =>
                 FileFine(s, rings[g], quota'[g], g \in leftRings, v)
    BY <2>1, <2>5, <2>6, <2>7, <2>8, Zenon DEF FileFine, Good
  <2> HIDE DEF g, r
  <2> QED  BY <1>2, <1>3, <1>5, <1>7, <2>4, <2>5, <2>9, LocalOK, Zenon DEF g, r
<1> QED  BY <1>8, <1>9, <1>10, <1>11, Zenon DEF CheckExists, ApplyQuota, SetQuota, ListenFails

\* StartServer: a new instance answers, and its address is published.
LEMMA StartServerOK ==
    ASSUME RingsInv, NEW h \in Routines, StartServer(h)
    PROVE  RingsInv'
<1> DEFINE g == req[h].group
           r == req[h]
<1>1. PICK i \in Instances \ InUse : /\ running' = running \cup {i}
                                     /\ provider' = [provider EXCEPT ![g] = i]
                                     /\ req' = [req EXCEPT ![h].pc = "insert", ![h].inst = i]
  BY Zenon DEF StartServer
<1>2. /\ r.pc = "listen" /\ UNCHANGED <<proc, boot, rings, infos>>
      /\ UNCHANGED <<quota, file, leftRings, unsaved>> /\ clash' = clash
  BY Zenon DEF StartServer, table, ringGhosts
<1>3. r.pc # "idle"  BY <1>2
<1>4. RTypeOK /\ proc # "down" /\ g \in Groups /\ Works(req, h, g)  BY <1>3, AtWork, Zenon
<1>5. r \in ReqRec  BY <1>4, ReqFacts, Zenon
<1>6. i \in 0 .. MaxRings /\ i # 0 /\ i \in Instances  BY RingBasics, Zenon
<1> DEFINE s == [r EXCEPT !.pc = "insert", !.inst = i]
<1>7. s \in ReqRec /\ s.pc = "insert" /\ s.op = r.op /\ s.group = g /\ s.max = r.max /\ s.inst = i
  <2>1. "insert" \in Labels  BY SMTT(20) DEF Labels, Starting
  <2>2. Moved(r, s, "insert") /\ s.inst = i  BY <1>5, <1>6, <2>1, InstFacts, ZenonT(30)
  <2> QED  BY <2>2, Zenon DEF Moved
<1>8. req' = [req EXCEPT ![h] = s]  BY <1>1, Zenon
<1> HIDE DEF s
<1>9. Turn(h, g, s)
  <2>1. s.pc \in Starting /\ r.pc \in Starting /\ s.pc # "idle"  BY <1>2, <1>7 DEF Starting
  <2> QED  BY <1>2, <1>3, <1>4, <1>7, <1>8, <2>1, MoveTurn, Zenon
<1>10. \A x \in Groups : rings[x] # i /\ provider[x] # i  BY Zenon DEF InUse
<1>11. \A k \in Routines : req[k].inst # i  BY Zenon DEF InUse
<1>12. \A x \in Groups : i \notin Owned(x, rings, provider, req)  BY <1>10, <1>11, Zenon DEF Owned
<1>13. provider'[g] = i /\ \A x \in Groups \ {g} : provider'[x] = provider[x]
  <2>1. provider \in [Groups -> 0 .. MaxRings]  BY <1>4, Zenon DEF RTypeOK
  <2> QED  BY <1>1, <1>4, <2>1, Zenon
<1>14. RTypeOK'
  <2>1. /\ boot' \subseteq boot /\ leftRings' \subseteq leftRings \cup {g}
        /\ rings' \in [Groups -> 0 .. MaxRings] /\ infos' \in [Groups -> Nat]
        /\ quota' \in [Groups -> Quotas] /\ file' \in FileSet \cup {Torn} /\ unsaved' \in BOOLEAN
    BY <1>2, <1>4, Zenon DEF RTypeOK
  <2>2. provider' \in [Groups -> 0 .. MaxRings]  BY <1>1, <1>4, <1>6, Zenon DEF RTypeOK
  <2>3. running' \subseteq Instances  BY <1>1, <1>4, <1>6, Zenon DEF RTypeOK
  <2>4. proc' = proc  BY <1>2, Zenon
  <2> QED  BY <1>4, <1>9, <2>1, <2>2, <2>3, <2>4, TurnType, Zenon
<1>15. ASSUME PhaseOK, TableInv, FileInv PROVE PhaseOK' /\ TableInv' /\ FileInv'
  <2>1. PhaseOK'
    <3>1. proc' = proc /\ file' = file /\ boot' \subseteq boot  BY <1>2, Zenon
    <3> QED  BY <1>3, <1>4, <1>9, <1>15, <3>1, TurnPhase, Zenon
  <2>2. OthersKept(g, {i})  BY <1>2, <1>12, <1>13, Zenon DEF OthersKept
  <2>3. OwnOrNew(g, s, {i})
    <3>1. rings'[g] = 0 \/ rings'[g] \in Owned(g, rings, provider, req)  BY <1>2, Zenon DEF Owned
    <3> QED  BY <1>7, <1>13, <3>1, Zenon DEF OwnOrNew
  <2>4. ServersKept(g)  BY <1>1, Zenon DEF ServersKept
  <2>5. /\ s.pc \in {"insert", "leave"} /\ r.pc \in {"quota", "listen", "insert", "leave"}
        /\ r.pc \notin {"insert", "leave"}
    BY <1>2, <1>7
  <2>6. Fine(r, rings[g], infos[g], provider[g], running) =>
          Fine(s, rings'[g], infos'[g], provider'[g], running')
    BY <1>1, <1>2, <1>7, <1>13, <2>5, Zenon DEF Fine
  <2>7. Alone(req, clash)  BY <1>15, Zenon DEF TableInv
  <2>8. ASSUME g \notin clash', NEW j \in running'
        PROVE  \/ j \in running /\ ~AccountedBy(j, g, rings, req)
               \/ AccountedBy(j, g, rings', req')
    <3>1. Acting(req, g) = {r} /\ Acting(req', g) = {s}  BY <1>4, <1>9, <2>7, <2>8, TurnActing, Zenon
    <3>2. AccountedBy(j, g, rings, req) => rings[g] = j  BY <2>5, <3>1, Zenon DEF AccountedBy
    <3>3. AccountedBy(i, g, rings', req')  BY <1>7, <2>5, <3>1, Zenon DEF AccountedBy
    <3>4. rings[g] = j => AccountedBy(j, g, rings', req')  BY <1>2, Zenon DEF AccountedBy
    <3>5. j = i \/ j \in running  BY <1>1, Zenon
    <3> QED  BY <3>2, <3>3, <3>4, <3>5, Zenon
  <2>9. TableInv'
    <3> HIDE DEF g, r
    <3> QED  BY <1>4, <1>9, <1>15, <2>2, <2>3, <2>4, <2>6, <2>8, TurnTable, Zenon DEF g, r
  <2>10. OthersFiled(g)  BY <1>2, Zenon DEF OthersFiled
  <2>11. /\ s.pc \notin {"truncate", "write"} /\ r.pc \notin {"truncate", "write"} /\ s.pc # "load"
         /\ s.pc # "truncate" /\ r.pc \in {"listen", "insert", "load"}
         /\ r.pc \notin {"leave", "load", "truncate"}
    BY <1>2, <1>7
  <2>12. \A f : Follows(h, g, s, f, f)  BY <1>2, <1>7, <2>11, Zenon DEF Follows, FileFine
  <2>13. FileInv'
    <3>1. file' = file /\ unsaved' = unsaved  BY <1>2, Zenon
    <3> HIDE DEF g, r
    <3> QED  BY <1>4, <1>9, <1>15, <2>7, <2>10, <2>11, <2>12, <3>1, TurnFileSame, Zenon DEF r
  <2> QED  BY <2>1, <2>9, <2>13, Zenon
<1>16. proc' = proc  BY <1>2, Zenon
<1> QED  BY <1>4, <1>14, <1>15, <1>16, TurnInv, Zenon

\* InsertRing: the ring enters the table and the list.
LEMMA InsertRingOK ==
    ASSUME RingsInv, NEW h \in Routines, InsertRing(h)
    PROVE  RingsInv'
<1> DEFINE g == req[h].group
           r == req[h]
<1>1. /\ r.pc = "insert" /\ rings' = [rings EXCEPT ![g] = r.inst] /\ infos' = [infos EXCEPT ![g] = @ + 1]
      /\ leftRings' = leftRings \ {g} /\ UNCHANGED <<proc, boot, running, provider>>
      /\ UNCHANGED <<quota, file, clash, unsaved>>
  BY Zenon DEF InsertRing
<1>2. r.pc # "idle"  BY <1>1
<1>3. RTypeOK /\ proc # "down" /\ g \in Groups /\ Works(req, h, g)  BY <1>2, AtWork, Zenon
<1>4. r \in ReqRec /\ ReqOK(h, r) /\ r.inst \in 0 .. MaxRings  BY <1>3, ReqFacts, Zenon
<1>5. \E s : /\ Turn(h, g, s) /\ s.inst \in {0, r.inst}
             /\ \/ h = Main /\ s = Idle
                \/ h # Main /\ s.pc = "load" /\ s.op = r.op /\ s.max = r.max
  <2>1. CASE h = Main
    <3>1. Return(h)  BY <2>1, Zenon DEF InsertRing
    <3>2. Turn(h, g, Idle)  BY <1>1, <1>2, <1>3, <3>1, ReturnTurn, Zenon
    <3> QED  BY <2>1, <3>2, IdleFacts, Zenon
  <2>2. CASE h # Main
    <3> DEFINE s == [r EXCEPT !.pc = "load"]
    <3>1. /\ s \in ReqRec /\ s.pc = "load" /\ s.op = r.op /\ s.group = r.group /\ s.max = r.max
          /\ s.inst = r.inst
      <4>1. "load" \in Labels  BY DEF Labels, Saving
      <4> QED  BY <1>4, <4>1, GotoFacts, Zenon DEF Moved
    <3>2. Goto(h, "load")  BY <2>2, Zenon DEF InsertRing
    <3>3. req' = [req EXCEPT ![h] = s]  BY <3>2 DEF Goto
    <3> HIDE DEF s
    <3>4. s.pc \in Saving /\ r.pc \in Starting /\ s.pc # "idle"  BY <1>1, <3>1 DEF Saving, Starting
    <3>5. Turn(h, g, s)  BY <1>1, <1>2, <1>3, <2>2, <3>1, <3>3, <3>4, MoveTurn, Zenon
    <3> QED  BY <2>2, <3>1, <3>5, Zenon
  <2> QED  BY <2>1, <2>2, Zenon
<1>6. PICK s : /\ Turn(h, g, s) /\ s.inst \in {0, r.inst}
               /\ \/ h = Main /\ s = Idle
                  \/ h # Main /\ s.pc = "load" /\ s.op = r.op /\ s.max = r.max
  BY <1>5, Zenon
<1>7. rings'[g] = r.inst /\ \A x \in Groups \ {g} : rings'[x] = rings[x]
  <2>1. rings \in [Groups -> 0 .. MaxRings]  BY <1>3, Zenon DEF RTypeOK
  <2> QED  BY <1>1, <1>3, <2>1, Zenon
<1>8. infos'[g] = infos[g] + 1 /\ \A x \in Groups \ {g} : infos'[x] = infos[x]
  <2>1. infos \in [Groups -> Nat]  BY <1>3, Zenon DEF RTypeOK
  <2> QED  BY <1>1, <1>3, <2>1, Zenon
<1>9. RTypeOK'
  <2>1. /\ boot' \subseteq boot /\ leftRings' \subseteq leftRings \cup {g} /\ proc' = proc
        /\ provider' \in [Groups -> 0 .. MaxRings] /\ running' \subseteq Instances
        /\ quota' \in [Groups -> Quotas] /\ file' \in FileSet \cup {Torn} /\ unsaved' \in BOOLEAN
    BY <1>1, <1>3, Zenon DEF RTypeOK
  <2>2. rings' \in [Groups -> 0 .. MaxRings]  BY <1>1, <1>3, <1>4, Zenon DEF RTypeOK
  <2>3. infos' \in [Groups -> Nat]
    <3>1. infos \in [Groups -> Nat]  BY <1>3, Zenon DEF RTypeOK
    <3>2. infos[g] + 1 \in Nat  BY <1>3, <3>1
    <3> QED  BY <1>1, <1>3, <3>1, <3>2, Zenon
  <2> QED  BY <1>3, <1>6, <2>1, <2>2, <2>3, TurnType, Zenon
<1>10. ASSUME PhaseOK, TableInv, FileInv PROVE PhaseOK' /\ TableInv' /\ FileInv'
  <2>1. PhaseOK'
    <3>1. proc' = proc /\ file' = file /\ boot' \subseteq boot  BY <1>1, Zenon
    <3> QED  BY <1>2, <1>3, <1>6, <1>10, <3>1, TurnPhase, Zenon
  <2>2. OthersKept(g, {})  BY <1>1, <1>7, <1>8, Zenon DEF OthersKept
  <2>3. OwnOrNew(g, s, {})
    <3>1. r.inst = 0 \/ r.inst \in Owned(g, rings, provider, req)  BY Zenon DEF Owned
    <3>2. provider'[g] = 0 \/ provider'[g] \in Owned(g, rings, provider, req)  BY <1>1, Zenon DEF Owned
    <3>3. s.inst = 0 \/ s.inst \in Owned(g, rings, provider, req)  BY <1>6, <3>1, Zenon
    <3>4. rings'[g] = 0 \/ rings'[g] \in Owned(g, rings, provider, req)  BY <1>7, <3>1, Zenon
    <3> QED  BY <3>2, <3>3, <3>4 DEF OwnOrNew
  <2>4. ServersKept(g)  BY <1>1, Zenon DEF ServersKept
  <2>5. Alone(req, clash)  BY <1>10, Zenon DEF TableInv
  <2>6. /\ s.pc \notin {"insert", "leave"} /\ s.pc \notin {"quota", "listen", "insert", "leave"}
        /\ r.pc \in {"insert", "leave"} /\ r.pc \in {"quota", "listen", "insert", "leave"}
    BY <1>1, <1>6, IdleFacts
  <2>7. 0 + 1 = 1 /\ \A i \in running : i # 0
    <3>1. \A i \in running : i # 0  BY <1>3, RingBasics, Zenon DEF RTypeOK
    <3> QED  BY <3>1
  <2>8. Fine(r, rings[g], infos[g], provider[g], running) =>
          Fine(s, rings'[g], infos'[g], provider'[g], running')
    <3> SUFFICES ASSUME Fine(r, rings[g], infos[g], provider[g], running)
                 PROVE  Fine(s, rings'[g], infos'[g], provider'[g], running')
      BY Zenon
    <3>1. rings[g] = 0 /\ infos[g] = 0 /\ r.inst \in running /\ provider[g] = r.inst  BY <2>6, Zenon DEF Fine
    <3>2. infos'[g] = 1  BY <1>8, <3>1, SMTT(20)
    <3>3. rings'[g] # 0 /\ rings'[g] \in running' /\ provider'[g] = rings'[g]
      BY <1>1, <1>7, <2>7, <3>1
    <3> QED  BY <2>6, <3>2, <3>3, Zenon DEF Fine
  <2>9. ASSUME g \notin clash', NEW j \in running'
        PROVE  \/ j \in running /\ ~AccountedBy(j, g, rings, req)
               \/ AccountedBy(j, g, rings', req')
    <3>1. Acting(req, g) = {r}  BY <1>3, <1>6, <2>5, <2>9, TurnActing, ZenonT(30)
    <3>2. g \notin clash /\ j \in running  BY <1>1, <2>9, Zenon
    <3>3. rings[g] = 0  BY <1>3, <1>10, <2>6, <3>2, ActingFine, Zenon DEF Fine
    <3>4. AccountedBy(j, g, rings, req) => r.inst = j  BY <2>7, <3>1, <3>2, <3>3, Zenon DEF AccountedBy
    <3>5. r.inst = j => AccountedBy(j, g, rings', req')  BY <1>7, Zenon DEF AccountedBy
    <3> QED  BY <3>2, <3>4, <3>5, Zenon
  <2>10. TableInv'
    <3> HIDE DEF g, r
    <3> QED  BY <1>3, <1>6, <1>10, <2>2, <2>3, <2>4, <2>8, <2>9, TurnTable, Zenon DEF g, r
  <2>11. OthersFiled(g)  BY <1>1, <1>7, ZenonT(30) DEF OthersFiled
  <2>12. /\ s.pc \notin {"truncate", "write"} /\ r.pc \notin {"truncate", "write"}
         /\ r.pc \in {"listen", "insert", "load"}
         /\ r.pc \notin {"leave", "load", "truncate"} /\ s.pc # "truncate" /\ r.op \in {"boot", "join"}
    <3>1. r.op \in {"boot", "join"}  BY <1>1, <1>4 DEF ReqOK, Starting
    <3> QED  BY <1>1, <1>6, <3>1, IdleFacts
  <2>13. ASSUME NEW f PROVE Follows(h, g, s, f, f)
    <3> SUFFICES ASSUME FileFine(r, rings[g], quota[g], g \in leftRings, f[g])
                 PROVE  FileFine(s, rings'[g], quota'[g], g \in leftRings', f[g])
      BY Zenon DEF Follows
    <3>1. r.max \in {0, quota[g]} /\ (r.op = "boot" => f[g] = r.max)  BY <2>12, Zenon DEF FileFine
    <3>2. g \notin leftRings' /\ quota' = quota  BY <1>1, Zenon
    <3>3. CASE h = Main
      <4>1. s = Idle /\ r.op = "boot"  BY <1>2, <1>4, <1>6, <3>3, Zenon DEF ReqOK
      <4>2. s.pc = "idle" /\ s.op # "boot" /\ s.pc \notin {"listen", "insert", "load"} /\ s.pc # "load"
        BY <4>1, IdleFacts
      <4> QED  BY <2>12, <3>1, <3>2, <4>1, <4>2, Zenon DEF FileFine, Good
    <3>4. CASE h # Main
      <4>1. s.pc = "load" /\ s.op = r.op /\ s.max = r.max /\ r.op # "boot"
        BY <1>2, <1>4, <1>6, <3>4, Zenon DEF ReqOK
      <4>2. s.pc \in {"leave", "load", "truncate"} /\ s.op = "join" /\ "join" # "leave" /\ "join" # "quota"
            /\ "join" # "boot"
        BY <2>12, <4>1
      <4> QED  BY <2>12, <3>1, <3>2, <4>1, <4>2, Zenon DEF FileFine
    <3> QED  BY <3>3, <3>4, Zenon
  <2>14. FileInv'
    <3>1. file' = file /\ unsaved' = unsaved  BY <1>1, Zenon
    <3> HIDE DEF g, r
    <3> QED  BY <1>3, <1>6, <1>10, <2>5, <2>11, <2>12, <2>13, <3>1, TurnFileSame, Zenon DEF r
  <2> QED  BY <2>1, <2>10, <2>14, Zenon
<1>11. proc' = proc  BY <1>1, Zenon
<1> QED  BY <1>3, <1>9, <1>10, <1>11, TurnInv, Zenon

\* handleRingLeave: the ring leaves the table and the list.
LEMMA LeaveRingOK ==
    ASSUME RingsInv, NEW h \in Handlers, NEW g \in Groups, handleRingLeave(h, g), rings[g] # 0
    PROVE  RingsInv'
<1>1. /\ proc = "up" /\ rings' = [rings EXCEPT ![g] = 0]
      /\ infos' = [infos EXCEPT ![g] = IF @ = 0 THEN 0 ELSE @ - 1]
      /\ leftRings' = leftRings \cup {g} /\ BeginRequest(h, "leave", "leave", g, 0, rings[g])
      /\ UNCHANGED <<proc, boot, running, provider>> /\ UNCHANGED <<quota, file, unsaved>>
  BY Zenon DEF handleRingLeave
<1>2. h \in Routines /\ h # Main /\ RTypeOK  BY MainAssumption, Zenon DEF Routines, RingsInv
<1>3. rings \in [Groups -> 0 .. MaxRings] /\ infos \in [Groups -> Nat]  BY <1>2, Zenon DEF RTypeOK
<1>4. PICK s : Turn(h, g, s) /\ req[h] = Idle /\ s.pc = "leave" /\ s.op = "leave" /\ s.inst = rings[g]
  <2>1. Opens(h, "leave", "leave")  BY <1>2, Zenon DEF Opens
  <2>2. 0 \in Quotas /\ rings[g] \in 0 .. MaxRings  BY <1>3, RingBasics, Zenon
  <2> QED  BY <1>1, <1>2, <2>1, <2>2, BeginTurn
<1>5. rings'[g] = 0 /\ \A x \in Groups \ {g} : rings'[x] = rings[x]  BY <1>1, <1>3, Zenon
<1>6. /\ infos'[g] = IF infos[g] = 0 THEN 0 ELSE infos[g] - 1
      /\ \A x \in Groups \ {g} : infos'[x] = infos[x]
  BY <1>1, <1>3, Zenon
<1>7. RTypeOK'
  <2>1. /\ boot' \subseteq boot /\ leftRings' \subseteq leftRings \cup {g} /\ proc' = proc
        /\ provider' \in [Groups -> 0 .. MaxRings] /\ running' \subseteq Instances
        /\ quota' \in [Groups -> Quotas] /\ file' \in FileSet \cup {Torn} /\ unsaved' \in BOOLEAN
    BY <1>1, <1>2, Zenon DEF RTypeOK
  <2>2. rings' \in [Groups -> 0 .. MaxRings]  BY <1>1, <1>3, RingBasics, Zenon
  <2>3. infos' \in [Groups -> Nat]
    <3>1. (IF infos[g] = 0 THEN 0 ELSE infos[g] - 1) \in Nat  BY <1>3
    <3> QED  BY <1>1, <1>3, <3>1, Zenon
  <2> QED  BY <1>2, <1>4, <2>1, <2>2, <2>3, TurnType, Zenon
<1>8. ASSUME PhaseOK, TableInv, FileInv PROVE PhaseOK' /\ TableInv' /\ FileInv'
  <2>1. PhaseOK'
    <3>1. proc' = proc /\ file' = file /\ boot' \subseteq boot  BY <1>1, Zenon
    <3> QED  BY <1>1, <1>2, <1>4, <1>8, <3>1, TurnPhase, Zenon
  <2>2. OthersKept(g, {})  BY <1>1, <1>5, <1>6, Zenon DEF OthersKept
  <2>3. OwnOrNew(g, s, {})
    <3>1. s.inst \in Owned(g, rings, provider, req)  BY <1>4, Zenon DEF Owned
    <3>2. provider'[g] = 0 \/ provider'[g] \in Owned(g, rings, provider, req)  BY <1>1, Zenon DEF Owned
    <3> QED  BY <1>5, <3>1, <3>2 DEF OwnOrNew
  <2>4. ServersKept(g)  BY <1>1, Zenon DEF ServersKept
  <2>5. Alone(req, clash)  BY <1>8, Zenon DEF TableInv
  <2>6. /\ s.pc \in {"insert", "leave"} /\ Idle.pc \notin {"insert", "leave"}
        /\ s.pc \in {"quota", "listen", "insert", "leave"}
    BY <1>4, IdleFacts
  <2>7. Fine(req[h], rings[g], infos[g], provider[g], running) =>
          Fine(s, rings'[g], infos'[g], provider'[g], running')
    <3> SUFFICES ASSUME Fine(Idle, rings[g], infos[g], provider[g], running)
                 PROVE  Fine(s, rings'[g], infos'[g], provider'[g], running')
      BY <1>4, Zenon
    <3>1. infos[g] = 1 /\ rings[g] \in running /\ provider[g] = rings[g]  BY <2>6, Zenon DEF Fine
    <3>2. infos'[g] = 0  BY <1>6, <3>1
    <3>3. s.inst \in running' /\ provider'[g] = s.inst  BY <1>1, <1>4, <3>1, Zenon
    <3> QED  BY <1>5, <2>6, <3>2, <3>3, Zenon DEF Fine
  <2>8. ASSUME g \notin clash', NEW j \in running'
        PROVE  \/ j \in running /\ ~AccountedBy(j, g, rings, req)
               \/ AccountedBy(j, g, rings', req')
    <3>1. Acting(req, g) = {Idle} /\ Acting(req', g) = {s}  BY <1>2, <1>4, <2>5, <2>8, TurnActing, Zenon
    <3>2. AccountedBy(j, g, rings, req) => rings[g] = j  BY <2>6, <3>1, Zenon DEF AccountedBy
    <3>3. rings[g] = j => AccountedBy(j, g, rings', req')  BY <1>4, <2>6, <3>1, Zenon DEF AccountedBy
    <3>4. j \in running  BY <1>1, Zenon
    <3> QED  BY <3>2, <3>3, <3>4, Zenon
  <2>9. TableInv'
    BY <1>2, <1>4, <1>8, <2>2, <2>3, <2>4, <2>7, <2>8, TurnTable, Zenon
  <2>10. OthersFiled(g)  BY <1>1, <1>5, Zenon DEF OthersFiled
  <2>11. /\ s.pc \notin {"truncate", "write"} /\ req[h].pc \notin {"truncate", "write"} /\ s.pc # "load"
         /\ s.pc # "truncate" /\ s.pc \notin {"listen", "insert", "load"} /\ s.op # "boot"
         /\ s.pc \in {"leave", "load", "truncate"}
    BY <1>4, IdleFacts
  <2>12. \A f : Follows(h, g, s, f, f)  BY <2>11, Zenon DEF Follows, FileFine
  <2>13. FileInv'
    <3>1. file' = file /\ unsaved' = unsaved  BY <1>1, Zenon
    <3> QED  BY <1>2, <1>4, <1>8, <2>5, <2>10, <2>11, <2>12, <3>1, TurnFileSame, Zenon
  <2> QED  BY <2>1, <2>9, <2>13, Zenon
<1>9. proc' = proc /\ proc # "down"  BY <1>1
<1> QED  BY <1>7, <1>8, <1>9, TurnInv, Zenon

\* A request for a group that is listed and has no ring, which only two requests at
\* once can bring about, ends in a panic.
LEMMA LeavePanicOK ==
    ASSUME RingsInv, NEW h \in Handlers, NEW g \in Groups, handleRingLeave(h, g), rings[g] = 0
    PROVE  RingsInv'
<1>1. /\ proc = "up" /\ infos[g] # 0 /\ rings' = [rings EXCEPT ![g] = 0]
      /\ infos' = [infos EXCEPT ![g] = IF @ = 0 THEN 0 ELSE @ - 1]
      /\ leftRings' = leftRings \cup {g} /\ UNCHANGED <<req, clash>>
      /\ UNCHANGED <<proc, boot, running, provider>> /\ UNCHANGED <<quota, file, unsaved>>
  BY Zenon DEF handleRingLeave, Resolved
<1>2. RTypeOK  BY Zenon DEF RingsInv
<1>3. rings \in [Groups -> 0 .. MaxRings] /\ infos \in [Groups -> Nat]  BY <1>2, Zenon DEF RTypeOK
<1>4. rings' = rings  BY <1>1, <1>3, Zenon
<1>5. \A x \in Groups \ {g} : infos'[x] = infos[x]  BY <1>1, <1>3, Zenon
<1>6. RTypeOK'
  <2>1. infos' \in [Groups -> Nat]
    <3>1. (IF infos[g] = 0 THEN 0 ELSE infos[g] - 1) \in Nat  BY <1>3
    <3> QED  BY <1>1, <1>3, <3>1, Zenon
  <2> QED  BY <1>1, <1>2, <1>4, <2>1, Zenon DEF RTypeOK
<1>7. ASSUME PhaseOK, TableInv, FileInv PROVE PhaseOK' /\ TableInv' /\ FileInv'
  <2>1. PhaseOK'  BY <1>1, <1>7, Zenon DEF PhaseOK
  <2>2. g \in clash
    <3>1. PICK r : r \in Acting(req, g)  BY Zenon DEF Acting
    <3> QED  BY <1>1, <1>7, <3>1, Zenon DEF TableInv, Fine
  <2>3. \A x \in Groups \ clash : x # g /\ infos'[x] = infos[x] /\ (x \in leftRings' <=> x \in leftRings)
    BY <1>1, <1>5, <2>2, Zenon
  <2>4. TableInv'
    <3>1. /\ Alone(req', clash') /\ Apart(rings', provider', req') /\ clash' # {}
      BY <1>1, <1>4, <1>7, <2>2, Zenon DEF TableInv
    <3>2. \A x \in Groups \ clash' : \A r \in Acting(req', x) :
            Fine(r, rings'[x], infos'[x], provider'[x], running')
      <4> SUFFICES ASSUME NEW x \in Groups \ clash, NEW r \in Acting(req, x)
                   PROVE  Fine(r, rings'[x], infos'[x], provider'[x], running')
        BY <1>1, Zenon
      <4>1. Fine(r, rings[x], infos[x], provider[x], running)  BY <1>7, Zenon DEF TableInv
      <4> QED  BY <1>1, <1>4, <2>3, <4>1, Zenon
    <3> QED  BY <3>1, <3>2, Zenon DEF TableInv
  <2>5. FileInv'
    <3> SUFFICES ASSUME ~unsaved'
                 PROVE  /\ WritersOK(file', req')
                        /\ \A x \in Groups \ clash' : \A r \in Acting(req', x) :
                             \A f \in Contents(file', req') :
                               FileFine(r, rings'[x], quota'[x], x \in leftRings', f[x])
      BY Zenon DEF FileInv
    <3>1. ~unsaved /\ WritersOK(file', req')  BY <1>1, <1>7, Zenon DEF FileInv
    <3>2. ASSUME NEW x \in Groups \ clash', NEW r \in Acting(req', x), NEW f \in Contents(file', req')
          PROVE  FileFine(r, rings'[x], quota'[x], x \in leftRings', f[x])
      <4>1. x \in Groups \ clash /\ r \in Acting(req, x) /\ f \in Contents(file, req)  BY <1>1, Zenon
      <4>2. FileFine(r, rings[x], quota[x], x \in leftRings, f[x])  BY <1>7, <3>1, <4>1, Zenon DEF FileInv
      <4>3. x \in leftRings' <=> x \in leftRings  BY <2>3, <4>1, Zenon
      <4> QED  BY <1>1, <1>4, <4>2, <4>3, Zenon DEF FileFine, Good
    <3> QED  BY <3>1, <3>2, Zenon
  <2> QED  BY <2>1, <2>4, <2>5, Zenon
<1>8. proc' = proc /\ proc # "down"  BY <1>1
<1> QED  BY <1>6, <1>7, <1>8, TurnInv, Zenon

\* LeaveGroup: the address is taken back, and the server stops.
LEMMA LeaveGroupOK ==
    ASSUME RingsInv, NEW h \in Routines, LeaveGroup(h)
    PROVE  RingsInv'
<1> DEFINE g == req[h].group
           r == req[h]
<1>1. /\ r.pc = "leave" /\ provider' = [provider EXCEPT ![g] = 0] /\ running' = running \ {r.inst}
      /\ UNCHANGED <<proc, boot, rings, infos>> /\ UNCHANGED <<quota, file, leftRings, unsaved>>
      /\ clash' = clash
  BY Zenon DEF LeaveGroup, table, ringGhosts
<1>2. r.pc # "idle"  BY <1>1
<1>3. RTypeOK /\ proc # "down" /\ g \in Groups /\ Works(req, h, g)  BY <1>2, AtWork, Zenon
<1>4. r \in ReqRec /\ ReqOK(h, r)  BY <1>3, ReqFacts, Zenon
<1> DEFINE s == [r EXCEPT !.pc = "load", !.inst = 0]
<1>5. s \in ReqRec /\ s.pc = "load" /\ s.op = r.op /\ s.group = g /\ s.inst = 0
  <2>1. "load" \in Labels  BY DEF Labels, Saving
  <2>2. 0 \in 0 .. MaxRings  BY RingBasics, ZenonT(30)
  <2>3. Moved(r, s, "load") /\ s.inst = 0  BY <1>4, <2>1, <2>2, InstFacts, Zenon
  <2> QED  BY <2>3, Zenon DEF Moved
<1>6. req' = [req EXCEPT ![h] = s]  BY Zenon DEF LeaveGroup
<1> HIDE DEF s
<1>7. Turn(h, g, s)
  <2>1. s.pc \in Saving /\ r.pc \in Saving \cup {"leave", "setquota"} /\ s.pc # "idle"
    BY <1>1, <1>5 DEF Saving
  <2> QED  BY <1>1, <1>2, <1>3, <1>5, <1>6, <2>1, MoveTurn, Zenon
<1>8. provider'[g] = 0 /\ \A x \in Groups \ {g} : provider'[x] = provider[x]
  <2>1. provider \in [Groups -> 0 .. MaxRings]  BY <1>3, Zenon DEF RTypeOK
  <2> QED  BY <1>1, <1>3, <2>1, Zenon
<1>9. \A i \in running : i # 0  BY <1>3, RingBasics, Zenon DEF RTypeOK
<1>10. RTypeOK'
  <2>1. /\ boot' \subseteq boot /\ leftRings' \subseteq leftRings \cup {g} /\ proc' = proc
        /\ rings' \in [Groups -> 0 .. MaxRings] /\ infos' \in [Groups -> Nat] /\ running' \subseteq Instances
        /\ quota' \in [Groups -> Quotas] /\ file' \in FileSet \cup {Torn} /\ unsaved' \in BOOLEAN
    BY <1>1, <1>3, Zenon DEF RTypeOK
  <2>2. provider' \in [Groups -> 0 .. MaxRings]  BY <1>1, <1>3, RingBasics, Zenon DEF RTypeOK
  <2> QED  BY <1>3, <1>7, <2>1, <2>2, TurnType, Zenon
<1>11. ASSUME PhaseOK, TableInv, FileInv PROVE PhaseOK' /\ TableInv' /\ FileInv'
  <2>1. PhaseOK'
    <3>1. proc' = proc /\ file' = file /\ boot' \subseteq boot  BY <1>1, Zenon
    <3> QED  BY <1>2, <1>3, <1>7, <1>11, <3>1, TurnPhase, Zenon
  <2>2. OthersKept(g, {})  BY <1>1, <1>8, Zenon DEF OthersKept
  <2>3. OwnOrNew(g, s, {})
    <3>1. rings'[g] = 0 \/ rings'[g] \in Owned(g, rings, provider, req)  BY <1>1, Zenon DEF Owned
    <3> QED  BY <1>5, <1>8, <3>1 DEF OwnOrNew
  <2>4. ServersKept(g)
    <3>1. r.inst # 0 => r.inst \in Owned(g, rings, provider, req)  BY Zenon DEF Owned
    <3> QED  BY <1>1, <1>9, <3>1, Zenon DEF ServersKept
  <2>5. Alone(req, clash)  BY <1>11, Zenon DEF TableInv
  <2>6. /\ s.pc \notin {"insert", "leave"} /\ r.pc \in {"insert", "leave"}
        /\ s.pc \notin {"quota", "listen", "insert", "leave"} /\ r.pc \in {"quota", "listen", "insert", "leave"}
    BY <1>1, <1>5
  <2>7. Fine(r, rings[g], infos[g], provider[g], running) =>
          Fine(s, rings'[g], infos'[g], provider'[g], running')
    BY <1>1, <1>8, <2>6, Zenon DEF Fine
  <2>8. g \notin clash' => rings[g] = 0  BY <1>1, <1>3, <1>11, <2>6, ActingFine, Zenon DEF Fine
  <2>9. ASSUME g \notin clash', NEW j \in running'
        PROVE  \/ j \in running /\ ~AccountedBy(j, g, rings, req)
               \/ AccountedBy(j, g, rings', req')
    <3>1. Acting(req, g) = {r}  BY <1>3, <1>7, <2>5, <2>9, TurnActing, Zenon
    <3>2. j \in running /\ j # r.inst /\ j # 0  BY <1>1, <1>9, <2>9, Zenon
    <3> QED  BY <2>8, <2>9, <3>1, <3>2, Zenon DEF AccountedBy
  <2>10. TableInv'
    <3> HIDE DEF g, r
    <3> QED  BY <1>3, <1>7, <1>11, <2>2, <2>3, <2>4, <2>7, <2>9, TurnTable, Zenon DEF g, r
  <2>11. OthersFiled(g)  BY <1>1, Zenon DEF OthersFiled
  <2>12. /\ s.pc \notin {"truncate", "write"} /\ r.pc \notin {"truncate", "write"} /\ s.pc # "truncate"
         /\ s.pc \in {"leave", "load", "truncate"} /\ s.op # "boot" /\ s.op # "join" /\ s.op # "quota"
         /\ s.op \notin {"boot", "join"}
    <3>1. r.op = "leave"  BY <1>1, <1>4, Zenon DEF ReqOK
    <3> QED  BY <1>1, <1>5, <3>1
  <2>13. \A f : Follows(h, g, s, f, f)  BY <1>1, <2>8, <2>12, Zenon DEF Follows, FileFine
  <2>14. FileInv'
    <3>1. file' = file /\ unsaved' = unsaved  BY <1>1, Zenon
    <3> HIDE DEF g, r
    <3> QED  BY <1>3, <1>7, <1>11, <2>5, <2>11, <2>12, <2>13, <3>1, TurnFileSame, Zenon DEF r
  <2> QED  BY <2>1, <2>10, <2>14, Zenon
<1>12. proc' = proc  BY <1>1, Zenon
<1> QED  BY <1>3, <1>10, <1>11, <1>12, TurnInv, Zenon
----------------------------------------------------------------------------
\* The groups file.

\* AddGroup, RemoveGroup and the loop of SetRingQuota change one entry.
LEMMA ChangedFacts ==
    ASSUME NEW op, NEW f \in FileSet, NEW g \in Groups, NEW max \in Quotas
    PROVE  /\ Changed(op, f, g, max) \in FileSet
           /\ \A x \in Groups \ {g} : Changed(op, f, g, max)[x] = f[x]
           /\ op = "join" => Changed(op, f, g, max)[g] = max
           /\ op = "leave" => Changed(op, f, g, max)[g] = None
           /\ op = "quota" /\ f[g] # None => Changed(op, f, g, max)[g] = max
BY DEF Changed, FileSet

\* The same, as a relation of a file to the one a request makes of it.
ChangesEntry(op, f, g, max) ==
    /\ \A x \in Groups \ {g} : Changed(op, f, g, max)[x] = f[x]
    /\ op = "join" => Changed(op, f, g, max)[g] = max
    /\ op = "leave" => Changed(op, f, g, max)[g] = None
    /\ op = "quota" /\ f[g] # None => Changed(op, f, g, max)[g] = max

LEMMA ChangedEntry ==
    ASSUME NEW op, NEW f \in FileSet, NEW g \in Groups, NEW max \in Quotas
    PROVE  ChangesEntry(op, f, g, max)
BY DEF Changed, FileSet, ChangesEntry

\* A step of a request that saves: the table and the servers stay as they are.
LEMMA SaveStep ==
    ASSUME RingsInv, NEW h \in Routines, req[h].pc \in Saving, NEW s, Turn(h, req[h].group, s),
           UNCHANGED memory, UNCHANGED <<quota, leftRings>>, s.pc \in {"truncate", "write", "idle"},
           s.inst \in {0, req[h].inst}, file' \in FileSet \cup {Torn}, unsaved' \in BOOLEAN,
           Alone(req, clash) /\ FileInv => FileInv'
    PROVE  RingsInv'
<1>1. req[h].pc # "idle" /\ req[h].pc \notin {"insert", "leave"}  BY DEF Saving
<1>2. s.pc \notin {"insert", "leave"} /\ s.pc \notin {"quota", "listen"}  OBVIOUS
<1>3. RTypeOK /\ proc # "down" /\ req[h].group \in Groups  BY <1>1, AtWork, Zenon
<1>4. UNCHANGED <<proc, boot, rings, infos, running, provider>>  BY Zenon DEF memory, table
<1> DEFINE g == req[h].group
<1> HIDE DEF g
<1>5. g \in Groups /\ Turn(h, g, s)  BY <1>3, Zenon DEF g
<1>6. RTypeOK'
  <2>1. /\ boot' \subseteq boot /\ leftRings' \subseteq leftRings \cup {g} /\ proc' = proc
        /\ rings' \in [Groups -> 0 .. MaxRings] /\ provider' \in [Groups -> 0 .. MaxRings]
        /\ infos' \in [Groups -> Nat] /\ running' \subseteq Instances /\ quota' \in [Groups -> Quotas]
    BY <1>3, <1>4, Zenon DEF RTypeOK
  <2> QED  BY <1>3, <1>5, <2>1, TurnType, Zenon
<1>7. ASSUME PhaseOK, TableInv, FileInv PROVE PhaseOK' /\ TableInv' /\ FileInv'
  <2>1. proc # "starting"
    <3>1. req[h].op \in {"join", "leave", "quota"}  BY <1>3, ReqFacts, Zenon DEF ReqOK
    <3>2. req[h].op # "boot"  BY <3>1
    <3>3. h # Main  BY <1>1, <1>3, <3>2, ReqFacts, Zenon DEF ReqOK
    <3> QED  BY <1>1, <1>7, <3>3, Zenon DEF PhaseOK, Routines
  <2>2. PhaseOK'
    <3>1. proc' = proc /\ boot' \subseteq boot  BY <1>4, Zenon
    <3> QED  BY <1>1, <1>3, <1>5, <1>7, <2>1, <3>1, TurnPhase, Zenon
  <2>3. TableInv'
    <3>1. UNCHANGED <<rings, infos, provider, running>>  BY <1>4, Zenon
    <3> QED  BY <1>1, <1>2, <1>3, <1>5, <1>7, <3>1, TurnTableSame, Zenon
  <2>4. Alone(req, clash)  BY <1>7, Zenon DEF TableInv
  <2> QED  BY <1>7, <2>2, <2>3, <2>4, Zenon
<1>8. proc' = proc  BY <1>4, Zenon
<1> QED  BY <1>3, <1>6, <1>7, <1>8, TurnInv, Zenon

\* LoadGroupsFile: the request goes on to write the file it has changed, or has nothing to write.
LEMMA LoadFileOK ==
    ASSUME RingsInv, NEW h \in Routines, LoadFile(h)
    PROVE  RingsInv'
<1> DEFINE r == req[h]
           g == r.group
           f == IF file = Torn THEN Empty ELSE file
           new == Changed(r.op, f, g, r.max)
           writes == CASE r.op = "join" -> TRUE
                       [] r.op = "leave" -> file # Torn /\ f[g] # None
                       [] r.op = "quota" -> f[g] # None
           w == [r EXCEPT !.pc = "truncate", !.snap = new, !.inst = 0]
           s == IF writes THEN w ELSE Idle
<1>1. /\ r.pc = "load" /\ req' = [req EXCEPT ![h] = s] /\ unsaved' = (unsaved \/ Writing(h))
      /\ UNCHANGED memory /\ UNCHANGED <<quota, file, leftRings, clash>>
  BY Zenon DEF LoadFile
<1>2. r.pc # "idle" /\ r.pc \in Saving  BY <1>1 DEF Saving
<1>3. RTypeOK /\ proc # "down" /\ g \in Groups /\ Works(req, h, g)  BY <1>2, AtWork, Zenon
<1>4. /\ r \in ReqRec /\ r.max \in Quotas /\ file \in FileSet \cup {Torn} /\ unsaved \in BOOLEAN
      /\ r.op \in {"join", "leave", "quota"}
  BY <1>2, <1>3, ReqFacts, Zenon DEF RTypeOK, ReqOK
<1>5. f \in FileSet  BY <1>4, RingBasics, Zenon
<1>6. new \in FileSet
  <2> HIDE DEF f
  <2> QED  BY <1>3, <1>4, <1>5, ChangedFacts, Zenon
<1>7. /\ w \in ReqRec /\ w.pc = "truncate" /\ w.op = r.op /\ w.group = g /\ w.max = r.max
      /\ w.inst = 0 /\ w.snap = new
  <2>1. "truncate" \in Labels  BY DEF Labels, Saving
  <2>2. Moved(r, w, "truncate") /\ w.inst = 0 /\ w.snap = new
    <3>1. r \in ReqRec /\ w = [r EXCEPT !.pc = "truncate", !.snap = new, !.inst = 0]  BY <1>4, Zenon
    <3> HIDE DEF new, r, w
    <3>2. 0 \in 0 .. MaxRings  BY RingBasics, Zenon
    <3> QED  BY <1>6, <2>1, <3>1, <3>2, Zenon DEF ReqRec, Labels, Moved
  <2> QED  BY <2>2, Zenon DEF Moved
<1>8. writes => s = w  BY Zenon
<1>9. ~writes => s = Idle  BY Zenon
<1>10. file # Torn => f = file  BY Zenon
<1>11. /\ r.op = "join" => writes
       /\ r.op = "leave" /\ file # Torn => (writes <=> f[g] # None)
       /\ r.op = "quota" => (writes <=> f[g] # None)
  <2> HIDE DEF f, r
  <2> QED  BY Zenon DEF r
<1> HIDE DEF s, w, writes, f
<1>12. Turn(h, g, s)
  <2>1. CASE writes
    <3>1. w.pc \in Saving /\ r.pc \in Saving \cup {"leave", "setquota"} /\ w.pc # "idle"
      BY <1>1, <1>7 DEF Saving
    <3>2. req' = [req EXCEPT ![h] = w]  BY <1>1, <1>8, <2>1, Zenon
    <3>3. Turn(h, g, w)  BY <1>1, <1>2, <1>3, <1>7, <3>1, <3>2, MoveTurn, Zenon
    <3> QED  BY <1>8, <2>1, <3>3, Zenon
  <2>2. CASE ~writes
    <3>1. Return(h)  BY <1>1, <1>9, <2>2, Zenon DEF Return
    <3>2. Turn(h, g, Idle)  BY <1>1, <1>2, <1>3, <3>1, ReturnTurn, Zenon
    <3> QED  BY <1>9, <2>2, <3>2, Zenon
  <2> QED  BY <2>1, <2>2, Zenon
<1>13. s.pc \in {"truncate", "idle"} /\ s.inst = 0  BY <1>7, <1>8, <1>9, IdleFacts, Zenon
<1>14. ASSUME Alone(req, clash), FileInv PROVE FileInv'
  <2>1. req'[h] = s /\ \A k \in Routines \ {h} : req'[k] = req[k]  BY <1>3, <1>12, <1>14, TurnActing, Zenon
  <2>2. ASSUME ~unsaved'
        PROVE  /\ WritersOK(file', req')
               /\ \A c \in Contents(file', req') : \E f0 \in Contents(file, req) : Follows(h, g, s, f0, c)
    <3>1. ~unsaved /\ ~Writing(h)  BY <1>1, <2>2, Zenon
    <3>2. \A k \in Routines : req[k].pc # "truncate" /\ req[k].pc # "write"
      <4>1. r.pc # "truncate" /\ r.pc # "write"  BY <1>1
      <4> QED  BY <3>1, <4>1, Zenon DEF Writing
    <3>3. WritersOK(file, req)  BY <1>14, <3>1, Zenon DEF FileInv
    <3>4. file # Torn /\ file \in FileSet  BY <1>4, <3>2, <3>3, Zenon DEF WritersOK
    <3>5. f = file  BY <1>10, <3>4, Zenon
    <3>6. \A k \in Routines : /\ req'[k].pc # "write"
                              /\ req'[k].pc = "truncate" => k = h
      <4>1. s.pc # "write"  BY <1>13
      <4> QED  BY <2>1, <3>2, <4>1, Zenon
    <3>7. s.pc = "truncate" => writes  BY <1>9, IdleFacts
    <3>8. WritersOK(file', req')
      <4>1. s.pc = "truncate" => s.snap = Changed(s.op, file, s.group, s.max)
        BY <1>7, <1>8, <3>5, <3>7, Zenon
      <4>2. \A k \in Routines : req'[k].pc \in {"truncate", "write"} => k = h  BY <3>6, Zenon
      <4> QED  BY <1>1, <2>1, <3>4, <3>6, <4>1, <4>2, Zenon DEF WritersOK
    <3>9. file \in Contents(file, req) /\ \A c \in Contents(file', req') : c = file
      BY <1>1, <3>4, <3>6, Zenon DEF Contents
    <3>10. Follows(h, g, s, file, file)
      <4> SUFFICES ASSUME FileFine(r, rings[g], quota[g], g \in leftRings, file[g])
                   PROVE  FileFine(s, rings[g], quota[g], g \in leftRings, file[g])
        BY <1>1, Zenon DEF Follows, memory, table
      <4> DEFINE ri == rings[g]
                 q == quota[g]
                 lf == g \in leftRings
      <4>1. CASE writes
        <5>1. /\ r.op = "join" => new[g] = r.max
              /\ r.op = "leave" => new[g] = None
              /\ r.op = "quota" => new[g] = r.max
          <6>1. r.op = "quota" => file[g] # None  BY <1>11, <3>5, <4>1, Zenon
          <6>2. new = Changed(r.op, file, g, r.max)  BY <3>5, Zenon
          <6>3. /\ r.op = "join" => Changed(r.op, file, g, r.max)[g] = r.max
                /\ r.op = "leave" => Changed(r.op, file, g, r.max)[g] = None
                /\ r.op = "quota" /\ file[g] # None => Changed(r.op, file, g, r.max)[g] = r.max
            <7>1. ChangesEntry(r.op, file, g, r.max)  BY <1>3, <1>4, <3>4, ChangedEntry, Zenon
            <7> QED  BY <7>1, Zenon DEF ChangesEntry
          <6> HIDE DEF new
          <6> QED  BY <6>1, <6>2, <6>3, Zenon
        <5>2. r.op = "join" => Good(ri, q, lf, new[g])
          <6>1. r.op = "join" => r.pc \in {"listen", "insert", "load"} /\ r.op \in {"boot", "join"}  BY <1>1
          <6>2. r.op = "join" => r.max \in {0, q} /\ ~lf  BY <1>1, <6>1, Zenon DEF FileFine
          <6> QED  BY <5>1, <6>2, Zenon DEF Good
        <5>3. r.op = "leave" => Good(ri, q, lf, new[g])
          <6>1. r.op = "leave" => ri = 0  BY <1>1, Zenon DEF FileFine
          <6> QED  BY <5>1, <6>1, Zenon DEF Good
        <5>4. r.op = "quota" => Good(ri, q, lf, new[g])
          <6>1. r.op = "quota" => q = r.max /\ (lf => file[g] = None)  BY <1>1, Zenon DEF FileFine
          <6>2. r.op = "quota" => file[g] # None  BY <1>11, <3>5, <4>1, Zenon
          <6> QED  BY <5>1, <6>1, <6>2, Zenon DEF Good
        <5>5. Good(ri, q, lf, w.snap[w.group])
          <6>1. w.snap[w.group] = new[g]  BY <1>7, Zenon
          <6>2. r.op = "join" \/ r.op = "leave" \/ r.op = "quota"  BY <1>4, Zenon
          <6> HIDE DEF new, ri, q, lf
          <6> QED  BY <5>2, <5>3, <5>4, <6>1, <6>2, Zenon
        <5>6. /\ w.op # "boot" /\ w.pc \notin {"listen", "insert", "load"} /\ w.pc # "load"
              /\ w.pc \in {"leave", "load", "truncate"}
          BY <1>4, <1>7
        <5>7. FileFine(w, ri, q, lf, file[g])
          <6> HIDE DEF ri, q, lf
          <6> QED  BY <5>5, <5>6, Zenon DEF FileFine
        <5> QED  BY <1>8, <4>1, <5>7, Zenon
      <4>2. CASE ~writes
        <5>1. r.op = "leave" \/ r.op = "quota"  BY <1>4, <1>11, <4>2, Zenon
        <5>2. file[g] = None  BY <1>11, <3>4, <3>5, <4>2, <5>1, Zenon
        <5>3. ri = 0  BY <1>1, <5>1, <5>2, Zenon DEF FileFine
        <5>4. Good(ri, q, lf, file[g])  BY <5>2, <5>3, Zenon DEF Good
        <5>5. /\ Idle.op # "boot" /\ Idle.pc \notin {"listen", "insert", "load"} /\ Idle.pc # "load"
              /\ Idle.pc # "truncate"
          BY IdleFacts
        <5>6. FileFine(Idle, ri, q, lf, file[g])
          <6> HIDE DEF ri, q, lf
          <6> QED  BY <5>4, <5>5, Zenon DEF FileFine
        <5> QED  BY <1>9, <4>2, <5>6, Zenon
      <4> QED  BY <4>1, <4>2, Zenon
    <3> QED  BY <3>8, <3>9, <3>10, Zenon
  <2>3. OthersFiled(g)  BY <1>1, Zenon DEF OthersFiled, memory, table
  <2>4. unsaved => unsaved'  BY <1>1, Zenon
  <2> HIDE DEF g
  <2> QED  BY <1>3, <1>12, <1>14, <2>2, <2>3, <2>4, TurnFile, Zenon
<1>15. unsaved' \in BOOLEAN /\ file' \in FileSet \cup {Torn}  BY <1>1, <1>4, Zenon
<1>16. s.pc \in {"truncate", "write", "idle"} /\ s.inst \in {0, r.inst}  BY <1>13
<1>17. Turn(h, req[h].group, s) /\ UNCHANGED memory /\ UNCHANGED <<quota, leftRings>>  BY <1>1, <1>12, Zenon
<1> HIDE DEF g, new
<1> QED  BY <1>2, <1>14, <1>15, <1>16, <1>17, SaveStep, Zenon

\* os.WriteFile opens the file, and so empties it.
LEMMA TruncateOK ==
    ASSUME RingsInv, NEW h \in Routines, Truncate(h)
    PROVE  RingsInv'
<1> DEFINE r == req[h]
           g == r.group
           s == [r EXCEPT !.pc = "write"]
<1>1. /\ r.pc = "truncate" /\ file' = Torn /\ UNCHANGED memory /\ UNCHANGED <<quota, leftRings, clash, unsaved>>
  BY Zenon DEF Truncate, ringGhosts
<1>2. r.pc # "idle" /\ r.pc \in Saving  BY <1>1 DEF Saving
<1>3. RTypeOK /\ proc # "down" /\ g \in Groups /\ Works(req, h, g)  BY <1>2, AtWork, Zenon
<1>4. /\ r \in ReqRec /\ r.max \in Quotas /\ r.snap \in FileSet /\ file \in FileSet \cup {Torn}
      /\ unsaved \in BOOLEAN /\ r.op \in {"join", "leave", "quota"}
  BY <1>2, <1>3, ReqFacts, Zenon DEF RTypeOK, ReqOK
<1>5. /\ s \in ReqRec /\ s.pc = "write" /\ s.op = r.op /\ s.group = g /\ s.inst = r.inst /\ s.snap = r.snap
  <2>1. "write" \in Labels  BY DEF Labels, Saving
  <2> QED  BY <1>4, <2>1, GotoFacts, Zenon DEF Moved
<1>6. req' = [req EXCEPT ![h] = s]  BY DEF Truncate, Goto
<1> HIDE DEF s
<1>7. Turn(h, g, s)
  <2>1. s.pc \in Saving /\ r.pc \in Saving \cup {"leave", "setquota"} /\ s.pc # "idle"
    BY <1>1, <1>5, SMTT(20) DEF Saving
  <2> QED  BY <1>1, <1>2, <1>3, <1>5, <1>6, <2>1, MoveTurn, Zenon
<1>8. ASSUME Alone(req, clash), FileInv PROVE FileInv'
  <2>1. req'[h] = s /\ \A k \in Routines \ {h} : req'[k] = req[k]  BY <1>3, <1>7, <1>8, TurnActing, Zenon
  <2>2. ASSUME ~unsaved'
        PROVE  /\ WritersOK(file', req')
               /\ \A c \in Contents(file', req') : \E f0 \in Contents(file, req) : Follows(h, g, s, f0, c)
    <3>1. ~unsaved /\ WritersOK(file, req)  BY <1>1, <1>8, <2>2, Zenon DEF FileInv
    <3>2. \A k \in Routines \ {h} : req[k].pc # "truncate" /\ req[k].pc # "write"
      BY <1>1, <3>1, Zenon DEF WritersOK
    <3>3. r.pc # "write" /\ s.pc # "truncate"  BY <1>1, <1>5
    <3>4. file # Torn /\ file \in FileSet  BY <1>4, <3>1, <3>2, <3>3, Zenon DEF WritersOK
    <3>5. r.snap = Changed(r.op, file, g, r.max)  BY <1>1, <3>1, Zenon DEF WritersOK
    <3>6. \A k \in Routines : req'[k].pc # "truncate" /\ (req'[k].pc = "write" <=> k = h)
      BY <1>5, <2>1, <3>2, <3>3, Zenon
    <3>7. WritersOK(file', req')
      <4>1. \A k \in Routines : req'[k].pc \in {"truncate", "write"} => k = h  BY <3>6, Zenon
      <4> QED  BY <1>1, <3>6, <4>1, Zenon DEF WritersOK
    <3>8. file \in Contents(file, req) /\ \A c \in Contents(file', req') : c = r.snap
      <4>1. file \in Contents(file, req)  BY <3>4, Zenon DEF Contents
      <4>2. ASSUME NEW c \in Contents(file', req') PROVE c = s.snap
        BY <1>1, <2>1, <3>6, <4>2, RingBasics, Zenon DEF Contents
      <4> QED  BY <1>5, <4>1, <4>2, Zenon
    <3>9. Follows(h, g, s, file, r.snap)
      <4>1. \A x \in Groups \ {g} : r.snap[x] = file[x]
        <5>1. \A x \in Groups \ {g} : Changed(r.op, file, g, r.max)[x] = file[x]
          <6>1. ChangesEntry(r.op, file, g, r.max)  BY <1>3, <1>4, <3>4, ChangedEntry, Zenon
          <6> QED  BY <6>1, Zenon DEF ChangesEntry
        <5> QED  BY <3>5, <5>1, Zenon
      <4>2. ASSUME FileFine(r, rings[g], quota[g], g \in leftRings, file[g])
            PROVE  FileFine(s, rings[g], quota[g], g \in leftRings, r.snap[g])
        <5>1. Good(rings[g], quota[g], g \in leftRings, r.snap[g])  BY <1>1, <4>2, Zenon DEF FileFine
        <5>2. /\ s.op # "boot" /\ s.pc \notin {"listen", "insert", "load"} /\ s.pc # "load" /\ s.pc # "truncate"
          BY <1>4, <1>5
        <5> QED  BY <5>1, <5>2, Zenon DEF FileFine
      <4>3. rings' = rings /\ quota' = quota /\ leftRings' = leftRings  BY <1>1, Zenon DEF memory, table
      <4> QED  BY <4>1, <4>2, <4>3, Zenon DEF Follows
    <3> QED  BY <3>7, <3>8, <3>9, Zenon
  <2>3. OthersFiled(g)  BY <1>1, Zenon DEF OthersFiled, memory, table
  <2>4. unsaved => unsaved'  BY <1>1, Zenon
  <2> HIDE DEF g
  <2> QED  BY <1>3, <1>7, <1>8, <2>2, <2>3, <2>4, TurnFile, Zenon
<1>9. unsaved' \in BOOLEAN /\ file' \in FileSet \cup {Torn}  BY <1>1, <1>4, Zenon
<1>10. s.pc \in {"truncate", "write", "idle"} /\ s.inst \in {0, r.inst}  BY <1>5
<1>11. Turn(h, req[h].group, s) /\ UNCHANGED memory /\ UNCHANGED <<quota, leftRings>>  BY <1>1, <1>7, Zenon
<1> HIDE DEF g
<1> QED  BY <1>2, <1>8, <1>9, <1>10, <1>11, SaveStep, Zenon

\* ... and writes it.
LEMMA WriteFileOK ==
    ASSUME RingsInv, NEW h \in Routines, WriteFile(h)
    PROVE  RingsInv'
<1> DEFINE r == req[h]
           g == r.group
<1>1. /\ r.pc = "write" /\ file' = r.snap /\ Return(h) /\ UNCHANGED memory
      /\ UNCHANGED <<quota, leftRings, clash, unsaved>>
  BY Zenon DEF WriteFile, ringGhosts
<1>2. r.pc # "idle" /\ r.pc \in Saving  BY <1>1 DEF Saving
<1>3. RTypeOK /\ proc # "down" /\ g \in Groups  BY <1>2, AtWork, Zenon
<1>4. r.snap \in FileSet /\ unsaved \in BOOLEAN  BY <1>2, <1>3, ReqFacts, Zenon DEF RTypeOK
<1>5. Turn(h, g, Idle)  BY <1>1, <1>2, <1>3, ReturnTurn, Zenon
<1>6. ASSUME Alone(req, clash), FileInv PROVE FileInv'
  <2>1. req'[h] = Idle /\ \A k \in Routines \ {h} : req'[k] = req[k]  BY <1>3, <1>5, <1>6, TurnActing, Zenon
  <2>2. ASSUME ~unsaved'
        PROVE  /\ WritersOK(file', req')
               /\ \A c \in Contents(file', req') : \E f0 \in Contents(file, req) : Follows(h, g, Idle, f0, c)
    <3>1. ~unsaved /\ WritersOK(file, req)  BY <1>1, <1>6, <2>2, Zenon DEF FileInv
    <3>2. \A k \in Routines \ {h} : req[k].pc # "truncate" /\ req[k].pc # "write"
      BY <1>1, <3>1, Zenon DEF WritersOK
    <3>3. /\ Idle.pc # "truncate" /\ Idle.pc # "write" /\ Idle.op # "boot" /\ Idle.pc # "load"
          /\ Idle.pc \notin {"listen", "insert", "load"} /\ r.pc \notin {"leave", "load", "truncate"}
      BY <1>1, IdleFacts
    <3>4. \A k \in Routines : req'[k].pc # "truncate" /\ req'[k].pc # "write"  BY <2>1, <3>2, <3>3, Zenon
    <3>5. WritersOK(file', req')
      <4>1. file' # Torn  BY <1>1, <1>4, RingBasics, Zenon
      <4>2. \A k \in Routines : req'[k].pc \notin {"truncate", "write"}  BY <3>4, Zenon
      <4> QED  BY <3>4, <4>1, <4>2, Zenon DEF WritersOK
    <3>6. r.snap \in Contents(file, req)  BY <1>1, <1>4, Zenon DEF Contents
    <3>7. \A c \in Contents(file', req') : c = r.snap  BY <1>1, <3>4, Zenon DEF Contents
    <3>8. Follows(h, g, Idle, r.snap, r.snap)
      <4>1. ASSUME FileFine(r, rings[g], quota[g], g \in leftRings, r.snap[g])
            PROVE  FileFine(Idle, rings[g], quota[g], g \in leftRings, r.snap[g])
        <5>1. Good(rings[g], quota[g], g \in leftRings, r.snap[g])  BY <3>3, <4>1, Zenon DEF FileFine
        <5> QED  BY <3>3, <5>1, Zenon DEF FileFine
      <4>2. rings' = rings /\ quota' = quota /\ leftRings' = leftRings  BY <1>1, Zenon DEF memory, table
      <4> QED  BY <4>1, <4>2, Zenon DEF Follows
    <3> QED  BY <3>5, <3>6, <3>7, <3>8, Zenon
  <2>3. OthersFiled(g)  BY <1>1, Zenon DEF OthersFiled, memory, table
  <2>4. unsaved => unsaved'  BY <1>1, Zenon
  <2> HIDE DEF g
  <2> QED  BY <1>3, <1>5, <1>6, <2>2, <2>3, <2>4, TurnFile, Zenon
<1>7. unsaved' \in BOOLEAN /\ file' \in FileSet \cup {Torn}  BY <1>1, <1>4, Zenon
<1>8. Idle.pc \in {"truncate", "write", "idle"} /\ Idle.inst \in {0, r.inst}  BY IdleFacts, Zenon
<1>9. Turn(h, req[h].group, Idle) /\ UNCHANGED memory /\ UNCHANGED <<quota, leftRings>>  BY <1>1, <1>5, Zenon
<1> HIDE DEF g
<1> QED  BY <1>2, <1>6, <1>7, <1>8, <1>9, SaveStep, Zenon

\* ... or fails to.
LEMMA SaveFailsOK ==
    ASSUME RingsInv, NEW h \in Routines, SaveFails(h)
    PROVE  RingsInv'
<1>1. /\ req[h].pc = "truncate" /\ Return(h) /\ unsaved' = TRUE /\ UNCHANGED memory
      /\ UNCHANGED <<quota, leftRings>> /\ file' = file /\ clash' = clash
  BY Zenon DEF SaveFails
<1>2. req[h].pc # "idle" /\ req[h].pc \in Saving  BY <1>1 DEF Saving
<1>3. RTypeOK  BY <1>2, AtWork, Zenon
<1>4. Turn(h, req[h].group, Idle)  BY <1>1, <1>2, <1>3, ReturnTurn, Zenon
<1>5. Idle.pc \in {"truncate", "write", "idle"} /\ Idle.inst \in {0, req[h].inst}  BY IdleFacts, Zenon
<1>6. FileInv'  BY <1>1, Zenon DEF FileInv
<1>7. unsaved' \in BOOLEAN /\ file' \in FileSet \cup {Torn}  BY <1>1, <1>3, Zenon DEF RTypeOK
<1> QED  BY <1>1, <1>2, <1>4, <1>5, <1>6, <1>7, SaveStep, Zenon
----------------------------------------------------------------------------
\* The process.

\* After a start, the table is empty and no request is at work.
LEMMA BootOK ==
    ASSUME RingsInv, Boot
    PROVE  RingsInv'
<1>1. /\ proc = "down" /\ proc' = "starting"
      /\ boot' = IF file = Torn THEN {} ELSE {g \in Groups : file[g] # None}
      /\ UNCHANGED <<rings, infos, running, provider, quota, file, req, leftRings, clash, unsaved>>
  BY Zenon DEF Boot, table, ringGhosts
<1>2. RTypeOK /\ Quiet  BY <1>1, Zenon DEF RingsInv
<1>3. boot' \subseteq Groups  BY <1>1
<1>4. RTypeOK'  BY <1>1, <1>2, <1>3 DEF RTypeOK
<1>5. PhaseOK'
  <2>1. \A h \in Handlers : req'[h].pc = "idle"  BY <1>1, <1>2, IdleFacts, Zenon DEF Quiet, Routines
  <2>2. boot' # {} => file # Torn  BY <1>1, Zenon
  <2>3. file # Torn => \A g \in boot' : file[g] # None  BY <1>1, Zenon
  <2>4. proc' # "up"  BY <1>1
  <2> QED  BY <1>1, <2>1, <2>2, <2>3, <2>4, Zenon DEF PhaseOK
<1>6. \A h \in Routines : req'[h] = Idle  BY <1>1, <1>2, Zenon DEF Quiet
<1>7. \A g : \A h \in Routines : ~Works(req', h, g)  BY <1>6, IdleFacts, Zenon DEF Works
<1>8. \A g : Acting(req', g) = {Idle}  BY <1>7, Zenon DEF Acting
<1>9. \A g \in Groups : rings'[g] = 0 /\ provider'[g] = 0 /\ infos'[g] = 0  BY <1>1, <1>2, Zenon DEF Quiet
<1>10. TableInv'
  <2>1. Alone(req', clash')  BY <1>7, Zenon DEF Alone
  <2>2. ASSUME NEW g \in Groups, NEW i \in Owned(g, rings', provider', req') PROVE FALSE
    <3>1. \A h \in Routines : req'[h].inst = 0  BY <1>6, IdleFacts, Zenon
    <3> QED  BY <1>9, <2>2, <3>1, Zenon DEF Owned
  <2>3. Apart(rings', provider', req')  BY <2>2, Zenon DEF Apart
  <2>4. \A g \in Groups : Fine(Idle, rings'[g], infos'[g], provider'[g], running')
    <3>1. Idle.pc \notin {"quota", "listen", "insert", "leave"} /\ Idle.pc \notin {"insert", "leave"}
      BY IdleFacts
    <3> QED  BY <1>9, <3>1, Zenon DEF Fine
  <2>5. running' = {}  BY <1>1, <1>2, Zenon DEF Quiet
  <2> QED  BY <1>8, <2>1, <2>3, <2>4, <2>5, Zenon DEF TableInv
<1>11. FileInv'
  <2> SUFFICES ASSUME ~unsaved'
               PROVE  /\ WritersOK(file', req')
                      /\ \A g \in Groups \ clash' : \A r \in Acting(req', g) : \A f \in Contents(file', req') :
                           FileFine(r, rings'[g], quota'[g], g \in leftRings', f[g])
    BY Zenon DEF FileInv
  <2>1. /\ Idle.pc \notin {"truncate", "write"} /\ Idle.pc # "write" /\ Idle.pc # "truncate" /\ Idle.op # "boot"
        /\ Idle.pc \notin {"listen", "insert", "load"} /\ Idle.pc # "load"
    BY IdleFacts
  <2>2. WritersOK(file', req')  BY <1>1, <1>2, <1>6, <2>1, Zenon DEF WritersOK, Quiet
  <2>3. ASSUME NEW g \in Groups, NEW v PROVE FileFine(Idle, rings'[g], quota'[g], g \in leftRings', v)
    <3>1. rings'[g] = 0 /\ g \notin leftRings'  BY <1>1, <1>2, <1>9, Zenon DEF Quiet
    <3> QED  BY <2>1, <3>1, Zenon DEF FileFine, Good
  <2> QED  BY <1>8, <2>2, <2>3, Zenon
<1>12. proc' # "down"  BY <1>1
<1> QED  BY <1>4, <1>5, <1>10, <1>11, <1>12, Zenon DEF RingsInv

\* The service begins after main's last ring, and then the process only stops.
LEMMA ProcessOK ==
    ASSUME RingsInv, Serve \/ Shutdown \/ StopRings \/ Exit
    PROVE  RingsInv'
<1>1. RTypeOK  BY Zenon DEF RingsInv
<1>2. CASE Serve
  <2>1. /\ proc = "starting" /\ req[Main].pc = "idle" /\ proc' = "up"
        /\ UNCHANGED <<boot, rings, infos, running, provider, quota, file, req, leftRings, clash, unsaved>>
    BY <1>2, Zenon DEF Serve, table, ringGhosts
  <2>2. RTypeOK'  BY <1>1, <2>1 DEF RTypeOK
  <2>3. TableInv /\ FileInv  BY <2>1, Zenon DEF RingsInv
  <2>4. TableInv'  BY <2>1, <2>3, Zenon DEF TableInv
  <2>5. FileInv'  BY <2>1, <2>3, Zenon DEF FileInv
  <2>6. proc' # "starting" /\ proc' # "down"  BY <2>1
  <2>7. PhaseOK'  BY <2>1, <2>6, Zenon DEF PhaseOK
  <2> QED  BY <2>2, <2>4, <2>5, <2>6, <2>7, Zenon DEF RingsInv
<1>3. CASE Shutdown
  <2>1. /\ proc' = "stopping"
        /\ UNCHANGED <<boot, rings, infos, running, provider, quota, file, req, leftRings, clash, unsaved>>
    BY <1>3, Zenon DEF Shutdown, table, ringGhosts
  <2>2. RTypeOK'  BY <1>1, <2>1 DEF RTypeOK
  <2>3. proc' # "down" /\ proc' \notin {"starting", "up"}  BY <2>1
  <2> QED  BY <2>2, <2>3, Zenon DEF RingsInv
<1>4. CASE StopRings
  <2>1. /\ proc = "stopping" /\ proc' = proc /\ running' \subseteq running
        /\ rings' = [g \in Groups |-> 0] /\ infos' = [g \in Groups |-> 0]
        /\ UNCHANGED <<boot, provider, quota, file, req, leftRings, clash, unsaved>>
    BY <1>4, Zenon DEF StopRings, ringGhosts
  <2>2. rings' \in [Groups -> 0 .. MaxRings]  BY <2>1, RingBasics, Zenon
  <2>3. infos' \in [Groups -> Nat]  BY <2>1
  <2>4. RTypeOK'  BY <1>1, <2>1, <2>2, <2>3, Zenon DEF RTypeOK
  <2>5. proc' # "down" /\ proc' \notin {"starting", "up"}  BY <2>1
  <2> QED  BY <2>4, <2>5, Zenon DEF RingsInv
<1>5. CASE Exit
  <2>1. /\ proc' = "down" /\ boot' = {} /\ running' = {} /\ leftRings' = {} /\ clash' = {}
        /\ rings' = [g \in Groups |-> 0] /\ infos' = [g \in Groups |-> 0] /\ provider' = [g \in Groups |-> 0]
        /\ req' = [h \in Routines |-> Idle] /\ unsaved' = (unsaved \/ file = Torn) /\ UNCHANGED <<quota, file>>
    BY <1>5, Zenon DEF Exit
  <2>2. /\ rings' \in [Groups -> 0 .. MaxRings] /\ provider' \in [Groups -> 0 .. MaxRings]
        /\ req' \in [Routines -> ReqRec] /\ \A h \in Routines : ReqOK(h, req'[h])
    BY <2>1, RingBasics, IdleFacts, Zenon
  <2>3. infos' \in [Groups -> Nat]  BY <2>1
  <2>4. RTypeOK'
    <3>1. proc' \in {"down", "starting", "up", "stopping"} /\ unsaved' \in BOOLEAN  BY <2>1, Zenon
    <3>2. /\ boot' \subseteq Groups /\ leftRings' \subseteq Groups /\ clash' \subseteq Groups
          /\ running' \subseteq Instances
      BY <2>1
    <3> QED  BY <1>1, <2>1, <2>2, <2>3, <3>1, <3>2, Zenon DEF RTypeOK
  <2>5. Quiet'  BY <2>1, Zenon DEF Quiet
  <2>6. proc' \notin {"starting", "up"}  BY <2>1
  <2> QED  BY <2>4, <2>5, <2>6, Zenon DEF RingsInv
<1> QED  BY <1>2, <1>3, <1>4, <1>5, Zenon

LEMMA StutterOK ==
    ASSUME RingsInv, UNCHANGED ringsVars
    PROVE  RingsInv'
<1>1. UNCHANGED <<proc, boot, rings, infos, running, provider, quota, file, req, leftRings, clash, unsaved>>
  BY Zenon DEF ringsVars, memory, table, ringGhosts
<1>2. RTypeOK => RTypeOK'  BY <1>1 DEF RTypeOK
<1>3. Quiet => Quiet'  BY <1>1, Zenon DEF Quiet
<1>4. PhaseOK => PhaseOK'  BY <1>1, Zenon DEF PhaseOK
<1>5. TableInv => TableInv'  BY <1>1, Zenon DEF TableInv
<1>6. FileInv => FileInv'  BY <1>1, Zenon DEF FileInv
<1> QED  BY <1>1, <1>2, <1>3, <1>4, <1>5, <1>6, Zenon DEF RingsInv

LEMMA StartRings ==
    ASSUME RingsInit
    PROVE  RingsInv
<1>1. /\ proc = "down" /\ boot = {} /\ running = {} /\ leftRings = {} /\ clash = {} /\ file = Empty
      /\ rings = [g \in Groups |-> 0] /\ infos = [g \in Groups |-> 0] /\ provider = [g \in Groups |-> 0]
      /\ quota = [g \in Groups |-> 0] /\ req = [h \in Routines |-> Idle] /\ unsaved = FALSE
  BY Zenon DEF RingsInit
<1>2. /\ rings \in [Groups -> 0 .. MaxRings] /\ provider \in [Groups -> 0 .. MaxRings]
      /\ quota \in [Groups -> Quotas]
      /\ req \in [Routines -> ReqRec] /\ \A h \in Routines : ReqOK(h, req[h])
      /\ file \in FileSet \cup {Torn} /\ file # Torn
  BY <1>1, RingBasics, IdleFacts, Zenon
<1>3. infos \in [Groups -> Nat]  BY <1>1
<1>4. boot \subseteq Groups /\ leftRings \subseteq Groups /\ clash \subseteq Groups /\ running \subseteq Instances
  BY <1>1
<1>5. RTypeOK  BY <1>1, <1>2, <1>3, <1>4, Zenon DEF RTypeOK
<1>6. Quiet  BY <1>1, <1>2, Zenon DEF Quiet
<1>7. proc \notin {"starting", "up"}  BY <1>1
<1> QED  BY <1>5, <1>6, <1>7, Zenon DEF RingsInv

\* Every step of the daemon keeps the invariant.
LEMMA NextRings ==
    ASSUME RingsInv, [RingsNext]_ringsVars
    PROVE  RingsInv'
<1>1. CASE Boot  BY <1>1, BootOK, Zenon
<1>2. CASE Serve \/ Shutdown \/ StopRings \/ Exit  BY <1>2, ProcessOK, Zenon
<1>3. CASE \E g \in Groups : BootRing(g)  BY <1>3, BootRingOK, Zenon
<1>4. ASSUME NEW h \in Handlers, NEW g \in Groups, handleRingLeave(h, g) PROVE RingsInv'
  BY <1>4, LeaveRingOK, LeavePanicOK, Zenon
<1>5. ASSUME NEW h \in Handlers, NEW g \in Groups, NEW max \in Quotas,
             handleRingJoin(h, g, max) \/ SetRingQuota(h, g, max)
      PROVE  RingsInv'
  BY <1>5, ArriveOK, Zenon
<1>6. ASSUME NEW h \in Routines, StartStep(h) PROVE RingsInv'
  BY <1>6, LocalStepsOK, StartServerOK, InsertRingOK, Zenon DEF StartStep
<1>7. ASSUME NEW h \in Handlers,
             LeaveGroup(h) \/ SetQuota(h) \/ LoadFile(h) \/ Truncate(h) \/ WriteFile(h) \/ SaveFails(h)
      PROVE  RingsInv'
  <2>1. h \in Routines  BY Zenon DEF Routines
  <2> QED  BY <1>7, <2>1, LeaveGroupOK, LocalStepsOK, LoadFileOK, TruncateOK, WriteFileOK, SaveFailsOK, Zenon
<1>8. CASE UNCHANGED ringsVars  BY <1>8, StutterOK, Zenon
<1> QED  BY <1>1, <1>2, <1>3, <1>4, <1>5, <1>6, <1>7, <1>8, Zenon DEF RingsNext
----------------------------------------------------------------------------
\* A group at rest has no request at work.
LEMMA RestFacts ==
    ASSUME NEW g \in Groups, AtRest(g)
    PROVE  Acting(req, g) = {Idle}
BY Zenon DEF AtRest, Acting, Works

LEMMA TableFromInv ==
    ASSUME RingsInv
    PROVE  TableExact
<1> SUFFICES ASSUME proc = "up"
             PROVE  /\ \A g \in Groups :
                         g \notin clash /\ AtRest(g) =>
                           /\ infos[g] = (IF rings[g] = 0 THEN 0 ELSE 1)
                           /\ provider[g] = rings[g]
                           /\ rings[g] # 0 => rings[g] \in running
                    /\ (\A g \in Groups : g \notin clash /\ AtRest(g)) => running = {rings[g] : g \in Groups} \ {0}
  BY Zenon DEF TableExact
<1>1. RTypeOK /\ TableInv  BY Zenon DEF RingsInv
<1>2. Idle.pc \notin {"insert", "leave"}  BY IdleFacts
<1>3. ASSUME NEW g \in Groups, g \notin clash, AtRest(g)
      PROVE  /\ infos[g] = (IF rings[g] = 0 THEN 0 ELSE 1)
             /\ provider[g] = rings[g]
             /\ rings[g] # 0 => rings[g] \in running
  <2>1. Fine(Idle, rings[g], infos[g], provider[g], running)  BY <1>1, <1>3, RestFacts, Zenon DEF TableInv
  <2> QED  BY <1>2, <2>1, Zenon DEF Fine
<1>4. ASSUME \A g \in Groups : g \notin clash /\ AtRest(g)
      PROVE  running = {rings[g] : g \in Groups} \ {0}
  <2>1. clash = {}  BY <1>1, <1>4, Zenon DEF RTypeOK
  <2>2. ASSUME NEW i \in running PROVE i \in {rings[g] : g \in Groups} /\ i # 0
    <3>1. i # 0  BY <1>1, <2>2, RingBasics, Zenon DEF RTypeOK
    <3>2. Accounted(i, rings, req)  BY <1>1, <2>1, <2>2, Zenon DEF TableInv
    <3>3. PICK g \in Groups : rings[g] = i \/ \E r \in Acting(req, g) : r.pc \in {"insert", "leave"} /\ r.inst = i
      BY <3>2, Zenon DEF Accounted
    <3>4. Acting(req, g) = {Idle}  BY <1>4, RestFacts, Zenon
    <3> QED  BY <1>2, <3>1, <3>3, <3>4, Zenon
  <2>3. ASSUME NEW i \in {rings[g] : g \in Groups}, i # 0 PROVE i \in running  BY <1>3, <1>4, <2>3, Zenon
  <2> QED  BY <2>2, <2>3, Zenon
<1> QED  BY <1>3, <1>4, Zenon

LEMMA FileFromInv ==
    ASSUME RingsInv
    PROVE  FileExact
<1> SUFFICES ASSUME NEW g \in Groups, proc = "up", ~unsaved, file # Torn, g \notin clash, AtRest(g)
             PROVE  (rings[g] # 0 => file[g] \in {0, quota[g]}) /\ (g \in leftRings => file[g] = None)
  BY Zenon DEF FileExact
<1>1. RTypeOK /\ FileInv  BY Zenon DEF RingsInv
<1>2. file \in Contents(file, req)  BY <1>1, Zenon DEF RTypeOK, Contents
<1>3. FileFine(Idle, rings[g], quota[g], g \in leftRings, file[g])  BY <1>1, <1>2, RestFacts, Zenon DEF FileInv
<1>4. Idle.pc \notin {"leave", "load", "truncate"}  BY IdleFacts
<1> QED  BY <1>3, <1>4, Zenon DEF FileFine, Good

\* However requests to join, leave and limit rings interleave, with each other, with failures at every
\* point of startRing and with restarts: for a group that no two requests have worked on at once, when none
\* is working on it, the table, the list, the server and the published address agree; and when this is so
\* of every group, the servers that answer are those of the table (startRing, LeaveRing and LeaveGroup).
THEOREM TableStaysExact == RingsSpec => []TableExact
<1>1. RingsInit => RingsInv  BY StartRings, Zenon
<1>2. RingsInv /\ [RingsNext]_ringsVars => RingsInv'  BY NextRings, Zenon
<1>3. RingsInv => TableExact  BY TableFromInv, Zenon
<1> QED  BY <1>1, <1>2, <1>3, PTL DEF RingsSpec

\* As long as no write of the groups file failed, was overtaken or was cut in two by the end of the
\* process, the file gives back, at the next start, the rings the daemon runs with the limits in force and
\* none it has left (AddGroup, RemoveGroup, SetRingQuota and SaveGroupsFile).
THEOREM FileStaysExact == RingsSpec => []FileExact
<1>1. RingsInit => RingsInv  BY StartRings, Zenon
<1>2. RingsInv /\ [RingsNext]_ringsVars => RingsInv'  BY NextRings, Zenon
<1>3. RingsInv => FileExact  BY FileFromInv, Zenon
<1> QED  BY <1>1, <1>2, <1>3, PTL DEF RingsSpec
=============================================================================
