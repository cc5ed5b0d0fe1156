-------------------------- MODULE GroupMembership --------------------------
(***************************************************************************)
(* The members of a private ring, as its GroupIdentityRecord lists them    *)
(* (dht/private.go, dht/public.go, cmd/drings-daemon/private_manager.go).  *)
(*                                                                         *)
(* The record lives on the public ring, at an owner that accepts a put     *)
(* only if its version is newer (storeSignedRecord, see PeerRecords); here *)
(* the owner is one register.  Every peer runs JoinRing and LeaveRing from *)
(* its API, and the republish loop, which adds the peer to the record from *)
(* time to time.  An update reads the record, changes the list and puts it *)
(* back under the next version, and starts again on a conflict.            *)
(*                                                                         *)
(* Abstractions: the private ring itself, its server and addresses, the    *)
(* groups file; back-off delays; an expired record is one that is gone.    *)
(***************************************************************************)
EXTENDS Integers, FiniteSets

CONSTANTS
  Peers,
  MaxRetries,  \* maxGroupRecordRetries, 5 in the code
  MaxVersion,  \* bound on the version of the record
  MaxExpiries, \* bound on expiries of the record
  Loops,       \* the peers whose republish loop takes turns
  Env,         \* what the environment does
  Nil

ASSUME GroupAssumption ==
  /\ IsFiniteSet(Peers) /\ MaxRetries \in Nat \ {0} /\ MaxVersion \in Nat /\ MaxExpiries \in Nat
  /\ Loops \subseteq Peers /\ Env \subseteq {"error"}
ASSUME NilAssumption == Nil \notin [ver : Nat, peers : SUBSET Peers]

VARIABLES
  rec,        \* the record on the public ring, Nil when there is none
  cache,      \* the copy each peer has on disk
  member,     \* the peers whose manager has the ring
  republish,  \* the peers whose republisher is registered
  call,       \* the update under way in each thread of each peer
  expiries,
  listed,     \* peers whose JoinRing has stored the record
  left,       \* peers whose LeaveRing has removed them from the record ...
  again       \* ... and whose own republish loop has stored it since

ghosts == <<listed, left, again>>
vars == <<rec, cache, member, republish, call, expiries, ghosts>>
----------------------------------------------------------------------------
Threads == {"api", "loop"}

IdleCall == [pc |-> "idle", op |-> "none", peers |-> {}, ver |-> 0, attempt |-> 0, first |-> 0]

Init ==
  /\ rec = Nil
  /\ cache = [p \in Peers |-> Nil]
  /\ member = {}
  /\ republish = {}
  /\ call = [p \in Peers |-> [t \in Threads |-> IdleCall]]
  /\ expiries = 0
  /\ listed = {} /\ left = {} /\ again = {}

Version == IF rec = Nil THEN 0 ELSE rec.ver

Set(p, t, c) == call' = [call EXCEPT ![p][t] = c]
Begin(p, t, op) == Set(p, t, [IdleCall EXCEPT !.pc = "lookup", !.op = op, !.first = Version])

(* The update is over: JoinRing adds the ring to the manager whatever its   *)
(* outcome, LeaveRing has removed it before.                                *)
Finish(p, t) ==
  /\ Set(p, t, IdleCall)
  /\ member' = IF t = "api" /\ call[p][t].op = "add" THEN member \cup {p} ELSE member
----------------------------------------------------------------------------
(* startRing: the republisher is registered before the first update. *)
JoinRing(p) ==
  /\ call[p]["api"].pc = "idle"
  /\ p \notin member
  /\ republish' = republish \cup {p}
  /\ Begin(p, "api", "add")
  /\ left' = left \ {p}
  /\ UNCHANGED <<rec, cache, member, expiries, listed, again>>

(* LeaveRing and LeaveGroup; the republisher stays registered. *)
LeaveRing(p) ==
  /\ call[p]["api"].pc = "idle"
  /\ p \in member
  /\ member' = member \ {p}
  /\ Begin(p, "api", "remove")
  /\ listed' = listed \ {p}
  /\ UNCHANGED <<rec, cache, republish, expiries, left, again>>

(* A turn of the republish loop. *)
Republish(p) ==
  /\ p \in Loops
  /\ call[p]["loop"].pc = "idle"
  /\ p \in republish
  /\ Begin(p, "loop", "add")
  /\ UNCHANGED <<rec, cache, member, republish, expiries, ghosts>>

(* The record cached on disk, or one without members. *)
loadCachedGroupRecord(p) == IF cache[p] # Nil THEN cache[p] ELSE [peers |-> {}, ver |-> 0]

(* LookupGroup at the start of an attempt.  An update falls back on the     *)
(* copy on disk, then on an empty list; a removal ends.                     *)
LookupGroup(p, t) ==
  LET c == call[p][t]
      old == IF rec # Nil THEN rec ELSE loadCachedGroupRecord(p)
  IN /\ c.pc = "lookup"
     /\ IF c.op = "remove" /\ rec = Nil
          THEN Finish(p, t)
          ELSE /\ old.ver < MaxVersion
               /\ Set(p, t, [c EXCEPT !.pc = "publish", !.ver = old.ver + 1,
                                      !.peers = IF c.op = "add" THEN old.peers \cup {p}
                                                ELSE old.peers \ {p}])
               /\ UNCHANGED member
     /\ UNCHANGED <<rec, cache, republish, expiries, ghosts>>

(* Mutant: the owner takes a record of the version it has. *)
Accepts_Equal(v) == Version <= v

(* Mutant: the owner wants to skip a version. *)
Accepts_Gap(v) == Version + 1 < v

(* storeSignedRecord on the owner. *)
Accepts(v) == Version < v

(* The record of an update is stored. *)
Stores(p, t) ==
  LET c == call[p][t]
      add == c.op = "add"
  IN /\ c.pc = "publish"
     /\ Accepts(c.ver)
     /\ rec' = [ver |-> c.ver, peers |-> c.peers]
     /\ listed' = IF add /\ t = "api" THEN listed \cup {p} ELSE listed
     /\ left' = IF add THEN left ELSE left \cup {p}
     /\ again' = IF add THEN (IF t = "loop" THEN again \cup {p} ELSE again) ELSE again \ {p}
     /\ UNCHANGED <<cache, republish, expiries>>

(* PublishGroup is accepted. *)
PublishGroup(p, t) ==
  /\ Stores(p, t)
  /\ IF call[p][t].op = "add" THEN Set(p, t, [call[p][t] EXCEPT !.pc = "cache"]) /\ UNCHANGED member
                              ELSE Finish(p, t)

(* Mutant: an error is taken for a conflict, and the update starts again. *)
ReplyLost_Retries(p, t) ==
  /\ "error" \in Env
  /\ Stores(p, t)
  /\ Set(p, t, [call[p][t] EXCEPT !.pc = "lookup"])
  /\ UNCHANGED member

(* It is accepted and the answer does not arrive: the caller sees an error. *)
ReplyLost(p, t) ==
  /\ "error" \in Env
  /\ Stores(p, t)
  /\ Finish(p, t)

(* A version conflict: read again, or give up. *)
Conflict(p, t) ==
  LET c == call[p][t] IN
  /\ c.pc = "publish"
  /\ ~Accepts(c.ver)
  /\ IF c.attempt + 1 < MaxRetries
       THEN Set(p, t, [c EXCEPT !.pc = "lookup", !.peers = {}, !.ver = 0, !.attempt = @ + 1])
            /\ UNCHANGED member
       ELSE Finish(p, t)
  /\ UNCHANGED <<rec, cache, republish, expiries, ghosts>>

(* Another error, or the end of the context. *)
PublishFails(p, t) ==
  /\ "error" \in Env
  /\ call[p][t].pc \in {"lookup", "publish"}
  /\ Finish(p, t)
  /\ UNCHANGED <<rec, cache, republish, expiries, ghosts>>

cacheGroupRecord(p, t) ==
  LET c == call[p][t] IN
  /\ c.pc = "cache"
  /\ cache' = [cache EXCEPT ![p] = [ver |-> c.ver, peers |-> c.peers]]
  /\ Finish(p, t)
  /\ UNCHANGED <<rec, republish, expiries, ghosts>>

(* The record expires on the public ring. *)
Expire ==
  /\ rec # Nil
  /\ expiries < MaxExpiries
  /\ expiries' = expiries + 1
  /\ rec' = Nil
  /\ UNCHANGED <<cache, member, republish, call, ghosts>>
----------------------------------------------------------------------------
Update(p, t) ==
  \/ LookupGroup(p, t) \/ PublishGroup(p, t) \/ ReplyLost(p, t)
  \/ Conflict(p, t) \/ PublishFails(p, t) \/ cacheGroupRecord(p, t)

Next ==
  \/ \E p \in Peers : JoinRing(p) \/ LeaveRing(p) \/ Republish(p)
  \/ \E p \in Peers, t \in Threads : Update(p, t)
  \/ Expire

Spec == Init /\ [][Next]_vars
----------------------------------------------------------------------------
Record == [ver : 1 .. MaxVersion, peers : SUBSET Peers]
Calls == [pc : {"idle", "lookup", "publish", "cache"}, op : {"none", "add", "remove"},
          peers : SUBSET Peers, ver : 0 .. MaxVersion, attempt : 0 .. MaxRetries - 1,
          first : 0 .. MaxVersion]

(* The type of the state. *)
TypeOK ==
  /\ rec \in Record \cup {Nil}
  /\ cache \in [Peers -> Record \cup {Nil}]
  /\ member \subseteq Peers /\ republish \subseteq Peers
  /\ call \in [Peers -> [Threads -> Calls]]
  /\ expiries \in 0 .. MaxExpiries
  /\ listed \subseteq Peers /\ left \subseteq Peers /\ again \subseteq Peers

(* No update of another peer, or of the peer's own loop, undoes a join that *)
(* was stored, as long as the record has not expired: the version check     *)
(* makes read, change and put back one transaction (UpdateGroupRecord).     *)
NoLostJoin == expiries = 0 => \A p \in listed : rec # Nil /\ p \in rec.peers

(* ... and none of another peer brings a peer back that has left            *)
(* (removeFromGroupRecord).                                                 *)
LeaverNotReadded == expiries = 0 => \A p \in left \ again : rec # Nil => p \notin rec.peers

(* A peer whose LeaveRing has removed it from the record stays out of it    *)
(* until it joins again.                                                    *)
LeftStaysOut == \A p \in left : rec # Nil => p \notin rec.peers

(* Every conflict of an update means that another one has been stored since *)
(* it began: an update that gives up has been overtaken that many times.    *)
ConflictMeansProgress ==
  expiries = 0 =>
    \A p \in Peers, t \in Threads :
      call[p][t].pc # "idle" => Version >= call[p][t].first + call[p][t].attempt

(* The peers the record lists, and what a call still asks for. *)
Listed == IF rec = Nil THEN {} ELSE rec.peers
Ask(c) == IF c.pc = "idle" THEN "none" ELSE IF c.pc = "cache" THEN "done" ELSE c.op

A == INSTANCE GroupMembers WITH
       members <- Listed,
       lapsed <- (expiries > 0),
       ask <- [x \in Peers \X Threads |-> Ask(call[x[1]][x[2]])]

(* The loop of read, change, put and retry implements a set: until the      *)
(* record expires each join, leave and turn of the republish loop changes   *)
(* the list in one step by its own peer and nothing else, at most once,     *)
(* however the attempts of other peers fall in between and whether or not   *)
(* the answer arrives (dht/private.go 164-252).                             *)
UpdatesAtomic == [][A!Next]_(A!vars)
============================================================================
