---------------------------- MODULE PrivateRings ----------------------------
(***************************************************************************)
(* The private rings of one daemon (cmd/drings-daemon/private_manager.go   *)
(* and main.go): the table of the rings it runs, the groups file they are  *)
(* restarted from (dht/groupconfig.go), their storage quotas, and the      *)
(* addresses its peer record gives for them.                               *)
(*                                                                         *)
(* HTTP requests join and leave rings and set quotas concurrently.  The    *)
(* manager's lock covers the table only: not the start of a ring, which    *)
(* talks to the network for seconds, and not the groups file, which every  *)
(* request reads, changes and writes back.  Writing truncates the file     *)
(* first.  On start the daemon runs startRing for each group of the file,  *)
(* one after the other, before it serves requests.                         *)
(*                                                                         *)
(* Abstractions: what startRing and LeaveGroup do on the network is in     *)
(* GroupMembership, PeerRecords and ChordRing.  A group is named by its id, *)
(* and of the list of rings only how often a group is on it matters.       *)
(***************************************************************************)
EXTENDS Naturals

CONSTANTS
  Groups,      \* group ids
  Handlers,    \* requests served at the same time
  Main,        \* the daemon's main goroutine
  Quotas,      \* storage limits a user gives, 0 for none
  MaxRings,    \* bound: ring instances that run at the same time, listings of a group
  None,        \* no value
  Torn         \* the groups file after the truncation, which does not parse

ASSUME MainAssumption == Main \notin Handlers
ASSUME QuotasAssumption == Quotas \subseteq Nat /\ 0 \in Quotas
ASSUME MaxRingsAssumption == MaxRings \in Nat \ {0}
ASSUME NoneAssumption == None \notin Quotas \cup Groups /\ Torn \notin [Groups -> Quotas \cup {None}]

VARIABLES
  proc,      \* the process: down, starting, up, stopping
  boot,      \* groups of the file that main has still to start
  rings,     \* m.rings: the instance of each group, 0 for none
  infos,     \* m.infos: how often each group is listed
  running,   \* instances whose server answers
  provider,  \* groupAddrProviders: the instance whose address is published, 0 for none
  quota,     \* each ring's quota in the block store, on disk
  file,      \* the groups file: each group's storage_max_bytes, or absent
  req,       \* each goroutine's request: program counter and locals
  leftRings, \* ghost: groups whose ring this process has left
  clash,     \* ghost: groups that two requests have worked on at once
  unsaved    \* ghost: a write of the groups file was lost or overtaken

table == <<rings, infos>>
memory == <<proc, boot, table, running, provider>>
ringGhosts == <<leftRings, clash, unsaved>>
ringsVars == <<memory, quota, file, req, ringGhosts>>

Routines == Handlers \cup {Main}
Instances == 1..MaxRings
Empty == [g \in Groups |-> None]

(* inst: the instance started or left.  snap: the file as it will be written. *)
Idle == [pc |-> "idle", op |-> "none", group |-> None, max |-> 0, inst |-> 0, snap |-> Empty]

(* The data directory of an earlier session, no file at first. *)
RingsInit ==
  /\ proc = "down"
  /\ boot = {}
  /\ rings = [g \in Groups |-> 0]
  /\ infos = [g \in Groups |-> 0]
  /\ running = {}
  /\ provider = [g \in Groups |-> 0]
  /\ quota = [g \in Groups |-> 0]
  /\ file = Empty
  /\ req = [h \in Routines |-> Idle]
  /\ leftRings = {}
  /\ clash = {}
  /\ unsaved = FALSE
----------------------------------------------------------------------------
Goto(h, label) == req' = [req EXCEPT ![h].pc = label]
Return(h) == req' = [req EXCEPT ![h] = Idle]

(* Requests are served while the daemon is up; main's is the start of a    *)
(* group of the file.                                                      *)
BeginRequest(h, op, label, g, max, i) ==
  /\ req[h].pc = "idle"
  /\ req' = [req EXCEPT ![h] = [Idle EXCEPT !.pc = label, !.op = op, !.group = g, !.max = max, !.inst = i]]
  /\ clash' = IF \E other \in Routines \ {h} : req[other].pc # "idle" /\ req[other].group = g
              THEN clash \cup {g} ELSE clash

(* LoadGroupsFile at start-up: a file that does not parse counts as empty. *)
Boot ==
  /\ proc = "down"
  /\ proc' = "starting"
  /\ boot' = IF file = Torn THEN {} ELSE {g \in Groups : file[g] # None}
  /\ UNCHANGED <<table, running, provider, quota, file, req, ringGhosts>>

BootRing(g) ==
  /\ proc = "starting"
  /\ g \in boot
  /\ BeginRequest(Main, "boot", "check", g, file[g], 0)
  /\ boot' = boot \ {g}
  /\ UNCHANGED <<proc, table, running, provider, quota, file, leftRings, unsaved>>

(* The API is served once every group was tried. *)
Serve ==
  /\ proc = "starting"
  /\ boot = {}
  /\ req[Main].pc = "idle"
  /\ proc' = "up"
  /\ UNCHANGED <<boot, table, running, provider, quota, file, req, ringGhosts>>

handleRingJoin(h, g, max) ==
  /\ proc = "up"
  /\ BeginRequest(h, "join", "check", g, max, 0)
  /\ UNCHANGED <<memory, quota, file, leftRings, unsaved>>
----------------------------------------------------------------------------
(* startRing.                                                              *)

(* A group in the table is refused.  The lock is released after the check. *)
CheckExists(h) ==
  /\ req[h].pc = "check"
  /\ IF rings[req[h].group] # 0 THEN Return(h) ELSE Goto(h, "quota")
  /\ UNCHANGED <<memory, quota, file, ringGhosts>>

(* SetQuota for a limit above zero; refused below the ring's usage. *)
ApplyQuota(h) ==
  /\ req[h].pc = "quota"
  /\ \/ /\ quota' = IF req[h].max > 0 THEN [quota EXCEPT ![req[h].group] = req[h].max] ELSE quota
        /\ Goto(h, "listen")
     \/ /\ req[h].max > 0
        /\ Return(h)
        /\ UNCHANGED quota
  /\ UNCHANGED <<memory, file, ringGhosts>>

InUse == running \cup {rings[g] : g \in Groups} \cup {provider[g] : g \in Groups}
           \cup {req[h].inst : h \in Routines}

(* StartServer, and SetPublicDring with the new address. *)
StartServer(h) ==
  /\ req[h].pc = "listen"
  /\ \E i \in Instances \ InUse :
       /\ \A j \in Instances \ InUse : i <= j
       /\ running' = running \cup {i}
       /\ provider' = [provider EXCEPT ![req[h].group] = i]
       /\ req' = [req EXCEPT ![h].pc = "insert", ![h].inst = i]
  /\ UNCHANGED <<proc, boot, table, quota, file, ringGhosts>>

(* The port is taken. *)
ListenFails(h) ==
  /\ req[h].pc = "listen"
  /\ Return(h)
  /\ UNCHANGED <<memory, quota, file, ringGhosts>>

(* The network part is over, whatever its outcome: the ring enters the     *)
(* table, over another instance of its group if one was started meanwhile. *)
InsertRing(h) ==
  /\ req[h].pc = "insert"
  /\ infos[req[h].group] < MaxRings
  /\ rings' = [rings EXCEPT ![req[h].group] = req[h].inst]
  /\ infos' = [infos EXCEPT ![req[h].group] = @ + 1]
  /\ IF h = Main THEN Return(h) ELSE Goto(h, "load")
  /\ leftRings' = leftRings \ {req[h].group}
  /\ UNCHANGED <<proc, boot, running, provider, quota, file, clash, unsaved>>
----------------------------------------------------------------------------
(* LeaveRing and SetRingQuota, up to the groups file.                      *)

(* resolve finds a group in the list or in the table. *)
Resolved(g) == rings[g] # 0 \/ infos[g] # 0

(* The ring leaves the table under the lock.  A group that is listed and   *)
(* has no ring makes the handler panic, which ends the request.            *)
handleRingLeave(h, g) ==
  /\ proc = "up"
  /\ Resolved(g)
  /\ rings' = [rings EXCEPT ![g] = 0]
  /\ infos' = [infos EXCEPT ![g] = IF @ = 0 THEN 0 ELSE @ - 1]
  /\ \/ /\ rings[g] # 0
        /\ BeginRequest(h, "leave", "leave", g, 0, rings[g])
     \/ /\ rings[g] = 0
        /\ req[h].pc = "idle"
        /\ UNCHANGED <<req, clash>>
  /\ leftRings' = leftRings \cup {g}
  /\ UNCHANGED <<proc, boot, running, provider, quota, file, unsaved>>

(* Mutant: the address of the group is not taken back. *)
LeaveGroup_KeepsAddr(h) ==
  /\ req[h].pc = "leave"
  /\ running' = running \ {req[h].inst}
  /\ req' = [req EXCEPT ![h].pc = "load", ![h].inst = 0]
  /\ UNCHANGED <<proc, boot, table, provider, quota, file, ringGhosts>>

(* LeaveGroup and Stop: whatever address the group has is taken back, the  *)
(* server of this instance stops.                                          *)
LeaveGroup(h) ==
  /\ req[h].pc = "leave"
  /\ provider' = [provider EXCEPT ![req[h].group] = 0]
  /\ running' = running \ {req[h].inst}
  /\ req' = [req EXCEPT ![h].pc = "load", ![h].inst = 0]
  /\ UNCHANGED <<proc, boot, table, quota, file, ringGhosts>>

SetRingQuota(h, g, max) ==
  /\ proc = "up"
  /\ Resolved(g)
  /\ BeginRequest(h, "quota", "setquota", g, max, 0)
  /\ UNCHANGED <<memory, quota, file, leftRings, unsaved>>

SetQuota(h) ==
  /\ req[h].pc = "setquota"
  /\ \/ /\ quota' = [quota EXCEPT ![req[h].group] = req[h].max]
        /\ Goto(h, "load")
     \/ Return(h) /\ UNCHANGED quota
  /\ UNCHANGED <<memory, file, ringGhosts>>
----------------------------------------------------------------------------
(* The groups file.                                                        *)

(* Mutant: SetRingQuota changes the limit in memory only. *)
Changed_KeepsQuota(op, f, g, max) ==
  IF op = "join" THEN [f EXCEPT ![g] = max]
  ELSE IF op = "leave" THEN [f EXCEPT ![g] = None]
  ELSE f

(* AddGroup, RemoveGroup, and the loop of SetRingQuota over the entries. *)
Changed(op, f, g, max) ==
  IF op = "join" THEN [f EXCEPT ![g] = max]
  ELSE IF op = "leave" THEN [f EXCEPT ![g] = None]
  ELSE IF f[g] = None THEN f ELSE [f EXCEPT ![g] = max]

(* Writes that another goroutine has begun: it read the file before. *)
Writing(h) == \E other \in Routines \ {h} : req[other].pc \in {"truncate", "write"}

(* LoadGroupsFile, the change, and the decision to write.  A join and a    *)
(* quota take a file that does not parse for an empty one; a leave gives   *)
(* up.  A leave or a quota that changes nothing is not written.            *)
LoadFile(h) ==
  /\ req[h].pc = "load"
  /\ LET r == req[h]
         f == IF file = Torn THEN Empty ELSE file
         new == Changed(r.op, f, r.group, r.max)
         writes == CASE r.op = "join" -> TRUE
                     [] r.op = "leave" -> file # Torn /\ f[r.group] # None
                     [] r.op = "quota" -> f[r.group] # None
     IN /\ req' = [req EXCEPT ![h] = IF writes THEN [@ EXCEPT !.pc = "truncate", !.snap = new, !.inst = 0]
                                     ELSE Idle]
        /\ unsaved' = (unsaved \/ Writing(h))
  /\ UNCHANGED <<memory, quota, file, leftRings, clash>>

(* SaveGroupsFile: os.WriteFile truncates, then writes. *)
Truncate(h) ==
  /\ req[h].pc = "truncate"
  /\ file' = Torn
  /\ Goto(h, "write")
  /\ UNCHANGED <<memory, quota, ringGhosts>>

WriteFile(h) ==
  /\ req[h].pc = "write"
  /\ file' = req[h].snap
  /\ Return(h)
  /\ UNCHANGED <<memory, quota, ringGhosts>>

(* The file cannot be opened: a warning, and the request succeeds. *)
SaveFails(h) ==
  /\ req[h].pc = "truncate"
  /\ Return(h)
  /\ unsaved' = TRUE
  /\ UNCHANGED <<memory, quota, file, leftRings, clash>>
----------------------------------------------------------------------------
(* The end of the process.                                                 *)

(* SIGTERM: requests are no longer accepted; those under way may outlast   *)
(* the five seconds of Shutdown.                                           *)
Shutdown ==
  /\ proc = "up"
  /\ proc' = "stopping"
  /\ UNCHANGED <<boot, table, running, provider, quota, file, req, ringGhosts>>

(* privateDringsManager.Stop *)
StopRings ==
  /\ proc = "stopping"
  /\ running' = running \ {rings[g] : g \in Groups}
  /\ rings' = [g \in Groups |-> 0]
  /\ infos' = [g \in Groups |-> 0]
  /\ UNCHANGED <<proc, boot, provider, quota, file, req, ringGhosts>>

(* The process ends, in order or not: only the disk stays. *)
Exit ==
  /\ proc # "down"
  /\ proc' = "down"
  /\ boot' = {}
  /\ rings' = [g \in Groups |-> 0]
  /\ infos' = [g \in Groups |-> 0]
  /\ running' = {}
  /\ provider' = [g \in Groups |-> 0]
  /\ req' = [h \in Routines |-> Idle]
  /\ leftRings' = {}
  /\ clash' = {}
  /\ unsaved' = (unsaved \/ file = Torn)
  /\ UNCHANGED <<quota, file>>

StartStep(h) == CheckExists(h) \/ ApplyQuota(h) \/ StartServer(h) \/ ListenFails(h) \/ InsertRing(h)

RingsNext ==
  \/ Boot \/ Serve \/ Shutdown \/ StopRings \/ Exit
  \/ \E g \in Groups : BootRing(g)
  \/ \E h \in Handlers, g \in Groups :
       \/ handleRingLeave(h, g)
       \/ \E max \in Quotas : handleRingJoin(h, g, max) \/ SetRingQuota(h, g, max)
  \/ \E h \in Routines : StartStep(h)
  \/ \E h \in Handlers : \/ LeaveGroup(h) \/ SetQuota(h)
                         \/ LoadFile(h) \/ Truncate(h) \/ WriteFile(h) \/ SaveFails(h)

RingsSpec == RingsInit /\ [][RingsNext]_ringsVars
----------------------------------------------------------------------------
AtRest(g) == \A h \in Routines : req[h].pc = "idle" \/ req[h].group # g

(* A group that one request at a time has worked on, and none is working    *)
(* on, is in the table if and only if it is listed, once; if and only if a  *)
(* server answers for it; and if and only if the peer record gives that     *)
(* server's address.  No failure of a join on its way leaves a server       *)
(* behind, and a leave followed by a join does not lose the address.        *)
TableExact ==
  proc = "up" =>
    /\ \A g \in Groups :
         g \notin clash /\ AtRest(g) =>
           /\ infos[g] = (IF rings[g] = 0 THEN 0 ELSE 1)
           /\ provider[g] = rings[g]
           /\ rings[g] # 0 => rings[g] \in running
    /\ (\A g \in Groups : g \notin clash /\ AtRest(g)) => running = {rings[g] : g \in Groups} \ {0}

(* As long as no write of the groups file overtook another, failed or was  *)
(* cut in two by the end of the process, the next start brings back what   *)
(* the requests have left: a ring of the table that is at rest is in the   *)
(* file, with the limit in force if it sets one; a ring that was left is   *)
(* not.                                                                    *)
FileExact ==
  \A g \in Groups :
    proc = "up" /\ ~unsaved /\ file # Torn /\ g \notin clash /\ AtRest(g) =>
      /\ rings[g] # 0 => file[g] \in {0, quota[g]}
      /\ g \in leftRings => file[g] = None
============================================================================
