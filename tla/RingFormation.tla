--------------------------- MODULE RingFormation ---------------------------
(***************************************************************************)
(* How the daemons of a group come to form one private ring                *)
(* (cmd/drings-daemon/private_manager.go startRing, dht/private.go         *)
(* JoinViaPublicDring).                                                    *)
(*                                                                         *)
(* A daemon starts its RPC server, publishes its address, adds itself to   *)
(* the group's record, reads the record back and joins through the first   *)
(* member that helps; else it creates a ring of its own that remembers the *)
(* members it knows of.  All daemons may do so at the same time, and a     *)
(* node answers the others from its first step on, long before its         *)
(* stabilization loop runs.                                                *)
(*                                                                         *)
(* Abstractions: the record is the list of members GroupMembership shows   *)
(* it to be; whoever has published (PeerRecords) can be looked up.  Both   *)
(* may fail in a scenario that says so.                                    *)
(***************************************************************************)
EXTENDS ChordRing

CONSTANT MaxStarts  \* bound: starts of a daemon

VARIABLES
  record,   \* the members of the group's record, in the order they came
  address,  \* the members whose peer record gives an address for the ring
  form      \* each node's start: its step, the members to try and those known

formVars == <<record, address, form>>
fvars == <<vars, formVars>>

Unborn == [step |-> "no", todo |-> <<>>, known |-> <<>>, starts |-> 0]

(* The members of the stable ring, if there is one, have come this way. *)
FInit ==
  /\ Init
  /\ record = SetToSeq(Members)
  /\ address = Members
  /\ form = [n \in Nodes |-> Unborn]

Goto(n, step) == form' = [form EXCEPT ![n].step = step]

(* The public ring does not answer. *)
Unlucky == scenario.unlucky

(* StartServer: a new Node, or that of a daemon started again.  It answers *)
(* from now on.                                                            *)
StartServer(n) ==
  /\ n \in scenario.form
  /\ status[n] \in {"out", "down"}
  /\ form[n].starts < MaxStarts
  /\ status' = [status EXCEPT ![n] = "forming"]
  /\ form' = [form EXCEPT ![n] = [Unborn EXCEPT !.step = "publish", !.starts = form[n].starts + 1]]
  /\ successor' = [successor EXCEPT ![n] = n]
  /\ successorList' = [successorList EXCEPT ![n] = <<n>>]
  /\ predecessor' = [predecessor EXCEPT ![n] = Nil]
  /\ predecessorList' = [predecessorList EXCEPT ![n] = <<>>]
  /\ UNCHANGED <<record, address, side, pc, loc, leave, limits>>

(* PublishSelf, with the address of the server; an error is logged. *)
PublishSelf(n) ==
  /\ form[n].step = "publish"
  /\ \/ address' = address \cup {n}
     \/ Unlucky /\ UNCHANGED address
  /\ Goto(n, "update")
  /\ UNCHANGED <<vars, record>>

(* UpdateGroupRecord; an error is logged. *)
UpdateGroupRecord(n) ==
  /\ form[n].step = "update"
  /\ \/ record' = IF Contains(record, n) THEN record ELSE Append(record, n)
     \/ Unlucky /\ UNCHANGED record
  /\ Goto(n, "lookup")
  /\ UNCHANGED <<vars, address>>

(* LookupGroup.  Without a record, or with an empty one, startRing creates *)
(* a ring.                                                                 *)
LookupGroup(n) ==
  /\ form[n].step = "lookup"
  /\ \/ /\ record # <<>>
        /\ form' = [form EXCEPT ![n].step = "try", ![n].todo = SelectSeq(record, LAMBDA m : m # n)]
     \/ /\ Unlucky \/ record = <<>>
        /\ form' = [form EXCEPT ![n].step = "try"]
  /\ UNCHANGED <<vars, record, address>>

(* The next member: it has no address, or does not answer, or Join sets    *)
(* the successor its lookup found.  That may be the node itself, which a   *)
(* member still has for a neighbour from before a restart.                 *)
TryMember(n) ==
  LET m == Head(form[n].todo)
      next == [form[n] EXCEPT !.todo = Tail(@)]
      known == [next EXCEPT !.known = Append(@, m)]
      Remembers(o) == n \in ToSet(successorList[o]) \cup {successor[o], predecessor[o]}
  IN /\ form[n].step = "try"
     /\ form[n].todo # <<>>
     /\ \/ /\ m \notin address \/ Unlucky
           /\ form' = [form EXCEPT ![n] = next]
           /\ UNCHANGED <<status, successor, successorList>>
        \/ /\ m \in address
           /\ ~Reach(n, m)
           /\ form' = [form EXCEPT ![n] = known]
           /\ UNCHANGED <<status, successor, successorList>>
        \/ /\ m \in address
           /\ Reach(n, m)
           /\ \E s \in Nodes :
                /\ Reach(n, s)
                /\ s = n => \E o \in Nodes \ {n} : Reach(n, o) /\ Remembers(o)
                /\ successor' = [successor EXCEPT ![n] = s]
                /\ successorList' = [successorList EXCEPT ![n] = <<s>>]
                /\ IF s = n THEN form' = [form EXCEPT ![n] = known] /\ UNCHANGED status
                   ELSE Goto(n, "done") /\ status' = [status EXCEPT ![n] = "up"]
     /\ UNCHANGED <<predecessor, predecessorList, side, pc, loc, leave, limits, record, address>>

(* No member helped: Create forgets whoever has notified the node since    *)
(* its server started.                                                     *)
Create(n) ==
  /\ form[n].step = "try"
  /\ form[n].todo = <<>>
  /\ successor' = [successor EXCEPT ![n] = n]
  /\ successorList' = [successorList EXCEPT ![n] = <<n>>]
  /\ predecessor' = [predecessor EXCEPT ![n] = Nil]
  /\ Goto(n, "seed")
  /\ UNCHANGED <<status, predecessorList, side, pc, loc, leave, limits, record, address>>

(* The members it knows of go to the list tryReconnect goes through, and   *)
(* the background loop starts.                                             *)
Seed(n) ==
  /\ form[n].step = "seed"
  /\ successorList' = [successorList EXCEPT ![n] = @ \o form[n].known]
  /\ status' = [status EXCEPT ![n] = "up"]
  /\ Goto(n, "done")
  /\ UNCHANGED <<successor, predecessor, predecessorList, side, pc, loc, leave, limits, record, address>>

Forming(n) ==
  PublishSelf(n) \/ UpdateGroupRecord(n) \/ LookupGroup(n) \/ TryMember(n) \/ Create(n) \/ Seed(n)

(* A crash ends the start of a ring as well; what it published stays. *)
FCrash(n) ==
  /\ Crash(n)
  /\ form' = [form EXCEPT ![n] = [Unborn EXCEPT !.starts = form[n].starts]]
  /\ UNCHANGED <<record, address>>

FNext ==
  \/ \E n \in Nodes : StartServer(n) \/ Forming(n) \/ FCrash(n)
  \/ /\ \/ \E t \in Tasks : Step(t)
        \/ \E n \in Nodes : Leave(n) \/ Depart(n)
        \/ \E n, m \in Nodes : Join(n, m) \/ evictNode(n, m)
        \/ \E S \in SUBSET Members : S # {} /\ S # Members /\ Split(S)
        \/ Heal
     /\ UNCHANGED formVars

FSpec == FInit /\ [][FNext]_fvars

(* Every loop runs for ever, a departure and a start go on, a partition    *)
(* ends.                                                                   *)
FFairSpec ==
  /\ FSpec
  /\ \A t \in Tasks : WF_fvars(Step(t) /\ UNCHANGED formVars)
  /\ \A n \in Nodes : WF_fvars(Depart(n) /\ UNCHANGED formVars) /\ WF_fvars(Forming(n))
  /\ WF_fvars(Heal /\ UNCHANGED formVars)
=============================================================================
