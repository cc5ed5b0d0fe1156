---------------------------- MODULE GroupMembers ----------------------------
(***************************************************************************)
(* What the record of a group promises its peers: a set of members to      *)
(* which every call adds its caller, or from which it removes it, in one   *)
(* step between its start and its return, and at most once.  A call may    *)
(* return with an error, whether it has had its effect or not.  Once the   *)
(* record has lapsed on the public ring, the next list stored may be any.  *)
(***************************************************************************)
CONSTANTS Peers, Threads

VARIABLES
  members,  \* the peers the record lists
  lapsed,   \* whether the record has ever expired
  ask       \* what each thread of each peer asks for: "done" once it has had it

vars == <<members, lapsed, ask>>

Init ==
  /\ members = {}
  /\ lapsed = FALSE
  /\ ask = [x \in Peers \X Threads |-> "none"]

Invoke(p, t, op) ==
  /\ UNCHANGED <<members, lapsed>>
  /\ ask[<<p, t>>] = "none"
  /\ ask' = [ask EXCEPT ![<<p, t>>] = op]

(* The one effect of a call; it may return at once. *)
TakeEffect(p, t) ==
  /\ ask[<<p, t>>] \in {"add", "remove"}
  /\ \/ lapsed /\ members' \in SUBSET Peers
     \/ ask[<<p, t>>] = "add" /\ members' = members \cup {p}
     \/ ask[<<p, t>>] = "remove" /\ members' = members \ {p}
  /\ \E r \in {"done", "none"} : ask' = [ask EXCEPT ![<<p, t>>] = r]
  /\ UNCHANGED lapsed

Return(p, t) ==
  /\ UNCHANGED <<members, lapsed>>
  /\ ask[<<p, t>>] # "none"
  /\ ask' = [ask EXCEPT ![<<p, t>>] = "none"]

Lapse ==
  /\ members' = {}
  /\ lapsed' = TRUE
  /\ UNCHANGED ask

Next ==
  \/ \E p \in Peers, t \in Threads :
       \/ \E op \in {"add", "remove"} : Invoke(p, t, op)
       \/ TakeEffect(p, t)
       \/ Return(p, t)
  \/ Lapse

Spec == Init /\ [][Next]_vars
=============================================================================
