-------------------------- MODULE MCPrivateRings --------------------------
(* A small instance of PrivateRings: two groups, two requests at a time. *)
EXTENDS PrivateRings, TLC

Symmetry == Permutations(Groups) \cup Permutations(Handlers)

(* Bound: once a write of the groups file was lost, only joins without a   *)
(* limit are followed, until the next one of anything else; and once two   *)
(* requests have met on each group, nothing is.                            *)
Followed ==
  /\ unsaved => clash \cup leftRings = {} /\ \A g \in Groups : quota[g] = 0 /\ \A h \in Handlers : req[h].max = 0
  /\ clash # Groups
===========================================================================
