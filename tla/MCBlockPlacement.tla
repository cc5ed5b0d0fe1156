-------------------------- MODULE MCBlockPlacement --------------------------
(* Small instances of BlockPlacement. *)
EXTENDS BlockPlacement, TLC

Quiet == [members |-> Nodes, join |-> {}, leave |-> {}, crash |-> {}, full |-> {}, elsewhere |-> {},
          prunes |-> FALSE, putFirst |-> TRUE, slow |-> FALSE, drops |-> 0, losses |-> 0]
OneJoins == [Quiet EXCEPT !.members = {3, 5, 7}, !.join = {1}, !.prunes = TRUE]
TwoLeave == [Quiet EXCEPT !.leave = {1, 3}]
OneCrashes(n) == [Quiet EXCEPT !.crash = {n}]
PutMeanwhile == [OneJoins EXCEPT !.members = {3, 5}, !.putFirst = FALSE]
OwnerFull == [PutMeanwhile EXCEPT !.members = {3}, !.join = {5}, !.full = {3}, !.prunes = FALSE]
Faults == [PutMeanwhile EXCEPT !.members = {3}, !.elsewhere = {1}, !.prunes = FALSE, !.slow = TRUE, !.drops = 1, !.losses = 1]
LeavesAtOnce == [Quiet EXCEPT !.members = {1, 3, 5}, !.leave = {1}, !.putFirst = FALSE, !.slow = TRUE]

MCScenarios == {OneJoins, TwoLeave, OneCrashes(1), OneCrashes(5), PutMeanwhile, OwnerFull, Faults,
                LeavesAtOnce}
=============================================================================
