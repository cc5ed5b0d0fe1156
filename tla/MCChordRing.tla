---------------------------- MODULE MCChordRing ----------------------------
(* Small instances of ChordRing and RingFormation. *)
EXTENDS RingFormation, TLC

(* Tasks 1, 4 and 6 are the loops, task 11 is a StabilizeFull call on 1. *)
MCHost == [t \in Tasks |-> IF t < 10 THEN t ELSE t - 10]

Quiet == [members |-> {1, 4, 6}, join |-> {}, leave |-> {}, crash |-> {}, full |-> FALSE, splits |-> 0,
          form |-> {}, unlucky |-> FALSE]
TwoJoin == [Quiet EXCEPT !.members = {1}, !.join = {4, 6}]
OneLeaves == [Quiet EXCEPT !.leave = {4}]
OneCrashes(n) == [Quiet EXCEPT !.crash = {n}, !.full = TRUE]
JoinAndLeave == [Quiet EXCEPT !.members = {4}, !.join = {1}, !.leave = {4}]
Partition == [Quiet EXCEPT !.members = {1, 4}, !.splits = 1]

FormsAgain == [Quiet EXCEPT !.members = {}, !.form = {1, 4}, !.crash = {4}]
FormsUnlucky == [Quiet EXCEPT !.members = {}, !.form = {1, 4}, !.unlucky = TRUE]

MCScenarios == {TwoJoin, OneLeaves, OneCrashes(4), OneCrashes(6), JoinAndLeave, Partition,
                FormsAgain, FormsUnlucky}
============================================================================
