------------------------------- MODULE RingId -------------------------------
(***************************************************************************)
(* Positions on the identifier circle (dht/chord.go).                      *)
(*                                                                         *)
(* A NodeID is 20 bytes, compared as one big-endian number; here it is     *)
(* that number.  RingSize is 2^160 in the code.                            *)
(***************************************************************************)
EXTENDS Integers

CONSTANT RingSize

ASSUME RingSizeAssumption == RingSize \in Nat \ {0}

NodeID == 0 .. RingSize - 1

(* How far b lies after a on the circle. *)
Distance(a, b) == IF a <= b THEN b - a ELSE b - a + RingSize

(* NodeID.BetweenExclusive: id lies on the open arc from lo to hi; the arc *)
(* from a point to itself is the rest of the circle.                       *)
BetweenExclusive(id, lo, hi) ==
  \/ lo = hi /\ id # lo
  \/ lo < hi /\ lo < id /\ id < hi
  \/ hi < lo /\ (lo < id \/ id < hi)

(* NodeID.BetweenRightInclusive *)
BetweenRightInclusive(id, lo, hi) == id = hi \/ BetweenExclusive(id, lo, hi)

(* NodeID.fingerStart: (id + 2^i) mod 2^160. *)
fingerStart(id, i) == (id + 2^i) % RingSize
=============================================================================
