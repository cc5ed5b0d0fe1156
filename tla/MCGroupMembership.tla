------------------------- MODULE MCGroupMembership -------------------------
(* Small instances of GroupMembership. *)
EXTENDS GroupMembership, TLC

CONSTANTS p1, p2

(* Bound: after an expiry, up to the first record stored, and only the      *)
(* calls of the API.                                                        *)
FewVersions == expiries > 0 => rec = Nil /\ \A p \in Peers : call[p]["loop"] = IdleCall
============================================================================
