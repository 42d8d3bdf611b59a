--------------------------- MODULE MCFleetHandles ---------------------------
(* FleetHandles for TLC. *)
EXTENDS FleetHandles, TLC

CONSTANTS bastion, web, p1, p2, p3, c1, c2, c3

NoJump        == [n \in Nodes |-> None]
AllGranted    == {{"fleet.read", "fleet.exec", "fleet.admin"}}
Removable     == {{"fleet.read", "fleet.exec", "fleet.admin"}, {}}
Admin         == [p \in Tasks |-> {"fleet.admin"}]
OneAdmin      == [p \in Tasks |-> IF p = p1 THEN {"fleet.admin"} ELSE {"fleet.read", "fleet.exec"}]
Interchangeable == Permutations(Tasks) \cup Permutations(Conns)
==============================================================================
