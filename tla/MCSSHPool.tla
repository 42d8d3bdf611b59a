------------------------------ MODULE MCSSHPool ------------------------------
(* SSHPool for TLC: a bastion, and the nodes reached through it. *)
EXTENDS SSHPool, TLC

CONSTANTS bastion, web, db, p1, p2, p3, c1, c2, c3, c4

VARIABLE part

Chain == [n \in Nodes |-> IF n = bastion THEN None ELSE IF n = web THEN bastion ELSE web]

(* Connections are alike, so it does not matter which of the fresh ones is taken. *)
Order     == <<c1, c2, c3, c4>>
Fresh(c)  == c \notin Conns \/ conns[c].st = "fresh"
TakenInOrder == \A i \in 1..3 : Fresh(Order[i]) => Fresh(Order[i + 1])

(* A behaviour has three calls at once for two connections, or two calls and a connection for
   every node of the chain, or two calls and two connections for each of bastion and web. *)
PoolInit == Init /\ part \in {"calls", "chain", "again"}
PoolNext ==
    /\ Next /\ UNCHANGED part
    /\ TakenInOrder'
    /\ part = "calls" => Fresh(c3)'
    /\ part = "chain" => Fresh(c4)'
    /\ part = "again" => \A p \in Tasks : task'[p].want # db
    /\ part # "calls" => task'[p3].pc = "idle"
PoolSpec == PoolInit /\ [][PoolNext]_<<poolVars, part>> /\ \A p \in Tasks : SF_poolVars(Step(p))
==============================================================================
