------------------------------ MODULE ConnCache ------------------------------
(***************************************************************************)
(* What docs/ARCHITECTURE.md section 5 promises of the connection pool, one *)
(* slot per node: at most one connection of a node exists or is being       *)
(* opened, and a caller that is answered is answered with a live one.       *)
(***************************************************************************)
CONSTANTS Nodes, Tasks, None

VARIABLES
    slot,   \* per node: "none", "opening" or "live"
    ask     \* per task: the node it waits for, the node it was given, or nothing

Requests == [st : {"none"}, node : {None}] \cup [st : {"asked", "given"}, node : Nodes]
NoAsk    == [st |-> "none", node |-> None]

Init ==
    /\ slot = [n \in Nodes |-> "none"]
    /\ ask = [p \in Tasks |-> NoAsk]

(* A slot opens before it is live, and is given up before it opens again. *)
SlotStep(n) ==
    \/ slot'[n] = slot[n]
    \/ slot[n] = "none" /\ slot'[n] = "opening"
    \/ slot[n] = "opening" /\ slot'[n] = "live"
    \/ slot'[n] = "none"

Asks(p)    == ask[p] = NoAsk /\ ask'[p] \in [st : {"asked"}, node : Nodes]
Refused(p) == ask'[p] = NoAsk
Answered(p) ==
    /\ ask[p].st = "asked"
    /\ ask'[p] = [st |-> "given", node |-> ask[p].node]
    /\ slot'[ask[p].node] = "live"

Next ==
    /\ slot' \in [Nodes -> {"none", "opening", "live"}]
    /\ ask' \in [Tasks -> Requests]
    /\ \A n \in Nodes : SlotStep(n)
    /\ \A p \in Tasks : ask'[p] = ask[p] \/ Asks(p) \/ Answered(p) \/ Refused(p)

Spec == Init /\ [][Next]_<<slot, ask>>
==============================================================================
