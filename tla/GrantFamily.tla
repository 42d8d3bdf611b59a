----------------------------- MODULE GrantFamily -----------------------------
(***************************************************************************)
(* What the authorization server promises about one consent.  The consent  *)
(* is known by its authorization code, whose hash also names the family of *)
(* refresh tokens derived from it.  It is offered once, redeemed at most   *)
(* once, then held through rotations that never widen its scope, and once  *)
(* dead it never comes back.                                               *)
(***************************************************************************)
CONSTANTS
    Families,   \* one per authorization code
    Clients,
    Names,      \* scope names a consent can carry
    None

VARIABLE grant  \* grant[f]: what is left of the consent f

NoGrant   == [st |-> "none", client |-> None, scope |-> {}]
DeadGrant == [st |-> "dead", client |-> None, scope |-> {}]

Init == grant = [f \in Families |-> NoGrant]

(* The user approves client c for the scopes S. *)
Offer(f, c, S) ==
    /\ grant[f].st = "none"
    /\ S # {}
    /\ grant' = [grant EXCEPT ![f] = [st |-> "offered", client |-> c, scope |-> S]]

(* The code is exchanged: the client holds exactly what was approved. *)
Redeem(f) ==
    /\ grant[f].st = "offered"
    /\ grant' = [grant EXCEPT ![f].st = "held"]

(* The refresh token is rotated, for the same client and no more scope. *)
Rotate(f, S) ==
    /\ grant[f].st = "held"
    /\ S # {} /\ S \subseteq grant[f].scope
    /\ grant' = [grant EXCEPT ![f].scope = S]

(* Any set of consents is withdrawn at once: a refused attempt, a detected
   replay, a revocation, an expiry, or a crash that loses the successor. *)
Kill(F) ==
    /\ \A f \in F : grant[f].st \in {"offered", "held"}
    /\ grant' = [f \in Families |-> IF f \in F THEN DeadGrant ELSE grant[f]]

Next ==
    \/ \E f \in Families : \/ \E c \in Clients, S \in SUBSET Names : Offer(f, c, S)
                           \/ Redeem(f)
                           \/ \E S \in SUBSET Names : Rotate(f, S)
    \/ \E F \in SUBSET Families : Kill(F)

Spec == Init /\ [][Next]_grant
==============================================================================
