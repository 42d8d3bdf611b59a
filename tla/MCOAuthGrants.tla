---------------------------- MODULE MCOAuthGrants ----------------------------
(* OAuthGrants for TLC: one client that registers through DCR and one known by
   its metadata document, and the values codes and tokens are drawn from. *)
EXTENDS OAuthGrants, TLC

CONSTANTS dcr, cimd, k1, k2, t1, t2, t3, read, exec

VARIABLE part

TokensAndPermissions == Permutations(Tokens) \cup Permutations(Permissions)

(* A behaviour is the long life of a consent of one client, or shows two clients side by
   side while PKCE is required, no time passes and one token is neither drawn nor presented. *)
GrantsInit == Init /\ part \in {"life", "two"} /\ (part = "two" => requirePkce)
GrantsNext ==
    /\ Next /\ UNCHANGED part
    /\ part = "life" =>
          \A c \in CimdClients : clients'[c] = "fresh" /\ c \notin {srv'.caller, cli'}
    /\ part = "two" =>
          requirePkce' /\ now' = 0 /\ \E t \in Tokens : tokens'[t].st = "fresh" /\ srv'.token # t
GrantsSpec == GrantsInit /\ [][GrantsNext]_<<vars, part>>
==============================================================================
