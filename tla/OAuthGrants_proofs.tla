-------------------------- MODULE OAuthGrants_proofs --------------------------
(***************************************************************************)
(* Proofs about OAuthGrants, for every set of clients, codes, tokens and   *)
(* permissions, and every lifetime.                                        *)
(***************************************************************************)
EXTENDS OAuthGrants, TLAPS

(* Which rows the locals of the handler under way refer to. *)
Linked ==
    /\ At("put_code") => srv.caller \in Clients
    /\ srv.pc \in {"select_code", "burn_code", "burn_token", "kill_family", "issue"}
           => srv.code \in Codes
    /\ srv.pc \in {"owner", "owner_client", "select_token", "burn_token"}
           => srv.token \in Tokens
    /\ \A t \in Tokens : tokens[t].st # "fresh" => tokens[t].family \in Codes

(* A family has tokens only after its code was burned, and a handler that read
   a row still relies on what the row said. *)
Redeemed(f) == codes[f].st \in {"used", "gone"}

Anchored ==
    /\ \A t \in Tokens : tokens[t].st # "fresh" => Redeemed(tokens[t].family)
    /\ At("burn_code") => codes[srv.code].st = "unused"
    /\ srv.pc \in {"burn_token", "kill_family", "issue"} => Redeemed(srv.code)
    /\ At("burn_token") => /\ tokens[srv.token].st \in {"live", "revoked"}
                           /\ tokens[srv.token].family = srv.code
                           /\ Live(srv.code) \subseteq {srv.token}

IInv == TypeOK /\ Linked /\ Anchored /\ OneLivePerFamily
------------------------------------------------------------------------------
(* What a rotation grants is a nonempty part of what the token carried. *)
LEMMA NarrowProperties ==
    ASSUME NEW want, NEW held \in SUBSET ScopeNames, held # {}
    PROVE  Narrow(want, held) # {} /\ Narrow(want, held) \subseteq held
BY DEF Narrow

(* An UPDATE ... SET revoked=1 changes st alone, of live rows alone. *)
LEMMA RevokeFacts ==
    ASSUME tokens \in [Tokens -> TokenRow], NEW T, RevokeWhere(T)
    PROVE  /\ tokens' \in [Tokens -> TokenRow]
           /\ \A t \in Tokens :
                  /\ tokens'[t].family = tokens[t].family
                  /\ tokens'[t].client = tokens[t].client
                  /\ tokens'[t].scope = tokens[t].scope
                  /\ tokens'[t].st =
                         IF t \in T /\ tokens[t].st = "live" THEN "revoked" ELSE tokens[t].st
BY DEF RevokeWhere, HasToken, TokenRow

(* So it makes no row appear or change its family, and no token live. *)
LEMMA RevokeShrinks ==
    ASSUME tokens \in [Tokens -> TokenRow], NEW T, RevokeWhere(T)
    PROVE  \A t \in Tokens :
               /\ tokens'[t].family = tokens[t].family
               /\ tokens'[t].st = "fresh" <=> tokens[t].st = "fresh"
               /\ tokens'[t].st = "live" <=> tokens[t].st = "live" /\ t \notin T
<1>1. ASSUME NEW t \in Tokens
      PROVE  /\ tokens'[t].family = tokens[t].family
             /\ tokens'[t].st =
                    IF t \in T /\ tokens[t].st = "live" THEN "revoked" ELSE tokens[t].st
  BY RevokeFacts
<1>2. QED BY <1>1

(* Moving the program counter keeps the other locals. *)
LEMMA GotoFacts ==
    ASSUME srv \in Server, NEW pc \in PCs, Goto(pc)
    PROVE  /\ srv' \in Server
           /\ srv'.pc = pc /\ srv'.caller = srv.caller /\ srv'.authentic = srv.authentic
           /\ srv'.code = srv.code /\ srv'.token = srv.token /\ srv'.scope = srv.scope
BY DEF Goto, Server

(* A reply clears them. *)
LEMMA ReplyFacts ==
    ASSUME Reply
    PROVE  srv' \in Server /\ srv'.pc = "idle"
BY DEF Reply, Idle, Server, PCs

(* One step keeps the types of the tables and of the handler's locals. *)
LEMMA TypeStep ==
    ASSUME TypeOK, Linked, [Next]_vars
    PROVE  TypeOK' /\ Linked'
<1> USE SetsAssumption, TimesAssumption DEF TypeOK, Linked, Server, PCs, CodeRow, TokenRow, At, Reply, Goto, Idle, tables, history, ScopeNames, Methods
<1>1. ASSUME NEW c \in Clients, Register(c)
      PROVE  TypeOK' /\ Linked'
  BY SMTT(30), <1>1 DEF Register, Registered
<1>2. ASSUME NEW c \in Clients, ResolveClient(c)
      PROVE  TypeOK' /\ Linked'
  <2>1. /\ srv' = [Idle EXCEPT !.pc = "put_code", !.caller = c]
        /\ UNCHANGED <<codes, tokens, requirePkce, now, cli, killed>>
    BY <1>2 DEF ResolveClient
  <2>2. srv' \in Server /\ srv'.pc = "put_code" /\ srv'.caller = c
    BY <2>1
  <2>3. Linked'
    BY <2>1, <2>2
  <2>4. /\ clients' \in [Clients -> {"fresh", "public", "confidential", "deleted"}]
        /\ revoked' \subseteq Clients
    BY <1>2 DEF ResolveClient
  <2>5. TypeOK'
    <3> HIDE DEF Server, CodeRow, TokenRow, Linked
    <3>1. QED BY <2>1, <2>2, <2>4
  <2>6. QED BY <2>3, <2>5
<1>3. ASSUME PutCode
      PROVE  TypeOK' /\ Linked'
  BY SMTT(30), <1>3 DEF PutCode
<1>4. ASSUME AuthorizeEnds
      PROVE  TypeOK' /\ Linked'
  BY SMTT(30), <1>4 DEF AuthorizeEnds
<1>5. ASSUME NEW c \in Clients \cup {None}, NEW k \in Codes, NEW secret \in BOOLEAN,
                 BeginCodeGrant(c, k, secret)
      PROVE  TypeOK' /\ Linked'
  BY <1>5 DEF BeginCodeGrant, Authenticate, Confidential
<1>6. ASSUME SelectCode
      PROVE  TypeOK' /\ Linked'
  <2>1. /\ UNCHANGED <<clients, codes, tokens, requirePkce, now, cli, killed, revoked>>
        /\ srv.code \in Codes
        /\ Goto("burn_code") \/ Goto("kill_family") \/ Reply
    BY <1>6 DEF SelectCode
  <2>2. CASE Goto("burn_code")
    BY <2>1, <2>2
  <2>3. CASE Goto("kill_family")
    BY <2>1, <2>3
  <2>4. CASE Reply
    BY <2>1, <2>4
  <2>5. QED BY <2>1, <2>2, <2>3, <2>4
<1>7. ASSUME BurnCode
      PROVE  TypeOK' /\ Linked'
  <2>1. /\ UNCHANGED <<clients, tokens, requirePkce, now, cli, killed, revoked>>
        /\ codes' = [codes EXCEPT ![srv.code].st = "used"]
        /\ srv.code \in Codes
        /\ \/ srv' = [srv EXCEPT !.pc = "issue", !.scope = codes[srv.code].scope]
           \/ Reply
    BY <1>7 DEF BurnCode
  <2>2. codes' \in [Codes -> CodeRow]
    BY <2>1
  <2>3. CASE srv' = [srv EXCEPT !.pc = "issue", !.scope = codes[srv.code].scope]
    <3>1. codes[srv.code].scope \in SUBSET ScopeNames
      BY <2>1
    <3>2. srv' \in Server /\ srv'.pc = "issue" /\ srv'.code = srv.code
      BY <2>3, <3>1
    <3>3. QED BY <2>1, <2>2, <3>2
  <2>4. CASE Reply
    BY <2>1, <2>2, <2>4, ReplyFacts
  <2>5. QED BY <2>1, <2>3, <2>4
<1>8. ASSUME NEW c \in Clients \cup {None}, NEW t \in Tokens, NEW secret \in BOOLEAN,
                 BeginRefresh(c, t, secret)
      PROVE  TypeOK' /\ Linked'
  BY <1>8 DEF BeginRefresh, Authenticate, Confidential
<1>9. ASSUME ReadOwner
      PROVE  TypeOK' /\ Linked'
  BY SMTT(30), <1>9 DEF ReadOwner
<1>10. ASSUME ReadOwnerClient
      PROVE  TypeOK' /\ Linked'
  <2>1. /\ UNCHANGED <<clients, codes, tokens, requirePkce, now, cli, killed, revoked>>
        /\ srv.token \in Tokens
        /\ Goto("select_token") \/ Reply
    BY <1>10 DEF ReadOwnerClient
  <2>2. CASE Goto("select_token")
    BY <2>1, <2>2
  <2>3. CASE Reply
    BY <2>1, <2>3
  <2>4. QED BY <2>1, <2>2, <2>3
<1>11. ASSUME SelectToken
      PROVE  TypeOK' /\ Linked'
  <2>1. /\ UNCHANGED <<clients, codes, tokens, requirePkce, now, cli, killed, revoked>>
        /\ srv.token \in Tokens
    BY <1>11 DEF SelectToken
  <2>2. ASSUME NEW pc \in {"burn_token", "kill_family"}, tokens[srv.token].st # "fresh",
               srv' = [srv EXCEPT !.pc = pc, !.code = tokens[srv.token].family]
        PROVE  TypeOK' /\ Linked'
    <3>1. tokens[srv.token].family \in Codes
      BY <2>1, <2>2
    <3>2. srv' \in Server /\ srv'.pc = pc /\ srv'.token = srv.token /\ srv'.code \in Codes
      BY <2>2, <3>1
    <3>3. QED BY <2>1, <3>2
  <2>3. CASE Reply
    BY <2>1, <2>3, ReplyFacts
  <2>4. QED
    BY <1>11, <2>2, <2>3 DEF SelectToken
<1>12. ASSUME BurnToken
      PROVE  TypeOK' /\ Linked'
  <2>1. /\ UNCHANGED <<clients, codes, requirePkce, now, cli, killed, revoked>>
        /\ srv.token \in Tokens /\ srv.code \in Codes
        /\ RevokeWhere({srv.token})
    BY <1>12 DEF BurnToken
  <2>2. /\ tokens' \in [Tokens -> TokenRow]
        /\ \A t \in Tokens : tokens'[t].st # "fresh" => tokens'[t].family \in Codes
    BY <2>1, RevokeFacts
  <2>3. ASSUME NEW want \in SUBSET (ScopeNames \cup {Unknown}),
               srv' = [srv EXCEPT !.pc = "issue",
                                  !.scope = Narrow(want, tokens[srv.token].scope)]
        PROVE  TypeOK' /\ Linked'
    <3>1. tokens[srv.token].scope \in SUBSET ScopeNames
      BY <2>1
    <3>2. Narrow(want, tokens[srv.token].scope) \in SUBSET ScopeNames
      BY <3>1 DEF Narrow
    <3>3. srv' \in Server /\ srv'.pc = "issue" /\ srv'.code = srv.code
      BY <2>3, <3>2
    <3>4. QED BY <2>1, <2>2, <3>3
  <2>4. CASE Reply
    BY <2>1, <2>2, <2>4, ReplyFacts
  <2>5. QED
    BY <1>12, <2>3, <2>4 DEF BurnToken
<1>13. ASSUME KillFamily
      PROVE  TypeOK' /\ Linked'
  BY SMTT(30), <1>13, RevokeFacts, ReplyFacts DEF KillFamily
<1>14. ASSUME Issue
      PROVE  TypeOK' /\ Linked'
  BY SMTT(30), <1>14 DEF Issue
<1>15. ASSUME NEW t \in Tokens, RevokeEndpoint(t)
      PROVE  TypeOK' /\ Linked'
  BY SMTT(30), <1>15, RevokeFacts DEF RevokeEndpoint
<1>16. ASSUME Restart
      PROVE  TypeOK' /\ Linked'
  BY <1>16 DEF Restart
<1>17. ASSUME GcCodes
      PROVE  TypeOK' /\ Linked'
  BY SMTT(30), <1>17 DEF GcCodes, HasCode
<1>18. ASSUME GcTokens
      PROVE  TypeOK' /\ Linked'
  BY SMTT(30), <1>18 DEF GcTokens, HasToken
<1>19. ASSUME NEW c \in Clients, CliDeleteClient(c)
      PROVE  TypeOK' /\ Linked'
  BY SMTT(30), <1>19 DEF CliDeleteClient, Registered
<1>20. ASSUME CliRevokeTokens
      PROVE  TypeOK' /\ Linked'
  BY SMTT(30), <1>20, RevokeFacts DEF CliRevokeTokens
<1>21. ASSUME CliInterrupted
      PROVE  TypeOK' /\ Linked'
  BY SMTT(30), <1>21 DEF CliInterrupted
<1>22. ASSUME Tick
      PROVE  TypeOK' /\ Linked'
  BY SMTT(30), <1>22 DEF Tick
<1>23. CASE UNCHANGED vars
  BY SMTT(30), <1>23 DEF vars
<1>24. QED
  BY <1>1, <1>2, <1>3, <1>4, <1>5, <1>6, <1>7, <1>8, <1>9, <1>10, <1>11, <1>12, <1>13, <1>14, <1>15, <1>16, <1>17, <1>18, <1>19, <1>20, <1>21, <1>22, <1>23
     DEF Next, Authorize, CodeGrant, RefreshGrant, Cli

(* One step keeps a family with at most one live token, and what ties the
   handler under way to the rows it read. *)
LEMMA FamilyStep ==
    ASSUME IInv, [Next]_vars
    PROVE  Anchored' /\ OneLivePerFamily'
<1> USE SetsAssumption DEF IInv, TypeOK, Linked, Anchored, OneLivePerFamily, Redeemed,
        Live, At, tables, history, CodeRow, TokenRow, Server
<1>1. ASSUME NEW c \in Clients, Register(c)
      PROVE  Anchored' /\ OneLivePerFamily'
  BY SMTT(30), <1>1 DEF Register
<1>2. ASSUME NEW c \in Clients, ResolveClient(c)
      PROVE  Anchored' /\ OneLivePerFamily'
  BY SMTT(30), <1>2 DEF ResolveClient, Idle
<1>3. ASSUME PutCode
      PROVE  Anchored' /\ OneLivePerFamily'
  BY SMTT(30), <1>3 DEF PutCode, Reply, Idle
<1>4. ASSUME AuthorizeEnds
      PROVE  Anchored' /\ OneLivePerFamily'
  BY SMTT(30), <1>4 DEF AuthorizeEnds, Reply, Idle
<1>5. ASSUME NEW c \in Clients \cup {None}, NEW k \in Codes, NEW secret \in BOOLEAN,
                 BeginCodeGrant(c, k, secret)
      PROVE  Anchored' /\ OneLivePerFamily'
  BY SMTT(30), <1>5 DEF BeginCodeGrant, Authenticate, Idle
<1>6. ASSUME SelectCode
      PROVE  Anchored' /\ OneLivePerFamily'
  BY SMTT(30), <1>6 DEF SelectCode, HasCode, Reply, Idle, Goto
<1>7. ASSUME BurnCode
      PROVE  Anchored' /\ OneLivePerFamily'
  <2>0. /\ UNCHANGED tokens /\ At("burn_code")
        /\ codes' = [codes EXCEPT ![srv.code].st = "used"]
        /\ \/ srv' = [srv EXCEPT !.pc = "issue", !.scope = codes[srv.code].scope]
           \/ Reply
    BY <1>7 DEF BurnCode
  <2>1. srv.code \in Codes /\ codes[srv.code].st = "unused"
    BY <2>0
  <2>2. /\ codes'[srv.code].st = "used"
        /\ \A k \in Codes : k # srv.code => codes'[k] = codes[k]
    BY <2>0, <2>1
  <2>3. \A t \in Tokens : tokens[t].st # "fresh" => tokens[t].family # srv.code
    BY <2>1
  <2>4. Live(srv.code) = {}
    BY <2>3
  <2>5. CASE srv' = [srv EXCEPT !.pc = "issue", !.scope = codes[srv.code].scope]
    <3>1. srv'.pc = "issue" /\ srv'.code = srv.code
      BY <2>5
    <3>2. QED BY <2>0, <2>1, <2>2, <2>4, <3>1
  <2>6. CASE Reply
    BY <2>0, <2>1, <2>2, <2>6, ReplyFacts
  <2>7. QED BY <2>0, <2>5, <2>6
<1>8. ASSUME NEW c \in Clients \cup {None}, NEW t \in Tokens, NEW secret \in BOOLEAN,
                 BeginRefresh(c, t, secret)
      PROVE  Anchored' /\ OneLivePerFamily'
  BY SMTT(30), <1>8 DEF BeginRefresh, Authenticate, Idle
<1>9. ASSUME ReadOwner
      PROVE  Anchored' /\ OneLivePerFamily'
  BY SMTT(30), <1>9 DEF ReadOwner, Goto
<1>10. ASSUME ReadOwnerClient
      PROVE  Anchored' /\ OneLivePerFamily'
  BY SMTT(30), <1>10 DEF ReadOwnerClient, Goto, Reply, Idle
<1>11. ASSUME SelectToken
      PROVE  Anchored' /\ OneLivePerFamily'
  <2>1. UNCHANGED <<codes, tokens>> /\ srv.token \in Tokens
    BY <1>11 DEF SelectToken
  <2>2. ASSUME NEW pc \in {"burn_token", "kill_family"},
               tokens[srv.token].st = IF pc = "burn_token" THEN "live" ELSE "revoked",
               srv' = [srv EXCEPT !.pc = pc, !.code = tokens[srv.token].family]
        PROVE  Anchored' /\ OneLivePerFamily'
    <3>1. /\ srv'.pc = pc /\ srv'.token = srv.token
          /\ srv'.code = tokens[srv.token].family
      BY <2>2
    <3>2. tokens[srv.token].st # "fresh" /\ Redeemed(srv'.code)
      BY <2>1, <2>2, <3>1
    <3>3. pc = "burn_token" => Live(srv'.code) \subseteq {srv.token}
      BY <2>1, <2>2, <3>1
    <3>4. QED BY <2>1, <2>2, <3>1, <3>2, <3>3
  <2>3. CASE Reply
    BY <2>1, <2>3, ReplyFacts
  <2>4. QED
    BY <1>11, <2>2, <2>3 DEF SelectToken
<1>12. ASSUME BurnToken
      PROVE  Anchored' /\ OneLivePerFamily'
  <2>1. /\ UNCHANGED codes /\ At("burn_token") /\ RevokeWhere({srv.token})
        /\ \/ \E S : srv' = [srv EXCEPT !.pc = "issue", !.scope = S]
           \/ Reply
    BY <1>12 DEF BurnToken
  <2>2. \A t \in Tokens :
            /\ tokens'[t].family = tokens[t].family
            /\ tokens'[t].st = "fresh" <=> tokens[t].st = "fresh"
            /\ tokens'[t].st = "live" <=> tokens[t].st = "live" /\ t \notin {srv.token}
    BY <2>1, RevokeShrinks
  <2>3. /\ Live(srv.code) \subseteq {srv.token}
        /\ srv.code \in Codes /\ Redeemed(srv.code)
    BY <2>1
  <2>4. \A t \in Tokens : tokens'[t].family = srv.code => tokens'[t].st # "live"
    BY <2>2, <2>3
  <2>5. ASSUME NEW S, srv' = [srv EXCEPT !.pc = "issue", !.scope = S]
        PROVE  Anchored' /\ OneLivePerFamily'
    <3>1. srv'.pc = "issue" /\ srv'.code = srv.code
      BY <2>5
    <3>2. Anchored'
      BY <2>1, <2>2, <2>3, <3>1
    <3>3. OneLivePerFamily'
      <4>1. \A t, u \in Tokens :
                /\ tokens'[t].st = "live" /\ tokens'[u].st = "live"
                /\ tokens'[t].family = tokens'[u].family
                => t = u
        BY <2>2
      <4>2. Live(srv.code)' = {}
        BY <2>4, <3>1
      <4>3. QED BY <3>1, <4>1, <4>2
    <3>4. QED BY <3>2, <3>3
  <2>6. CASE Reply
    BY <2>1, <2>2, <2>6, ReplyFacts
  <2>7. QED BY <2>1, <2>5, <2>6
<1>13. ASSUME KillFamily
      PROVE  Anchored' /\ OneLivePerFamily'
  <2>1. /\ UNCHANGED codes /\ Reply
        /\ RevokeWhere({t \in Tokens : tokens[t].family = srv.code})
    BY <1>13 DEF KillFamily
  <2>2. \A t \in Tokens :
            /\ tokens'[t].family = tokens[t].family
            /\ tokens'[t].st = "fresh" <=> tokens[t].st = "fresh"
            /\ tokens'[t].st = "live" => tokens[t].st = "live"
    <3> HIDE DEF Anchored, OneLivePerFamily
    <3>1. QED BY <2>1, RevokeShrinks
  <2>3. QED BY <2>1, <2>2, ReplyFacts
<1>14. ASSUME Issue
      PROVE  Anchored' /\ OneLivePerFamily'
  BY SMTT(30), <1>14 DEF Issue, Reply, Idle
<1>15. ASSUME NEW t \in Tokens, RevokeEndpoint(t)
      PROVE  Anchored' /\ OneLivePerFamily'
  BY SMTT(30), <1>15, RevokeFacts DEF RevokeEndpoint
<1>16. ASSUME Restart
      PROVE  Anchored' /\ OneLivePerFamily'
  BY SMTT(30), <1>16 DEF Restart, Idle
<1>17. ASSUME GcCodes
      PROVE  Anchored' /\ OneLivePerFamily'
  BY SMTT(30), <1>17 DEF GcCodes, HasCode, Goto
<1>18. ASSUME GcTokens
      PROVE  Anchored' /\ OneLivePerFamily'
  BY SMTT(30), <1>18 DEF GcTokens, HasToken, Reply, Idle
<1>19. ASSUME NEW c \in Clients, CliDeleteClient(c)
      PROVE  Anchored' /\ OneLivePerFamily'
  BY SMTT(30), <1>19 DEF CliDeleteClient
<1>20. ASSUME CliRevokeTokens
      PROVE  Anchored' /\ OneLivePerFamily'
  BY SMTT(30), <1>20, RevokeFacts DEF CliRevokeTokens
<1>21. ASSUME CliInterrupted
      PROVE  Anchored' /\ OneLivePerFamily'
  BY SMTT(30), <1>21 DEF CliInterrupted
<1>22. ASSUME Tick
      PROVE  Anchored' /\ OneLivePerFamily'
  BY SMTT(30), <1>22 DEF Tick
<1>23. CASE UNCHANGED vars
  BY SMTT(30), <1>23 DEF vars
<1>24. QED
  BY <1>1, <1>2, <1>3, <1>4, <1>5, <1>6, <1>7, <1>8, <1>9, <1>10, <1>11, <1>12, <1>13, <1>14, <1>15, <1>16, <1>17, <1>18, <1>19, <1>20, <1>21, <1>22, <1>23, SMTT(30)
     DEF Next, Authorize, CodeGrant, RefreshGrant, Cli

(* The inductive invariant. *)
LEMMA Inductive == Spec => []IInv
<1>1. Init => IInv
  BY SetsAssumption
     DEF Init, IInv, TypeOK, Linked, Anchored, OneLivePerFamily, NoCode, NoToken, Idle,
         CodeRow, TokenRow, Server, PCs, Methods, Live, At
<1>2. IInv /\ [Next]_vars => IInv'
  BY TypeStep, FamilyStep DEF IInv
<1>3. QED
  BY <1>1, <1>2, PTL DEF Spec

(* The tables and the handler's locals hold what the code puts into them. *)
THEOREM TypeCorrect == Spec => []TypeOK
BY Inductive, PTL DEF IInv

(* However requests, crashes and revocations interleave, a family never has two
   refresh tokens that could be exchanged. *)
THEOREM OneLive == Spec => []OneLivePerFamily
BY Inductive, PTL DEF IInv

------------------------------------------------------------------------------
(* A killed family was redeemed before, so its code cannot revive it either. *)
KInv == KilledFamilyStaysDead /\ \A f \in killed : Redeemed(f)

(* One step brings no killed family back. *)
LEMMA KilledStep ==
    ASSUME IInv, KInv, [Next]_vars
    PROVE  KInv'
<1> USE SetsAssumption DEF IInv, TypeOK, Linked, Anchored, OneLivePerFamily, Redeemed,
        KInv, KilledFamilyStaysDead, InFlight, Live, At, tables, history,
        CodeRow, TokenRow, Server
<1>1. ASSUME NEW c \in Clients, Register(c)
      PROVE  KInv'
  BY SMTT(30), <1>1 DEF Register
<1>2. ASSUME NEW c \in Clients, ResolveClient(c)
      PROVE  KInv'
  BY SMTT(30), <1>2 DEF ResolveClient, Idle
<1>3. ASSUME PutCode
      PROVE  KInv'
  BY SMTT(30), <1>3, ReplyFacts DEF PutCode
<1>4. ASSUME AuthorizeEnds
      PROVE  KInv'
  BY SMTT(30), <1>4, ReplyFacts DEF AuthorizeEnds
<1>5. ASSUME NEW c \in Clients \cup {None}, NEW k \in Codes, NEW secret \in BOOLEAN,
                 BeginCodeGrant(c, k, secret)
      PROVE  KInv'
  BY SMTT(30), <1>5 DEF BeginCodeGrant, Authenticate, Idle
<1>6. ASSUME SelectCode
      PROVE  KInv'
  BY SMTT(30), <1>6, ReplyFacts DEF SelectCode, HasCode, Goto
<1>7. ASSUME BurnCode
      PROVE  KInv'
  <2>1. /\ UNCHANGED <<tokens, killed>> /\ At("burn_code")
        /\ codes' = [codes EXCEPT ![srv.code].st = "used"]
        /\ \/ srv' = [srv EXCEPT !.pc = "issue", !.scope = codes[srv.code].scope]
           \/ Reply
    BY <1>7 DEF BurnCode
  <2>2. srv.code \notin killed
    BY <2>1
  <2>3. \A f \in killed : Redeemed(f)'
    BY <2>1, <2>2
  <2>4. CASE Reply
    BY <2>1, <2>3, <2>4, ReplyFacts
  <2>5. CASE srv' = [srv EXCEPT !.pc = "issue", !.scope = codes[srv.code].scope]
    <3>1. srv'.code = srv.code
      BY <2>5
    <3>2. QED BY <2>1, <2>2, <2>3, <3>1
  <2>6. QED BY <2>1, <2>4, <2>5
<1>8. ASSUME NEW c \in Clients \cup {None}, NEW t \in Tokens, NEW secret \in BOOLEAN,
                 BeginRefresh(c, t, secret)
      PROVE  KInv'
  BY SMTT(30), <1>8 DEF BeginRefresh, Authenticate, Idle
<1>9. ASSUME ReadOwner
      PROVE  KInv'
  BY SMTT(30), <1>9 DEF ReadOwner, Goto
<1>10. ASSUME ReadOwnerClient
      PROVE  KInv'
  BY SMTT(30), <1>10, ReplyFacts DEF ReadOwnerClient, Goto
<1>11. ASSUME SelectToken
      PROVE  KInv'
  <2>1. UNCHANGED <<codes, tokens, killed>> /\ srv.token \in Tokens
    BY <1>11 DEF SelectToken
  <2>2. CASE Reply
    BY <2>1, <2>2, ReplyFacts
  <2>3. CASE srv' = [srv EXCEPT !.pc = "kill_family", !.code = tokens[srv.token].family]
    <3>1. srv'.pc = "kill_family"
      BY <2>3
    <3>2. QED BY <2>1, <3>1
  <2>4. CASE /\ tokens[srv.token].st = "live"
             /\ srv' = [srv EXCEPT !.pc = "burn_token", !.code = tokens[srv.token].family]
    <3>1. srv'.code = tokens[srv.token].family
      BY <2>4
    <3>2. srv'.code \notin killed
      BY <2>1, <2>4, <3>1
    <3>3. QED BY <2>1, <3>2
  <2>5. QED
    BY <1>11, <2>2, <2>3, <2>4 DEF SelectToken
<1>12. ASSUME BurnToken
      PROVE  KInv'
  <2>1. /\ UNCHANGED <<codes, killed>> /\ At("burn_token") /\ RevokeWhere({srv.token})
        /\ \/ \E S : srv' = [srv EXCEPT !.pc = "issue", !.scope = S]
           \/ Reply
    BY <1>12 DEF BurnToken
  <2>2. \A t \in Tokens : /\ tokens'[t].family = tokens[t].family
                          /\ tokens'[t].st = "live" => tokens[t].st = "live"
    <3> HIDE DEF KInv, Anchored, OneLivePerFamily
    <3>1. QED BY <2>1, RevokeShrinks
  <2>3. \A f \in killed : Live(f)' = {}
    <3>1. \A f \in killed : Live(f) = {}
      OBVIOUS
    <3> HIDE DEF Anchored, OneLivePerFamily, TypeOK, Linked, IInv, KInv
    <3>2. QED BY <2>2, <3>1
  <2>4. CASE Reply
    BY <2>1, <2>3, <2>4, ReplyFacts
  <2>5. ASSUME NEW S, srv' = [srv EXCEPT !.pc = "issue", !.scope = S]
        PROVE  KInv'
    <3>1. srv'.code = srv.code
      BY <2>5
    <3>2. srv.code \notin killed
      BY <2>1
    <3>3. killed' = killed /\ codes' = codes
      BY <2>1
    <3>4. \A f \in killed : Redeemed(f)
      OBVIOUS
    <3>5. \A f \in killed : Redeemed(f)' /\ ~InFlight(f)'
      <4> HIDE DEF KInv, IInv, Anchored, OneLivePerFamily, TypeOK, Linked, Live
      <4>1. QED BY <3>1, <3>2, <3>3, <3>4
    <3> HIDE DEF IInv, Live, Redeemed, InFlight
    <3>6. QED BY <2>3, <3>3, <3>5
  <2>6. QED BY <2>1, <2>4, <2>5
<1>13. ASSUME KillFamily
      PROVE  KInv'
  BY SMTT(30), <1>13, RevokeFacts, ReplyFacts DEF KillFamily
<1>14. ASSUME Issue
      PROVE  KInv'
  BY SMTT(30), <1>14, ReplyFacts DEF Issue
<1>15. ASSUME NEW t \in Tokens, RevokeEndpoint(t)
      PROVE  KInv'
  BY SMTT(30), <1>15, RevokeFacts DEF RevokeEndpoint
<1>16. ASSUME Restart
      PROVE  KInv'
  BY SMTT(30), <1>16 DEF Restart, Idle
<1>17. ASSUME GcCodes
      PROVE  KInv'
  BY SMTT(30), <1>17 DEF GcCodes, HasCode, Goto
<1>18. ASSUME GcTokens
      PROVE  KInv'
  BY SMTT(30), <1>18, ReplyFacts DEF GcTokens, HasToken
<1>19. ASSUME NEW c \in Clients, CliDeleteClient(c)
      PROVE  KInv'
  BY SMTT(30), <1>19 DEF CliDeleteClient
<1>20. ASSUME CliRevokeTokens
      PROVE  KInv'
  BY SMTT(30), <1>20, RevokeFacts DEF CliRevokeTokens
<1>21. ASSUME CliInterrupted
      PROVE  KInv'
  BY SMTT(30), <1>21 DEF CliInterrupted
<1>22. ASSUME Tick
      PROVE  KInv'
  BY SMTT(30), <1>22 DEF Tick
<1>23. CASE UNCHANGED vars
  BY SMTT(30), <1>23 DEF vars
<1>24. QED
  BY <1>1, <1>2, <1>3, <1>4, <1>5, <1>6, <1>7, <1>8, <1>9, <1>10, <1>11, <1>12, <1>13, <1>14, <1>15, <1>16, <1>17, <1>18, <1>19, <1>20, <1>21, <1>22, <1>23
     DEF Next, Authorize, CodeGrant, RefreshGrant, Cli

(* A family revoked for a replay or a reuse never has a live token again. *)
THEOREM KilledForGood == Spec => []KilledFamilyStaysDead
<1>1. Init => KInv
  BY DEF Init, KInv, KilledFamilyStaysDead
<1>2. IInv /\ KInv /\ [Next]_vars => KInv'
  BY KilledStep
<1>3. QED
  BY <1>1, <1>2, Inductive, PTL DEF Spec, KInv

------------------------------------------------------------------------------
(* What was approved is never empty, and what is about to be issued is part of it. *)
Approved ==
    /\ \A k \in Codes : codes[k].st # "fresh" => codes[k].scope # {}
    /\ At("issue") => srv.scope # {} /\ srv.scope \subseteq codes[srv.code].scope

GInv == Approved /\ TokenWithinGrant /\ PkceAtIssue

(* Rows, once written, keep the columns that say what was granted. *)
CodesKept ==
    \A k \in Codes : codes[k].st # "fresh" =>
        /\ codes'[k].st # "fresh"
        /\ codes'[k].client = codes[k].client /\ codes'[k].scope = codes[k].scope
        /\ codes'[k].method = codes[k].method
TokensKept ==
    \A t \in Tokens : tokens'[t].st # "fresh" =>
        /\ tokens[t].st # "fresh" /\ tokens'[t].family = tokens[t].family
        /\ tokens'[t].client = tokens[t].client /\ tokens'[t].scope = tokens[t].scope

(* Tokens that were within their grant stay there. *)
LEMMA GrantKept ==
    ASSUME IInv, TokenWithinGrant, CodesKept, TokensKept
    PROVE  TokenWithinGrant'
<1>1. ASSUME NEW t \in Tokens, tokens'[t].st # "fresh"
      PROVE  LET origin == codes'[tokens'[t].family] IN
             /\ tokens'[t].client = origin.client
             /\ tokens'[t].scope # {} /\ tokens'[t].scope \subseteq origin.scope
  <2>1. /\ tokens[t].st # "fresh" /\ tokens'[t].family = tokens[t].family
        /\ tokens'[t].client = tokens[t].client /\ tokens'[t].scope = tokens[t].scope
    BY <1>1 DEF TokensKept
  <2>2. tokens[t].family \in Codes /\ codes[tokens[t].family].st # "fresh"
    BY <2>1 DEF IInv, Linked, Anchored, Redeemed
  <2>3. QED BY <2>1, <2>2 DEF TokenWithinGrant, CodesKept
<1>2. QED BY <1>1 DEF TokenWithinGrant

(* A step that burns nothing and issues nothing. *)
LEMMA PlainStep ==
    ASSUME IInv, GInv, CodesKept, TokensKept,
           \A k \in Codes : codes'[k].st # "fresh" => codes[k].st # "fresh",
           srv'.pc # "issue" \/ UNCHANGED <<srv, requirePkce>>
    PROVE  GInv'
<1>1. TokenWithinGrant'
  BY GrantKept DEF GInv
<1>2. Approved' /\ PkceAtIssue'
  <2>1. At("issue") => srv.code \in Codes /\ codes[srv.code].st # "fresh"
    BY DEF IInv, Linked, Anchored, Redeemed, At
  <2>2. QED BY <2>1 DEF GInv, Approved, PkceAtIssue, CodesKept, At
<1>3. QED BY <1>1, <1>2 DEF GInv

(* UPDATE ... SET revoked=1 keeps those columns. *)
LEMMA RevokeKeeps ==
    ASSUME IInv, NEW T, RevokeWhere(T)
    PROVE  TokensKept
<1>1. tokens \in [Tokens -> TokenRow]
  BY DEF IInv, TypeOK
<1>2. \A t \in Tokens :
          /\ tokens'[t].family = tokens[t].family
          /\ tokens'[t].client = tokens[t].client
          /\ tokens'[t].scope = tokens[t].scope
          /\ tokens'[t].st = IF t \in T /\ tokens[t].st = "live" THEN "revoked" ELSE tokens[t].st
  BY <1>1, RevokeFacts
<1>3. QED BY <1>2 DEF TokensKept

(* One step issues nothing beyond what the user ticked. *)
LEMMA GrantStep ==
    ASSUME IInv, GInv, [Next]_vars
    PROVE  GInv'
<1>1. ASSUME UNCHANGED <<codes, tokens>>, srv'.pc # "issue" \/ UNCHANGED <<srv, requirePkce>>
      PROVE  GInv'
  BY SMTT(30), <1>1, PlainStep DEF CodesKept, TokensKept
<1>2. ASSUME NEW c \in Clients, Register(c)
      PROVE  GInv'
  BY SMTT(30), <1>1, <1>2 DEF Register
<1>3. ASSUME NEW c \in Clients, ResolveClient(c)
      PROVE  GInv'
  BY SMTT(30), <1>1, <1>3 DEF ResolveClient, Idle
<1>4. ASSUME PutCode
      PROVE  GInv'
  <2>1. PICK k \in Codes, S \in SUBSET ScopeNames, m \in Methods :
            /\ codes[k].st = "fresh" /\ S \cap Permissions # {}
            /\ codes' = [codes EXCEPT ![k] = [st |-> "unused", client |-> srv.caller,
                                              scope |-> S, method |-> m,
                                              exp |-> now + CodeTTL]]
    BY <1>4 DEF PutCode
  <2>2. UNCHANGED tokens /\ srv'.pc = "idle"
    BY <1>4, ReplyFacts DEF PutCode
  <2>3. codes'[k].scope # {} /\ \A j \in Codes \ {k} : codes'[j] = codes[j]
    BY <2>1 DEF IInv, TypeOK
  <2>4. CodesKept /\ TokensKept
    BY <2>1, <2>2, <2>3 DEF CodesKept, TokensKept
  <2>5. TokenWithinGrant'
    BY <2>4, GrantKept DEF GInv
  <2>6. Approved' /\ PkceAtIssue'
    BY <2>2, <2>3 DEF GInv, Approved, PkceAtIssue, At
  <2>7. QED BY <2>5, <2>6 DEF GInv
<1>5. ASSUME AuthorizeEnds
      PROVE  GInv'
  BY SMTT(30), <1>1, <1>5, ReplyFacts DEF AuthorizeEnds, tables
<1>6. ASSUME NEW c \in Clients \cup {None}, NEW k \in Codes, NEW secret \in BOOLEAN,
                 BeginCodeGrant(c, k, secret)
      PROVE  GInv'
  BY SMTT(30), <1>1, <1>6 DEF BeginCodeGrant, Authenticate, Idle, tables
<1>7. ASSUME SelectCode
      PROVE  GInv'
  <2>1. Goto("burn_code") \/ Goto("kill_family") \/ Reply
    BY <1>7 DEF SelectCode
  <2>2. srv'.pc # "issue"
    BY <2>1, GotoFacts, ReplyFacts DEF IInv, TypeOK, PCs
  <2>3. QED BY <1>1, <1>7, <2>2 DEF SelectCode, tables
<1>8. ASSUME BurnCode
      PROVE  GInv'
  <2>1. /\ UNCHANGED <<tokens, requirePkce>> /\ At("burn_code") /\ srv.code \in Codes
        /\ codes' = [codes EXCEPT ![srv.code].st = "used"]
        /\ codes[srv.code].st = "unused"
    BY <1>8 DEF BurnCode, IInv, Linked, Anchored, At
  <2>2. /\ codes'[srv.code].scope = codes[srv.code].scope
        /\ codes'[srv.code].method = codes[srv.code].method
        /\ codes'[srv.code].client = codes[srv.code].client
        /\ codes'[srv.code].st = "used" /\ \A j \in Codes \ {srv.code} : codes'[j] = codes[j]
    BY <2>1 DEF IInv, TypeOK, CodeRow
  <2>3. CodesKept /\ TokensKept
    BY <2>1, <2>2 DEF CodesKept, TokensKept
  <2>4. CASE Reply
    BY <2>1, <2>2, <2>3, <2>4, ReplyFacts, PlainStep
  <2>5. ASSUME NEW redirect \in BOOLEAN, NEW verifier \in BOOLEAN, NEW resource \in BOOLEAN,
               CodeAccepted(redirect, verifier, resource),
               srv' = [srv EXCEPT !.pc = "issue", !.scope = codes[srv.code].scope]
        PROVE  GInv'
    <3>1. srv'.code = srv.code /\ srv'.scope = codes[srv.code].scope
      BY <2>5 DEF IInv, TypeOK, Server
    <3>2. TokenWithinGrant'
      BY <2>3, GrantKept DEF GInv
    <3>3. Approved'
      BY <2>1, <2>2, <3>1 DEF GInv, Approved
    <3>4. PkceAtIssue'
      BY <2>1, <2>2, <2>5, <3>1 DEF CodeAccepted, PkceAtIssue
    <3>5. QED BY <3>2, <3>3, <3>4 DEF GInv
  <2>6. QED BY <1>8, <2>4, <2>5 DEF BurnCode
<1>9. ASSUME NEW c \in Clients \cup {None}, NEW t \in Tokens, NEW secret \in BOOLEAN,
                 BeginRefresh(c, t, secret)
      PROVE  GInv'
  BY SMTT(30), <1>1, <1>9 DEF BeginRefresh, Authenticate, Idle, tables
<1>10. ASSUME ReadOwner \/ ReadOwnerClient
       PROVE  GInv'
  <2>1. Goto("owner_client") \/ Goto("select_token") \/ Reply
    BY <1>10 DEF ReadOwner, ReadOwnerClient
  <2>2. srv'.pc # "issue"
    BY <2>1, GotoFacts, ReplyFacts DEF IInv, TypeOK, PCs
  <2>3. QED BY <1>1, <1>10, <2>2 DEF ReadOwner, ReadOwnerClient, tables
<1>11. ASSUME SelectToken
       PROVE  GInv'
  <2>1. srv'.pc \in {"idle", "burn_token", "kill_family"}
    BY <1>11, ReplyFacts DEF SelectToken, IInv, TypeOK, Server
  <2>2. QED BY <1>1, <1>11, <2>1 DEF SelectToken, tables
<1>12. ASSUME BurnToken
       PROVE  GInv'
  <2>1. /\ UNCHANGED <<codes, requirePkce>> /\ At("burn_token") /\ srv.token \in Tokens
        /\ RevokeWhere({srv.token})
        /\ tokens[srv.token].st # "fresh" /\ tokens[srv.token].family = srv.code
        /\ srv.code \in Codes
    BY <1>12 DEF BurnToken, IInv, Linked, Anchored, At
  <2>2. CodesKept /\ TokensKept
    BY <2>1, RevokeKeeps DEF CodesKept
  <2>3. CASE Reply
    BY <2>1, <2>2, <2>3, ReplyFacts, PlainStep
  <2>4. ASSUME NEW want,
               srv' = [srv EXCEPT !.pc = "issue", !.scope = Narrow(want, tokens[srv.token].scope)]
        PROVE  GInv'
    <3>1. /\ tokens[srv.token].scope # {}
          /\ tokens[srv.token].scope \subseteq codes[srv.code].scope
      BY <2>1 DEF GInv, TokenWithinGrant
    <3>2. tokens[srv.token].scope \in SUBSET ScopeNames
      BY <2>1 DEF IInv, TypeOK, TokenRow
    <3>3. /\ Narrow(want, tokens[srv.token].scope) # {}
          /\ Narrow(want, tokens[srv.token].scope) \subseteq codes[srv.code].scope
      BY <3>1, <3>2, NarrowProperties
    <3>4. /\ srv'.code = srv.code /\ srv'.token = srv.token
          /\ srv'.scope = Narrow(want, tokens[srv.token].scope)
      BY <2>4 DEF IInv, TypeOK, Server
    <3>5. TokenWithinGrant'
      BY <2>2, GrantKept DEF GInv
    <3>6. Approved'
      BY <2>1, <3>3, <3>4 DEF GInv, Approved
    <3>7. PkceAtIssue'
      BY <2>1, <3>4, SetsAssumption DEF PkceAtIssue
    <3>8. QED BY <3>5, <3>6, <3>7 DEF GInv
  <2>5. QED BY <1>12, <2>3, <2>4 DEF BurnToken
<1>13. ASSUME KillFamily \/ (\E t \in Tokens : RevokeEndpoint(t)) \/ CliRevokeTokens
       PROVE  GInv'
  <2>1. PICK T : RevokeWhere(T)
    BY <1>13 DEF KillFamily, RevokeEndpoint, CliRevokeTokens
  <2>2. UNCHANGED <<codes, requirePkce>> /\ (Reply \/ UNCHANGED srv)
    BY <1>13 DEF KillFamily, RevokeEndpoint, CliRevokeTokens
  <2>3. CodesKept /\ TokensKept
    BY <2>1, <2>2, RevokeKeeps DEF CodesKept
  <2>4. QED BY <2>2, <2>3, ReplyFacts, PlainStep
<1>14. ASSUME Issue
       PROVE  GInv'
  <2>1. PICK t \in Tokens :
            tokens' = [tokens EXCEPT ![t] = [st |-> "live", family |-> srv.code,
                                             client |-> codes[srv.code].client,
                                             scope |-> srv.scope, exp |-> now + RefreshTTL]]
    BY <1>14 DEF Issue
  <2>2. UNCHANGED codes /\ srv'.pc = "idle" /\ At("issue")
    BY <1>14, ReplyFacts DEF Issue
  <2>3. /\ tokens'[t].family = srv.code /\ tokens'[t].client = codes[srv.code].client
        /\ tokens'[t].scope = srv.scope /\ \A u \in Tokens \ {t} : tokens'[u] = tokens[u]
    BY <2>1 DEF IInv, TypeOK
  <2>4. TokenWithinGrant'
    BY <2>2, <2>3 DEF GInv, Approved, TokenWithinGrant
  <2>5. QED BY <2>2, <2>4 DEF GInv, Approved, PkceAtIssue, At
<1>15. ASSUME Restart
       PROVE  GInv'
  BY SMTT(30), <1>1, <1>15 DEF Restart, Idle, tables
<1>16. ASSUME GcCodes
       PROVE  GInv'
  <2>1. UNCHANGED tokens /\ Goto("gc_tokens")
    BY <1>16 DEF GcCodes
  <2>2. srv'.pc # "issue"
    BY <2>1, GotoFacts DEF IInv, TypeOK, PCs
  <2>3. CodesKept /\ \A k \in Codes : codes'[k].st # "fresh" => codes[k].st # "fresh"
    BY <1>16 DEF GcCodes, HasCode, CodesKept, IInv, TypeOK, CodeRow
  <2>4. TokensKept
    BY <2>1 DEF TokensKept
  <2>5. QED BY <2>2, <2>3, <2>4, PlainStep
<1>17. ASSUME GcTokens
       PROVE  GInv'
  <2>1. UNCHANGED codes /\ srv'.pc = "idle"
    BY <1>17, ReplyFacts DEF GcTokens
  <2>2. TokensKept
    BY <1>17 DEF GcTokens, HasToken, TokensKept, IInv, TypeOK, TokenRow
  <2>3. CodesKept
    BY <2>1 DEF CodesKept
  <2>4. QED BY <2>1, <2>2, <2>3, PlainStep
<1>18. ASSUME CliInterrupted \/ Tick \/ \E c \in Clients : CliDeleteClient(c)
       PROVE  GInv'
  BY SMTT(30), <1>1, <1>18 DEF CliInterrupted, Tick, CliDeleteClient, tables
<1>19. CASE UNCHANGED vars
  BY SMTT(30), <1>1, <1>19 DEF vars
<1>20. QED
  BY <1>2, <1>3, <1>4, <1>5, <1>6, <1>7, <1>8, <1>9, <1>10, <1>11, <1>12, <1>13, <1>14, <1>15, <1>16, <1>17, <1>18, <1>19
     DEF Next, Authorize, CodeGrant, RefreshGrant, Cli

LEMMA GrantInvariant == Spec => []GInv
<1>1. Init => GInv
  BY DEF Init, GInv, Approved, TokenWithinGrant, PkceAtIssue, NoCode, NoToken, Idle, At
<1>2. IInv /\ GInv /\ [Next]_vars => GInv'
  BY GrantStep
<1>3. QED BY <1>1, <1>2, Inductive, PTL DEF Spec

(* However often a grant is rotated and whatever scope each request asks for,
   its tokens carry a part of what the user ticked, for the client the user saw. *)
THEOREM NeverWidened == Spec => []TokenWithinGrant
BY GrantInvariant, PTL DEF GInv

(* However settings change between restarts, a code made without a challenge
   buys nothing while PKCE is required. *)
THEOREM PkceHolds == Spec => []PkceAtIssue
BY GrantInvariant, PTL DEF GInv

------------------------------------------------------------------------------
(* What the handler knows of who asks: the secret of its caller was presented if there
   is one, and a row it relies on belongs to the caller if its owner has a secret. *)
Spending == {"select_code", "burn_code", "owner", "owner_client", "select_token",
             "burn_token", "kill_family", "issue"}

CallerProved == srv.pc \in Spending /\ Confidential(srv.caller) => srv.authentic
TokenOwned ==
    srv.pc \in {"select_token", "burn_token"} /\ HasToken(srv.token)
        /\ Confidential(tokens[srv.token].client)
    => srv.caller = tokens[srv.token].client
CodeOwned ==
    At("issue") /\ Confidential(codes[srv.code].client) => srv.caller = codes[srv.code].client

AInv == CallerProved /\ TokenOwned /\ CodeOwned

LEMMA NotSpending ==
    ASSUME srv'.pc \notin Spending
    PROVE  AInv'
BY DEF AInv, CallerProved, TokenOwned, CodeOwned, Spending, At

(* While a handler waits, no client gets a secret and no row another owner. *)
LEMMA Waiting ==
    ASSUME IInv, AInv, CodesKept, TokensKept, UNCHANGED srv,
           \A c \in Clients : clients'[c] = "confidential" => clients[c] = "confidential",
           \A t \in Tokens : tokens'[t].st \in {"live", "revoked"}
                                => tokens[t].st \in {"live", "revoked"}
    PROVE  AInv'
<1>1. CallerProved'
  BY DEF AInv, CallerProved, Confidential
<1>2. TokenOwned'
  <2>1. SUFFICES ASSUME srv.pc \in {"select_token", "burn_token"}, HasToken(srv.token)',
                        Confidential(tokens[srv.token].client)'
                 PROVE  srv.caller = tokens'[srv.token].client
    BY DEF TokenOwned
  <2>2. srv.token \in Tokens /\ HasToken(srv.token)
    BY <2>1 DEF IInv, Linked, HasToken
  <2>3. tokens'[srv.token].client = tokens[srv.token].client
    BY <2>1, <2>2 DEF TokensKept, HasToken
  <2>4. Confidential(tokens[srv.token].client)
    BY <2>1, <2>3 DEF Confidential
  <2>5. QED BY <2>1, <2>2, <2>3, <2>4 DEF AInv, TokenOwned
<1>3. CodeOwned'
  <2>1. SUFFICES ASSUME At("issue"), Confidential(codes[srv.code].client)'
                 PROVE  srv.caller = codes'[srv.code].client
    BY DEF CodeOwned, At
  <2>2. srv.code \in Codes /\ codes[srv.code].st # "fresh"
    BY <2>1 DEF IInv, Linked, Anchored, Redeemed, At
  <2>3. codes'[srv.code].client = codes[srv.code].client
    BY <2>2 DEF CodesKept
  <2>4. Confidential(codes[srv.code].client)
    BY <2>1, <2>3 DEF Confidential
  <2>5. QED BY <2>1, <2>3, <2>4 DEF AInv, CodeOwned
<1>4. QED BY <1>1, <1>2, <1>3 DEF AInv

LEMMA AuthStep ==
    ASSUME IInv, GInv, AInv, [Next]_vars
    PROVE  AInv'
<1>1. ASSUME NEW c \in Clients, Register(c) \/ ResolveClient(c)
      PROVE  AInv'
  BY <1>1, NotSpending DEF Register, ResolveClient, Idle, At, Spending, IInv, TypeOK, Server
<1>2. ASSUME PutCode \/ AuthorizeEnds \/ KillFamily \/ Issue \/ GcTokens
      PROVE  AInv'
  BY <1>2, ReplyFacts, NotSpending
     DEF PutCode, AuthorizeEnds, KillFamily, Issue, GcTokens, Spending
<1>3. ASSUME NEW c \in Clients \cup {None}, NEW k \in Codes, NEW secret \in BOOLEAN,
             BeginCodeGrant(c, k, secret)
      PROVE  AInv'
  BY <1>3 DEF BeginCodeGrant, Authenticate, Confidential, Idle, tables,
              AInv, CallerProved, TokenOwned, CodeOwned, At
<1>4. ASSUME SelectCode
      PROVE  AInv'
  <2>1. UNCHANGED clients /\ At("select_code") /\ srv \in Server
        /\ (Goto("burn_code") \/ Goto("kill_family") \/ Reply)
    BY <1>4 DEF SelectCode, tables, IInv, TypeOK
  <2>2. CASE Reply
    BY <2>2, ReplyFacts, NotSpending DEF Spending
  <2>3. ASSUME NEW pc \in {"burn_code", "kill_family"}, Goto(pc)
        PROVE  AInv'
    <3>1. srv'.pc = pc /\ srv'.caller = srv.caller /\ srv'.authentic = srv.authentic
      BY <2>1, <2>3, GotoFacts DEF PCs
    <3>2. QED BY <2>1, <3>1 DEF AInv, CallerProved, TokenOwned, CodeOwned, At,
                               Spending, Confidential
  <2>4. QED BY <2>1, <2>2, <2>3
<1>5. ASSUME BurnCode
      PROVE  AInv'
  <2>1. /\ UNCHANGED clients /\ At("burn_code") /\ srv \in Server /\ srv.code \in Codes
        /\ codes' = [codes EXCEPT ![srv.code].st = "used"]
        /\ codes \in [Codes -> CodeRow]
    BY <1>5 DEF BurnCode, IInv, TypeOK, Linked, At
  <2>2. CASE Reply
    BY <2>2, ReplyFacts, NotSpending DEF Spending
  <2>3. ASSUME codes[srv.code].client = srv.caller,
               srv' = [srv EXCEPT !.pc = "issue", !.scope = codes[srv.code].scope]
        PROVE  AInv'
    <3>1. /\ srv'.pc = "issue" /\ srv'.caller = srv.caller
          /\ srv'.authentic = srv.authentic /\ srv'.code = srv.code
      BY <2>1, <2>3 DEF Server
    <3>2. codes'[srv.code].client = srv.caller
      BY <2>1, <2>3 DEF CodeRow
    <3>3. QED BY <2>1, <3>1, <3>2 DEF AInv, CallerProved, TokenOwned, CodeOwned, At,
                                      Spending, Confidential
  <2>4. QED BY <1>5, <2>2, <2>3 DEF BurnCode, CodeAccepted
<1>6. ASSUME NEW c \in Clients \cup {None}, NEW t \in Tokens, NEW secret \in BOOLEAN,
             BeginRefresh(c, t, secret)
      PROVE  AInv'
  BY <1>6 DEF BeginRefresh, Authenticate, Confidential, Idle, tables,
              AInv, CallerProved, TokenOwned, CodeOwned, At
<1>7. ASSUME ReadOwner \/ ReadOwnerClient
      PROVE  AInv'
  <2>1. /\ UNCHANGED <<clients, codes, tokens>> /\ srv \in Server
        /\ srv.pc \in {"owner", "owner_client"}
    BY <1>7 DEF ReadOwner, ReadOwnerClient, tables, IInv, TypeOK, At
  <2>2. CASE Reply
    BY <2>2, ReplyFacts, NotSpending DEF Spending
  <2>3. CASE Goto("owner_client")
    <3>1. /\ srv'.pc = "owner_client" /\ srv'.caller = srv.caller
          /\ srv'.authentic = srv.authentic
      BY <2>1, <2>3, GotoFacts DEF PCs
    <3>2. QED BY <2>1, <3>1 DEF AInv, CallerProved, TokenOwned, CodeOwned, At,
                               Spending, Confidential
  <2>4. ASSUME Goto("select_token"),
               \/ ~ (HasToken(srv.token) /\ tokens[srv.token].client # srv.caller)
               \/ ~ Confidential(tokens[srv.token].client)
        PROVE  AInv'
    <3>1. /\ srv'.pc = "select_token" /\ srv'.caller = srv.caller
          /\ srv'.authentic = srv.authentic /\ srv'.token = srv.token
      BY <2>1, <2>4, GotoFacts DEF PCs
    <3>2. QED BY <2>1, <2>4, <3>1 DEF AInv, CallerProved, TokenOwned, CodeOwned, At,
                                      Spending, Confidential, HasToken
  <2>5. QED BY <1>7, <2>2, <2>3, <2>4 DEF ReadOwner, ReadOwnerClient
<1>8. ASSUME SelectToken
      PROVE  AInv'
  <2>1. /\ UNCHANGED <<clients, tokens>> /\ srv \in Server /\ At("select_token")
        /\ srv.token \in Tokens
    BY <1>8 DEF SelectToken, tables, IInv, TypeOK, Linked, At
  <2>2. CASE Reply
    BY <2>2, ReplyFacts, NotSpending DEF Spending
  <2>3. ASSUME NEW pc \in {"burn_token", "kill_family"},
               srv' = [srv EXCEPT !.pc = pc, !.code = tokens[srv.token].family]
        PROVE  AInv'
    <3>1. /\ srv'.pc = pc /\ srv'.caller = srv.caller
          /\ srv'.authentic = srv.authentic /\ srv'.token = srv.token
      BY <2>1, <2>3 DEF Server
    <3>2. QED BY <2>1, <3>1 DEF AInv, CallerProved, TokenOwned, CodeOwned, At,
                               Spending, Confidential, HasToken
  <2>4. QED BY <1>8, <2>2, <2>3 DEF SelectToken
<1>9. ASSUME BurnToken
      PROVE  AInv'
  <2>1. /\ UNCHANGED <<clients, codes>> /\ srv \in Server /\ At("burn_token")
        /\ srv.token \in Tokens /\ HasToken(srv.token)
        /\ codes[srv.code].client = tokens[srv.token].client
    BY <1>9 DEF BurnToken, IInv, TypeOK, Linked, Anchored, At, HasToken,
                GInv, TokenWithinGrant
  <2>2. CASE Reply
    BY <2>2, ReplyFacts, NotSpending DEF Spending
  <2>3. ASSUME NEW S, srv' = [srv EXCEPT !.pc = "issue", !.scope = S]
        PROVE  AInv'
    <3>1. /\ srv'.pc = "issue" /\ srv'.caller = srv.caller
          /\ srv'.authentic = srv.authentic /\ srv'.code = srv.code
      BY <2>1, <2>3 DEF Server
    <3>2. QED BY <2>1, <3>1 DEF AInv, CallerProved, TokenOwned, CodeOwned, At,
                               Spending, Confidential
  <2>4. QED BY <1>9, <2>2, <2>3 DEF BurnToken
<1>10. ASSUME (\E t \in Tokens : RevokeEndpoint(t)) \/ CliRevokeTokens
       PROVE  AInv'
  <2>1. PICK T : RevokeWhere(T)
    BY <1>10 DEF RevokeEndpoint, CliRevokeTokens
  <2>2. UNCHANGED <<clients, codes, srv>>
    BY <1>10 DEF RevokeEndpoint, CliRevokeTokens
  <2>3. TokensKept /\ CodesKept
    BY <2>1, <2>2, RevokeKeeps DEF CodesKept
  <2>4. \A t \in Tokens : tokens'[t].st \in {"live", "revoked"}
                             => tokens[t].st \in {"live", "revoked"}
    BY <2>1, RevokeFacts DEF IInv, TypeOK
  <2>5. QED BY <2>2, <2>3, <2>4, Waiting
<1>11. ASSUME Restart \/ GcCodes
       PROVE  AInv'
  <2>1. srv'.pc \in {"gc_codes", "gc_tokens"}
    BY <1>11, GotoFacts DEF Restart, GcCodes, Idle, IInv, TypeOK, PCs
  <2>2. QED BY <2>1, NotSpending DEF Spending
<1>12. ASSUME CliInterrupted \/ Tick \/ UNCHANGED vars \/ \E c \in Clients : CliDeleteClient(c)
       PROVE  AInv'
  <2>1. UNCHANGED <<codes, tokens, srv>>
    BY <1>12 DEF CliInterrupted, Tick, CliDeleteClient, tables, vars
  <2>2. \A c \in Clients : clients'[c] = "confidential" => clients[c] = "confidential"
    BY <1>12 DEF CliInterrupted, Tick, CliDeleteClient, tables, vars, IInv, TypeOK
  <2>3. QED BY <2>1, <2>2, Waiting DEF CodesKept, TokensKept
<1>13. QED
  BY <1>1, <1>2, <1>3, <1>4, <1>5, <1>6, <1>7, <1>8, <1>9, <1>10, <1>11, <1>12
     DEF Next, Authorize, CodeGrant, RefreshGrant, Cli

(* With any number of clients, requests and restarts: a client that registered a secret
   is never served, and none of its tokens is consumed, without it. *)
THEOREM SecretRequired == Spec => []OwnerAuthenticated
<1>1. Init => AInv
  BY DEF Init, Idle, AInv, CallerProved, TokenOwned, CodeOwned, Spending, At
<1>2. IInv /\ GInv /\ AInv /\ [Next]_vars => AInv'
  BY AuthStep
<1>3. IInv /\ AInv => OwnerAuthenticated
  BY DEF IInv, Linked, Anchored, AInv, CallerProved, TokenOwned, CodeOwned, OwnerAuthenticated,
         Spending, At, HasToken
<1>4. QED BY <1>1, <1>2, <1>3, Inductive, GrantInvariant, PTL DEF Spec

------------------------------------------------------------------------------
(* The tables implement GrantFamily. *)
Dead       == [st |-> "dead", client |-> None, scope |-> {}]
Held(f, S) == [st |-> "held", client |-> codes[f].client, scope |-> S]

(* The mapping, read off without a choice: a family has one live token at most. *)
Bar(f) ==
    /\ codes[f].st = "fresh" => grantBar[f] = [Dead EXCEPT !.st = "none"]
    /\ codes[f].st = "unused" =>
           grantBar[f] = [st |-> "offered", client |-> codes[f].client, scope |-> codes[f].scope]
    /\ Redeemed(f) /\ InFlight(f) =>
           grantBar[f] = Held(f, IF At("issue") THEN srv.scope ELSE tokens[srv.token].scope)
    /\ \A t \in Live(f) :
           Redeemed(f) /\ ~ InFlight(f) => grantBar[f] = Held(f, tokens[t].scope)
    /\ Redeemed(f) /\ ~ InFlight(f) /\ Live(f) = {} => grantBar[f] = Dead

LEMMA Reading ==
    ASSUME IInv
    PROVE  \A f \in Codes : Bar(f)
<1> SUFFICES ASSUME NEW f \in Codes PROVE Bar(f)
  OBVIOUS
<1>1. \A t \in Live(f) : (CHOOSE u \in Live(f) : TRUE) = t
  <2>1. \A t, u \in Live(f) : t = u
    BY DEF IInv, OneLivePerFamily, Live
  <2>2. QED BY <2>1
<1>2. CASE codes[f].st \in {"fresh", "unused"}
  BY <1>2 DEF Bar, grantBar, Dead, Redeemed
<1>3. CASE Redeemed(f) /\ InFlight(f)
  BY <1>3 DEF Bar, grantBar, Redeemed, Held
<1>4. CASE Redeemed(f) /\ ~ InFlight(f) /\ Live(f) = {}
  BY <1>4 DEF Bar, grantBar, Redeemed, Dead
<1>5. ASSUME Redeemed(f), ~ InFlight(f), NEW t \in Live(f)
      PROVE  Bar(f)
  <2>1. grantBar[f] = Held(f, tokens[CHOOSE u \in Live(f) : TRUE].scope)
    BY <1>5 DEF grantBar, Redeemed, Held
  <2>2. QED BY <1>1, <1>5, <2>1 DEF Bar, Redeemed
<1>6. QED
  BY <1>2, <1>3, <1>4, <1>5 DEF Redeemed, IInv, TypeOK, CodeRow

(* A consent nothing happens to. *)
LEMMA Same ==
    ASSUME IInv, NEW f \in Codes, Bar(f), Bar(f)', codes'[f] = codes[f],
           ~ InFlight(f), ~ InFlight(f)', Live(f)' = Live(f),
           \A t \in Live(f) : tokens'[t].scope = tokens[t].scope
    PROVE  grantBar'[f] = grantBar[f]
<1>1. CASE ~ Redeemed(f)
  BY <1>1 DEF Bar, Dead, Redeemed, IInv, TypeOK, CodeRow
<1>2. CASE Redeemed(f) /\ Live(f) = {}
  BY <1>2 DEF Bar, Dead, Redeemed
<1>3. ASSUME Redeemed(f), NEW t \in Live(f)
      PROVE  grantBar'[f] = grantBar[f]
  <2>1. grantBar[f] = Held(f, tokens[t].scope)
    BY <1>3 DEF Bar
  <2>2. t \in Live(f)' /\ Redeemed(f)' /\ tokens'[t].scope = tokens[t].scope
    BY <1>3 DEF Redeemed
  <2>3. grantBar'[f] = Held(f, tokens[t].scope)'
    BY <2>2 DEF Bar
  <2>4. QED BY <2>1, <2>2, <2>3 DEF Held
<1>4. QED BY <1>1, <1>2, <1>3

(* ... and one that may lose what is left of it: rows are revoked or collected, and the
   handler goes on with what it has, begins with a token it has read, or is over. *)
Fades(f) ==
    \/ grantBar'[f] = grantBar[f]
    \/ grantBar[f].st \in {"offered", "held"} /\ grantBar'[f] = Dead

LEMMA Fading ==
    ASSUME IInv, NEW f \in Codes, Bar(f), Bar(f)',
           codes'[f].client = codes[f].client, codes'[f].scope = codes[f].scope,
           codes'[f].st = codes[f].st \/ (codes[f].st # "fresh" /\ codes'[f].st = "gone"),
           Live(f)' \subseteq Live(f), \A t \in Tokens : tokens'[t].scope = tokens[t].scope,
           InFlight(f)' => \/ InFlight(f) /\ UNCHANGED srv
                           \/ ~ InFlight(f) /\ At("burn_token")' /\ srv'.token \in Live(f)
    PROVE  Fades(f)
<1>0. codes[f].st \in {"fresh", "unused", "used", "gone"} /\ srv.pc \in PCs
  BY DEF IInv, TypeOK, CodeRow, Server
<1>1. ~ Redeemed(f) => Live(f) = {} /\ ~ InFlight(f)
  BY DEF IInv, Linked, Anchored, InFlight, Live
<1>2. CASE ~ Redeemed(f)
  <2>1. ~ InFlight(f)' /\ Live(f)' = {}
    BY <1>1, <1>2
  <2>2. CASE codes'[f].st = codes[f].st
    BY <1>0, <1>2, <2>1, <2>2 DEF Bar, Fades, Redeemed, Dead
  <2>3. CASE codes[f].st # "fresh" /\ codes'[f].st = "gone"
    BY <1>0, <1>2, <2>1, <2>3 DEF Bar, Fades, Redeemed, Dead
  <2>4. QED BY <2>2, <2>3
<1>3. CASE Redeemed(f) /\ InFlight(f)'
  <2>1. Redeemed(f)'
    BY <1>3 DEF Redeemed
  <2>2. CASE InFlight(f) /\ UNCHANGED srv
    <3>1. At("issue") \/ (At("burn_token") /\ srv.token \in Tokens)
      BY <2>2 DEF InFlight, At, IInv, Linked
    <3>2. QED BY <1>3, <2>1, <2>2, <3>1 DEF Bar, Fades, Held, At
  <2>3. CASE ~ InFlight(f) /\ At("burn_token")' /\ srv'.token \in Live(f)
    <3>1. grantBar[f] = Held(f, tokens[srv'.token].scope)
      BY <1>3, <2>3 DEF Bar
    <3>2. grantBar'[f] = Held(f, tokens[srv.token].scope)'
      BY <1>3, <2>1, <2>3 DEF Bar, At
    <3>3. QED BY <2>3, <3>1, <3>2 DEF Fades, Held, Live
  <2>4. QED BY <1>3, <2>2, <2>3
<1>4. CASE Redeemed(f) /\ ~ InFlight(f)'
  <2>1. Redeemed(f)'
    BY <1>4 DEF Redeemed
  <2>2. grantBar[f].st = "held" \/ grantBar[f] = Dead
    <3>1. CASE InFlight(f)
      BY <1>4, <3>1 DEF Bar, Held
    <3>2. CASE ~ InFlight(f) /\ Live(f) = {}
      BY <1>4, <3>2 DEF Bar
    <3>3. ASSUME ~ InFlight(f), NEW t \in Live(f)
          PROVE  grantBar[f].st = "held"
      <4>1. grantBar[f] = Held(f, tokens[t].scope)
        BY <1>4, <3>3 DEF Bar
      <4>2. QED BY <4>1 DEF Held
    <3>4. QED BY <3>1, <3>2, <3>3
  <2>3. CASE Live(f)' = {}
    BY <1>4, <2>1, <2>2, <2>3 DEF Bar, Fades
  <2>4. ASSUME NEW t \in Live(f)'
        PROVE  Fades(f)
    <3>1. grantBar'[f] = Held(f, tokens[t].scope)'
      BY <1>4, <2>1, <2>4 DEF Bar
    <3>2. t \in Live(f) /\ t \in Tokens
      BY DEF Live
    <3>3. grantBar[f] = Held(f, tokens[t].scope)
      <4>1. CASE ~ InFlight(f)
        BY <1>4, <3>2, <4>1 DEF Bar
      <4>2. CASE InFlight(f)
        <5>1. At("burn_token") /\ t = srv.token
          BY <3>2, <4>2 DEF InFlight, At, IInv, Anchored, OneLivePerFamily
        <5>2. QED BY <1>4, <4>2, <5>1 DEF Bar, At
      <4>3. QED BY <4>1, <4>2
    <3>4. QED BY <3>1, <3>2, <3>3 DEF Fades, Held
  <2>5. QED BY <2>3, <2>4
<1>5. QED BY <1>2, <1>3, <1>4

(* Consents that end, if any, end by one Kill. *)
LEMMA FadeAll ==
    ASSUME \A f \in Codes : Fades(f)
    PROVE  Grants!Next
<1> DEFINE F == {f \in Codes : grantBar'[f] # grantBar[f]}
<1>1. \A f \in F : grantBar[f].st \in {"offered", "held"} /\ grantBar'[f] = Dead
  BY DEF Fades
<1>2. grantBar' = [f \in Codes |-> grantBar'[f]]
  BY DEF grantBar
<1>3. grantBar' = [f \in Codes |-> IF f \in F THEN Grants!DeadGrant ELSE grantBar[f]]
  BY <1>1, <1>2 DEF Dead, Grants!DeadGrant
<1>4. Grants!Kill(F)
  BY <1>1, <1>3 DEF Grants!Kill
<1>5. QED BY <1>4 DEF Grants!Next

Readings == \A f \in Codes : Bar(f)

(* A step that issues nothing and redeems nothing. *)
LEMMA Quietly ==
    ASSUME IInv, Readings, Readings',
           \A f \in Codes :
               /\ codes'[f].client = codes[f].client /\ codes'[f].scope = codes[f].scope
               /\ codes'[f].st = codes[f].st \/ (codes[f].st # "fresh" /\ codes'[f].st = "gone"),
           \A t \in Tokens :
               /\ tokens'[t].scope = tokens[t].scope /\ tokens'[t].family = tokens[t].family
               /\ tokens'[t].st = "live" => tokens[t].st = "live",
           \/ UNCHANGED srv
           \/ srv'.pc \notin {"burn_token", "issue"}
           \/ At("select_token") /\ At("burn_token")' /\ srv'.token \in Live(srv'.code)
    PROVE  Grants!Next
<1>1. ASSUME NEW f \in Codes
      PROVE  Fades(f)
  <2>1. Live(f)' \subseteq Live(f)
    BY DEF Live
  <2>2. InFlight(f)' => \/ InFlight(f) /\ UNCHANGED srv
                        \/ ~ InFlight(f) /\ At("burn_token")' /\ srv'.token \in Live(f)
    BY DEF InFlight, At
  <2>3. Bar(f) /\ Bar(f)'
    BY DEF Readings
  <2>4. QED BY <2>1, <2>2, <2>3, Fading
<1>2. QED BY <1>1, FadeAll

(* A family nothing happens to is still as it was when the step is about another one. *)
LEMMA Elsewhere ==
    ASSUME IInv, Readings, Readings', NEW k \in Codes,
           \A f \in Codes \ {k} : codes'[f] = codes[f] /\ ~ InFlight(f) /\ ~ InFlight(f)',
           \A t \in Tokens : tokens'[t] # tokens[t] =>
               /\ tokens[t].st = "live" => tokens[t].family = k
               /\ tokens'[t].st = "live" => tokens'[t].family = k
    PROVE  \A f \in Codes \ {k} : grantBar'[f] = grantBar[f]
<1>1. ASSUME NEW f \in Codes \ {k}
      PROVE  grantBar'[f] = grantBar[f]
  <2>1. \A t \in Tokens : t \in Live(f)' <=> t \in Live(f)
    BY DEF Live
  <2>2. Live(f)' = Live(f)
    BY <2>1 DEF Live
  <2>3. \A t \in Live(f) : tokens'[t].scope = tokens[t].scope
    BY DEF Live
  <2>4. Bar(f) /\ Bar(f)'
    BY DEF Readings
  <2>5. QED BY <2>2, <2>3, <2>4, Same
<1>2. QED BY <1>1

(* So a step about one family is known by what becomes of that one. *)
LEMMA Alone ==
    ASSUME NEW k \in Codes, \A f \in Codes \ {k} : grantBar'[f] = grantBar[f]
    PROVE  /\ grantBar' = [grantBar EXCEPT ![k] = grantBar'[k]]
           /\ Fades(k) => Grants!Next
<1>1. grantBar' = [f \in Codes |-> grantBar'[f]] /\ grantBar = [f \in Codes |-> grantBar[f]]
  BY DEF grantBar
<1>2. grantBar' = [grantBar EXCEPT ![k] = grantBar'[k]]
  BY <1>1
<1>3. ASSUME Fades(k)
      PROVE  \A f \in Codes : Fades(f)
  BY <1>3 DEF Fades
<1>4. QED BY <1>2, <1>3, FadeAll

(* Every statement is a step of some consent's life, or none. *)
LEMMA LifeStep ==
    ASSUME IInv, GInv, Readings, Readings', [Next]_vars
    PROVE  Grants!Next
<1>0. TypeOK /\ Linked /\ Anchored
  BY DEF IInv
<1>1. ASSUME UNCHANGED <<codes, tokens>>,
             UNCHANGED srv \/ srv'.pc \notin {"burn_token", "issue"}
      PROVE  Grants!Next
  BY <1>1, Quietly
<1>2. ASSUME NEW T, RevokeWhere(T), UNCHANGED codes, UNCHANGED srv \/ Reply
      PROVE  Grants!Next
  <2>1. \A t \in Tokens :
            /\ tokens'[t].scope = tokens[t].scope /\ tokens'[t].family = tokens[t].family
            /\ tokens'[t].st = "live" => tokens[t].st = "live"
    BY <1>0, <1>2, RevokeFacts DEF TypeOK
  <2>2. UNCHANGED srv \/ srv'.pc \notin {"burn_token", "issue"}
    BY <1>2, ReplyFacts
  <2>3. QED BY <1>2, <2>1, <2>2, Quietly
<1>3. ASSUME PutCode
      PROVE  Grants!Next
  <2>1. PICK k \in Codes, S \in SUBSET ScopeNames, m \in Methods :
            /\ codes[k].st = "fresh" /\ S \cap Permissions # {}
            /\ codes' = [codes EXCEPT ![k] = [st |-> "unused", client |-> srv.caller,
                                              scope |-> S, method |-> m,
                                              exp |-> now + CodeTTL]]
    BY <1>3 DEF PutCode
  <2>2. At("put_code") /\ srv.caller \in Clients /\ srv'.pc = "idle" /\ UNCHANGED tokens
    BY <1>0, <1>3, ReplyFacts DEF PutCode, Linked
  <2>3. /\ codes'[k].st = "unused" /\ codes'[k].client = srv.caller /\ codes'[k].scope = S
        /\ \A f \in Codes \ {k} : codes'[f] = codes[f]
    BY <1>0, <2>1 DEF TypeOK
  <2>4. \A f \in Codes : ~ InFlight(f) /\ ~ InFlight(f)'
    BY <2>2 DEF InFlight, At
  <2>5. \A f \in Codes \ {k} : grantBar'[f] = grantBar[f]
    BY <2>2, <2>3, <2>4, Elsewhere
  <2>6. grantBar[k].st = "none"
    BY <2>1 DEF Readings, Bar, Dead
  <2>7. grantBar'[k] = [st |-> "offered", client |-> srv.caller, scope |-> S]
    BY <2>3 DEF Readings, Bar
  <2>8. grantBar' = [grantBar EXCEPT ![k] = grantBar'[k]]
    BY <2>5, Alone
  <2>9. Grants!Offer(k, srv.caller, S)
    BY <2>1, <2>6, <2>7, <2>8 DEF Grants!Offer
  <2>10. QED BY <2>2, <2>9 DEF Grants!Next
<1>4. ASSUME BurnCode
      PROVE  Grants!Next
  <2>0. PICK k \in Codes : k = srv.code
    BY <1>0, <1>4 DEF BurnCode, Linked, At
  <2>1. /\ k \in Codes /\ codes[k].st = "unused" /\ At("burn_code") /\ UNCHANGED tokens
        /\ codes' = [codes EXCEPT ![k].st = "used"]
        /\ \/ srv' = [srv EXCEPT !.pc = "issue", !.scope = codes[k].scope]
           \/ Reply
    BY <1>0, <1>4, <2>0 DEF BurnCode, Anchored, At
  <2>2. /\ codes'[k].st = "used" /\ codes'[k].client = codes[k].client
        /\ codes'[k].scope = codes[k].scope
        /\ \A f \in Codes \ {k} : codes'[f] = codes[f]
    BY <1>0, <2>1 DEF TypeOK, CodeRow
  <2>3. \/ srv'.pc = "issue" /\ srv'.code = k /\ srv'.scope = codes[k].scope
        \/ srv'.pc = "idle"
    BY <1>0, <2>0, <2>1, ReplyFacts DEF TypeOK, Server
  <2>4. \A f \in Codes \ {k} : ~ InFlight(f) /\ ~ InFlight(f)'
    BY <2>0, <2>1, <2>3 DEF InFlight, At
  <2>5. \A f \in Codes \ {k} : grantBar'[f] = grantBar[f]
    BY <2>1, <2>2, <2>4, Elsewhere
  <2>6. grantBar[k] = [st |-> "offered", client |-> codes[k].client, scope |-> codes[k].scope]
    BY <2>1 DEF Readings, Bar
  <2>7. Redeemed(k)'
    BY <2>2 DEF Redeemed
  <2>8. CASE srv'.pc = "issue" /\ srv'.code = k /\ srv'.scope = codes[k].scope
    <3>1. grantBar'[k] = [st |-> "held", client |-> codes[k].client, scope |-> codes[k].scope]
      <4>1. InFlight(k)' /\ At("issue")'
        BY <2>8 DEF InFlight, At
      <4>2. grantBar'[k] = Held(k, srv.scope)'
        BY <2>7, <4>1 DEF Readings, Bar
      <4>3. QED BY <2>2, <2>8, <4>2 DEF Held
    <3>2. grantBar' = [grantBar EXCEPT ![k] = grantBar'[k]]
      BY <2>1, <2>5, Alone
    <3>3. grantBar'[k] = [grantBar[k] EXCEPT !.st = "held"]
      BY <2>6, <3>1
    <3>4. Grants!Redeem(k)
      BY <2>6, <3>2, <3>3 DEF Grants!Redeem
    <3>5. QED BY <2>1, <3>4 DEF Grants!Next
  <2>9. CASE srv'.pc = "idle"
    <3>1. Live(k)' = {} /\ ~ InFlight(k)'
      BY <1>0, <2>1, <2>9 DEF Anchored, Live, InFlight, Redeemed
    <3>2. grantBar'[k] = Dead'
      BY <2>1, <2>7, <3>1 DEF Readings, Bar
    <3>3. Fades(k)
      BY <2>6, <3>2 DEF Fades, Dead
    <3>4. QED BY <2>1, <2>5, <3>3, Alone
  <2>10. QED BY <2>3, <2>8, <2>9
<1>5. ASSUME SelectToken
      PROVE  Grants!Next
  <2>1. srv.token \in Tokens /\ At("select_token") /\ UNCHANGED <<codes, tokens>>
    BY <1>0, <1>5 DEF SelectToken, Linked, At, tables
  <2>2. CASE /\ tokens[srv.token].st = "live"
             /\ srv' = [srv EXCEPT !.pc = "burn_token", !.code = tokens[srv.token].family]
    <3>1. /\ srv'.pc = "burn_token" /\ srv'.token = srv.token
          /\ srv'.code = tokens[srv.token].family
      BY <1>0, <2>2 DEF TypeOK, Server
    <3>2. At("burn_token")' /\ srv'.token \in Live(srv'.code)
      BY <2>1, <2>2, <3>1 DEF At, Live
    <3>3. QED BY <2>1, <3>2, Quietly
  <2>3. CASE srv' = [srv EXCEPT !.pc = "kill_family", !.code = tokens[srv.token].family]
    <3>1. srv'.pc = "kill_family"
      BY <1>0, <2>3 DEF TypeOK, Server
    <3>2. QED BY <1>1, <2>1, <3>1
  <2>4. CASE Reply
    BY <1>1, <2>1, <2>4, ReplyFacts
  <2>5. QED BY <1>5, <2>2, <2>3, <2>4 DEF SelectToken
<1>6. ASSUME BurnToken
      PROVE  Grants!Next
  <2> DEFINE held == tokens[srv.token].scope
  <2>0. PICK f \in Codes : f = srv.code
    BY <1>0, <1>6 DEF BurnToken, Linked, At
  <2>1. /\ f \in Codes /\ srv.token \in Tokens /\ At("burn_token") /\ UNCHANGED codes
        /\ RevokeWhere({srv.token}) /\ Redeemed(f)
        /\ tokens[srv.token].family = f /\ tokens[srv.token].st # "fresh"
    BY <1>0, <1>6, <2>0 DEF BurnToken, Linked, Anchored, At
  <2>2. held # {} /\ held \in SUBSET ScopeNames
    BY <1>0, <2>1 DEF GInv, TokenWithinGrant, TypeOK, TokenRow
  <2>3. CASE Reply
    BY <1>2, <2>1, <2>3
  <2>4. ASSUME NEW want,
               srv' = [srv EXCEPT !.pc = "issue", !.scope = Narrow(want, held)]
        PROVE  Grants!Next
    <3>1. srv'.pc = "issue" /\ srv'.code = f /\ srv'.scope = Narrow(want, held)
      BY <1>0, <2>0, <2>4 DEF TypeOK, Server
    <3>2. Narrow(want, held) # {} /\ Narrow(want, held) \subseteq held
      BY <2>2, NarrowProperties
    <3>3. \A g \in Codes \ {f} : codes'[g] = codes[g] /\ ~ InFlight(g) /\ ~ InFlight(g)'
      BY <2>0, <2>1, <3>1 DEF InFlight
    <3>4. \A t \in Tokens : tokens'[t] # tokens[t] =>
              /\ tokens[t].family = f
              /\ tokens'[t].st = "live" => tokens'[t].family = f
      BY <1>0, <2>1 DEF RevokeWhere, TypeOK, TokenRow
    <3>5. \A g \in Codes \ {f} : grantBar'[g] = grantBar[g]
      BY <2>1, <3>3, <3>4, Elsewhere
    <3>6. grantBar[f] = Held(f, held)
      BY <2>0, <2>1 DEF Readings, Bar, InFlight, At
    <3>7. grantBar'[f] = Held(f, Narrow(want, held))
      <4>1. InFlight(f)' /\ Redeemed(f)' /\ At("issue")'
        BY <2>1, <3>1 DEF InFlight, Redeemed, At
      <4>2. grantBar'[f] = Held(f, srv.scope)'
        BY <2>1, <4>1 DEF Readings, Bar
      <4>3. QED BY <2>1, <3>1, <4>2 DEF Held
    <3>8. grantBar' = [grantBar EXCEPT ![f] = grantBar'[f]]
      BY <2>1, <3>5, Alone
    <3>9. grantBar'[f] = [grantBar[f] EXCEPT !.scope = Narrow(want, held)]
      BY <3>6, <3>7 DEF Held
    <3>10. Grants!Rotate(f, Narrow(want, held))
      BY <3>2, <3>6, <3>8, <3>9 DEF Grants!Rotate, Held
    <3>11. Narrow(want, held) \in SUBSET ScopeNames
      BY <2>2, <3>2
    <3>12. QED BY <2>1, <3>10, <3>11 DEF Grants!Next
  <2>5. QED BY <1>6, <2>3, <2>4 DEF BurnToken
<1>7. ASSUME Issue
      PROVE  Grants!Next
  <2>0. PICK f \in Codes : f = srv.code
    BY <1>0, <1>7 DEF Issue, Linked, At
  <2>1. PICK t \in Tokens :
            /\ tokens[t].st = "fresh"
            /\ tokens' = [tokens EXCEPT ![t] = [st |-> "live", family |-> f,
                                                client |-> codes[f].client,
                                                scope |-> srv.scope,
                                                exp |-> now + RefreshTTL]]
    BY <1>7, <2>0 DEF Issue
  <2>2. /\ f \in Codes /\ At("issue") /\ UNCHANGED codes /\ srv'.pc = "idle" /\ Redeemed(f)
    BY <1>0, <1>7, <2>0, ReplyFacts DEF Issue, Anchored, At
  <2>3. /\ tokens'[t].st = "live" /\ tokens'[t].family = f /\ tokens'[t].scope = srv.scope
        /\ \A u \in Tokens \ {t} : tokens'[u] = tokens[u]
    BY <1>0, <2>1 DEF TypeOK
  <2>4. grantBar[f] = Held(f, srv.scope)
    BY <2>0, <2>2 DEF Readings, Bar, InFlight, At
  <2>5. grantBar'[f] = Held(f, srv.scope)
    <3>1. t \in Live(f)' /\ Redeemed(f)' /\ ~ InFlight(f)'
      BY <2>2, <2>3 DEF Live, Redeemed, InFlight
    <3>2. grantBar'[f] = Held(f, tokens[t].scope)'
      BY <2>2, <3>1 DEF Readings, Bar
    <3>3. QED BY <2>2, <2>3, <3>2 DEF Held
  <2>6. \A g \in Codes \ {f} : codes'[g] = codes[g] /\ ~ InFlight(g) /\ ~ InFlight(g)'
    BY <2>0, <2>2 DEF InFlight
  <2>7. \A u \in Tokens : tokens'[u] # tokens[u] =>
            /\ tokens[u].st = "live" => tokens[u].family = f
            /\ tokens'[u].st = "live" => tokens'[u].family = f
    BY <2>1, <2>3
  <2>8. \A g \in Codes \ {f} : grantBar'[g] = grantBar[g]
    BY <2>2, <2>6, <2>7, Elsewhere
  <2>9. Fades(f)
    BY <2>4, <2>5 DEF Fades
  <2>10. QED BY <2>2, <2>8, <2>9, Alone
<1>8. ASSUME GcCodes
      PROVE  Grants!Next
  <2>1. \A f \in Codes :
            /\ codes'[f].client = codes[f].client /\ codes'[f].scope = codes[f].scope
            /\ codes'[f].st = codes[f].st \/ (codes[f].st # "fresh" /\ codes'[f].st = "gone")
    BY <1>0, <1>8 DEF GcCodes, HasCode, TypeOK, CodeRow
  <2>2. srv'.pc = "gc_tokens" /\ UNCHANGED tokens
    BY <1>0, <1>8 DEF GcCodes, Goto, TypeOK, Server
  <2>3. QED BY <2>1, <2>2, Quietly
<1>9. ASSUME GcTokens
      PROVE  Grants!Next
  <2>1. \A t \in Tokens :
            /\ tokens'[t].scope = tokens[t].scope /\ tokens'[t].family = tokens[t].family
            /\ tokens'[t].st = "live" => tokens[t].st = "live"
    BY <1>0, <1>9 DEF GcTokens, HasToken, TypeOK, TokenRow
  <2>2. srv'.pc = "idle" /\ UNCHANGED codes
    BY <1>9, ReplyFacts DEF GcTokens
  <2>3. QED BY <2>1, <2>2, Quietly
<1>10. ASSUME KillFamily \/ CliRevokeTokens \/ \E t \in Tokens : RevokeEndpoint(t)
       PROVE  Grants!Next
  BY <1>2, <1>10 DEF KillFamily, CliRevokeTokens, RevokeEndpoint
<1>11. ASSUME NEW c \in Clients \cup {None}, NEW secret \in BOOLEAN,
              \/ \E k \in Codes : BeginCodeGrant(c, k, secret)
              \/ \E t \in Tokens : BeginRefresh(c, t, secret)
       PROVE  Grants!Next
  <2>1. srv'.pc \in {"select_code", "owner"} /\ UNCHANGED <<codes, tokens>>
    BY <1>11 DEF BeginCodeGrant, BeginRefresh, Authenticate, Idle, tables
  <2>2. QED BY <1>1, <2>1
<1>12. ASSUME SelectCode \/ ReadOwner \/ ReadOwnerClient \/ AuthorizeEnds \/ Restart
       PROVE  Grants!Next
  <2>1. /\ UNCHANGED <<codes, tokens>>
        /\ \/ Reply \/ srv'.pc = "gc_codes"
           \/ Goto("burn_code") \/ Goto("kill_family") \/ Goto("owner_client")
           \/ Goto("select_token")
    BY <1>12 DEF SelectCode, ReadOwner, ReadOwnerClient, AuthorizeEnds, Restart, tables, Idle
  <2>2. srv'.pc \notin {"burn_token", "issue"}
    BY <1>0, <2>1, ReplyFacts DEF Goto, TypeOK, Server
  <2>3. QED BY <1>1, <2>1, <2>2
<1>13. ASSUME NEW c \in Clients, Register(c) \/ ResolveClient(c) \/ CliDeleteClient(c)
       PROVE  Grants!Next
  <2>1. UNCHANGED <<codes, tokens>> /\ (UNCHANGED srv \/ srv'.pc = "put_code")
    BY <1>13 DEF Register, ResolveClient, CliDeleteClient, Idle
  <2>2. QED BY <1>1, <2>1
<1>14. CASE CliInterrupted \/ Tick \/ UNCHANGED vars
  <2>1. UNCHANGED <<codes, tokens, srv>>
    BY <1>14 DEF CliInterrupted, Tick, tables, vars
  <2>2. QED BY <1>1, <2>1
<1>15. QED
  <2>1. CASE Authorize \/ Cli \/ \E c \in Clients : Register(c)
    BY <1>3, <1>10, <1>12, <1>13, <1>14, <2>1 DEF Authorize, Cli
  <2>2. CASE CodeGrant \/ RefreshGrant
    BY <1>4, <1>5, <1>6, <1>11, <1>12, <2>2 DEF CodeGrant, RefreshGrant
  <2>3. QED
    BY <1>7, <1>8, <1>9, <1>10, <1>12, <1>14, <2>1, <2>2 DEF Next

(* With any number of codes, tokens and clients, and whatever comes between two statements:
   the tables and the handler's locals, read through the mapping, are consents that are
   offered, redeemed once, rotated without widening and never revived (GrantLifecycle). *)
THEOREM TablesAreGrants == Spec => GrantLifecycle
<1>1. Init => Grants!Init
  BY DEF Init, Grants!Init, Grants!NoGrant, grantBar, NoCode
<1>2. IInv => Readings
  BY Reading DEF Readings
<1>3. IInv /\ GInv /\ Readings /\ Readings' /\ [Next]_vars => [Grants!Next]_grantBar
  BY LifeStep
<1>4. QED BY <1>1, <1>2, <1>3, Inductive, GrantInvariant, PTL
             DEF Spec, GrantLifecycle, Grants!Spec
==============================================================================
