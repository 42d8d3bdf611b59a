----------------------------- MODULE OAuthGrants -----------------------------
(***************************************************************************)
(* The token endpoint of the authorization server (auth/oauth.py) and the  *)
(* tables it keeps in oauth.db (auth/store.py): clients, auth_codes and    *)
(* refresh_tokens.                                                         *)
(*                                                                         *)
(* Every Store statement commits on its own, so one action is one SQL      *)
(* statement.  The server is one asyncio process and its handlers do not   *)
(* await between their statements, so at most one handler is under way:    *)
(* srv.  What does come between two of its statements is another process,  *)
(* `vpsmcp revoke` (variable cli), a crash, and the clock.                 *)
(***************************************************************************)
EXTENDS Integers, FiniteSets

CONSTANTS
    Clients,      \* client_ids
    CimdClients,  \* those that are URLs of a metadata document (CIMD)
    Codes,        \* the values secrets.token_urlsafe gives authorization codes
    Tokens,       \* the values it gives refresh tokens
    Permissions,  \* settings.SCOPES
    Offline,      \* "offline_access": asked for, but no permission
    Unknown,      \* a scope name the server does not know
    CodeTTL, RefreshTTL,   \* lifetimes, in ticks
    CodeKeep, TokenKeep,   \* how long gc() keeps an expired row, in ticks
    MaxNow,       \* bound on the clock
    None

ASSUME SetsAssumption ==
    /\ CimdClients \subseteq Clients
    /\ None \notin Clients \cup Codes \cup Tokens
    /\ Offline \notin Permissions /\ Unknown \notin Permissions /\ Unknown # Offline
ASSUME TimesAssumption ==
    /\ CodeTTL \in Nat /\ RefreshTTL \in Nat
    /\ CodeKeep \in Nat /\ TokenKeep \in Nat /\ MaxNow \in Nat

VARIABLES
    clients,      \* the clients table, by client_id
    codes,        \* the auth_codes table, by code
    tokens,       \* the refresh_tokens table, by token; its family is a code
    requirePkce,  \* settings.require_pkce, read again at every start
    now,          \* the clock
    srv,          \* the server: the handler under way and its locals
    cli,          \* the client whose `vpsmcp revoke` is half done, or None
    killed,       \* history: families a detected replay or reuse revoked
    revoked       \* history: clients whose `vpsmcp revoke` has completed

tables  == <<clients, codes, tokens>>
history == <<killed, revoked>>
vars    == <<clients, codes, tokens, requirePkce, now, srv, cli, killed, revoked>>

ScopeNames == Permissions \cup {Offline}
Methods    == {"none", "challenge"}   \* S256 and plain differ only in how they compare

(* "fresh" is a value not drawn yet and "gone" a row gc() deleted: the code
   sees no row in either case. *)
CodeRow  == [st : {"fresh", "unused", "used", "gone"}, client : Clients \cup {None},
             scope : SUBSET ScopeNames, method : Methods, exp : Nat]
TokenRow == [st : {"fresh", "live", "revoked", "gone"}, family : Codes \cup {None},
             client : Clients \cup {None}, scope : SUBSET ScopeNames, exp : Nat]
NoCode   == [st |-> "fresh", client |-> None, scope |-> {}, method |-> "none", exp |-> 0]
NoToken  == [st |-> "fresh", family |-> None, client |-> None, scope |-> {}, exp |-> 0]

(* The program counter names the statement the handler runs next. *)
PCs == {"idle", "put_code",
        "select_code", "burn_code",
        "owner", "owner_client", "select_token", "burn_token",
        "kill_family", "issue",
        "gc_codes", "gc_tokens"}
Server == [pc : PCs, caller : Clients \cup {None}, authentic : BOOLEAN,
           code : Codes \cup {None}, token : Tokens \cup {None}, scope : SUBSET ScopeNames]
Idle   == [pc |-> "idle", caller |-> None, authentic |-> FALSE,
           code |-> None, token |-> None, scope |-> {}]

TypeOK ==
    /\ clients \in [Clients -> {"fresh", "public", "confidential", "deleted"}]
    /\ codes \in [Codes -> CodeRow]
    /\ tokens \in [Tokens -> TokenRow]
    /\ requirePkce \in BOOLEAN
    /\ now \in Nat
    /\ srv \in Server
    /\ cli \in Clients \cup {None}
    /\ killed \subseteq Codes
    /\ revoked \subseteq Clients

Init ==
    /\ clients = [c \in Clients |-> "fresh"]
    /\ codes = [k \in Codes |-> NoCode]
    /\ tokens = [t \in Tokens |-> NoToken]
    /\ requirePkce \in BOOLEAN
    /\ now = 0
    /\ srv = Idle
    /\ cli = None
    /\ killed = {} /\ revoked = {}

------------------------------------------------------------------------------
Registered(c) == clients[c] \in {"public", "confidential"}
HasCode(k)    == codes[k].st \in {"unused", "used"}
HasToken(t)   == tokens[t].st \in {"live", "revoked"}

Live(f)   == {t \in Tokens : tokens[t].st = "live" /\ tokens[t].family = f}
At(pc)    == srv.pc = pc
Reply     == srv' = Idle
Goto(pc)  == srv' = [srv EXCEPT !.pc = pc]

(* UPDATE refresh_tokens SET revoked=1 WHERE ... *)
RevokeWhere(T) ==
    tokens' = [t \in Tokens |-> IF t \in T /\ HasToken(t)
                                THEN [tokens[t] EXCEPT !.st = "revoked"] ELSE tokens[t]]

(* _norm_scopes: unknown names are dropped; nothing left means everything. *)
NormScopes(want) ==
    LET keep == want \cap ScopeNames IN IF keep = {} THEN Permissions ELSE keep

(* Fault of Narrow: the request is only checked against SCOPES. *)
NarrowWidens(want, held) == NormScopes(IF want = {} THEN held ELSE want)

(* What a refresh that asks for `want` gets out of a token that carries `held`. *)
Narrow(want, held) ==
    LET granted == NormScopes(IF want = {} THEN held ELSE want) \cap held
    IN  IF granted = {} THEN held ELSE granted

(* token() / _check_client_auth: a client that holds a secret presents it. *)
Confidential(c)       == c \in Clients /\ clients[c] = "confidential"

(* The handler remembers in `authentic` that the secret was asked for and right. *)
Authenticate(c, secret, s) ==
    /\ Confidential(c) => secret
    /\ srv' = [s EXCEPT !.caller = c, !.authentic = Confidential(c)]

------------------------------------------------------------------------------
(* POST /oauth/register: a new random client_id, with a secret if it asks. *)
Register(c) ==
    /\ At("idle") /\ c \notin CimdClients /\ clients[c] = "fresh"
    /\ \E kind \in {"public", "confidential"} :
           clients' = [clients EXCEPT ![c] = kind]
    /\ UNCHANGED <<codes, tokens, requirePkce, now, srv, cli, history>>

(* authorize(), first statement: _resolve_client finds the row, or fetches the
   metadata document and stores a public client. *)
ResolveClient(c) ==
    /\ At("idle")
    /\ \/ Registered(c) /\ UNCHANGED <<clients, revoked>>
       \/ /\ c \in CimdClients /\ ~Registered(c)
          /\ clients' = [clients EXCEPT ![c] = "public"]
          /\ revoked' = revoked \ {c}
    /\ srv' = [Idle EXCEPT !.pc = "put_code", !.caller = c]
    /\ UNCHANGED <<codes, tokens, requirePkce, now, cli, killed>>

(* authorize(), approve: the user ticks at least one permission. *)
PutCode ==
    /\ At("put_code")
    /\ \E k \in Codes, S \in SUBSET ScopeNames, m \in Methods :
           /\ codes[k].st = "fresh"
           /\ S \cap Permissions # {}
           /\ requirePkce => m = "challenge"
           /\ codes' = [codes EXCEPT ![k] = [st |-> "unused", client |-> srv.caller,
                                             scope |-> S, method |-> m,
                                             exp |-> now + CodeTTL]]
    /\ Reply
    /\ UNCHANGED <<clients, tokens, requirePkce, now, cli, history>>

(* The user denies, or the request is refused before a code is made. *)
AuthorizeEnds ==
    /\ At("put_code") /\ Reply
    /\ UNCHANGED <<tables, requirePkce, now, cli, history>>

------------------------------------------------------------------------------
(* POST /oauth/token with a code. *)
BeginCodeGrant(c, k, secret) ==
    /\ At("idle") /\ codes[k].st # "fresh"
    /\ Authenticate(c, secret, [Idle EXCEPT !.pc = "select_code", !.code = k])
    /\ UNCHANGED <<tables, requirePkce, now, cli, history>>

(* take_code: the SELECT. *)
SelectCode ==
    /\ At("select_code")
    /\ \/ codes[srv.code].st = "unused" /\ Goto("burn_code")
       \/ codes[srv.code].st = "used" /\ Goto("kill_family")
       \/ ~HasCode(srv.code) /\ Reply
    /\ UNCHANGED <<tables, requirePkce, now, cli, history>>

(* Fault of CodeAccepted: a code without a challenge is good whatever
   require_pkce says now. *)
CodeAcceptedWithoutPkce(redirect, verifier, resource) ==
    LET row == codes[srv.code] IN
    /\ row.exp >= now /\ row.client = srv.caller /\ redirect /\ resource
    /\ row.method = "none" \/ verifier

(* The checks _grant_code makes after take_code has burned the code. *)
CodeAccepted(redirect, verifier, resource) ==
    LET row == codes[srv.code] IN
    /\ row.exp >= now
    /\ row.client = srv.caller
    /\ redirect
    /\ IF row.method = "none" THEN ~requirePkce ELSE verifier
    /\ resource

(* Fault of BurnCode: the code is marked only when the checks pass later on. *)
BurnCodeUnmarked ==
    /\ At("burn_code")
    /\ \E redirect, verifier, resource \in BOOLEAN :
           IF CodeAccepted(redirect, verifier, resource)
           THEN srv' = [srv EXCEPT !.pc = "issue", !.scope = codes[srv.code].scope]
           ELSE Reply
    /\ UNCHANGED <<tables, requirePkce, now, cli, history>>

(* take_code: UPDATE auth_codes SET used=1, then the checks. *)
BurnCode ==
    /\ At("burn_code")
    /\ codes' = [codes EXCEPT ![srv.code].st = "used"]
    /\ \E redirect, verifier, resource \in BOOLEAN :
           IF CodeAccepted(redirect, verifier, resource)
           THEN srv' = [srv EXCEPT !.pc = "issue", !.scope = codes[srv.code].scope]
           ELSE Reply
    /\ UNCHANGED <<clients, tokens, requirePkce, now, cli, history>>

------------------------------------------------------------------------------
(* POST /oauth/token with a refresh token; a public client may leave its
   client_id out (c = None). *)
BeginRefresh(c, t, secret) ==
    /\ At("idle") /\ tokens[t].st # "fresh"
    /\ Authenticate(c, secret, [Idle EXCEPT !.pc = "owner", !.token = t])
    /\ UNCHANGED <<tables, requirePkce, now, cli, history>>

(* Fault of ReadOwner: a request that names no client is taken for a public one. *)
ReadOwnerTrusting ==
    /\ At("owner")
    /\ IF srv.caller # None /\ HasToken(srv.token) /\ tokens[srv.token].client # srv.caller
       THEN Goto("owner_client") ELSE Goto("select_token")
    /\ UNCHANGED <<tables, requirePkce, now, cli, history>>

(* refresh_owner: the SELECT that does not consume the token. *)
ReadOwner ==
    /\ At("owner")
    /\ IF HasToken(srv.token) /\ tokens[srv.token].client # srv.caller
       THEN Goto("owner_client") ELSE Goto("select_token")
    /\ UNCHANGED <<tables, requirePkce, now, cli, history>>

(* get_client(owner): one that holds a secret had to name itself. *)
ReadOwnerClient ==
    /\ At("owner_client")
    /\ IF Confidential(tokens[srv.token].client)
       THEN Reply ELSE Goto("select_token")
    /\ UNCHANGED <<tables, requirePkce, now, cli, history>>

(* Fault of SelectToken: a revoked row is taken for a live one. *)
SelectTokenIgnoresRevoked ==
    /\ At("select_token")
    /\ \/ /\ HasToken(srv.token)
          /\ srv' = [srv EXCEPT !.pc = "burn_token", !.code = tokens[srv.token].family]
       \/ ~HasToken(srv.token) /\ Reply
    /\ UNCHANGED <<tables, requirePkce, now, cli, history>>

(* take_refresh: the SELECT. *)
SelectToken ==
    /\ At("select_token")
    /\ \/ /\ tokens[srv.token].st = "live"
          /\ srv' = [srv EXCEPT !.pc = "burn_token", !.code = tokens[srv.token].family]
       \/ /\ tokens[srv.token].st = "revoked"
          /\ srv' = [srv EXCEPT !.pc = "kill_family", !.code = tokens[srv.token].family]
       \/ ~HasToken(srv.token) /\ Reply
    /\ UNCHANGED <<tables, requirePkce, now, cli, history>>

(* Fault of BurnToken: the successor is issued, the old row stays good. *)
BurnTokenUnmarked ==
    LET row == tokens[srv.token] IN
    /\ At("burn_token")
    /\ IF row.exp >= now /\ srv.caller \in {None, row.client}
       THEN \E want \in SUBSET (ScopeNames \cup {Unknown}) :
                srv' = [srv EXCEPT !.pc = "issue", !.scope = Narrow(want, row.scope)]
       ELSE Reply
    /\ UNCHANGED <<tables, requirePkce, now, cli, history>>

(* take_refresh: UPDATE ... SET revoked=1 for this token, then the checks of
   _grant_refresh on the row the SELECT returned. *)
BurnToken ==
    LET row == tokens[srv.token] IN
    /\ At("burn_token")
    /\ RevokeWhere({srv.token})
    /\ IF row.exp >= now /\ srv.caller \in {None, row.client}
       THEN \E want \in SUBSET (ScopeNames \cup {Unknown}) :
                srv' = [srv EXCEPT !.pc = "issue", !.scope = Narrow(want, row.scope)]
       ELSE Reply
    /\ UNCHANGED <<clients, codes, requirePkce, now, cli, history>>

(* take_code on a used code, take_refresh on a revoked token. *)
KillFamily ==
    /\ At("kill_family")
    /\ RevokeWhere({t \in Tokens : tokens[t].family = srv.code})
    /\ killed' = killed \cup {srv.code}
    /\ Reply
    /\ UNCHANGED <<clients, codes, requirePkce, now, cli, revoked>>

(* _issue: a new refresh token of the same family, always. *)
Issue ==
    /\ At("issue")
    /\ \E t \in Tokens :
           /\ tokens[t].st = "fresh"
           /\ tokens' = [tokens EXCEPT ![t] = [st |-> "live", family |-> srv.code,
                                               client |-> codes[srv.code].client,
                                               scope |-> srv.scope,
                                               exp |-> now + RefreshTTL]]
    /\ Reply
    /\ UNCHANGED <<clients, codes, requirePkce, now, cli, history>>

(* POST /oauth/revoke: that token only. *)
RevokeEndpoint(t) ==
    /\ At("idle") /\ HasToken(t)
    /\ RevokeWhere({t})
    /\ UNCHANGED <<clients, codes, requirePkce, now, srv, cli, history>>

------------------------------------------------------------------------------
(* The server stops, in the middle of a handler or not, and starts again: the
   settings are read again and lifespan() runs Store.gc before it serves. *)
Restart ==
    /\ srv' = [Idle EXCEPT !.pc = "gc_codes"]
    /\ requirePkce' \in BOOLEAN
    /\ UNCHANGED <<tables, now, cli, history>>

GcCodes ==
    /\ At("gc_codes")
    /\ codes' = [k \in Codes |-> IF HasCode(k) /\ codes[k].exp < now - CodeKeep
                                 THEN [codes[k] EXCEPT !.st = "gone"] ELSE codes[k]]
    /\ Goto("gc_tokens")
    /\ UNCHANGED <<clients, tokens, requirePkce, now, cli, history>>

GcTokens ==
    /\ At("gc_tokens")
    /\ tokens' = [t \in Tokens |-> IF HasToken(t) /\ tokens[t].exp < now - TokenKeep
                                   THEN [tokens[t] EXCEPT !.st = "gone"] ELSE tokens[t]]
    /\ Reply
    /\ UNCHANGED <<clients, codes, requirePkce, now, cli, history>>

------------------------------------------------------------------------------
(* `vpsmcp revoke <client_id>`, a process of its own: Store.delete_client. *)
CliDeleteClient(c) ==
    /\ cli = None
    /\ clients' = [clients EXCEPT ![c] = IF Registered(c) THEN "deleted" ELSE @]
    /\ cli' = c
    /\ UNCHANGED <<codes, tokens, requirePkce, now, srv, history>>

CliRevokeTokens ==
    /\ cli # None
    /\ RevokeWhere({t \in Tokens : tokens[t].client = cli})
    /\ revoked' = revoked \cup {cli}
    /\ cli' = None
    /\ UNCHANGED <<clients, codes, requirePkce, now, srv, killed>>

(* The command is interrupted between its two statements. *)
CliInterrupted ==
    /\ cli # None /\ cli' = None
    /\ UNCHANGED <<tables, requirePkce, now, srv, history>>

Tick ==
    /\ now < MaxNow /\ now' = now + 1
    /\ UNCHANGED <<tables, requirePkce, srv, cli, history>>

------------------------------------------------------------------------------
Authorize == PutCode \/ AuthorizeEnds \/ \E c \in Clients : ResolveClient(c)
CodeGrant ==
    \/ \E c \in Clients \cup {None}, k \in Codes, secret \in BOOLEAN :
           BeginCodeGrant(c, k, secret)
    \/ SelectCode \/ BurnCode
RefreshGrant ==
    \/ \E c \in Clients \cup {None}, t \in Tokens, secret \in BOOLEAN :
           BeginRefresh(c, t, secret)
    \/ ReadOwner \/ ReadOwnerClient \/ SelectToken \/ BurnToken
Cli == CliRevokeTokens \/ CliInterrupted \/ \E c \in Clients : CliDeleteClient(c)

Next ==
    \/ \E c \in Clients : Register(c)
    \/ Authorize
    \/ CodeGrant
    \/ RefreshGrant
    \/ KillFamily \/ Issue
    \/ \E t \in Tokens : RevokeEndpoint(t)
    \/ Restart \/ GcCodes \/ GcTokens
    \/ Cli
    \/ Tick

Spec == Init /\ [][Next]_vars

------------------------------------------------------------------------------
(* The family the handler under way is about to give a token to, or has read
   a live token of: its rows are no longer what decides whether it is held. *)
InFlight(f) == srv.pc \in {"burn_token", "issue"} /\ srv.code = f

(* At most one refresh token of a family can be exchanged at any time, and
   none while a successor is being issued: rotation (take_refresh, then
   put_refresh) never forks a family, whatever is replayed or interrupted. *)
OneLivePerFamily ==
    /\ \A t, u \in Tokens :
           /\ tokens[t].st = "live" /\ tokens[u].st = "live"
           /\ tokens[t].family = tokens[u].family
           => t = u
    /\ At("issue") => Live(srv.code) = {}

(* Once a replayed code or a reused refresh token has revoked a family, the
   family stays without a live token: no other path through _grant_code or
   _grant_refresh brings it back. *)
KilledFamilyStaysDead ==
    \A f \in killed : Live(f) = {} /\ ~InFlight(f)

(* A refresh token belongs to the client its code was made for and carries a
   nonempty part of the scope the user ticked, through every rotation. *)
TokenWithinGrant ==
    \A t \in Tokens : tokens[t].st # "fresh" =>
        LET origin == codes[tokens[t].family] IN
        /\ tokens[t].client = origin.client
        /\ tokens[t].scope # {} /\ tokens[t].scope \subseteq origin.scope

(* While a client that registered a secret exists, none of its codes buys a
   token and none of its refresh tokens is consumed by a request that did not
   present that secret: an attempt without credentials is refused before it
   rotates anything (oauth.py, _check_client_auth and the owner check). *)
OwnerAuthenticated ==
    /\ At("burn_token") /\ Confidential(tokens[srv.token].client)
       => srv.caller = tokens[srv.token].client /\ srv.authentic
    /\ At("issue") /\ Confidential(codes[srv.code].client)
       => srv.caller = codes[srv.code].client /\ srv.authentic

(* A code made without a challenge buys nothing once require_pkce is on. *)
PkceAtIssue ==
    At("issue") /\ requirePkce /\ srv.token = None => codes[srv.code].method # "none"

(* What a reader of the tables and of the handler's locals can say of a
   consent: the refinement mapping to GrantFamily. *)
grantBar ==
    [f \in Codes |->
        LET row == codes[f]
            Held(S) == [st |-> "held", client |-> row.client, scope |-> S]
        IN  CASE row.st = "fresh" -> [st |-> "none", client |-> None, scope |-> {}]
              [] row.st = "unused" ->
                     [st |-> "offered", client |-> row.client, scope |-> row.scope]
              [] row.st \in {"used", "gone"} /\ InFlight(f) ->
                     Held(IF At("issue") THEN srv.scope ELSE tokens[srv.token].scope)
              [] row.st \in {"used", "gone"} /\ ~InFlight(f) /\ Live(f) # {} ->
                     Held(tokens[CHOOSE t \in Live(f) : TRUE].scope)
              [] OTHER -> [st |-> "dead", client |-> None, scope |-> {}]]

Grants == INSTANCE GrantFamily
              WITH Families <- Codes, Names <- ScopeNames, grant <- grantBar

(* Statement by statement, with crashes, garbage collection and a concurrent
   `vpsmcp revoke`, every consent still lives the life GrantFamily describes:
   offered, redeemed once, rotated without widening, dead for good. *)
GrantLifecycle == Grants!Spec

------------------------------------------------------------------------------
(* What the documentation says and the code does not keep. *)

(* docs/OPERATIONS.md:18: `vpsmcp revoke <client_id>` is to "revoke a client and all
   its tokens".  A client whose revocation has completed holds no live token: none
   the sweep of the table missed, and none issued for a code of before.  (A metadata
   document's client is revoked until it comes back: ResolveClient.) *)
RevokedClientHoldsNothing ==
    \A t \in Tokens : tokens[t].st = "live" => tokens[t].client \notin revoked

==============================================================================
