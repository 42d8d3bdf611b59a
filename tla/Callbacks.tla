------------------------------- MODULE Callbacks -------------------------------
(***************************************************************************)
(* The callback allowlist (auth/oauth.py, auth/store.py): configured prefixes *)
(* and those that `vpsmcp redirect` adds and removes, in a process of its own *)
(* on the same database, while the server registers clients, answers          *)
(* authorization requests and notes the callbacks it refuses.                *)
(*                                                                         *)
(* Each statement on the database is a step; the server has one handler at a  *)
(* time between its first statement and its answer.                          *)
(***************************************************************************)
EXTENDS Naturals, FiniteSets

CONSTANTS
    Uris,          \* callbacks; each may be a prefix of others
    Configured,    \* allowed_redirect_prefixes
    Accepts,       \* redirect_allowed: the callbacks a prefix lets in
    Like,          \* SQL LIKE prefix%: the callbacks whose rows an allow removes, which are
                   \* neither all it lets in nor only those
    Matches,       \* _match_redirect: the callbacks one registered callback stands for
    Apps,          \* client_ids
    ListCap,       \* how many rows redirect_rejects may have
    Nil

ASSUME CallbacksAssumption ==
    /\ Configured \subseteq Uris /\ ListCap \in Nat /\ Nil \notin Uris
    /\ {Accepts, Like, Matches} \subseteq [Uris -> SUBSET Uris]

VARIABLES
    allow,       \* table redirect_allow
    listed,      \* table redirect_rejects, of which a command shows the latest rows
    apps,        \* the callback a client registered
    handler,     \* the server's request: its place, callback and client
    cleaning,    \* the prefix `redirect allow` has entered and not cleaned up after
    refused,     \* callbacks refused since an allow, a clear or the gc covered them
    unlisted,    \* ... of which a full table kept no row
    denied       \* has a `redirect deny` run since the handler read the table

tables  == <<allow, listed, apps>>
history == <<refused, unlisted>>
cbVars  == <<tables, handler, cleaning, history, denied>>

Asking    == [at : {"store", "send", "note", "count", "insert"}, uri : Uris, app : Apps]
NoRequest == [at |-> "idle"]

CbTypeOK ==
    /\ allow \subseteq Uris
    /\ listed \subseteq Uris /\ Cardinality(listed) <= ListCap
    /\ apps \in [Apps -> Uris \cup {Nil}]
    /\ handler \in Asking \cup {NoRequest}
    /\ cleaning \in Uris \cup {Nil}
    /\ {refused, unlisted} \subseteq SUBSET Uris /\ denied \in BOOLEAN

CbInit ==
    /\ allow = {} /\ listed = {} /\ apps = [a \in Apps |-> Nil]
    /\ handler = NoRequest /\ cleaning = Nil
    /\ refused = {} /\ unlisted = {} /\ denied = FALSE

------------------------------------------------------------------------------
RedirectAllowed(u, prefixes) == \E p \in prefixes : u \in Accepts[p]
(* With the table as it is now. *)
RedirectOk(u) == RedirectAllowed(u, Configured \cup allow)

Turns(spot, u, a) ==
    /\ handler' = [at |-> spot, uri |-> u, app |-> a]
    /\ denied' = FALSE
Does(spot)   == handler.at = spot
Replies      == handler' = NoRequest /\ UNCHANGED denied

(* POST /oauth/register *)
AskRegister(a, u) ==
    /\ Does("idle") /\ apps[a] = Nil
    /\ Turns(IF RedirectOk(u) THEN "store" ELSE "note", u, a)
    /\ UNCHANGED <<tables, cleaning, history>>

PutClient ==
    /\ Does("store")
    /\ apps' = [apps EXCEPT ![handler.app] = handler.uri]
    /\ Replies
    /\ UNCHANGED <<allow, listed, cleaning, history>>

(* Fault of AskAuthorize: what was allowed at registration is not asked again. *)
AskAuthorizeOnce(a, u) ==
    /\ Does("idle")
    /\ \/ apps[a] = Nil /\ ~ RedirectOk(u) /\ Turns("note", u, a)
       \/ apps[a] # Nil /\ u \in Matches[apps[a]] /\ Turns("send", u, a)
    /\ UNCHANGED <<tables, cleaning, history>>

(* /oauth/authorize: an unknown client whose callback is refused, a callback the client
   did not register (answered on the spot), or the allowlist's word. *)
AskAuthorize(a, u) ==
    /\ Does("idle")
    /\ \/ apps[a] = Nil /\ ~ RedirectOk(u) /\ Turns("note", u, a)
       \/ /\ apps[a] # Nil /\ u \in Matches[apps[a]]
          /\ Turns(IF RedirectOk(u) THEN "send" ELSE "note", u, a)
    /\ UNCHANGED <<tables, cleaning, history>>

(* bounce: a code, or an error, to the callback. *)
Send(u) ==
    /\ Does("send") /\ handler.uri = u
    /\ Replies
    /\ UNCHANGED <<tables, cleaning, history>>

(* note_rejected_redirect: UPDATE, COUNT, INSERT. *)
CountHit ==
    /\ Does("note")
    /\ IF handler.uri \in listed THEN Replies ELSE Turns("count", handler.uri, handler.app)
    /\ refused' = refused \cup {handler.uri}
    /\ UNCHANGED <<tables, cleaning, unlisted>>

Full(n) == n >= ListCap

CountRows ==
    /\ Does("count")
    /\ IF Full(Cardinality(listed))
       THEN Replies /\ unlisted' = unlisted \cup {handler.uri}
       ELSE Turns("insert", handler.uri, handler.app) /\ UNCHANGED unlisted
    /\ UNCHANGED <<tables, cleaning, refused>>

InsertRow ==
    /\ Does("insert")
    /\ listed' = listed \cup {handler.uri}
    /\ refused' = refused \cup {handler.uri} /\ unlisted' = unlisted \ {handler.uri}
    /\ Replies
    /\ UNCHANGED <<allow, apps, cleaning>>

(* A start: rows older than 30 days are collected; a handler ends with its process. *)
RestartServer ==
    /\ handler' = NoRequest /\ denied' = FALSE
    /\ \E old \in SUBSET listed :
           /\ listed' = listed \ old
           /\ refused' = refused \ (old \cup IF Does("idle") THEN {} ELSE {handler.uri})
    /\ UNCHANGED <<allow, apps, cleaning, unlisted>>

------------------------------------------------------------------------------
(* vpsmcp redirect allow | deny | clear-rejected *)
CliAllow(p) ==
    /\ cleaning = Nil
    /\ allow' = allow \cup {p} /\ cleaning' = p
    /\ UNCHANGED <<listed, apps, handler, history, denied>>

(* What the rows of an allowed prefix may stand for. *)
Covered(p) == Accepts[p] \cup Like[p]

(* Fault of CliClean: the whole list is emptied. *)
CliCleanAll ==
    /\ cleaning # Nil
    /\ listed' = {}
    /\ refused' = refused \ Covered(cleaning)
    /\ cleaning' = Nil
    /\ UNCHANGED <<allow, apps, handler, unlisted, denied>>

CliClean ==
    /\ cleaning # Nil
    /\ listed' = listed \ Like[cleaning]
    /\ refused' = refused \ Covered(cleaning)
    /\ cleaning' = Nil
    /\ UNCHANGED <<allow, apps, handler, unlisted, denied>>

(* The command is interrupted: the rows stay. *)
CliKilled ==
    /\ cleaning # Nil /\ cleaning' = Nil
    /\ UNCHANGED <<tables, handler, history, denied>>

CliDeny(p) ==
    /\ cleaning = Nil /\ p \in allow
    /\ allow' = allow \ {p} /\ denied' = TRUE
    /\ UNCHANGED <<listed, apps, handler, cleaning, history>>

CliClear ==
    /\ cleaning = Nil
    /\ listed' = {} /\ refused' = {} /\ unlisted' = {}
    /\ UNCHANGED <<allow, apps, handler, cleaning, denied>>

CbNext ==
    \/ PutClient \/ CountHit \/ CountRows \/ InsertRow \/ RestartServer
    \/ CliClean \/ CliKilled \/ CliClear
    \/ \E u \in Uris :
        \/ Send(u) \/ CliAllow(u) \/ CliDeny(u)
        \/ \E a \in Apps : AskRegister(a, u) \/ AskAuthorize(a, u)
CbSpec == CbInit /\ [][CbNext]_cbVars

------------------------------------------------------------------------------
(* A client that registered a callback while it was allowed is sent nothing there once it
   is not: a code goes to a callback that is allowed now, or was denied only after the
   request had come. *)
SentAllowed == [][\A u \in Uris : Send(u) => RedirectOk(u) \/ denied]_cbVars

(* A refused callback has its row in redirect_rejects until it is allowed, taken for allowed
   by LIKE, collected or cleared, whatever the command line does between the statements of
   note_rejected_redirect; only a full table may have no room for it.  This is about the
   table: `vpsmcp redirects` shows the 20 rows of it that were seen last, of at most 200. *)
RefusedListed ==
    \A u \in refused : u \in listed \cup unlisted \/ (handler # NoRequest /\ handler.uri = u)
==============================================================================
