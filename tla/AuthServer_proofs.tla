-------------------------- MODULE AuthServer_proofs --------------------------
(* Proofs about two parts of the authorization server that are modelled apart from its
   grants: the lockout, for every set of addresses and every setting of the locks, and the
   callback allowlist, for every matching of prefixes. *)
EXTENDS Lockout, Callbacks, FiniteSetTheorems, TLAPS

------------------------------------------------------------------------------
(* Lockout. *)
(* A login that was counted covers the failures there were when it was read, less those
   `vpsmcp unlock` has cleared since. *)
LoginCovers == login # NoLogin => login[2] >= More(streak["login"][login[1]])

LockInv == LockTypeOK /\ LoginCovers /\ NoFailureForgotten

LEMMA BackoffNat ==
    ASSUME NEW d \in Doors, NEW n \in 0..MaxFails
    PROVE  Backoff(d, n) \in Nat
BY BackoffAssumption

LEMMA MoreFacts ==
    ASSUME NEW m \in 0..MaxFails, NEW n \in 0..MaxFails, m <= n
    PROVE  More(n) \in 1..MaxFails /\ More(m) <= More(n)
BY LockoutAssumption DEF More, Least

(* An INSERT puts a count on record that covers the streak, and its lock. *)
LEMMA InsertStep ==
    ASSUME LockTypeOK, NoFailureForgotten, NEW d \in Doors, NEW ip \in Ips,
           NEW n \in 1..MaxFails, n >= More(streak[d][ip]), Insert(d, ip, n)
    PROVE  /\ {fails', streak'} \subseteq [Doors -> [Ips -> 0..MaxFails]]
           /\ {left', owed'} \subseteq [Doors -> [Ips -> Nat]]
           /\ NoFailureForgotten'
<1> DEFINE m == More(streak[d][ip])
<1>1. m \in 1..MaxFails
  BY MoreFacts DEF LockTypeOK
<1>2. Backoff(d, n) \in Nat /\ Backoff(d, m) \in Nat /\ Backoff(d, m) <= Backoff(d, n)
  BY <1>1, BackoffNat, BackoffAssumption
<1> HIDE DEF m
<1>3. /\ fails' = [fails EXCEPT ![d][ip] = n] /\ left' = [left EXCEPT ![d][ip] = Backoff(d, n)]
      /\ streak' = [streak EXCEPT ![d][ip] = m] /\ owed' = [owed EXCEPT ![d][ip] = Backoff(d, m)]
  BY DEF Insert, Owes, m
<1>4. /\ {fails', streak'} \subseteq [Doors -> [Ips -> 0..MaxFails]]
      /\ {left', owed'} \subseteq [Doors -> [Ips -> Nat]]
  BY <1>1, <1>2, <1>3 DEF LockTypeOK
<1>5. NoFailureForgotten'
  <2>1. SUFFICES ASSUME NEW e \in Doors, NEW i \in Ips
                 PROVE  fails'[e][i] >= streak'[e][i] /\ left'[e][i] >= owed'[e][i]
    BY DEF NoFailureForgotten
  <2>2. CASE e = d /\ i = ip
    BY <1>1, <1>2, <1>3, <2>2 DEF LockTypeOK, m
  <2>3. CASE e # d \/ i # ip
    BY <1>3, <2>3 DEF LockTypeOK, NoFailureForgotten
  <2>4. QED BY <2>2, <2>3
<1>6. QED BY <1>4, <1>5

(* A DELETE clears the row together with what it stands for. *)
LEMMA DeleteStep ==
    ASSUME LockTypeOK, NoFailureForgotten, NEW d \in Doors, NEW S, Delete(d, S)
    PROVE  /\ {fails', streak'} \subseteq [Doors -> [Ips -> 0..MaxFails]]
           /\ {left', owed'} \subseteq [Doors -> [Ips -> Nat]]
           /\ NoFailureForgotten'
           /\ \A e \in Doors, i \in Ips : streak'[e][i] <= streak[e][i]
BY LockoutAssumption DEF Delete, Zeroed, LockTypeOK, NoFailureForgotten

LEMMA LockStep ==
    ASSUME LockInv, [LockNext]_lockVars
    PROVE  LockInv'
<1> USE DEF LockInv
<1>1. CASE LoginFailed
  <2>1. login \in Ips \X (1..MaxFails) /\ login[2] >= More(streak["login"][login[1]])
    BY <1>1 DEF LoginFailed, LockTypeOK, LoginCovers
  <2>2. QED BY <1>1, <2>1, InsertStep DEF LoginFailed, LockTypeOK, LoginCovers, Doors
<1>2. CASE Tick
  <2>1. /\ \A e \in Doors, i \in Ips :
              /\ left'[e][i] = IF left[e][i] > 0 THEN left[e][i] - 1 ELSE 0
              /\ owed'[e][i] = IF owed[e][i] > 0 THEN owed[e][i] - 1 ELSE 0
        /\ {left', owed'} \subseteq [Doors -> [Ips -> Nat]]
    BY <1>2 DEF Tick, Less, LockTypeOK
  <2>2. UNCHANGED <<fails, login, gated, streak>>
    BY <1>2 DEF Tick
  <2>3. QED BY <2>1, <2>2 DEF LockTypeOK, NoFailureForgotten, LoginCovers, More
<1>3. CASE Restart
  BY <1>3 DEF Restart, LockTypeOK, NoFailureForgotten, LoginCovers
<1>4. ASSUME NEW S, Unlock(S)
      PROVE  LockInv'
  <2>1. Delete("login", S) /\ UNCHANGED <<login, gated>>
    BY <1>4 DEF Unlock
  <2>2. LoginCovers'
    BY <2>1, DeleteStep, LockoutAssumption DEF LoginCovers, LockTypeOK, Doors, More, Least
  <2>3. QED BY <2>1, <2>2, DeleteStep DEF LockTypeOK, Doors
<1>5. ASSUME NEW ip \in Ips, LoginRight(ip)
      PROVE  LockInv'
  BY <1>5, DeleteStep DEF LoginRight, LockTypeOK, LoginCovers, Doors
<1>6. ASSUME NEW ip \in Ips, LoginWrong(ip)
      PROVE  LockInv'
  <2>1. More(fails["login"][ip]) \in 1..MaxFails
        /\ More(fails["login"][ip]) >= More(streak["login"][ip])
    BY MoreFacts DEF LockTypeOK, NoFailureForgotten, Doors
  <2>2. QED BY <1>6, <2>1 DEF LoginWrong, LockTypeOK, LoginCovers, NoFailureForgotten
<1>7. ASSUME NEW ip \in Ips, GateWrongKey(ip)
      PROVE  LockInv'
  <2>1. More(fails["enroll"][ip]) \in 1..MaxFails
        /\ More(fails["enroll"][ip]) >= More(streak["enroll"][ip])
    BY MoreFacts DEF LockTypeOK, NoFailureForgotten, Doors
  <2>2. QED BY <1>7, <2>1, InsertStep DEF GateWrongKey, LockTypeOK, LoginCovers, Doors
<1>8. ASSUME NEW ip \in Ips, GateRightKey(ip)
      PROVE  LockInv'
  BY <1>8 DEF GateRightKey, LockTypeOK, LoginCovers, NoFailureForgotten
<1>9. ASSUME NEW ip \in Ips, Registered(ip)
      PROVE  LockInv'
  <2>1. CASE Delete("enroll", {ip})
    BY <1>9, <2>1, DeleteStep DEF Registered, LockTypeOK, LoginCovers, Doors
  <2>2. CASE UNCHANGED <<fails, left, streak, owed>>
    BY <1>9, <2>2 DEF Registered, LockTypeOK, LoginCovers, NoFailureForgotten
  <2>3. QED BY <1>9, <2>1, <2>2 DEF Registered
<1>10. CASE UNCHANGED lockVars
  BY <1>10 DEF lockVars, LockTypeOK, LoginCovers, NoFailureForgotten
<1>11. QED
  BY <1>1, <1>2, <1>3, <1>4, <1>5, <1>6, <1>7, <1>8, <1>9, <1>10 DEF LockNext

LEMMA LockInductive == LockSpec => []LockInv
<1>1. LockInit => LockInv
  BY LockoutAssumption DEF LockInit, LockInv, LockTypeOK, LoginCovers, NoFailureForgotten
<1>2. QED BY <1>1, LockStep, PTL DEF LockSpec

(* Every statement keeps the tables well-formed. *)
THEOREM LockTypes == LockSpec => []LockTypeOK
BY LockInductive, PTL DEF LockInv

(* For any number of addresses, and whatever `vpsmcp unlock` and a restart come between:
   no failure is lost and no lock is shorter than the failures ask for. *)
THEOREM FailuresKept == LockSpec => []NoFailureForgotten
BY LockInductive, PTL DEF LockInv

(* So no password and no key is looked at earlier than that. *)
THEOREM GuessesSpaced == LockSpec => SpacedGuesses
<1>1. ASSUME LockInv, [LockNext]_lockVars, NEW d \in Doors, NEW ip \in Ips, Guess(d, ip)
      PROVE  owed[d][ip] = 0
  <2>1. left[d][ip] = 0
    BY <1>1 DEF Guess, LoginRight, LoginWrong, GateWrongKey, GateRightKey, Shut, Doors,
                LockInv, LockTypeOK
  <2>2. QED BY <1>1, <2>1 DEF LockInv, LockTypeOK, NoFailureForgotten
<1>2. LockInv /\ [LockNext]_lockVars
      => [\A d \in Doors, ip \in Ips : Guess(d, ip) => owed[d][ip] = 0]_lockVars
  BY <1>1
<1>3. QED BY <1>2, LockInductive, PTL DEF LockSpec, SpacedGuesses

------------------------------------------------------------------------------
(* Callbacks. *)
(* The server alone inserts, so the room it has counted is still there when it does. *)
RoomLeft == IsFiniteSet(listed) /\ (Does("insert") => Cardinality(listed) < ListCap)

(* Who is about to send something has read the callback in the table. *)
WasAllowed == Does("send") => RedirectOk(handler.uri) \/ denied

(* The exception of RefusedListed is a request that is still to be counted or inserted. *)
Noted ==
    \A u \in refused :
        u \in listed \cup unlisted \/ ((Does("count") \/ Does("insert")) /\ handler.uri = u)

CbInv == CbTypeOK /\ RoomLeft /\ WasAllowed /\ Noted

LEMMA Request ==
    ASSUME CbTypeOK
    PROVE  /\ ~ Does("idle") => handler \in Asking
           /\ \A s \in {"store", "send", "note", "count", "insert"} : Does(s) => handler \in Asking
BY DEF CbTypeOK, Does, NoRequest

(* A list that loses rows is still short enough. *)
LEMMA Shorter ==
    ASSUME CbTypeOK, RoomLeft, NEW S \in SUBSET listed
    PROVE  IsFiniteSet(S) /\ Cardinality(S) <= Cardinality(listed) /\ Cardinality(S) \in Nat
           /\ Cardinality(listed) \in Nat
BY FS_Subset, FS_CardinalityType DEF RoomLeft

LEMMA CbStep ==
    ASSUME CbInv, [CbNext]_cbVars
    PROVE  CbInv'
<1> USE CallbacksAssumption DEF CbInv
<1>1. ASSUME NEW a \in Apps, NEW u \in Uris, AskRegister(a, u) \/ AskAuthorize(a, u)
      PROVE  CbInv'
  <2>1. PICK s \in {"store", "send", "note"} : Turns(s, u, a) /\ (s = "send" => RedirectOk(u))
    BY <1>1 DEF AskRegister, AskAuthorize
  <2>2. UNCHANGED <<tables, cleaning, history>> /\ Does("idle")
    BY <1>1 DEF AskRegister, AskAuthorize
  <2>3. handler' = [at |-> s, uri |-> u, app |-> a] /\ handler' \in Asking /\ denied' = FALSE
    BY <2>1 DEF Turns, Asking
  <2>4. CbTypeOK'
    BY <2>2, <2>3 DEF CbTypeOK, tables, history
  <2>5. RoomLeft' /\ WasAllowed' /\ Noted'
    BY <2>1, <2>2, <2>3 DEF RoomLeft, WasAllowed, Noted, Does, RedirectOk, tables, history
  <2>6. QED BY <2>4, <2>5
<1>2. CASE PutClient
  <2>1. handler \in Asking
    BY <1>2, Request DEF PutClient
  <2>2. apps' \in [Apps -> Uris \cup {Nil}]
    BY <1>2, <2>1 DEF PutClient, CbTypeOK, Asking
  <2>3. QED BY <1>2, <2>2
    DEF PutClient, Replies, NoRequest, CbTypeOK, RoomLeft, WasAllowed, Noted, Does, history
<1>3. ASSUME NEW u \in Uris, Send(u)
      PROVE  CbInv'
  BY <1>3 DEF Send, Replies, NoRequest, CbTypeOK, RoomLeft, WasAllowed, Noted, Does, tables, history
<1>4. CASE CountHit
  <2>1. handler \in Asking
    BY <1>4, Request DEF CountHit
  <2>2. CASE handler.uri \in listed
    BY <1>4, <2>1, <2>2 DEF CountHit, Replies, NoRequest, Asking, CbTypeOK, RoomLeft, WasAllowed,
       Noted, Does, tables
  <2>3. CASE handler.uri \notin listed
    <3>1. /\ handler' = [at |-> "count", uri |-> handler.uri, app |-> handler.app]
          /\ denied' = FALSE /\ refused' = refused \cup {handler.uri}
          /\ UNCHANGED <<tables, cleaning, unlisted>> /\ Does("note")
      BY <1>4, <2>3 DEF CountHit, Turns
    <3>2. handler' \in Asking /\ handler.uri \in Uris
      BY <2>1, <3>1 DEF Asking
    <3>3. QED BY <3>1, <3>2 DEF CbTypeOK, RoomLeft, WasAllowed, Noted, Does, tables
  <2>4. QED BY <2>2, <2>3
<1>5. CASE CountRows
  <2>1. handler \in Asking
    BY <1>5, Request DEF CountRows
  <2>2. CASE Full(Cardinality(listed))
    BY <1>5, <2>1, <2>2 DEF CountRows, Replies, NoRequest, Asking, CbTypeOK, RoomLeft,
       WasAllowed, Noted, Does, tables
  <2>3. CASE ~ Full(Cardinality(listed))
    <3>1. Cardinality(listed) < ListCap
      BY <2>3, FS_CardinalityType DEF Full, RoomLeft
    <3>2. /\ handler' = [at |-> "insert", uri |-> handler.uri, app |-> handler.app]
          /\ denied' = FALSE /\ Does("count")
          /\ UNCHANGED <<tables, cleaning, refused, unlisted>>
      BY <1>5, <2>3 DEF CountRows, Turns
    <3>3. handler' \in Asking /\ handler.uri \in Uris
      BY <2>1, <3>2 DEF Asking
    <3>4. QED BY <3>1, <3>2, <3>3 DEF CbTypeOK, RoomLeft, WasAllowed, Noted, Does, tables
  <2>4. QED BY <2>2, <2>3
<1>6. CASE InsertRow
  <2>1. handler \in Asking /\ handler.uri \in Uris
    BY <1>6, Request DEF InsertRow, Asking
  <2>2. IsFiniteSet(listed') /\ Cardinality(listed') <= ListCap
    <3>1. /\ IsFiniteSet(listed) /\ Cardinality(listed) < ListCap /\ Cardinality(listed) \in Nat
          /\ listed' = listed \cup {handler.uri}
      BY <1>6, FS_CardinalityType DEF InsertRow, RoomLeft
    <3>2. \/ Cardinality(listed') = Cardinality(listed)
          \/ Cardinality(listed') = Cardinality(listed) + 1
      BY <3>1, FS_AddElement
    <3>3. IsFiniteSet(listed')
      BY <3>1, FS_AddElement
    <3>4. QED BY <3>1, <3>2, <3>3
  <2>3. QED BY <1>6, <2>1, <2>2 DEF InsertRow, Replies, NoRequest, CbTypeOK, RoomLeft,
       WasAllowed, Noted, Does
<1>7. CASE RestartServer
  <2>1. PICK old \in SUBSET listed :
            /\ listed' = listed \ old
            /\ refused' = refused \ (old \cup IF Does("idle") THEN {} ELSE {handler.uri})
    BY <1>7 DEF RestartServer
  <2>2. IsFiniteSet(listed') /\ Cardinality(listed') <= ListCap
    BY <2>1, Shorter DEF CbTypeOK
  <2>3. handler' = NoRequest /\ denied' = FALSE /\ UNCHANGED <<allow, apps, cleaning, unlisted>>
    BY <1>7 DEF RestartServer
  <2>4. QED BY <2>1, <2>2, <2>3 DEF NoRequest, CbTypeOK, RoomLeft, WasAllowed, Noted, Does
<1>8. ASSUME NEW p \in Uris, CliAllow(p)
      PROVE  CbInv'
  BY <1>8 DEF CliAllow, CbTypeOK, RoomLeft, WasAllowed, RedirectOk, RedirectAllowed, Noted, Does, history
<1>9. ASSUME NEW p \in Uris, CliDeny(p)
      PROVE  CbInv'
  BY <1>9 DEF CliDeny, CbTypeOK, RoomLeft, WasAllowed, RedirectOk, Noted, Does, history
<1>10. CASE CliClean
  <2>1. /\ IsFiniteSet(listed') /\ Cardinality(listed') <= Cardinality(listed)
        /\ Cardinality(listed') \in Nat /\ Cardinality(listed) \in Nat
    BY <1>10, Shorter DEF CliClean
  <2>2. QED BY <1>10, <2>1 DEF CliClean, Covered, CbTypeOK, RoomLeft, WasAllowed, RedirectOk,
       Noted, Does
<1>11. CASE CliClear
  <2>1. /\ IsFiniteSet(listed') /\ Cardinality(listed') <= Cardinality(listed)
        /\ Cardinality(listed') \in Nat /\ Cardinality(listed) \in Nat
    BY <1>11, Shorter DEF CliClear
  <2>2. QED BY <1>11, <2>1 DEF CliClear, CbTypeOK, RoomLeft, WasAllowed, RedirectOk, Noted, Does
<1>12. CASE CliKilled
  BY <1>12 DEF CliKilled, CbTypeOK, RoomLeft, WasAllowed, RedirectOk, Noted, Does, tables, history
<1>13. CASE UNCHANGED cbVars
  BY <1>13 DEF cbVars, CbTypeOK, RoomLeft, WasAllowed, RedirectOk, Noted, Does, tables, history
<1>14. QED
  BY <1>1, <1>2, <1>3, <1>4, <1>5, <1>6, <1>7, <1>8, <1>9, <1>10, <1>11, <1>12, <1>13 DEF CbNext

LEMMA CbInvariant == CbSpec => []CbInv
<1>1. CbInit => CbInv
  <2>1. IsFiniteSet({}) /\ Cardinality({}) = 0
    BY FS_EmptySet
  <2>2. ASSUME CbInit PROVE CbTypeOK
    <3>1. listed \subseteq Uris /\ Cardinality(listed) <= ListCap
      BY <2>1, <2>2, CallbacksAssumption DEF CbInit
    <3>2. apps \in [Apps -> Uris \cup {Nil}]
      BY <2>2 DEF CbInit
    <3>3. {refused, unlisted} \subseteq SUBSET Uris /\ denied \in BOOLEAN /\ allow \subseteq Uris
      BY <2>2 DEF CbInit
    <3>4. QED BY <2>2, <3>1, <3>2, <3>3 DEF CbInit, CbTypeOK
  <2>3. CbInit => RoomLeft /\ WasAllowed /\ Noted
    BY <2>1 DEF CbInit, RoomLeft, WasAllowed, Noted, Does, NoRequest
  <2>4. QED BY <2>2, <2>3 DEF CbInv
<1>2. QED BY <1>1, CbStep, PTL DEF CbSpec

(* The tables and the handler keep their types, and the list of refused callbacks its length,
   whatever `vpsmcp redirect` does between its counting and its insertion (CbTypeOK). *)
THEOREM CallbackTypes == CbSpec => []CbTypeOK
<1>1. CbInv => CbTypeOK
  BY DEF CbInv
<1>2. QED BY <1>1, CbInvariant, PTL

(* Nothing is sent to a callback that was not allowed when its request came, however often
   the allowlist changes after the client registered (SentAllowed). *)
THEOREM OnlyToAllowed == CbSpec => SentAllowed
<1>1. CbInv => [\A u \in Uris : Send(u) => RedirectOk(u) \/ denied]_cbVars
  BY DEF CbInv, WasAllowed, Send
<1>2. QED BY <1>1, CbInvariant, PTL DEF SentAllowed

(* A refused callback keeps its row in the table, or the table was full (RefusedListed). *)
THEOREM RefusedKept == CbSpec => []RefusedListed
<1>1. CbInv => RefusedListed
  BY DEF CbInv, CbTypeOK, Noted, RefusedListed, Does, NoRequest
<1>2. QED BY <1>1, CbInvariant, PTL
==============================================================================
