------------------------------- MODULE Lockout -------------------------------
(***************************************************************************)
(* The two doors that count failures per address: the login form             *)
(* (auth/oauth.py, table login_attempts) and the enrollment gate (enroll.py, *)
(* table enroll_attempts), with `vpsmcp unlock`, which is a process of its   *)
(* own on the same database.                                                 *)
(*                                                                         *)
(* A lock is the seconds it still lasts.  The gateway handles a login without *)
(* an await: only the command line comes between two of its statements.      *)
(***************************************************************************)
EXTENDS Integers

CONSTANTS
    Ips,          \* addresses, as client_ip gives them
    Free,         \* fails >= Free locks
    LoginExp,     \* the exponent of a login lock is at most this
    EnrollExp,    \* ... and of an enrollment lock
    LoginCap,     \* a login lock is at most this long
    EnrollCap,    \* ... and an enrollment lock
    MaxFails      \* beyond this a counter is not followed

Doors == {"login", "enroll"}

Least(m, n) == IF m < n THEN m ELSE n
LoginBackoff(n)  == IF n < Free THEN 0 ELSE Least(LoginCap, 2 ^ Least(n, LoginExp))
EnrollBackoff(n) == IF n < Free THEN 0 ELSE Least(EnrollCap, 2 ^ Least(n, EnrollExp))
Backoff(d, n) == IF d = "login" THEN LoginBackoff(n) ELSE EnrollBackoff(n)

ASSUME LockoutAssumption ==
    /\ {Free, LoginExp, EnrollExp, LoginCap, EnrollCap} \subseteq Nat
    /\ MaxFails \in Nat /\ {Free, LoginExp, EnrollExp} \subseteq 1..MaxFails

(* More failures never make the lock shorter. *)
ASSUME BackoffAssumption ==
    \A d \in Doors, m, n \in 0..MaxFails :
        Backoff(d, n) \in Nat /\ (m <= n => Backoff(d, m) <= Backoff(d, n))

VARIABLES
    fails,     \* the column of that name, 0 when there is no row
    left,      \* what login_locked and locked return
    login,     \* a login between the SELECT of login_failed and its INSERT
    gated,     \* addresses whose registration passed the gate and goes on
    streak,    \* failures since the counter was last cleared on purpose
    owed       \* how long the address has to wait after the last of them

lockVars == <<fails, left, login, gated, streak, owed>>
NoLogin  == <<>>

LockTypeOK ==
    /\ {fails, streak} \subseteq [Doors -> [Ips -> 0..MaxFails]]
    /\ {left, owed} \subseteq [Doors -> [Ips -> Nat]]
    /\ login = NoLogin \/ login \in Ips \X (1..MaxFails)
    /\ gated \subseteq Ips

LockInit ==
    /\ fails = [d \in Doors |-> [i \in Ips |-> 0]] /\ streak = fails
    /\ left = fails /\ owed = fails
    /\ login = NoLogin /\ gated = {}

------------------------------------------------------------------------------
More(n) == Least(n + 1, MaxFails)

(* A failure of this address is on record: what it owes from now on. *)
Owes(d, ip) ==
    /\ streak' = [streak EXCEPT ![d][ip] = More(@)]
    /\ owed' = [owed EXCEPT ![d][ip] = Backoff(d, More(streak[d][ip]))]

(* Fault of Insert: after the first lock the count starts afresh. *)
InsertAfresh(d, ip, n) ==
    LET m == IF n > Free THEN 1 ELSE n IN
    /\ fails' = [fails EXCEPT ![d][ip] = m]
    /\ left' = [left EXCEPT ![d][ip] = Backoff(d, m)]
    /\ Owes(d, ip)

(* The INSERT of login_failed and of failed. *)
Insert(d, ip, n) ==
    /\ fails' = [fails EXCEPT ![d][ip] = n]
    /\ left' = [left EXCEPT ![d][ip] = Backoff(d, n)]
    /\ Owes(d, ip)

Zeroed(f, d, ips) == [f EXCEPT ![d] = [i \in Ips |-> IF i \in ips THEN 0 ELSE f[d][i]]]

(* The DELETE of login_ok, ok and clear_login_locks. *)
Delete(d, ips) ==
    /\ fails' = Zeroed(fails, d, ips) /\ left' = Zeroed(left, d, ips)
    /\ streak' = Zeroed(streak, d, ips) /\ owed' = Zeroed(owed, d, ips)

(* Fault of Shut: a lock in its last second no longer holds. *)
ShutEarly(d, ip) == left[d][ip] > 1
Shut(d, ip) == left[d][ip] > 0

------------------------------------------------------------------------------
(* POST /oauth/login: the lock, then the password, then the table. *)
LoginRight(ip) ==
    /\ login = NoLogin /\ ~ Shut("login", ip)
    /\ Delete("login", {ip})
    /\ UNCHANGED <<login, gated>>

LoginWrong(ip) ==
    /\ login = NoLogin /\ ~ Shut("login", ip)
    /\ login' = <<ip, More(fails["login"][ip])>>
    /\ UNCHANGED <<fails, left, gated, streak, owed>>

LoginFailed ==
    /\ login # NoLogin
    /\ Insert("login", login[1], login[2])
    /\ login' = NoLogin /\ UNCHANGED gated

(* vpsmcp unlock [ip] *)
Unlock(ips) ==
    /\ \E i \in Ips : fails["login"][i] > 0
    /\ Delete("login", ips)
    /\ UNCHANGED <<login, gated>>

(* _gate, of GET /enroll/pubkey and POST /enroll/register. *)
GateWrongKey(ip) ==
    /\ login = NoLogin /\ ~ Shut("enroll", ip)
    /\ Insert("enroll", ip, More(fails["enroll"][ip]))
    /\ UNCHANGED <<login, gated>>

GateRightKey(ip) ==
    /\ login = NoLogin /\ ~ Shut("enroll", ip)
    /\ gated' = gated \cup {ip}
    /\ UNCHANGED <<fails, left, login, streak, owed>>

(* The registration ends.  The row goes only when the node was reached in mode "auto". *)
Registered(ip) ==
    /\ login = NoLogin /\ ip \in gated
    /\ gated' = gated \ {ip}
    /\ \/ Delete("enroll", {ip})
       \/ UNCHANGED <<fails, left, streak, owed>>
    /\ UNCHANGED login

Less(f) == [d \in Doors |-> [i \in Ips |-> IF f[d][i] > 0 THEN f[d][i] - 1 ELSE 0]]
Tick ==
    /\ left' = Less(left) /\ owed' = Less(owed)
    /\ UNCHANGED <<fails, login, gated, streak>>

(* The tables are on disk. *)
Restart ==
    /\ login' = NoLogin /\ gated' = {}
    /\ UNCHANGED <<fails, left, streak, owed>>

LockNext ==
    \/ LoginFailed \/ Tick \/ Restart \/ Unlock(Ips)
    \/ \E ip \in Ips :
        \/ LoginRight(ip) \/ LoginWrong(ip) \/ Unlock({ip})
        \/ GateWrongKey(ip) \/ GateRightKey(ip) \/ Registered(ip)
LockSpec == LockInit /\ [][LockNext]_lockVars

------------------------------------------------------------------------------
(* Whatever `vpsmcp unlock`, a restart or another request does in between, no failure
   is counted away: a counter covers the failures since it was last cleared, and a lock
   lasts as long as they ask for. *)
NoFailureForgotten ==
    \A d \in Doors, ip \in Ips : fails[d][ip] >= streak[d][ip] /\ left[d][ip] >= owed[d][ip]

(* A password or a key is looked at only when the address has waited for as long as its
   failures so far ask for. *)
Guess(d, ip) == IF d = "login" THEN LoginRight(ip) \/ LoginWrong(ip)
                ELSE GateWrongKey(ip) \/ GateRightKey(ip)
SpacedGuesses ==
    [][\A d \in Doors, ip \in Ips : Guess(d, ip) => owed[d][ip] = 0]_lockVars
==============================================================================
