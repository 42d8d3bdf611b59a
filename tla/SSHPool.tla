------------------------------- MODULE SSHPool -------------------------------
(***************************************************************************)
(* The SSH connection pool (ssh/pool.py): one connection per node, shared   *)
(* by every tool call, opened under a lock of the node, through the node's  *)
(* jump host if it has one, and reaped when idle.                           *)
(*                                                                         *)
(* The gateway is one asyncio loop.  An action is a piece of a coroutine    *)
(* between two points where it may suspend; where one piece takes several   *)
(* actions (acquire() recurses into itself without suspending), run holds   *)
(* the task that keeps the loop, and no other task moves.                   *)
(***************************************************************************)
EXTENDS Integers, Sequences, FiniteSets, SequencesExt

CONSTANTS
    Nodes,   \* node_ids of the inventory
    Jump,    \* Host.jump, resolved: the node a node is reached through, or None
    Tasks,   \* concurrent tool calls
    Conns,   \* connection objects: a bound on the connections one process opens
    None

ASSUME PoolAssumption ==
    /\ Jump \in [Nodes -> Nodes \cup {None}]
    /\ None \notin Nodes \cup Tasks \cup Conns

VARIABLES
    entries,   \* _conns: the _Entry of a node, or NoEntry
    owner,     \* _locks: the task that has the asyncio.Lock of a node, or None
    waiters,   \* _locks: the tasks queued for it, in order
    conns,     \* every connection object: its state, node and tunnel
    task,      \* where a call is in the acquire() of the node it wants: in the frame
               \* for the node at; conn is the tunnel, or what it was given
    run        \* the task that has not suspended yet, or None

poolVars == <<entries, owner, waiters, conns, task, run>>

Entry   == [conn : Conns, pinned : Nat, idle : BOOLEAN]
NoEntry == [conn |-> None, pinned |-> 0, idle |-> FALSE]

TypeOK ==
    /\ entries \in [Nodes -> Entry \cup {NoEntry}]
    /\ owner \in [Nodes -> Tasks \cup {None}]
    /\ waiters \in [Nodes -> Seq(Tasks)]
    /\ conns \in [Conns -> [st : {"fresh", "open", "closed"},
                            node : Nodes \cup {None}, via : Conns \cup {None}]]
    /\ task \in [Tasks -> [pc : {"idle", "acquire", "wait", "connect", "held"},
                           want : Nodes \cup {None}, at : Nodes \cup {None},
                           conn : Conns \cup {None}]]
    /\ run \in Tasks \cup {None}

Quiet == [pc |-> "idle", want |-> None, at |-> None, conn |-> None]

Init ==
    /\ entries = [n \in Nodes |-> NoEntry]
    /\ owner = [n \in Nodes |-> None]
    /\ waiters = [n \in Nodes |-> <<>>]
    /\ conns = [c \in Conns |-> [st |-> "fresh", node |-> None, via |-> None]]
    /\ task = [p \in Tasks |-> Quiet]
    /\ run = None

------------------------------------------------------------------------------
Turn(p)   == run \in {p, None}
IsOpen(c) == c \in Conns /\ conns[c].st = "open"
Live(n)   == IsOpen(entries[n].conn)          \* entry is not None and not _dead
Woken(p)  == owner[task[p].at] = p /\ p \notin Range(waiters[task[p].at])
Goto(p, pc, n, c) ==
    task' = [task EXCEPT ![p] = [@ EXCEPT !.pc = pc, !.at = n, !.conn = c]]

(* asyncio.Lock: a waiter that is cancelled leaves the queue. *)
Unqueued(p) ==
    LET n == task[p].at
        i == CHOOSE j \in DOMAIN waiters[n] : waiters[n][j] = p
    IN  IF p \in Range(waiters[n]) THEN [waiters EXCEPT ![n] = RemoveAt(@, i)] ELSE waiters

(* asyncio.Lock: release() hands the lock to the first of the waiters W[n]. *)
Release(N, W) ==
    /\ owner' = [n \in Nodes |-> IF n \notin N THEN owner[n]
                                 ELSE IF W[n] = <<>> THEN None ELSE Head(W[n])]
    /\ waiters' = [n \in Nodes |-> IF n \in N /\ W[n] # <<>> THEN Tail(W[n]) ELSE W[n]]

(* acquire(n) returns c: to the frame of acquire() that needed n as its jump
   host, which goes on to connect through c, or to the tool call. *)
Return(p, n, c) ==
    /\ IF n = task[p].want THEN Goto(p, "held", n, c)
       ELSE \E x \in Nodes : x # n /\ owner[x] = p /\ Jump[x] = n
                             /\ Goto(p, "connect", x, c)
    /\ run' = None

(* A tool call asks for the connection of n. *)
Acquire(p, n) ==
    /\ run = None /\ task[p].pc = "idle"
    /\ task' = [task EXCEPT ![p] = [Quiet EXCEPT !.pc = "acquire", !.want = n, !.at = n]]
    /\ run' = p
    /\ UNCHANGED <<entries, owner, waiters, conns>>

(* acquire(): the look without the lock, then the lock. *)
Look(p) ==
    LET n == task[p].at IN
    /\ task[p].pc = "acquire" /\ run = p
    /\ \/ /\ Live(n)
          /\ entries' = [entries EXCEPT ![n].idle = FALSE]
          /\ Return(p, n, entries[n].conn)
          /\ UNCHANGED <<owner, waiters>>
       \/ /\ ~Live(n)
          /\ Goto(p, "wait", n, None)
          /\ IF owner[n] = None
             THEN owner' = [owner EXCEPT ![n] = p] /\ run' = p /\ UNCHANGED waiters
             ELSE /\ waiters' = [waiters EXCEPT ![n] = Append(@, p)]
                  /\ run' = None /\ UNCHANGED owner
          /\ UNCHANGED entries
    /\ UNCHANGED conns

(* Fault of LookAgain: the second look is left out. *)
LookAgainBlind(p) ==
    LET n == task[p].at IN
    /\ task[p].pc = "wait" /\ Woken(p) /\ Turn(p)
    /\ entries' = [entries EXCEPT ![n] = NoEntry]
    /\ IF Jump[n] = None
       THEN Goto(p, "connect", n, None) /\ run' = None
       ELSE Goto(p, "acquire", Jump[n], None) /\ run' = p
    /\ UNCHANGED <<owner, waiters, conns>>

(* Fault of LookAgain: the jump host is only used if it is connected already. *)
LookAgainDirect(p) ==
    LET n == task[p].at IN
    /\ task[p].pc = "wait" /\ Woken(p) /\ Turn(p)
    /\ entries' = [entries EXCEPT ![n] = NoEntry]
    /\ Goto(p, "connect", n, None) /\ run' = None
    /\ UNCHANGED <<owner, waiters, conns>>

(* acquire(), with the lock: the second look, then _connect() up to its first
   suspension. *)
LookAgain(p) ==
    LET n == task[p].at IN
    /\ task[p].pc = "wait" /\ Woken(p) /\ Turn(p)
    /\ \/ /\ Live(n)
          /\ entries' = [entries EXCEPT ![n].idle = FALSE]
          /\ Release({n}, waiters)
          /\ Return(p, n, entries[n].conn)
       \/ /\ ~Live(n)
          /\ entries' = [entries EXCEPT ![n] = NoEntry]
          /\ IF Jump[n] = None
             THEN Goto(p, "connect", n, None) /\ run' = None
             ELSE Goto(p, "acquire", Jump[n], None) /\ run' = p
          /\ UNCHANGED <<owner, waiters>>
    /\ UNCHANGED conns

(* asyncssh.connect() succeeds; through a tunnel, only while that is up. *)
Connected(p, c) ==
    LET n == task[p].at
        tunnel == task[p].conn
    IN  /\ task[p].pc = "connect" /\ run = None
        /\ conns[c].st = "fresh"
        /\ tunnel # None => IsOpen(tunnel)
        /\ conns' = [conns EXCEPT ![c] = [st |-> "open", node |-> n, via |-> tunnel]]
        /\ entries' = [entries EXCEPT ![n] = [conn |-> c, pinned |-> 0, idle |-> FALSE]]
        /\ Release({n}, waiters)
        /\ Return(p, n, c)

(* Fault of Leave: only the innermost lock is released. *)
LeaveInnermost(p) ==
    /\ run = None
    /\ task' = [task EXCEPT ![p] = Quiet]
    /\ Release({n \in {task[p].at} : owner[n] = p}, Unqueued(p))
    /\ UNCHANGED <<entries, conns, run>>

(* An exception raised where p is suspended: p leaves the queue it is in, and
   the exception leaves every frame of acquire(), which releases every lock. *)
Leave(p) ==
    /\ run = None
    /\ task' = [task EXCEPT ![p] = Quiet]
    /\ Release({n \in Nodes : owner[n] = p}, Unqueued(p))
    /\ UNCHANGED <<entries, conns, run>>

(* The connection cannot be opened, or not before connect_timeout. *)
Fail(p) == task[p].pc = "connect" /\ Leave(p)

(* The call is cancelled while it is queued for a lock. *)
Cancel(p) == task[p].pc = "wait" /\ Leave(p)

(* The tool call is through with the connection. *)
Done(p) ==
    /\ task[p].pc = "held" /\ run = None
    /\ task' = [task EXCEPT ![p] = Quiet]
    /\ UNCHANGED <<entries, owner, waiters, conns, run>>

------------------------------------------------------------------------------
(* A connection is lost: the peer, the network, three keepalives, its tunnel. *)
Drop(c) ==
    /\ run = None /\ IsOpen(c)
    /\ conns' = [conns EXCEPT ![c].st = "closed"]
    /\ UNCHANGED <<entries, owner, waiters, task, run>>

(* idle_conn_ttl seconds pass without an acquire() of n. *)
Age(n) ==
    /\ run = None /\ entries[n] # NoEntry /\ ~entries[n].idle
    /\ entries' = [entries EXCEPT ![n].idle = TRUE]
    /\ UNCHANGED <<owner, waiters, conns, task, run>>

(* Fault of Reap: entries are dropped before their connections are closed. *)
ReapForgets ==
    /\ run = None /\ \E n \in Nodes : entries[n].idle /\ entries[n].pinned = 0
    /\ entries' = [n \in Nodes |-> IF entries[n].idle /\ entries[n].pinned = 0
                                   THEN NoEntry ELSE entries[n]]
    /\ UNCHANGED <<owner, waiters, conns, task, run>>

(* One round of _reap_loop. *)
Expired == {n \in Nodes : entries[n].idle /\ entries[n].pinned = 0}
Reap ==
    /\ run = None /\ Expired # {}
    /\ conns' = [c \in Conns |-> IF \E n \in Expired : entries[n].conn = c
                                 THEN [conns[c] EXCEPT !.st = "closed"] ELSE conns[c]]
    /\ entries' = [n \in Nodes |-> IF n \in Expired THEN NoEntry ELSE entries[n]]
    /\ UNCHANGED <<owner, waiters, task, run>>

(* The gateway stops, in order or by a crash, and is started again: close()
   or the end of the process closes every connection. *)
Restart ==
    /\ entries' = [n \in Nodes |-> NoEntry]
    /\ owner' = [n \in Nodes |-> None]
    /\ waiters' = [n \in Nodes |-> <<>>]
    /\ conns' = [c \in Conns |-> [st |-> "fresh", node |-> None, via |-> None]]
    /\ task' = [p \in Tasks |-> Quiet]
    /\ run' = None

------------------------------------------------------------------------------
(* What a task in acquire() does when the loop comes to it. *)
Step(p) == Look(p) \/ LookAgain(p) \/ Fail(p) \/ \E c \in Conns : Connected(p, c)

World ==
    \/ \E c \in Conns : Drop(c)
    \/ \E n \in Nodes : Age(n)
    \/ Reap
    \/ Restart

Next ==
    \/ \E p \in Tasks, n \in Nodes : Acquire(p, n)
    \/ \E p \in Tasks : Step(p) \/ Cancel(p) \/ Done(p)
    \/ World

Spec == Init /\ [][Next]_poolVars

(* The event loop runs every task that is ready, in the order they got ready,
   and a connection attempt ends, at the latest with its timeout. *)
FairSpec == Spec /\ \A p \in Tasks : SF_poolVars(Step(p))

------------------------------------------------------------------------------
Connecting(n) == {p \in Tasks : task[p].pc = "connect" /\ task[p].at = n}
OpenTo(n)     == {c \in Conns : IsOpen(c) /\ conns[c].node = n}

(* Single flight: however many calls ask for a node at once, are cancelled or
   fail, at most one connection of the node is open or being opened, and an
   open one is the one the pool knows. *)
SingleFlight ==
    \A n \in Nodes :
        /\ \A p, q \in Connecting(n) : p = q
        /\ Connecting(n) # {} => OpenTo(n) = {}
        /\ \A c \in OpenTo(n) : entries[n].conn = c

(* A node behind a jump host is only ever connected to through a connection of
   that jump host, at every level of the recursion. *)
ThroughJump ==
    \A c \in Conns : IsOpen(c) =>
        LET hop == Jump[conns[c].node]
        IN  IF hop = None THEN conns[c].via = None
            ELSE conns[c].via # None /\ conns[conns[c].via].node = hop

(* The refinement mapping to ConnCache. *)
slotBar ==
    [n \in Nodes |-> IF OpenTo(n) # {} THEN "live"
                     ELSE IF Connecting(n) # {} THEN "opening" ELSE "none"]
askBar ==
    [p \in Tasks |-> [st |-> CASE task[p].pc = "idle" -> "none"
                               [] task[p].pc = "held" -> "given"
                               [] OTHER -> "asked",
                      node |-> task[p].want]]
Cache == INSTANCE ConnCache WITH slot <- slotBar, ask <- askBar

(* With tunnels, cancelled calls, failures and losses, the pool is the cache
   of live connections its documentation describes. *)
CacheOfConnections == Cache!Spec

(* Every call that asks for a connection gets one or an error: the locks of
   nested acquire() calls are given back on every path and never wait on each
   other in a circle. *)
Answered ==
    \A p \in Tasks : task[p].pc \notin {"idle", "held"} ~> task[p].pc \in {"idle", "held"}

==============================================================================
