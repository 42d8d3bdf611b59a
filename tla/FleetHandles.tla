---------------------------- MODULE FleetHandles ----------------------------
(***************************************************************************)
(* What the tools do with the connections of SSHPool: commands that borrow  *)
(* one for a call (tools/core.py, files.py, ops.py), and the handles that   *)
(* outlive the call that made them: persistent shells (ssh/session.py), log *)
(* subscriptions (ssh/logs.py) and tunnels (ssh/tunnels.py), each of which  *)
(* pins the pool's entry of its node.  A tool asks the inventory, which may  *)
(* be edited at any time, whether the node grants what the tool needs.      *)
(*                                                                         *)
(* A handle carries the name of the task that opened it: a task opens its   *)
(* next handle when its last one is closed.                                 *)
(***************************************************************************)
EXTENDS SSHPool

CONSTANTS
    Kinds,      \* the handles in use, of "shell", "log" and "tunnel"
    MaxShells,  \* SessionManager.max_per_host
    MaxSubs,    \* LogManager.max_subs
    MaxTunnels, \* TunnelManager.max_tunnels
    Token,      \* the scopes of the token each task is called with
    Grants      \* the sets of scopes the inventory may give a node; {} when it is removed

ASSUME HandlesAssumption ==
    /\ Kinds \subseteq {"shell", "log", "tunnel"}
    /\ {MaxShells, MaxSubs, MaxTunnels} \subseteq Nat
    /\ IsFiniteSet(Tasks)

VARIABLES
    handles,   \* _sessions, _subs and _tunnels: what each task has registered
    purpose,   \* what a call wants its connection for: "exec" or a handle
    scopes     \* Host.scopes of each node, as the inventory has it now

fleetVars == <<handles, purpose, scopes>>
vars == <<poolVars, fleetVars>>

Handle   == [kind : Kinds, node : Nodes, conn : Conns, up : BOOLEAN]
NoHandle == [kind |-> "none", node |-> None, conn |-> None, up |-> FALSE]

HandlesTypeOK ==
    /\ TypeOK
    /\ handles \in [Tasks -> Handle \cup {NoHandle}]
    /\ purpose \in [Tasks -> Kinds \cup {"exec"}]
    /\ scopes \in [Nodes -> Grants]

InitHandles ==
    /\ Init
    /\ handles = [p \in Tasks |-> NoHandle]
    /\ purpose = [p \in Tasks |-> "exec"]
    /\ scopes \in [Nodes -> Grants]

------------------------------------------------------------------------------
On(n)     == {p \in Tasks : handles[p].node = n}
OfKind(k) == {p \in Tasks : handles[p].kind = k}
Up        == {p \in Tasks : handles[p].up}
Pin(n)   == [entries EXCEPT ![n].pinned = IF entries[n] = NoEntry THEN 0 ELSE @ + 1]
Unpin(n) == [entries EXCEPT ![n].pinned = IF @ > 0 THEN @ - 1 ELSE 0]

(* The limits count what is registered when the call comes in.  A shell or a
   subscription that went down does not count, a tunnel counts until closed. *)
Room(k, n) ==
    CASE k = "shell"  -> Cardinality(OfKind("shell") \cap Up \cap On(n)) < MaxShells
      [] k = "log"    -> Cardinality(OfKind("log") \cap Up) < MaxSubs
      [] k = "tunnel" -> Cardinality(OfKind("tunnel")) < MaxTunnels

(* guard(): the token must carry the scope, and the host must grant it. *)
RequireScope(p, need)     == {need, "fleet.admin"} \cap Token[p] # {}
RequireHostScope(n, need) == {need, "fleet.admin"} \cap scopes[n] # {}
Guard(p, n, need)         == RequireScope(p, need) /\ RequireHostScope(n, need)

Edit(n) ==
    /\ run = None
    /\ \E g \in Grants \ {scopes[n]} : scopes' = [scopes EXCEPT ![n] = g]
    /\ UNCHANGED <<poolVars, handles, purpose>>

(* exec, a file tool, a job tool: resolve(), then acquire() and use the connection. *)
Exec(p, n) ==
    /\ \E need \in {"fleet.read", "fleet.exec", "fleet.write"} : Guard(p, n, need)
    /\ Acquire(p, n)
    /\ purpose' = [purpose EXCEPT ![p] = "exec"]
    /\ UNCHANGED <<handles, scopes>>

(* A manager's open() up to acquire(). *)
Open(p, k, n) ==
    /\ k \in Kinds /\ handles[p] = NoHandle /\ Room(k, n)
    /\ Acquire(p, n)
    /\ purpose' = [purpose EXCEPT ![p] = k]
    /\ UNCHANGED <<handles, scopes>>

ShellOpen(p, n)  == Guard(p, n, "fleet.exec") /\ Open(p, "shell", n)
LogOpen(p, n)    == Guard(p, n, "fleet.read") /\ Open(p, "log", n)
TunnelOpen(p, n) == Guard(p, n, "fleet.admin") /\ Open(p, "tunnel", n)

(* create_process() or forward_local_port() succeeds: register and pin.  For a
   shell the boot commands follow; when they fail the shell stays registered. *)
Register(p) ==
    LET n == task[p].at IN
    /\ task[p].pc = "held" /\ run = None
    /\ purpose[p] \in Kinds /\ IsOpen(task[p].conn)
    /\ handles' = [handles EXCEPT ![p] = [kind |-> purpose[p], node |-> n,
                                          conn |-> task[p].conn, up |-> TRUE]]
    /\ entries' = Pin(n)
    /\ task' = [task EXCEPT ![p] = Quiet]
    /\ UNCHANGED <<owner, waiters, conns, run, purpose, scopes>>

(* The command is over, or the handle could not be opened. *)
CallEnds(p) == Done(p) /\ UNCHANGED fleetVars

(* A shell exits, runs into a timeout or fails to boot; a pump ends. *)
GoesDown(p) ==
    /\ run = None /\ handles[p].up /\ handles[p].kind # "tunnel"
    /\ handles' = [handles EXCEPT ![p].up = FALSE]
    /\ UNCHANGED <<poolVars, purpose, scopes>>

(* Fault of Close: a handle that went down by itself is not unpinned. *)
CloseKeepsPin(p) ==
    /\ run = None /\ handles[p] # NoHandle
    /\ handles' = [handles EXCEPT ![p] = NoHandle]
    /\ entries' = IF handles[p].up THEN Unpin(handles[p].node) ELSE entries
    /\ UNCHANGED <<owner, waiters, conns, task, run, purpose, scopes>>

(* close() of a manager. *)
Close(p) ==
    /\ run = None /\ handles[p] # NoHandle
    /\ handles' = [handles EXCEPT ![p] = NoHandle]
    /\ entries' = Unpin(handles[p].node)
    /\ UNCHANGED <<owner, waiters, conns, task, run, purpose, scopes>>

(* The tools: whoever's token has the scope closes any handle, also when the host is gone
   from the inventory by then. *)
Closes(p, kind, need) ==
    /\ handles[p].kind = kind /\ \E q \in Tasks : RequireScope(q, need)
    /\ Close(p)
ShellClose(p)  == Closes(p, "shell", "fleet.exec")
LogClose(p)    == Closes(p, "log", "fleet.read")
TunnelClose(p) == Closes(p, "tunnel", "fleet.admin")

(* Runtime._reap_loop: shells that are down are closed in any case, a shell that has been
   idle for 30 minutes and a tunnel that is an hour old as well.  Nobody reaps a log. *)
ReapDown(p) == handles[p].kind = "shell" /\ ~handles[p].up /\ Close(p)
ReapOld(p)  == handles[p].kind # "log" /\ Close(p)

RestartAll ==
    /\ Restart
    /\ handles' = [p \in Tasks |-> NoHandle]
    /\ purpose' = [p \in Tasks |-> "exec"]
    /\ UNCHANGED scopes

PoolMoves ==
    /\ \/ \E p \in Tasks : Step(p) \/ Cancel(p)
       \/ \E c \in Conns : Drop(c)
       \/ \E n \in Nodes : Age(n)
       \/ Reap
    /\ UNCHANGED fleetVars

NextHandles ==
    \/ \E p \in Tasks, n \in Nodes :
           Exec(p, n) \/ ShellOpen(p, n) \/ LogOpen(p, n) \/ TunnelOpen(p, n)
    \/ \E p \in Tasks :
        \/ Register(p) \/ CallEnds(p) \/ GoesDown(p)
        \/ ShellClose(p) \/ LogClose(p) \/ TunnelClose(p) \/ ReapDown(p) \/ ReapOld(p)
    \/ \E n \in Nodes : Edit(n)
    \/ PoolMoves
    \/ RestartAll

SpecHandles == InitHandles /\ [][NextHandles]_vars

(* Both reapers come round for ever, time passes, and the loop runs what is
   ready.  Nobody has to close a handle that is up. *)
FairHandles ==
    /\ SpecHandles
    /\ \A p \in Tasks : SF_vars(Step(p) /\ UNCHANGED fleetVars)
    /\ \A p \in Tasks : WF_vars(ReapDown(p))
    /\ \A n \in Nodes : SF_vars(Age(n) /\ UNCHANGED fleetVars)
    /\ SF_vars(Reap /\ UNCHANGED fleetVars)

------------------------------------------------------------------------------
(* No pin is leaked: an entry is never pinned more often than there are
   handles of its node still registered, whatever connections were lost and
   replaced under them; without handles it can always be reaped. *)
NoPinLeak ==
    \A n \in Nodes : entries[n].pinned <= Cardinality(On(n))

(* The pool drains: once every call is over and only shells that went down are
   registered, the reapers close every handle and every connection. *)
DownShell(p) == handles[p].kind = "shell" /\ ~handles[p].up
Unused == \A p \in Tasks : task[p].pc = "idle" /\ (handles[p] = NoHandle \/ DownShell(p))
Drains == <>[]Unused => <>[](\A c \in Conns : ~IsOpen(c))

------------------------------------------------------------------------------
(* What the documentation says and the code does not keep. *)
(* pool.py: an entry held by a shell, a subscription or a tunnel is never
   reaped.  The reaper closes no connection an open handle is on. *)
HeldConnNotReaped ==
    [][Reap => \A p \in Up : IsOpen(handles[p].conn) => conns'[handles[p].conn].st = "open"]_vars
==============================================================================
