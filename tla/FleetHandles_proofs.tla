-------------------------- MODULE FleetHandles_proofs --------------------------
(***************************************************************************)
(* Proofs about FleetHandles, for every inventory and its edits, every token *)
(* and any number of calls and handles.  The pool keeps its own invariant    *)
(* under the handles; theirs rests on it.                                   *)
(***************************************************************************)
EXTENDS FleetHandles, SSHPool_proofs, FiniteSetTheorems

(* Who is about to register a handle has none yet; a call holds a node's connection. *)
FreeHanded ==
    /\ \A p \in Tasks : task[p].pc # "idle" /\ purpose[p] \in Kinds => handles[p] = NoHandle
    /\ \A p \in Tasks : task[p].pc = "held" => task[p].at \in Nodes

HandlesInv ==
    /\ handles \in [Tasks -> Handle \cup {NoHandle}]
    /\ purpose \in [Tasks -> Kinds \cup {"exec"}]
    /\ scopes \in [Nodes -> Grants]

FleetInv == PoolInv /\ HandlesInv /\ FreeHanded /\ NoPinLeak

------------------------------------------------------------------------------
(* A change of entries in nothing but pins does not concern the pool. *)
LEMMA PinsOnly ==
    ASSUME PoolInv, UNCHANGED <<owner, waiters, conns, run>>, NEW n \in Nodes,
           NEW k \in Nat, entries[n] # NoEntry,
           entries' = [entries EXCEPT ![n].pinned = k],
           task' = task \/ \E p \in Tasks : task[p].pc = "held" /\ task' = [task EXCEPT ![p] = Quiet]
    PROVE  PoolInv'
<1>1. /\ entries[n] \in Entry /\ entries' = [entries EXCEPT ![n] = [entries[n] EXCEPT !.pinned = k]]
  BY DEF PoolInv, TypeOK
<1>2. /\ [entries[n] EXCEPT !.pinned = k] \in Entry
      /\ [entries[n] EXCEPT !.pinned = k].conn = entries[n].conn
  BY <1>1 DEF Entry
<1>3. /\ entries' \in [Nodes -> Entry \cup {NoEntry}]
      /\ \A x \in Nodes \ {n} : entries'[x] = entries[x]
      /\ entries'[n].conn = entries[n].conn
  BY <1>1, <1>2 DEF PoolInv, TypeOK
<1>4. TypeOK'
  <2>1. CASE task' = task
    BY <1>3, <2>1 DEF PoolInv, TypeOK
  <2>2. ASSUME NEW p \in Tasks, task' = [task EXCEPT ![p] = Quiet]
        PROVE  TypeOK'
    BY <1>3, <2>2 DEF PoolInv, TypeOK, Quiet
  <2>3. QED BY <2>1, <2>2
<1>5. \A q \in Tasks : task'[q] = task[q] \/ (task[q].pc = "held" /\ task'[q].pc = "idle")
  BY DEF PoolInv, TypeOK, Quiet
<1>6. Queues' /\ Placed'
  BY <1>5 DEF PoolInv, Queues, Placed
<1>7. EmptyHanded'
  BY <1>3, <1>5 DEF PoolInv, EmptyHanded, Past, TypeOK
<1>8. Known'
  BY <1>3 DEF PoolInv, Known, TypeOK
<1>9. QED BY <1>4, <1>6, <1>7, <1>8 DEF PoolInv

(* What the steps of the pool alone do to pins: they leave them or start from none. *)
Lowered == \A n \in Nodes : entries'[n].pinned = entries[n].pinned \/ entries'[n].pinned = 0

LEMMA PoolLowers ==
    ASSUME PoolInv, [Next]_poolVars
    PROVE  Lowered
<1> USE DEF Lowered, NoEntry
<1>1. entries \in [Nodes -> Entry \cup {NoEntry}]
  BY DEF PoolInv, TypeOK
<1>2. ASSUME NEW n, entries' = [entries EXCEPT ![n].idle = FALSE]
             \/ entries' = [entries EXCEPT ![n].idle = TRUE]
             \/ entries' = [entries EXCEPT ![n] = NoEntry]
      PROVE  Lowered
  BY <1>1, <1>2 DEF Entry
<1>3. ASSUME NEW p \in Tasks, Look(p) \/ LookAgain(p)
      PROVE  Lowered
  BY <1>2, <1>3 DEF Look, LookAgain
<1>4. ASSUME NEW p \in Tasks, NEW c \in Conns, Connected(p, c)
      PROVE  Lowered
  BY <1>1, <1>4 DEF Connected
<1>5. CASE Reap \/ Restart
  BY <1>1, <1>5 DEF Reap, Restart
<1>6. ASSUME NEW n \in Nodes, Age(n)
      PROVE  Lowered
  BY <1>2, <1>6 DEF Age
<1>7. CASE UNCHANGED entries
  BY <1>7
<1>8. QED
  BY <1>3, <1>4, <1>5, <1>6, <1>7
     DEF Next, Step, World, Acquire, Fail, Cancel, Leave, Done, Drop, poolVars

(* ... and to calls: none begins, and one that gets a connection knows its node. *)
Called == \A q \in Tasks :
    task'[q] = task[q] \/ (task[q].pc # "idle" /\ (task'[q].pc = "held" => task'[q].at \in Nodes))

LEMMA MovesCalls ==
    ASSUME PoolInv, PoolMoves
    PROVE  Called
<1> USE DEF Called
<1>1. TypeOK /\ Placed
  BY DEF PoolInv
<1>2. ASSUME NEW p \in Tasks, NEW n \in Nodes, NEW c \in Conns, task[p].pc # "idle",
             Return(p, n, c)
      PROVE  Called
  BY <1>1, <1>2, ReturnFacts
<1>3. ASSUME NEW p \in Tasks, NEW n \in Nodes, NEW c \in Conns \cup {None},
             NEW pc \in {"acquire", "wait", "connect", "held"}, task[p].pc # "idle",
             Goto(p, pc, n, c)
      PROVE  Called
  BY <1>1, <1>3, GotoFacts
<1>4. ASSUME NEW p \in Tasks, Look(p)
      PROVE  Called
  <2>1. task[p].pc = "acquire" /\ task[p].at \in Nodes
    BY <1>1, <1>4 DEF Look, Placed
  <2>2. CASE Live(task[p].at) /\ Return(p, task[p].at, entries[task[p].at].conn)
    BY <1>1, <1>2, <2>1, <2>2, LiveFacts
  <2>3. CASE Goto(p, "wait", task[p].at, None)
    BY <1>3, <2>1, <2>3
  <2>4. QED BY <1>4, <2>2, <2>3 DEF Look
<1>5. ASSUME NEW p \in Tasks, LookAgain(p)
      PROVE  Called
  <2>1. task[p].pc = "wait" /\ task[p].at \in Nodes
    BY <1>1, <1>5 DEF LookAgain, Placed
  <2>2. CASE Live(task[p].at) /\ Return(p, task[p].at, entries[task[p].at].conn)
    BY <1>1, <1>2, <2>1, <2>2, LiveFacts
  <2>3. CASE Goto(p, "connect", task[p].at, None)
    BY <1>3, <2>1, <2>3
  <2>4. CASE Jump[task[p].at] # None /\ Goto(p, "acquire", Jump[task[p].at], None)
    BY <1>3, <2>1, <2>4, PoolAssumption
  <2>5. QED BY <1>5, <2>2, <2>3, <2>4 DEF LookAgain
<1>6. ASSUME NEW p \in Tasks, NEW c \in Conns, Connected(p, c)
      PROVE  Called
  BY <1>1, <1>2, <1>6 DEF Connected, Placed
<1>7. ASSUME NEW p \in Tasks, Fail(p) \/ Cancel(p)
      PROVE  Called
  BY <1>1, <1>7 DEF Fail, Cancel, Leave, Quiet, TypeOK
<1>8. CASE UNCHANGED task
  BY <1>8
<1>9. QED BY <1>4, <1>5, <1>6, <1>7, <1>8 DEF PoolMoves, Step, Drop, Age, Reap

(* The handles of a node after the step. *)
Then(n) == {p \in Tasks : handles'[p].node = n}

(* The handles of a node can be counted. *)
LEMMA Countable ==
    ASSUME NEW n
    PROVE  /\ IsFiniteSet(On(n)) /\ Cardinality(On(n)) \in Nat
           /\ IsFiniteSet(Then(n)) /\ Cardinality(Then(n)) \in Nat
<1>1. ASSUME NEW S \in SUBSET Tasks
      PROVE  IsFiniteSet(S) /\ Cardinality(S) \in Nat
  BY FS_Subset, FS_CardinalityType, HandlesAssumption
<1>2. On(n) \in SUBSET Tasks /\ Then(n) \in SUBSET Tasks
  BY DEF On, Then
<1>3. QED BY <1>1, <1>2

(* Setting the pins of no entry to 0 changes nothing. *)
LEMMA NoPins ==
    ASSUME TypeOK, NEW n \in Nodes, entries[n] = NoEntry,
           entries' = [entries EXCEPT ![n].pinned = 0]
    PROVE  entries' = entries
<1>1. ASSUME NEW e \in [conn : {None}, pinned : {0}, idle : {FALSE}]
      PROVE  [e EXCEPT !.pinned = 0] = e
  OBVIOUS
<1>2. entries[n] \in [conn : {None}, pinned : {0}, idle : {FALSE}]
  BY DEF NoEntry
<1>3. entries' = [entries EXCEPT ![n] = entries[n]]
  BY <1>1, <1>2
<1>4. QED BY <1>3 DEF TypeOK

LEMMA StillNoLeak ==
    ASSUME \A n \in Nodes : entries'[n].pinned <= Cardinality(Then(n))
    PROVE  NoPinLeak'
BY DEF NoPinLeak, On, Then

(* Pins that do not rise stay within handles that stay. *)
LEMMA PinsKept ==
    ASSUME PoolInv, NoPinLeak, [Next]_poolVars,
           \A p \in Tasks : handles'[p].node = handles[p].node
    PROVE  NoPinLeak'
<1>1. Lowered
  BY PoolLowers
<1>2. \A n \in Nodes : Then(n) = On(n)
  BY DEF On, Then
<1>3. \A n \in Nodes : entries'[n].pinned <= Cardinality(Then(n))
  BY <1>1, <1>2, Countable DEF Lowered, NoPinLeak
<1>4. QED BY <1>3, StillNoLeak

------------------------------------------------------------------------------
LEMMA InitialFleet ==
    ASSUME InitHandles
    PROVE  FleetInv
<1>1. PoolInv
  BY InitialPool DEF InitHandles
<1>2. HandlesInv /\ FreeHanded
  BY DEF InitHandles, HandlesInv, FreeHanded, Init, Quiet
<1>3. NoPinLeak
  BY Countable DEF InitHandles, Init, NoEntry, NoPinLeak
<1>4. QED BY <1>1, <1>2, <1>3 DEF FleetInv

LEMMA OpenStep ==
    ASSUME FleetInv, NEW p \in Tasks, NEW n \in Nodes, Acquire(p, n),
           NEW k \in Kinds \cup {"exec"}, k \in Kinds => handles[p] = NoHandle,
           k = "exec" => k \notin Kinds,
           purpose' = [purpose EXCEPT ![p] = k], UNCHANGED <<handles, scopes>>
    PROVE  FleetInv'
<1>1. PoolInv' /\ NoPinLeak'
  BY PoolStep, PinsKept DEF FleetInv, Next
<1>2. HandlesInv'
  BY DEF FleetInv, HandlesInv
<1>3. /\ task'[p].pc = "acquire" /\ purpose'[p] = k
      /\ \A q \in Tasks \ {p} : task'[q] = task[q] /\ purpose'[q] = purpose[q]
  <2>1. task'[p].pc = "acquire" /\ \A q \in Tasks \ {p} : task'[q] = task[q]
    BY DEF FleetInv, PoolInv, TypeOK, Acquire, Quiet
  <2>2. purpose'[p] = k /\ \A q \in Tasks \ {p} : purpose'[q] = purpose[q]
    BY DEF FleetInv, HandlesInv
  <2>3. QED BY <2>1, <2>2
<1>4. FreeHanded'
  BY <1>3 DEF FleetInv, FreeHanded
<1>5. QED BY <1>1, <1>2, <1>4 DEF FleetInv

LEMMA RegisterStep ==
    ASSUME FleetInv, NEW p \in Tasks, NEW n \in Nodes, task[p].at = n, Register(p)
    PROVE  FleetInv'
<1> DEFINE h == [kind |-> purpose[p], node |-> n, conn |-> task[p].conn, up |-> TRUE]
<1>1. /\ task[p].pc = "held" /\ purpose[p] \in Kinds /\ handles[p] = NoHandle
      /\ handles' = [handles EXCEPT ![p] = h] /\ h \in Handle
  BY DEF FleetInv, FreeHanded, Register, IsOpen, Handle
<1>2. /\ handles' \in [Tasks -> Handle \cup {NoHandle}]
      /\ handles'[p].node = n /\ \A q \in Tasks \ {p} : handles'[q] = handles[q]
  BY <1>1 DEF FleetInv, HandlesInv
<1>3. /\ task' = [task EXCEPT ![p] = Quiet] /\ UNCHANGED <<purpose, scopes>>
      /\ UNCHANGED <<owner, waiters, conns, run>> /\ entries' = Pin(n)
  BY DEF Register
<1>4. \A q \in Tasks \ {p} : task'[q] = task[q]
  BY <1>3
<1>5. task'[p].pc = "idle"
  BY <1>3 DEF Quiet, FleetInv, PoolInv, TypeOK
<1>6. HandlesInv' /\ FreeHanded'
  BY <1>2, <1>3, <1>4, <1>5 DEF FleetInv, HandlesInv, FreeHanded
<1>7. CASE entries[n] = NoEntry
  <2>1. entries' = entries
    BY <1>3, <1>7, NoPins DEF Pin, FleetInv, PoolInv
  <2>2. Done(p)
    BY <1>1, <1>3, <2>1 DEF Done, Register
  <2>3. PoolInv'
    BY <2>2, PoolStep DEF Next, FleetInv
  <2>4. entries[n].pinned = 0
    BY <1>7 DEF NoEntry
  <2>5. \A x \in Nodes \ {n} : Then(x) = On(x)
    BY <1>1, <1>2, PoolAssumption DEF On, Then, NoHandle
  <2>6. ASSUME NEW x \in Nodes
        PROVE  entries'[x].pinned <= Cardinality(Then(x))
    <3>1. CASE x = n
      BY <2>1, <2>4, <3>1, Countable
    <3>2. CASE x # n
      BY <2>1, <2>5, <3>2 DEF FleetInv, NoPinLeak
    <3>3. QED BY <3>1, <3>2
  <2>7. QED BY <1>6, <2>3, <2>6, StillNoLeak DEF FleetInv
<1>8. CASE entries[n] # NoEntry
  <2>1. entries[n] \in Entry /\ entries[n].pinned \in Nat
    BY <1>8 DEF FleetInv, PoolInv, TypeOK, Entry
  <2>2. entries' = [entries EXCEPT ![n].pinned = entries[n].pinned + 1]
    BY <1>3, <1>8 DEF Pin
  <2>3. PoolInv'
    <3>1. entries[n].pinned + 1 \in Nat
      BY <2>1
    <3>2. QED BY <1>1, <1>3, <1>8, <2>2, <3>1, PinsOnly DEF FleetInv
  <2>4. /\ entries'[n].pinned = entries[n].pinned + 1
        /\ \A x \in Nodes \ {n} : entries'[x] = entries[x]
    BY <2>1, <2>2 DEF FleetInv, PoolInv, TypeOK, Entry
  <2>5. /\ Then(n) = On(n) \cup {p} /\ p \notin On(n)
        /\ \A x \in Nodes \ {n} : Then(x) = On(x)
    BY <1>1, <1>2, PoolAssumption DEF On, Then, NoHandle
  <2>6. Cardinality(Then(n)) = Cardinality(On(n)) + 1
    BY <2>5, Countable, FS_AddElement
  <2>7. ASSUME NEW x \in Nodes
        PROVE  entries'[x].pinned <= Cardinality(Then(x))
    <3>1. entries[x].pinned <= Cardinality(On(x))
      BY DEF FleetInv, NoPinLeak
    <3>2. CASE x = n
      BY <2>1, <2>4, <2>6, <3>1, <3>2, Countable
    <3>3. CASE x # n
      BY <2>4, <2>5, <3>1, <3>3
    <3>4. QED BY <3>2, <3>3
  <2>8. QED BY <1>6, <2>3, <2>7, StillNoLeak DEF FleetInv
<1>9. QED BY <1>7, <1>8

LEMMA CloseStep ==
    ASSUME FleetInv, NEW p \in Tasks, Close(p)
    PROVE  FleetInv'
<1> DEFINE n == handles[p].node
<1>1. /\ handles[p] \in Handle /\ n \in Nodes
      /\ handles' = [handles EXCEPT ![p] = NoHandle] /\ entries' = Unpin(n)
      /\ UNCHANGED <<owner, waiters, conns, task, run, purpose, scopes>>
  BY DEF FleetInv, HandlesInv, Close, Handle
<1>2. HandlesInv' /\ FreeHanded'
  BY <1>1 DEF FleetInv, HandlesInv, FreeHanded
<1>3. /\ handles'[p].node = None
      /\ \A q \in Tasks \ {p} : handles'[q] = handles[q]
  BY <1>1 DEF FleetInv, HandlesInv, NoHandle
<1>4. /\ Then(n) = On(n) \ {p} /\ p \in On(n)
      /\ \A x \in Nodes \ {n} : Then(x) = On(x)
  BY <1>1, <1>3, PoolAssumption DEF On, Then
<1>5. Cardinality(Then(n)) = Cardinality(On(n)) - 1 /\ Cardinality(Then(n)) \in Nat
  BY <1>4, Countable, FS_RemoveElement, FS_CardinalityType
<1> HIDE DEF n
<1>6. CASE entries[n] = NoEntry
  <2>1. entries' = entries
    <3>1. entries[n].pinned = 0
      BY <1>6 DEF NoEntry
    <3>2. entries' = [entries EXCEPT ![n].pinned = 0]
      BY <1>1, <3>1 DEF Unpin
    <3>3. QED BY <1>1, <1>6, <3>2, NoPins DEF FleetInv, PoolInv
  <2>2. PoolInv'
    BY <1>1, <2>1, PoolStep DEF FleetInv, poolVars
  <2>3. ASSUME NEW x \in Nodes
        PROVE  entries'[x].pinned <= Cardinality(Then(x))
    <3>1. CASE x = n
      BY <1>5, <1>6, <2>1, <3>1 DEF NoEntry
    <3>2. CASE x # n
      BY <1>4, <2>1, <3>2 DEF FleetInv, NoPinLeak
    <3>3. QED BY <3>1, <3>2
  <2>4. QED BY <1>2, <2>2, <2>3, StillNoLeak DEF FleetInv
<1>7. CASE entries[n] # NoEntry
  <2> DEFINE k == IF entries[n].pinned > 0 THEN entries[n].pinned - 1 ELSE 0
  <2>1. entries[n] \in Entry /\ entries[n].pinned \in Nat
    BY <1>1, <1>7 DEF FleetInv, PoolInv, TypeOK, Entry
  <2>2. k \in Nat
    BY <2>1
  <2>3. entries' = [entries EXCEPT ![n].pinned = k]
    BY <1>1 DEF Unpin
  <2>4. /\ entries'[n].pinned = k
        /\ \A x \in Nodes \ {n} : entries'[x] = entries[x]
    BY <1>1, <2>1, <2>3 DEF FleetInv, PoolInv, TypeOK, Entry
  <2>5. ASSUME NEW x \in Nodes
        PROVE  entries'[x].pinned <= Cardinality(Then(x))
    <3>1. CASE x = n
      <4>1. entries[n].pinned <= Cardinality(On(n))
        BY <1>1 DEF FleetInv, NoPinLeak
      <4>2. QED BY <1>5, <2>1, <2>4, <3>1, <4>1, Countable
    <3>2. CASE x # n
      BY <1>4, <2>4, <3>2 DEF FleetInv, NoPinLeak
    <3>3. QED BY <3>1, <3>2
  <2>6. PoolInv'
    <3> HIDE DEF k
    <3>1. QED BY <1>1, <1>7, <2>2, <2>3, PinsOnly DEF FleetInv
  <2>7. QED BY <1>2, <2>5, <2>6, StillNoLeak DEF FleetInv
<1>8. QED BY <1>6, <1>7

LEMMA FleetStep ==
    ASSUME FleetInv, [NextHandles]_vars, "exec" \notin Kinds
    PROVE  FleetInv'
<1>1. ASSUME NEW p \in Tasks, NEW n \in Nodes,
             Exec(p, n) \/ ShellOpen(p, n) \/ LogOpen(p, n) \/ TunnelOpen(p, n)
      PROVE  FleetInv'
  <2>1. CASE Exec(p, n)
    BY <2>1, OpenStep DEF Exec
  <2>2. ASSUME NEW k, Open(p, k, n)
        PROVE  FleetInv'
    BY <2>2, OpenStep DEF Open
  <2>3. QED BY <1>1, <2>1, <2>2 DEF ShellOpen, LogOpen, TunnelOpen
<1>2. ASSUME NEW p \in Tasks, Register(p)
      PROVE  FleetInv'
  BY <1>2, RegisterStep DEF Register, FleetInv, FreeHanded
<1>3. ASSUME NEW p \in Tasks, CallEnds(p)
      PROVE  FleetInv'
  <2>1. Done(p) /\ UNCHANGED fleetVars
    BY <1>3 DEF CallEnds
  <2>2. PoolInv' /\ NoPinLeak'
    BY <2>1, PoolStep, PinsKept DEF FleetInv, Next, fleetVars
  <2>3. \A q \in Tasks : task'[q] = task[q] \/ task'[q].pc = "idle"
    BY <2>1 DEF Done, Quiet, FleetInv, PoolInv, TypeOK
  <2>4. HandlesInv' /\ FreeHanded'
    BY <2>1, <2>3 DEF FleetInv, HandlesInv, FreeHanded, fleetVars
  <2>5. QED BY <2>2, <2>4 DEF FleetInv
<1>4. ASSUME NEW p \in Tasks, GoesDown(p)
      PROVE  FleetInv'
  <2>1. UNCHANGED poolVars /\ UNCHANGED <<purpose, scopes>> /\ handles[p].up
    BY <1>4 DEF GoesDown
  <2>2. handles' = [handles EXCEPT ![p] = [handles[p] EXCEPT !.up = FALSE]]
    BY <1>4 DEF GoesDown
  <2>3. handles[p] \in Handle
    BY <2>1 DEF FleetInv, HandlesInv, NoHandle
  <2>4. [handles[p] EXCEPT !.up = FALSE] \in Handle
        /\ [handles[p] EXCEPT !.up = FALSE].node = handles[p].node
    BY <2>3 DEF Handle
  <2>5. HandlesInv' /\ \A q \in Tasks : handles'[q].node = handles[q].node
    BY <2>1, <2>2, <2>4 DEF FleetInv, HandlesInv
  <2>6. PoolInv' /\ NoPinLeak'
    BY <2>1, <2>5, PoolStep, PinsKept DEF FleetInv
  <2>7. \A q \in Tasks : handles[q] = NoHandle => handles'[q] = NoHandle
    <3>1. handles[p] # NoHandle
      BY <2>1 DEF NoHandle
    <3>2. \A q \in Tasks \ {p} : handles'[q] = handles[q]
      BY <2>2 DEF FleetInv, HandlesInv
    <3>3. QED BY <3>1, <3>2
  <2>8. FreeHanded'
    BY <2>1, <2>7 DEF FleetInv, FreeHanded, poolVars
  <2>9. QED BY <2>5, <2>6, <2>8 DEF FleetInv
<1>5. ASSUME NEW p \in Tasks,
             ShellClose(p) \/ LogClose(p) \/ TunnelClose(p) \/ ReapDown(p) \/ ReapOld(p)
      PROVE  FleetInv'
  BY <1>5, CloseStep DEF ShellClose, LogClose, TunnelClose, Closes, ReapDown, ReapOld
<1>6. ASSUME NEW n \in Nodes, Edit(n)
      PROVE  FleetInv'
  <2>1. UNCHANGED poolVars /\ UNCHANGED <<handles, purpose>>
    BY <1>6 DEF Edit
  <2>2. HandlesInv'
    BY <1>6 DEF Edit, FleetInv, HandlesInv
  <2>3. PoolInv' /\ NoPinLeak'
    BY <2>1, PoolStep, PinsKept DEF FleetInv
  <2>4. FreeHanded'
    BY <2>1 DEF FleetInv, FreeHanded, poolVars
  <2>5. QED BY <2>2, <2>3, <2>4 DEF FleetInv
<1>7. CASE PoolMoves
  <2>1. [Next]_poolVars /\ UNCHANGED fleetVars
    BY <1>7 DEF PoolMoves, Next, World
  <2>2. PoolInv' /\ NoPinLeak'
    BY <2>1, PoolStep, PinsKept DEF FleetInv, fleetVars
  <2>3. Called
    BY <1>7, MovesCalls DEF FleetInv
  <2>4. HandlesInv' /\ FreeHanded'
    BY <2>1, <2>3 DEF Called, FleetInv, HandlesInv, FreeHanded, fleetVars
  <2>5. QED BY <2>2, <2>4 DEF FleetInv
<1>8. CASE RestartAll
  <2>1. PoolInv'
    BY <1>8, PoolStep DEF RestartAll, Next, World, FleetInv
  <2>2. HandlesInv'
    BY <1>8 DEF RestartAll, FleetInv, HandlesInv
  <2>3. FreeHanded'
    BY <1>8 DEF RestartAll, Restart, FreeHanded, Quiet
  <2>4. \A n \in Nodes : entries'[n].pinned = 0
    BY <1>8 DEF RestartAll, Restart, NoEntry
  <2>5. \A n \in Nodes : Cardinality(Then(n)) \in Nat
    BY Countable
  <2>6. NoPinLeak'
    BY <2>4, <2>5, StillNoLeak
  <2>7. QED BY <2>1, <2>2, <2>3, <2>6 DEF FleetInv
<1>9. CASE UNCHANGED vars
  <2>1. UNCHANGED poolVars /\ UNCHANGED fleetVars
    BY <1>9 DEF vars
  <2>2. PoolInv' /\ NoPinLeak'
    BY <2>1, PoolStep, PinsKept DEF FleetInv, fleetVars
  <2>3. HandlesInv' /\ FreeHanded'
    BY <2>1 DEF FleetInv, HandlesInv, FreeHanded, fleetVars, poolVars
  <2>4. QED BY <2>2, <2>3 DEF FleetInv
<1>10. QED
  BY <1>1, <1>2, <1>3, <1>4, <1>5, <1>6, <1>7, <1>8, <1>9 DEF NextHandles

LEMMA FleetInvariant ==
    ASSUME "exec" \notin Kinds
    PROVE  SpecHandles => []FleetInv
<1>1. InitHandles => FleetInv
  BY InitialFleet
<1>2. FleetInv /\ [NextHandles]_vars => FleetInv'
  BY FleetStep
<1>3. QED BY <1>1, <1>2, PTL DEF SpecHandles

(* exec is not a kind of handle. *)
LEMMA KindsNamed == "exec" \notin Kinds
BY HandlesAssumption

(* The tables of handles, calls and connections keep their shape, whatever is
   opened, edited, lost and reaped. *)
THEOREM HandlesTyped == SpecHandles => []HandlesTypeOK
<1>1. FleetInv => HandlesTypeOK
  BY DEF FleetInv, PoolInv, HandlesInv, HandlesTypeOK
<1>2. QED BY <1>1, FleetInvariant, KindsNamed, PTL

(* No pin is leaked: whatever closes, goes down, is lost, edited or reaped, an
   entry is pinned no more often than there are handles registered on its node. *)
THEOREM PinsNotLeaked == SpecHandles => []NoPinLeak
<1>1. FleetInv => NoPinLeak
  BY DEF FleetInv
<1>2. QED BY <1>1, FleetInvariant, KindsNamed, PTL

(* The pool under the handles still has one connection per node. *)
THEOREM OneConnectionUnderHandles == SpecHandles => []SingleFlight
<1>1. FleetInv => SingleFlight
  BY PoolSingle DEF FleetInv
<1>2. QED BY <1>1, FleetInvariant, KindsNamed, PTL
==============================================================================
