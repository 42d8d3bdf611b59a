---------------------------- MODULE SSHPool_proofs ----------------------------
(***************************************************************************)
(* Proofs about SSHPool, for every inventory, jump chain (circular ones     *)
(* included), number of concurrent calls and number of connections.         *)
(***************************************************************************)
EXTENDS SSHPool, SequenceTheorems, TLAPS

(* Whoever is in the queue of a lock is there once, waiting for that node. *)
Queues ==
    \A n \in Nodes :
        /\ IsInjective(waiters[n])
        /\ \A q \in Tasks : q \in Range(waiters[n])
                              => task[q].pc = "wait" /\ task[q].at = n

(* A task that connects to a node has the lock of the node. *)
Placed ==
    \A p \in Tasks :
        /\ task[p].pc \in {"acquire", "wait", "connect"} => task[p].at \in Nodes
        /\ task[p].pc = "connect" => owner[task[p].at] = p

(* p has the lock of n and has taken its second look. *)
Past(p, n) ==
    /\ owner[n] = p
    /\ ~(task[p].pc = "wait" /\ task[p].at = n /\ p \notin Range(waiters[n]))

(* That look found nothing, and nobody else adds an entry. *)
EmptyHanded == \A p \in Tasks, n \in Nodes : Past(p, n) => entries[n] = NoEntry

(* Every open connection is the one its node's entry holds. *)
Known ==
    \A c \in Conns : conns[c].st = "open" =>
        conns[c].node \in Nodes /\ entries[conns[c].node].conn = c

PoolInv == TypeOK /\ Queues /\ Placed /\ EmptyHanded /\ Known
------------------------------------------------------------------------------
(* What Head and Tail, Append and RemoveAt do to a queue. *)
LEMMA TailFacts ==
    ASSUME NEW T, NEW s \in Seq(T), s # <<>>, IsInjective(s)
    PROVE  /\ Head(s) \in Range(s) /\ Head(s) \in T
           /\ Tail(s) \in Seq(T) /\ IsInjective(Tail(s))
           /\ Range(Tail(s)) \subseteq Range(s) /\ Head(s) \notin Range(Tail(s))
<1>1. /\ Len(s) \in Nat \ {0} /\ DOMAIN s = 1 .. Len(s) /\ Head(s) = s[1]
      /\ \A i \in 1 .. Len(s) : s[i] \in T
  BY EmptySeq, LenProperties
<1>2. /\ Tail(s) \in Seq(T) /\ Len(Tail(s)) = Len(s) - 1
      /\ DOMAIN Tail(s) = 1 .. Len(s) - 1
      /\ \A i \in 1 .. Len(s) - 1 : Tail(s)[i] = s[i+1]
  BY <1>1, HeadTailProperties, LenProperties
<1>3. Head(s) \in Range(s) /\ Head(s) \in T
  BY <1>1 DEF Range
<1>4. IsInjective(Tail(s))
  BY <1>1, <1>2 DEF IsInjective
<1>5. Range(Tail(s)) \subseteq Range(s) /\ Head(s) \notin Range(Tail(s))
  BY <1>1, <1>2 DEF IsInjective, Range
<1>6. QED BY <1>2, <1>3, <1>4, <1>5

LEMMA AppendFacts ==
    ASSUME NEW T, NEW s \in Seq(T), NEW e \in T, IsInjective(s), e \notin Range(s)
    PROVE  /\ Append(s, e) \in Seq(T) /\ IsInjective(Append(s, e))
           /\ Range(Append(s, e)) = Range(s) \cup {e}
<1>1. Len(s) \in Nat /\ DOMAIN s = 1 .. Len(s)
  BY LenProperties
<1>2. /\ Append(s, e) \in Seq(T) /\ DOMAIN Append(s, e) = 1 .. Len(s) + 1
      /\ \A i \in 1 .. Len(s) : Append(s, e)[i] = s[i]
      /\ Append(s, e)[Len(s) + 1] = e
  BY AppendProperties, LenProperties
<1>3. IsInjective(Append(s, e))
  BY <1>1, <1>2 DEF IsInjective, Range
<1>4. Range(Append(s, e)) = Range(s) \cup {e}
  BY <1>1, <1>2 DEF Range
<1>5. QED BY <1>2, <1>3, <1>4

LEMMA RemoveFacts ==
    ASSUME NEW T, NEW s \in Seq(T), NEW i \in DOMAIN s, IsInjective(s)
    PROVE  /\ RemoveAt(s, i) \in Seq(T) /\ IsInjective(RemoveAt(s, i))
           /\ Range(RemoveAt(s, i)) = Range(s) \ {s[i]}
<1>1. /\ Len(s) \in Nat /\ DOMAIN s = 1 .. Len(s) /\ i \in 1 .. Len(s)
      /\ \A j \in 1 .. Len(s) : s[j] \in T
  BY LenProperties
<1> DEFINE a == SubSeq(s, 1, i - 1)
           b == SubSeq(s, i + 1, Len(s))
<1>2. /\ a \in Seq(T) /\ Len(a) = i - 1
      /\ \A j \in 1 .. i - 1 : a[j] = s[j]
  <2>1. \A j \in 1 .. i - 1 : s[j] \in T
    BY <1>1
  <2>2. /\ a \in Seq(T) /\ Len(a) = IF 1 <= i - 1 THEN (i - 1) - 1 + 1 ELSE 0
        /\ \A j \in 1 .. (i - 1) - 1 + 1 : a[j] = s[1 + j - 1]
    BY <1>1, <2>1, SubSeqProperties
  <2> HIDE DEF a
  <2>3. QED BY <1>1, <2>2
<1>3. /\ b \in Seq(T) /\ Len(b) = Len(s) - i
      /\ \A j \in 1 .. Len(s) - i : b[j] = s[i + j]
  <2>1. \A j \in i + 1 .. Len(s) : s[j] \in T
    BY <1>1
  <2>2. /\ b \in Seq(T) /\ Len(b) = IF i + 1 <= Len(s) THEN Len(s) - (i + 1) + 1 ELSE 0
        /\ \A j \in 1 .. Len(s) - (i + 1) + 1 : b[j] = s[(i + 1) + j - 1]
    BY <1>1, <2>1, SubSeqProperties
  <2> HIDE DEF b
  <2>3. Len(b) = Len(s) - i
    BY <1>1, <2>2
  <2>4. ASSUME NEW j \in 1 .. Len(s) - i
        PROVE  b[j] = s[i + j]
    <3>1. j \in 1 .. Len(s) - (i + 1) + 1 /\ (i + 1) + j - 1 = i + j
      BY <1>1
    <3>2. QED BY <2>2, <3>1
  <2>5. QED BY <2>2, <2>3, <2>4
<1>4. /\ RemoveAt(s, i) \in Seq(T) /\ DOMAIN RemoveAt(s, i) = 1 .. Len(s) - 1
      /\ \A j \in 1 .. Len(s) - 1 :
             RemoveAt(s, i)[j] = IF j < i THEN s[j] ELSE s[j + 1]
  <2> HIDE DEF a, b
  <2>0. a \in Seq(T) /\ b \in Seq(T)
    BY <1>2, <1>3
  <2>1. /\ a \o b \in Seq(T) /\ Len(a \o b) = Len(a) + Len(b)
        /\ \A j \in 1 .. Len(a) + Len(b) :
               (a \o b)[j] = IF j <= Len(a) THEN a[j] ELSE b[j - Len(a)]
    BY <2>0, ConcatProperties
  <2>2. ASSUME NEW j \in 1 .. Len(s) - 1
        PROVE  (a \o b)[j] = IF j < i THEN s[j] ELSE s[j + 1]
    <3>1. j \in 1 .. Len(a) + Len(b)
      BY <1>1, <1>2, <1>3
    <3>2. CASE j < i
      BY <1>1, <1>2, <2>1, <3>1, <3>2
    <3>3. CASE j >= i
      <4>1. (a \o b)[j] = b[j - (i - 1)]
        BY <1>1, <1>2, <2>1, <3>1, <3>3
      <4>2. j - (i - 1) \in 1 .. Len(s) - i /\ i + (j - (i - 1)) = j + 1
        BY <1>1, <3>3
      <4>3. b[j - (i - 1)] = s[i + (j - (i - 1))]
        BY <1>3, <4>2
      <4>4. QED BY <1>1, <3>3, <4>1, <4>2, <4>3
    <3>4. j < i \/ j >= i
      BY <1>1
    <3>5. QED BY <3>2, <3>3, <3>4
  <2>3. RemoveAt(s, i) = a \o b
    BY DEF RemoveAt, a, b
  <2>4. Len(a \o b) = Len(s) - 1
    BY <1>1, <1>2, <1>3, <2>1
  <2>5. QED BY <2>1, <2>2, <2>3, <2>4, LenProperties
<1>5. IsInjective(RemoveAt(s, i))
  <2>1. ASSUME NEW j \in 1 .. Len(s) - 1, NEW k \in 1 .. Len(s) - 1,
               RemoveAt(s, i)[j] = RemoveAt(s, i)[k]
        PROVE  j = k
    <3> DEFINE up(m) == IF m < i THEN m ELSE m + 1
    <3>1. /\ up(j) \in 1 .. Len(s) /\ RemoveAt(s, i)[j] = s[up(j)]
          /\ up(k) \in 1 .. Len(s) /\ RemoveAt(s, i)[k] = s[up(k)]
      BY <1>1, <1>4
    <3>2. up(j) = up(k)
      BY <1>1, <2>1, <3>1 DEF IsInjective
    <3>3. QED BY <1>1, <3>2
  <2>2. QED BY <1>4, <2>1 DEF IsInjective
<1>6. Range(RemoveAt(s, i)) = Range(s) \ {s[i]}
  <2>1. ASSUME NEW x \in Range(s) \ {s[i]}
        PROVE  x \in Range(RemoveAt(s, i))
    <3>1. PICK j \in 1 .. Len(s) : x = s[j] /\ j # i
      BY <1>1 DEF Range
    <3>2. CASE j < i
      BY <1>1, <1>4, <3>1, <3>2 DEF Range
    <3>3. CASE j > i
      <4>1. j - 1 \in 1 .. Len(s) - 1 /\ ~(j - 1 < i) /\ (j - 1) + 1 = j
        BY <1>1, <3>1, <3>3
      <4>2. QED BY <1>4, <3>1, <4>1 DEF Range
    <3>4. QED BY <1>1, <3>1, <3>2, <3>3
  <2>2. ASSUME NEW x \in Range(RemoveAt(s, i))
        PROVE  x \in Range(s) \ {s[i]}
    <3>1. PICK j \in 1 .. Len(s) - 1 : x = IF j < i THEN s[j] ELSE s[j + 1]
      BY <1>4 DEF Range
    <3>2. QED BY <1>1, <3>1 DEF Range, IsInjective
  <2>3. QED BY <2>1, <2>2
<1>7. QED BY <1>4, <1>5, <1>6

(* Release hands a lock to nobody, or to a task that leaves its queue. *)
LEMMA ReleaseFacts ==
    ASSUME TypeOK, NEW N \in SUBSET Nodes, NEW W \in [Nodes -> Seq(Tasks)],
           \A n \in Nodes : IsInjective(W[n]), Release(N, W)
    PROVE  /\ owner' \in [Nodes -> Tasks \cup {None}]
           /\ waiters' \in [Nodes -> Seq(Tasks)]
           /\ \A n \in Nodes : /\ IsInjective(waiters'[n])
                               /\ Range(waiters'[n]) \subseteq Range(W[n])
           /\ \A n \in Nodes \ N : owner'[n] = owner[n] /\ waiters'[n] = W[n]
           /\ \A n \in N : \/ owner'[n] = None
                           \/ /\ owner'[n] \in Range(W[n])
                              /\ owner'[n] \notin Range(waiters'[n])
<1>1. ASSUME NEW n \in Nodes, W[n] # <<>>
      PROVE  /\ Head(W[n]) \in Range(W[n]) /\ Head(W[n]) \in Tasks
             /\ Tail(W[n]) \in Seq(Tasks) /\ IsInjective(Tail(W[n]))
             /\ Range(Tail(W[n])) \subseteq Range(W[n])
             /\ Head(W[n]) \notin Range(Tail(W[n]))
  BY <1>1, TailFacts
<1>2. QED
  BY <1>1 DEF Release, TypeOK

(* Handing on one lock: the next owner has not taken its second look. *)
LEMMA HandOnFacts ==
    ASSUME TypeOK, Queues, NEW n \in Nodes, Release({n}, waiters)
    PROVE  /\ owner' \in [Nodes -> Tasks \cup {None}]
           /\ waiters' \in [Nodes -> Seq(Tasks)]
           /\ \A x \in Nodes : IsInjective(waiters'[x])
           /\ \A x \in Nodes, q \in Tasks : q \in Range(waiters'[x]) => q \in Range(waiters[x])
           /\ \A x \in Nodes \ {n} : owner'[x] = owner[x] /\ waiters'[x] = waiters[x]
           /\ \A q \in Tasks : owner'[n] = q => /\ task[q].pc = "wait" /\ task[q].at = n
                                                /\ q \in Range(waiters[n])
                                                /\ q \notin Range(waiters'[n])
<1>1. /\ {n} \in SUBSET Nodes /\ waiters \in [Nodes -> Seq(Tasks)]
      /\ \A x \in Nodes : IsInjective(waiters[x])
  BY DEF TypeOK, Queues
<1>2. /\ owner' \in [Nodes -> Tasks \cup {None}]
      /\ waiters' \in [Nodes -> Seq(Tasks)]
      /\ \A x \in Nodes : /\ IsInjective(waiters'[x])
                          /\ Range(waiters'[x]) \subseteq Range(waiters[x])
      /\ \A x \in Nodes \ {n} : owner'[x] = owner[x] /\ waiters'[x] = waiters[x]
      /\ \A x \in {n} : \/ owner'[x] = None
                        \/ /\ owner'[x] \in Range(waiters[x])
                           /\ owner'[x] \notin Range(waiters'[x])
  BY <1>1, ReleaseFacts
<1>3. ASSUME NEW q \in Tasks, owner'[n] = q
      PROVE  /\ task[q].pc = "wait" /\ task[q].at = n
             /\ q \in Range(waiters[n]) /\ q \notin Range(waiters'[n])
  BY <1>2, <1>3, PoolAssumption DEF Queues
<1>4. QED BY <1>2, <1>3

(* A task that leaves its queue is in none. *)
LEMMA UnqueuedFacts ==
    ASSUME TypeOK, Queues, NEW p \in Tasks, task[p].pc \in {"wait", "connect"}, Placed
    PROVE  /\ Unqueued(p) \in [Nodes -> Seq(Tasks)]
           /\ \A n \in Nodes :
                  /\ IsInjective(Unqueued(p)[n])
                  /\ Range(Unqueued(p)[n]) = Range(waiters[n]) \ {p}
<1> DEFINE m == task[p].at
           i == CHOOSE j \in DOMAIN waiters[m] : waiters[m][j] = p
<1>1. m \in Nodes /\ waiters \in [Nodes -> Seq(Tasks)]
  BY DEF Placed, TypeOK
<1>2. \A n \in Nodes : IsInjective(waiters[n]) /\ (p \in Range(waiters[n]) => n = m)
  BY DEF Queues
<1>3. CASE p \in Range(waiters[m])
  <2>1. i \in DOMAIN waiters[m] /\ waiters[m][i] = p
    BY <1>3 DEF Range
  <2> DEFINE r == RemoveAt(waiters[m], i)
  <2>2. r \in Seq(Tasks) /\ IsInjective(r) /\ Range(r) = Range(waiters[m]) \ {p}
    <3> HIDE DEF i, m
    <3>1. QED BY <1>1, <1>2, <2>1, RemoveFacts
  <2>3. Unqueued(p) = [waiters EXCEPT ![m] = r]
    BY <1>3 DEF Unqueued
  <2> HIDE DEF r, i, m
  <2>4. QED BY <1>1, <1>2, <2>2, <2>3
<1>4. CASE p \notin Range(waiters[m])
  <2>1. Unqueued(p) = waiters
    BY <1>4 DEF Unqueued
  <2> HIDE DEF i, m
  <2>2. QED BY <1>1, <1>2, <1>4, <2>1
<1>5. QED BY <1>3, <1>4

------------------------------------------------------------------------------
(* Only p moves, to where it is told. *)
LEMMA GotoFacts ==
    ASSUME TypeOK, NEW p \in Tasks, NEW n \in Nodes, NEW c \in Conns \cup {None},
           NEW pc \in {"acquire", "wait", "connect", "held"}, Goto(p, pc, n, c)
    PROVE  /\ task' \in [Tasks -> [pc : {"idle", "acquire", "wait", "connect", "held"},
                                  want : Nodes \cup {None}, at : Nodes \cup {None},
                                  conn : Conns \cup {None}]]
           /\ task'[p].pc = pc /\ task'[p].at = n
           /\ \A q \in Tasks \ {p} : task'[q] = task[q]
BY DEF Goto, TypeOK

(* acquire(n) returns to the tool call, or to a frame that has its lock. *)
LEMMA ReturnFacts ==
    ASSUME TypeOK, NEW p \in Tasks, NEW n \in Nodes, NEW c \in Conns, Return(p, n, c)
    PROVE  /\ task' \in [Tasks -> [pc : {"idle", "acquire", "wait", "connect", "held"},
                                  want : Nodes \cup {None}, at : Nodes \cup {None},
                                  conn : Conns \cup {None}]]
           /\ run' = None
           /\ \A q \in Tasks \ {p} : task'[q] = task[q]
           /\ task'[p].pc \in {"held", "connect"} /\ task'[p].at \in Nodes
           /\ task'[p].pc = "connect" => task'[p].at # n /\ owner[task'[p].at] = p
<1>1. CASE Goto(p, "held", n, c)
  BY SMTT(30), <1>1, GotoFacts DEF Return
<1>2. ASSUME NEW x \in Nodes, x # n, owner[x] = p, Goto(p, "connect", x, c)
      PROVE  /\ task' \in [Tasks -> [pc : {"idle", "acquire", "wait", "connect", "held"},
                                    want : Nodes \cup {None}, at : Nodes \cup {None},
                                    conn : Conns \cup {None}]]
             /\ \A q \in Tasks \ {p} : task'[q] = task[q]
             /\ task'[p].pc = "connect" /\ task'[p].at = x
  BY <1>2, GotoFacts
<1>3. QED
  BY <1>1, <1>2 DEF Return

(* An entry in use holds a connection. *)
LEMMA LiveFacts ==
    ASSUME TypeOK, NEW n \in Nodes, Live(n)
    PROVE  entries[n].conn \in Conns /\ entries[n] # NoEntry
BY PoolAssumption DEF Live, IsOpen, NoEntry

(* acquire() sets last_used: the entry keeps its connection. *)
LEMMA TouchFacts ==
    ASSUME TypeOK, NEW n \in Nodes, entries[n] # NoEntry,
           entries' = [entries EXCEPT ![n].idle = FALSE]
    PROVE  /\ entries' \in [Nodes -> Entry \cup {NoEntry}]
           /\ entries'[n].conn = entries[n].conn
           /\ \A x \in Nodes \ {n} : entries'[x] = entries[x]
<1>1. entries \in [Nodes -> Entry \cup {NoEntry}] /\ entries[n] \in Entry
  BY DEF TypeOK
<1>2. [entries[n] EXCEPT !.idle = FALSE] \in Entry
  BY <1>1 DEF Entry
<1>3. entries' = [entries EXCEPT ![n] = [entries[n] EXCEPT !.idle = FALSE]]
  BY <1>1
<1>4. [entries[n] EXCEPT !.idle = FALSE].conn = entries[n].conn
  BY <1>1 DEF Entry
<1>5. QED BY <1>1, <1>2, <1>3, <1>4

------------------------------------------------------------------------------
LEMMA InitialPool ==
    ASSUME Init
    PROVE  PoolInv
<1>1. \A n \in Nodes : waiters[n] = <<>> /\ waiters[n] \in Seq(Tasks)
  BY EmptySeq DEF Init
<1>2. IsInjective(<<>>) /\ Range(<<>>) = {}
  BY DEF IsInjective, Range
<1>3. TypeOK
  BY <1>1 DEF Init, TypeOK, Quiet
<1>4. Queues /\ Placed /\ EmptyHanded /\ Known
  BY <1>1, <1>2 DEF Init, Queues, Placed, EmptyHanded, Known, Past, Quiet
<1>5. QED BY <1>3, <1>4 DEF PoolInv

LEMMA LookStep ==
    ASSUME PoolInv, NEW p \in Tasks, NEW n \in Nodes, task[p].at = n, Look(p)
    PROVE  PoolInv'
<1>1. /\ task[p].pc = "acquire" /\ UNCHANGED conns
      /\ \A x \in Nodes : p \notin Range(waiters[x])
  BY DEF PoolInv, Placed, Queues, Look
<1>2. CASE /\ Live(n)
           /\ entries' = [entries EXCEPT ![n].idle = FALSE]
           /\ Return(p, n, entries[n].conn)
           /\ UNCHANGED <<owner, waiters>>
  <2>1. entries[n].conn \in Conns /\ entries[n] # NoEntry
    BY <1>1, <1>2, LiveFacts DEF PoolInv
  <2>2. /\ entries' \in [Nodes -> Entry \cup {NoEntry}]
        /\ entries'[n].conn = entries[n].conn
        /\ \A x \in Nodes \ {n} : entries'[x] = entries[x]
    BY <1>1, <1>2, <2>1, TouchFacts DEF PoolInv
  <2>3. TypeOK'
    BY <1>1, <1>2, <2>1, <2>2, ReturnFacts DEF PoolInv, TypeOK
  <2>4. Queues'
    BY <1>1, <1>2, <2>1, ReturnFacts DEF PoolInv, Queues
  <2>5. Placed'
    BY <1>1, <1>2, <2>1, ReturnFacts DEF PoolInv, Placed
  <2>6. EmptyHanded'
    BY <1>1, <1>2, <2>1, <2>2, ReturnFacts DEF PoolInv, EmptyHanded, Past
  <2>7. Known'
    BY <1>1, <2>2 DEF PoolInv, Known
  <2>8. QED BY <2>3, <2>4, <2>5, <2>6, <2>7 DEF PoolInv
<1>3. CASE /\ ~Live(n)
           /\ Goto(p, "wait", n, None)
           /\ owner[n] = None /\ owner' = [owner EXCEPT ![n] = p]
           /\ run' = p /\ UNCHANGED <<waiters, entries>>
  <2>1. TypeOK'
    BY <1>1, <1>3, GotoFacts DEF PoolInv, TypeOK
  <2>2. Queues'
    BY <1>1, <1>3, GotoFacts DEF PoolInv, Queues
  <2>3. Placed'
    BY <1>1, <1>3, GotoFacts, PoolAssumption DEF PoolInv, Placed, TypeOK
  <2>4. EmptyHanded'
    BY <1>1, <1>3, GotoFacts DEF PoolInv, EmptyHanded, Past, TypeOK
  <2>5. Known'
    BY <1>1, <1>3 DEF PoolInv, Known
  <2>6. QED BY <2>1, <2>2, <2>3, <2>4, <2>5 DEF PoolInv
<1>4. CASE /\ ~Live(n)
           /\ Goto(p, "wait", n, None)
           /\ waiters' = [waiters EXCEPT ![n] = Append(@, p)]
           /\ run' = None /\ UNCHANGED <<owner, entries>>
  <2>1. /\ waiters' \in [Nodes -> Seq(Tasks)]
        /\ IsInjective(waiters'[n]) /\ Range(waiters'[n]) = Range(waiters[n]) \cup {p}
        /\ \A x \in Nodes \ {n} : waiters'[x] = waiters[x]
    <3>1. waiters[n] \in Seq(Tasks) /\ IsInjective(waiters[n])
      BY <1>1 DEF PoolInv, TypeOK, Queues
    <3>2. /\ Append(waiters[n], p) \in Seq(Tasks) /\ IsInjective(Append(waiters[n], p))
          /\ Range(Append(waiters[n], p)) = Range(waiters[n]) \cup {p}
      BY <1>1, <3>1, AppendFacts
    <3>3. QED BY <1>1, <1>4, <3>2 DEF PoolInv, TypeOK
  <2>2. TypeOK'
    BY <1>1, <1>4, <2>1, GotoFacts DEF PoolInv, TypeOK
  <2>3. Queues'
    BY <1>1, <1>4, <2>1, GotoFacts DEF PoolInv, Queues
  <2>4. Placed'
    BY <1>1, <1>4, GotoFacts DEF PoolInv, Placed
  <2>5. EmptyHanded'
    BY <1>1, <1>4, <2>1, GotoFacts DEF PoolInv, EmptyHanded, Past
  <2>6. Known'
    BY <1>1, <1>4 DEF PoolInv, Known
  <2>7. QED BY <2>2, <2>3, <2>4, <2>5, <2>6 DEF PoolInv
<1>5. QED
  BY <1>2, <1>3, <1>4 DEF Look

LEMMA LookAgainStep ==
    ASSUME PoolInv, NEW p \in Tasks, NEW n \in Nodes, task[p].at = n, LookAgain(p)
    PROVE  PoolInv'
<1>1. /\ task[p].pc = "wait" /\ task[p].at = n /\ UNCHANGED conns
      /\ owner[n] = p /\ \A x \in Nodes : p \notin Range(waiters[x])
  BY DEF PoolInv, Placed, Queues, LookAgain, Woken
<1>2. CASE /\ Live(n)
           /\ entries' = [entries EXCEPT ![n].idle = FALSE]
           /\ Release({n}, waiters)
           /\ Return(p, n, entries[n].conn)
  <2>1. entries[n].conn \in Conns /\ entries[n] # NoEntry
    BY <1>1, <1>2, LiveFacts DEF PoolInv
  <2>2. /\ entries' \in [Nodes -> Entry \cup {NoEntry}]
        /\ entries'[n].conn = entries[n].conn
        /\ \A x \in Nodes \ {n} : entries'[x] = entries[x]
    BY <1>1, <1>2, <2>1, TouchFacts DEF PoolInv
  <2>3. /\ owner' \in [Nodes -> Tasks \cup {None}]
        /\ waiters' \in [Nodes -> Seq(Tasks)]
        /\ \A x \in Nodes : IsInjective(waiters'[x])
        /\ \A x \in Nodes, q \in Tasks : q \in Range(waiters'[x]) => q \in Range(waiters[x])
        /\ \A x \in Nodes \ {n} : owner'[x] = owner[x] /\ waiters'[x] = waiters[x]
        /\ \A q \in Tasks : owner'[n] = q => /\ task[q].pc = "wait" /\ task[q].at = n
                                             /\ q \in Range(waiters[n]) \ Range(waiters'[n])
    BY <1>1, <1>2, HandOnFacts DEF PoolInv
  <2>4. /\ \A q \in Tasks \ {p} : task'[q] = task[q]
        /\ task'[p].pc \in {"held", "connect"} /\ task'[p].at \in Nodes
        /\ task'[p].pc = "connect" => task'[p].at # n /\ owner[task'[p].at] = p
    BY <1>1, <1>2, <2>1, ReturnFacts DEF PoolInv
  <2>5. TypeOK'
    BY <1>1, <1>2, <2>1, <2>2, <2>3, ReturnFacts DEF PoolInv, TypeOK
  <2>6. Queues'
    BY <1>1, <2>3, <2>4 DEF PoolInv, Queues
  <2>7. Placed'
    <3>1. ASSUME NEW q \in Tasks \ {p}, task[q].pc = "connect"
          PROVE  task[q].at # n
      BY <1>1, <3>1 DEF PoolInv, Placed
    <3>2. QED
      BY <1>1, <2>3, <2>4, <3>1 DEF PoolInv, Placed
  <2>8. EmptyHanded'
    <3>1. \A q \in Tasks : ~Past(q, n)'
      BY <1>1, <2>3, <2>4 DEF Past
    <3>2. ASSUME NEW q \in Tasks, NEW x \in Nodes \ {n}, Past(q, x)'
          PROVE  Past(q, x)
      BY <1>1, <2>3, <2>4, <3>2 DEF Past
    <3>3. QED BY <2>2, <3>1, <3>2 DEF PoolInv, EmptyHanded
  <2>9. Known'
    BY <1>1, <2>2 DEF PoolInv, Known
  <2>10. QED BY <2>5, <2>6, <2>7, <2>8, <2>9 DEF PoolInv
<1>3. ASSUME ~Live(n), entries' = [entries EXCEPT ![n] = NoEntry],
             UNCHANGED <<owner, waiters>>, run' \in Tasks \cup {None},
             NEW pc \in {"connect", "acquire"}, NEW m \in Nodes,
             pc = "connect" => m = n, Goto(p, pc, m, None)
      PROVE  PoolInv'
  <2>1. \A c \in Conns : conns[c].st = "open" => conns[c].node # n
    BY <1>1, <1>3 DEF PoolInv, Known, Live, IsOpen
  <2>2. TypeOK'
    BY <1>1, <1>3, GotoFacts DEF PoolInv, TypeOK
  <2>3. Queues'
    BY <1>1, <1>3, GotoFacts DEF PoolInv, Queues
  <2>4. Placed'
    BY <1>1, <1>3, GotoFacts DEF PoolInv, Placed
  <2>5. EmptyHanded'
    <3>1. ASSUME NEW q \in Tasks, NEW x \in Nodes \ {n}, Past(q, x)'
          PROVE  Past(q, x)
      BY <1>1, <1>3, <3>1, GotoFacts DEF PoolInv, Past
    <3>2. entries'[n] = NoEntry /\ \A x \in Nodes \ {n} : entries'[x] = entries[x]
      BY <1>1, <1>3 DEF PoolInv, TypeOK
    <3>3. QED BY <3>1, <3>2 DEF PoolInv, EmptyHanded
  <2>6. Known'
    BY <1>1, <1>3, <2>1 DEF PoolInv, Known, TypeOK
  <2>7. QED BY <2>2, <2>3, <2>4, <2>5, <2>6 DEF PoolInv
<1>4. CASE /\ ~Live(n) /\ entries' = [entries EXCEPT ![n] = NoEntry]
           /\ Jump[n] = None /\ Goto(p, "connect", n, None) /\ run' = None
           /\ UNCHANGED <<owner, waiters>>
  BY <1>1, <1>3, <1>4
<1>5. CASE /\ ~Live(n) /\ entries' = [entries EXCEPT ![n] = NoEntry]
           /\ Jump[n] # None /\ Goto(p, "acquire", Jump[n], None) /\ run' = p
           /\ UNCHANGED <<owner, waiters>>
  <2>1. Jump[n] \in Nodes
    BY <1>1, <1>5, PoolAssumption
  <2>2. QED BY <1>3, <1>5, <2>1
<1>6. QED
  BY <1>2, <1>4, <1>5 DEF LookAgain

LEMMA ConnectedStep ==
    ASSUME PoolInv, NEW p \in Tasks, NEW n \in Nodes, task[p].at = n,
           NEW c \in Conns, Connected(p, c)
    PROVE  PoolInv'
<1> DEFINE new == [conn |-> c, pinned |-> 0, idle |-> FALSE]
<1>1. /\ task[p].pc = "connect" /\ task[p].at = n /\ owner[n] = p
      /\ \A x \in Nodes : p \notin Range(waiters[x])
  BY DEF PoolInv, Placed, Queues, Connected
<1>2. /\ entries' = [entries EXCEPT ![n] = new]
      /\ conns' = [conns EXCEPT ![c] = [st |-> "open", node |-> n, via |-> task[p].conn]]
      /\ Release({n}, waiters) /\ Return(p, n, c)
  BY DEF Connected
<1>3. entries[n] = NoEntry
  BY <1>1 DEF PoolInv, EmptyHanded, Past
<1>4. new \in Entry /\ new.conn = c
  BY DEF Entry
<1>5. \A d \in Conns : conns[d].st = "open" => conns[d].node # n
  BY <1>3, PoolAssumption DEF PoolInv, Known, NoEntry
<1>6. task[p].conn \in Conns \cup {None}
  BY DEF PoolInv, TypeOK
<1> HIDE DEF new
<1>7. /\ owner' \in [Nodes -> Tasks \cup {None}]
      /\ waiters' \in [Nodes -> Seq(Tasks)]
      /\ \A x \in Nodes : IsInjective(waiters'[x])
      /\ \A x \in Nodes, q \in Tasks : q \in Range(waiters'[x]) => q \in Range(waiters[x])
      /\ \A x \in Nodes \ {n} : owner'[x] = owner[x] /\ waiters'[x] = waiters[x]
      /\ \A q \in Tasks : owner'[n] = q => /\ task[q].pc = "wait" /\ task[q].at = n
                                           /\ q \in Range(waiters[n]) \ Range(waiters'[n])
  BY <1>2, HandOnFacts DEF PoolInv
<1>8. /\ \A q \in Tasks \ {p} : task'[q] = task[q]
      /\ task'[p].pc \in {"held", "connect"} /\ task'[p].at \in Nodes
      /\ task'[p].pc = "connect" => task'[p].at # n /\ owner[task'[p].at] = p
  BY <1>2, ReturnFacts DEF PoolInv
<1>9. TypeOK'
  BY <1>1, <1>2, <1>4, <1>6, <1>7, ReturnFacts DEF PoolInv, TypeOK
<1>10. Queues'
  BY <1>1, <1>7, <1>8 DEF PoolInv, Queues
<1>11. Placed'
  <2>1. ASSUME NEW q \in Tasks \ {p}, task[q].pc = "connect"
        PROVE  task[q].at # n
    BY <1>1, <2>1 DEF PoolInv, Placed
  <2>2. QED BY <1>1, <1>7, <1>8, <2>1 DEF PoolInv, Placed
<1>12. EmptyHanded'
  <2>1. \A q \in Tasks : ~Past(q, n)'
    BY <1>1, <1>7, <1>8 DEF Past
  <2>2. ASSUME NEW q \in Tasks, NEW x \in Nodes \ {n}, Past(q, x)'
        PROVE  Past(q, x)
    BY <1>1, <1>7, <1>8, <2>2 DEF Past
  <2>3. \A x \in Nodes \ {n} : entries'[x] = entries[x]
    BY <1>2 DEF PoolInv, TypeOK
  <2>4. QED BY <2>1, <2>2, <2>3 DEF PoolInv, EmptyHanded
<1>13. Known'
  BY <1>1, <1>2, <1>4, <1>5 DEF PoolInv, Known, TypeOK
<1>14. QED BY <1>9, <1>10, <1>11, <1>12, <1>13 DEF PoolInv

LEMMA LeaveStep ==
    ASSUME PoolInv, NEW p \in Tasks, task[p].pc \in {"wait", "connect"}, Leave(p)
    PROVE  PoolInv'
<1> DEFINE N == {n \in Nodes : owner[n] = p}
           W == Unqueued(p)
<1>1. /\ W \in [Nodes -> Seq(Tasks)]
      /\ \A n \in Nodes : IsInjective(W[n]) /\ Range(W[n]) = Range(waiters[n]) \ {p}
  BY UnqueuedFacts DEF PoolInv
<1>2. Release(N, W) /\ task' = [task EXCEPT ![p] = Quiet] /\ UNCHANGED <<entries, conns, run>>
  BY DEF Leave
<1>3. N \in SUBSET Nodes /\ \A n \in Nodes : owner[n] = p <=> n \in N
  OBVIOUS
<1> HIDE DEF N, W
<1>4. /\ owner' \in [Nodes -> Tasks \cup {None}]
      /\ waiters' \in [Nodes -> Seq(Tasks)]
      /\ \A n \in Nodes : /\ IsInjective(waiters'[n])
                          /\ Range(waiters'[n]) \subseteq Range(waiters[n]) \ {p}
      /\ \A n \in Nodes \ N : /\ owner'[n] = owner[n]
                              /\ Range(waiters'[n]) = Range(waiters[n]) \ {p}
      /\ \A n \in N : \/ owner'[n] = None
                      \/ /\ owner'[n] \in Range(waiters[n]) \ {p}
                         /\ owner'[n] \notin Range(waiters'[n])
  <2>1. /\ owner' \in [Nodes -> Tasks \cup {None}]
        /\ waiters' \in [Nodes -> Seq(Tasks)]
        /\ \A n \in Nodes : IsInjective(waiters'[n]) /\ Range(waiters'[n]) \subseteq Range(W[n])
        /\ \A n \in Nodes \ N : owner'[n] = owner[n] /\ waiters'[n] = W[n]
        /\ \A n \in N : \/ owner'[n] = None
                        \/ /\ owner'[n] \in Range(W[n])
                           /\ owner'[n] \notin Range(waiters'[n])
    BY <1>1, <1>2, <1>3, ReleaseFacts DEF PoolInv
  <2>2. QED BY <1>1, <1>3, <2>1
<1>5. /\ task'[p].pc = "idle" /\ \A q \in Tasks \ {p} : task'[q] = task[q]
  BY <1>2 DEF PoolInv, TypeOK, Quiet
<1>6. TypeOK'
  BY <1>2, <1>4 DEF PoolInv, TypeOK, Quiet
<1>7. Queues'
  BY <1>4, <1>5 DEF PoolInv, Queues
<1>8. Placed'
  BY <1>3, <1>4, <1>5 DEF PoolInv, Placed
<1>9. EmptyHanded'
  <2>1. ASSUME NEW q \in Tasks, NEW n \in Nodes, Past(q, n)'
        PROVE  Past(q, n)
    <3>1. n \notin N
      BY <1>4, <1>5, <2>1, PoolAssumption DEF PoolInv, Queues, Past
    <3>2. q # p
      BY <1>3, <1>4, <2>1, <3>1 DEF Past
    <3>3. QED BY <1>4, <1>5, <2>1, <3>1, <3>2 DEF Past
  <2>2. QED BY <1>2, <2>1 DEF PoolInv, EmptyHanded
<1>10. Known'
  BY <1>2 DEF PoolInv, Known
<1>11. QED BY <1>6, <1>7, <1>8, <1>9, <1>10 DEF PoolInv

------------------------------------------------------------------------------
LEMMA PoolStep ==
    ASSUME PoolInv, [Next]_poolVars
    PROVE  PoolInv'
<1>1. ASSUME NEW p \in Tasks, NEW n \in Nodes, Acquire(p, n)
      PROVE  PoolInv'
  <2>1. /\ UNCHANGED <<entries, owner, waiters, conns>>
        /\ task[p].pc = "idle" /\ task'[p].pc = "acquire" /\ task'[p].at = n
        /\ \A q \in Tasks \ {p} : task'[q] = task[q]
    BY <1>1 DEF Acquire, Quiet, PoolInv, TypeOK
  <2>2. TypeOK'
    BY <1>1 DEF Acquire, Quiet, PoolInv, TypeOK
  <2>3. Queues' /\ Placed'
    BY <2>1 DEF PoolInv, Queues, Placed
  <2>4. EmptyHanded' /\ Known'
    BY <2>1 DEF PoolInv, EmptyHanded, Past, Known
  <2>5. QED BY <2>2, <2>3, <2>4 DEF PoolInv
<1>2. ASSUME NEW p \in Tasks, Look(p)
      PROVE  PoolInv'
  BY SMTT(30), <1>2, LookStep DEF Look, PoolInv, Placed
<1>3. ASSUME NEW p \in Tasks, LookAgain(p)
      PROVE  PoolInv'
  BY <1>3, LookAgainStep DEF LookAgain, PoolInv, Placed
<1>4. ASSUME NEW p \in Tasks, NEW c \in Conns, Connected(p, c)
      PROVE  PoolInv'
  BY <1>4, ConnectedStep DEF Connected, PoolInv, Placed
<1>5. ASSUME NEW p \in Tasks, Fail(p) \/ Cancel(p)
      PROVE  PoolInv'
  BY SMTT(30), <1>5, LeaveStep DEF Fail, Cancel
<1>6. ASSUME NEW p \in Tasks, Done(p)
      PROVE  PoolInv'
  <2>1. /\ UNCHANGED <<entries, owner, waiters, conns, run>>
        /\ task[p].pc = "held" /\ task' = [task EXCEPT ![p] = Quiet]
    BY <1>6 DEF Done
  <2>2. /\ task'[p].pc = "idle" /\ \A q \in Tasks \ {p} : task'[q] = task[q]
    BY <2>1 DEF Quiet, PoolInv, TypeOK
  <2>3. TypeOK'
    BY <2>1 DEF Quiet, PoolInv, TypeOK
  <2>4. Queues' /\ Placed'
    BY <2>1, <2>2 DEF PoolInv, Queues, Placed
  <2>5. EmptyHanded' /\ Known'
    BY <2>1, <2>2 DEF PoolInv, EmptyHanded, Past, Known
  <2>6. QED BY <2>3, <2>4, <2>5 DEF PoolInv
<1>7. ASSUME NEW c \in Conns, Drop(c)
      PROVE  PoolInv'
  <2>1. TypeOK'
    BY <1>7, ZenonT(60) DEF Drop, PoolInv, TypeOK
  <2>2. Queues' /\ Placed' /\ EmptyHanded'
    BY <1>7 DEF Drop, PoolInv, Queues, Placed, EmptyHanded, Past
  <2>3. Known'
    BY <1>7 DEF Drop, PoolInv, Known, TypeOK
  <2>4. QED BY <2>1, <2>2, <2>3 DEF PoolInv
<1>8. ASSUME NEW n \in Nodes, Age(n)
      PROVE  PoolInv'
  <2>1. /\ UNCHANGED <<owner, waiters, conns, task, run>> /\ entries[n] \in Entry
        /\ entries[n] # NoEntry
        /\ entries' = [entries EXCEPT ![n] = [entries[n] EXCEPT !.idle = TRUE]]
    BY <1>8 DEF Age, PoolInv, TypeOK
  <2>2. /\ [entries[n] EXCEPT !.idle = TRUE] \in Entry
        /\ [entries[n] EXCEPT !.idle = TRUE].conn = entries[n].conn
    BY <2>1 DEF Entry
  <2>3. TypeOK'
    BY <2>1, <2>2 DEF PoolInv, TypeOK
  <2>4. Queues' /\ Placed'
    BY <2>1 DEF PoolInv, Queues, Placed
  <2>5. EmptyHanded'
    BY <2>1 DEF PoolInv, EmptyHanded, Past, TypeOK
  <2>6. Known'
    BY <2>1, <2>2 DEF PoolInv, Known, TypeOK
  <2>7. QED BY <2>3, <2>4, <2>5, <2>6 DEF PoolInv
<1>9. ASSUME Reap
      PROVE  PoolInv'
  <2>1. /\ UNCHANGED <<owner, waiters, task, run>>
        /\ entries' = [n \in Nodes |-> IF n \in Expired THEN NoEntry ELSE entries[n]]
        /\ \A n \in Nodes : entries'[n] = entries[n] \/ entries'[n] = NoEntry
    BY <1>9 DEF Reap
  <2>2. TypeOK'
    BY <1>9, ZenonT(60) DEF Reap, PoolInv, TypeOK
  <2>3. Queues' /\ Placed'
    BY <2>1 DEF PoolInv, Queues, Placed
  <2>4. EmptyHanded'
    BY <2>1 DEF PoolInv, EmptyHanded, Past
  <2>5. ASSUME NEW c \in Conns, conns'[c].st = "open"
        PROVE  conns'[c].node \in Nodes /\ entries'[conns'[c].node].conn = c
    <3>1. conns'[c] = conns[c] /\ \A n \in Expired : entries[n].conn # c
      BY <1>9, <2>5 DEF Reap, PoolInv, TypeOK
    <3>2. QED BY <2>1, <2>5, <3>1 DEF PoolInv, Known
  <2>6. Known'
    BY <2>5 DEF Known
  <2>7. QED BY <2>2, <2>3, <2>4, <2>6 DEF PoolInv
<1>10. ASSUME Restart
       PROVE  PoolInv'
  <2>1. \A n \in Nodes : waiters'[n] = <<>> /\ waiters'[n] \in Seq(Tasks)
    BY <1>10, EmptySeq DEF Restart
  <2>2. IsInjective(<<>>) /\ Range(<<>>) = {}
    BY DEF IsInjective, Range
  <2>3. TypeOK'
    BY <1>10, <2>1 DEF Restart, TypeOK, Quiet
  <2>4. Queues' /\ Placed' /\ EmptyHanded' /\ Known'
    BY <1>10, <2>1, <2>2 DEF Restart, Queues, Placed, EmptyHanded, Known, Past, Quiet
  <2>5. QED BY <2>3, <2>4 DEF PoolInv
<1>11. CASE UNCHANGED poolVars
  BY SMTT(30), <1>11 DEF poolVars, PoolInv, TypeOK, Queues, Placed, EmptyHanded, Past, Known
<1>12. QED
  BY <1>1, <1>2, <1>3, <1>4, <1>5, <1>6, <1>7, <1>8, <1>9, <1>10, <1>11
     DEF Next, Step, World

LEMMA PoolInvariant == Spec => []PoolInv
<1>1. Init => PoolInv
  BY InitialPool
<1>2. PoolInv /\ [Next]_poolVars => PoolInv'
  BY PoolStep
<1>3. QED BY <1>1, <1>2, PTL DEF Spec

(* Every reachable state is of the declared types. *)
THEOREM PoolTypeCorrect == Spec => []TypeOK
<1>1. PoolInv => TypeOK
  BY DEF PoolInv
<1>2. QED BY <1>1, PoolInvariant, PTL

(* The invariant leaves room for one connection of a node. *)
LEMMA PoolSingle ==
    ASSUME PoolInv
    PROVE  SingleFlight
<1>1. ASSUME NEW n \in Nodes, NEW p \in Connecting(n)
      PROVE  p \in Tasks /\ owner[n] = p /\ entries[n] = NoEntry
  BY <1>1 DEF Connecting, PoolInv, Placed, EmptyHanded, Past
<1>2. ASSUME NEW n \in Nodes, NEW c \in OpenTo(n)
      PROVE  entries[n].conn = c /\ entries[n] # NoEntry
  BY <1>2, PoolAssumption DEF OpenTo, IsOpen, PoolInv, Known, NoEntry
<1>3. QED BY <1>1, <1>2 DEF SingleFlight

(* At most one connection of a node is open or being opened, whatever the jump
   hosts are, even in a circle. *)
THEOREM OneConnection == Spec => []SingleFlight
<1>1. PoolInv => SingleFlight
  BY PoolSingle
<1>2. QED BY <1>1, PoolInvariant, PTL

------------------------------------------------------------------------------
(* c has been, and may still be, a connection of n; without n there is none. *)
Reaches(c, n) ==
    IF n = None THEN c = None
    ELSE c \in Conns /\ conns[c].st # "fresh" /\ conns[c].node = n

(* Connections, entries and connecting tasks name what they were made with. *)
Carried ==
    \A c \in Conns : conns[c].st # "fresh" =>
        conns[c].node \in Nodes /\ Reaches(conns[c].via, Jump[conns[c].node])
Entered ==
    \A n \in Nodes : entries[n] # NoEntry => Reaches(entries[n].conn, n)
Equipped ==
    \A p \in Tasks : task[p].pc = "connect" => Reaches(task[p].conn, Jump[task[p].at])

TunnelInv == Carried /\ Entered /\ Equipped

(* Nothing but a restart makes a connection forget its node. *)
LEMMA ReachesKept ==
    ASSUME \A c \in Conns : conns[c].st # "fresh" =>
               conns'[c].st # "fresh" /\ conns'[c].node = conns[c].node,
           NEW c, NEW n, Reaches(c, n)
    PROVE  Reaches(c, n)'
BY DEF Reaches

(* acquire(n) hands its connection to a frame that wanted n as its jump host. *)
LEMMA ReturnEquips ==
    ASSUME TypeOK, NEW p \in Tasks, NEW n \in Nodes, NEW c \in Conns, Return(p, n, c),
           task'[p].pc = "connect"
    PROVE  Jump[task'[p].at] = n /\ task'[p].conn = c
<1>1. PICK pc \in {"held", "connect"}, x \in Nodes :
          Goto(p, pc, x, c) /\ (pc = "connect" => Jump[x] = n)
  BY DEF Return
<1>2. task'[p].pc = pc /\ task'[p].at = x /\ task'[p].conn = c
  BY <1>1 DEF Goto, TypeOK
<1>3. QED BY <1>1, <1>2

LEMMA TunnelStep ==
    ASSUME PoolInv, TunnelInv, [Next]_poolVars
    PROVE  TunnelInv'
<1> USE DEF TunnelInv
<1>1. ASSUME UNCHANGED conns,
             \A n \in Nodes : entries'[n] # NoEntry =>
                 entries[n] # NoEntry /\ entries'[n].conn = entries[n].conn,
             \A p \in Tasks : task'[p].pc = "connect" =>
                 \/ task'[p] = task[p]
                 \/ Reaches(task'[p].conn, Jump[task'[p].at])
      PROVE  TunnelInv'
  <2>1. \A c, n : Reaches(c, n)' = Reaches(c, n)
    BY <1>1 DEF Reaches
  <2>2. Carried'
    BY <1>1, <2>1 DEF Carried
  <2>3. Entered'
    BY <1>1, <2>1 DEF Entered
  <2>4. Equipped'
    BY <1>1, <2>1 DEF Equipped
  <2>5. QED BY <2>2, <2>3, <2>4
<1>2. ASSUME UNCHANGED task,
             \A c \in Conns : /\ conns[c].st # "fresh" <=> conns'[c].st # "fresh"
                              /\ conns'[c].node = conns[c].node
                              /\ conns'[c].via = conns[c].via,
             \A n \in Nodes : entries'[n] \in {entries[n], NoEntry}
      PROVE  TunnelInv'
  <2>1. \A c, n : Reaches(c, n)' = Reaches(c, n)
    BY <1>2 DEF Reaches
  <2>2. Carried'
    BY <1>2, <2>1 DEF Carried
  <2>3. Entered'
    BY <1>2, <2>1 DEF Entered
  <2>4. Equipped'
    BY <1>2, <2>1 DEF Equipped
  <2>5. QED BY <2>2, <2>3, <2>4
<1>3. ASSUME NEW p \in Tasks, NEW n \in Nodes, Acquire(p, n)
      PROVE  TunnelInv'
  <2>1. /\ UNCHANGED <<entries, conns>> /\ task'[p].pc = "acquire"
        /\ \A q \in Tasks \ {p} : task'[q] = task[q]
    BY <1>3 DEF Acquire, Quiet, PoolInv, TypeOK
  <2>2. QED BY <1>1, <2>1
<1>4. ASSUME NEW p \in Tasks, NEW n \in Nodes, task[p].at = n, Live(n),
             entries' = [entries EXCEPT ![n].idle = FALSE],
             Return(p, n, entries[n].conn), UNCHANGED conns
      PROVE  TunnelInv'
  <2>1. entries[n].conn \in Conns /\ entries[n] # NoEntry
    BY <1>4, LiveFacts DEF PoolInv
  <2>2. /\ entries'[n].conn = entries[n].conn
        /\ \A x \in Nodes \ {n} : entries'[x] = entries[x]
    BY <1>4, <2>1, TouchFacts DEF PoolInv
  <2>3. \A q \in Tasks \ {p} : task'[q] = task[q]
    BY <1>4, <2>1, ReturnFacts DEF PoolInv
  <2>4. task'[p].pc = "connect" => Jump[task'[p].at] = n /\ task'[p].conn = entries[n].conn
    BY <1>4, <2>1, ReturnEquips DEF PoolInv
  <2>5. Reaches(entries[n].conn, n)
    BY <2>1 DEF Entered
  <2>6. Carried' /\ Equipped'
    <3>1. \A c, x : Reaches(c, x)' = Reaches(c, x)
      BY <1>4 DEF Reaches
    <3>2. Carried'
      BY <1>4, <3>1 DEF Carried
    <3>3. Equipped'
      BY <2>3, <2>4, <2>5, <3>1 DEF Equipped
    <3>4. QED BY <3>2, <3>3
  <2>7. Entered'
    BY <1>4, <2>1, <2>2, <2>5 DEF Entered, Reaches
  <2>8. QED BY <2>6, <2>7
<1>5. ASSUME NEW p \in Tasks, Look(p)
      PROVE  TunnelInv'
  <2>1. task[p].at \in Nodes
    BY <1>5 DEF Look, PoolInv, Placed
  <2>2. CASE Live(task[p].at)
    BY <1>4, <1>5, <2>1, <2>2 DEF Look
  <2>3. CASE ~Live(task[p].at)
    <3>1. /\ UNCHANGED <<entries, conns>> /\ Goto(p, "wait", task[p].at, None)
      BY <1>5, <2>3 DEF Look
    <3>2. task'[p].pc = "wait" /\ \A q \in Tasks \ {p} : task'[q] = task[q]
      BY <2>1, <3>1, GotoFacts DEF PoolInv
    <3>3. QED BY <1>1, <3>1, <3>2
  <2>4. QED BY <2>2, <2>3
<1>6. ASSUME NEW p \in Tasks, LookAgain(p)
      PROVE  TunnelInv'
  <2>1. task[p].at \in Nodes
    BY <1>6 DEF LookAgain, PoolInv, Placed
  <2>2. CASE Live(task[p].at)
    BY <1>4, <1>6, <2>1, <2>2 DEF LookAgain
  <2>3. CASE ~Live(task[p].at)
    <3>1. /\ entries' = [entries EXCEPT ![task[p].at] = NoEntry] /\ UNCHANGED conns
          /\ \/ Jump[task[p].at] = None /\ Goto(p, "connect", task[p].at, None)
             \/ Jump[task[p].at] # None /\ Goto(p, "acquire", Jump[task[p].at], None)
      BY <1>6, <2>3 DEF LookAgain
    <3>2. \A n \in Nodes : entries'[n] = NoEntry \/ entries'[n] = entries[n]
      BY <2>1, <3>1 DEF PoolInv, TypeOK
    <3>3. CASE Jump[task[p].at] = None /\ Goto(p, "connect", task[p].at, None)
      <4>1. task'[p].conn = None /\ task'[p].at = task[p].at
        BY <3>3 DEF Goto, PoolInv, TypeOK
      <4>2. \A q \in Tasks \ {p} : task'[q] = task[q]
        BY <2>1, <3>3, GotoFacts DEF PoolInv
      <4>3. Reaches(task'[p].conn, Jump[task'[p].at])
        BY <3>3, <4>1 DEF Reaches
      <4>4. QED BY <1>1, <3>1, <3>2, <4>2, <4>3
    <3>4. CASE Jump[task[p].at] # None /\ Goto(p, "acquire", Jump[task[p].at], None)
      <4>1. Jump[task[p].at] \in Nodes
        BY <2>1, <3>4, PoolAssumption
      <4>2. task'[p].pc = "acquire" /\ \A q \in Tasks \ {p} : task'[q] = task[q]
        BY <3>4, <4>1, GotoFacts DEF PoolInv
      <4>3. QED BY <1>1, <3>1, <3>2, <4>2
    <3>5. QED BY <3>1, <3>3, <3>4
  <2>4. QED BY <2>2, <2>3
<1>7. ASSUME NEW p \in Tasks, NEW c \in Conns, Connected(p, c)
      PROVE  TunnelInv'
  <2>1. PICK n \in Nodes : task[p].at = n
    BY <1>7 DEF Connected, PoolInv, Placed
  <2>2. /\ conns[c].st = "fresh" /\ Return(p, n, c) /\ task[p].pc = "connect"
        /\ conns' = [conns EXCEPT ![c] = [st |-> "open", node |-> n, via |-> task[p].conn]]
        /\ entries' = [entries EXCEPT ![n] = [conn |-> c, pinned |-> 0, idle |-> FALSE]]
    BY <1>7, <2>1 DEF Connected
  <2>3. /\ conns'[c].st = "open" /\ conns'[c].node = n /\ conns'[c].via = task[p].conn
        /\ \A d \in Conns \ {c} : conns'[d] = conns[d]
        /\ entries'[n].conn = c /\ \A x \in Nodes \ {n} : entries'[x] = entries[x]
    BY <2>1, <2>2 DEF PoolInv, TypeOK
  <2>4. \A d, x : Reaches(d, x) => Reaches(d, x)'
    BY <2>2, <2>3 DEF Reaches
  <2>5. Reaches(c, n)'
    BY <2>1, <2>3, PoolAssumption DEF Reaches
  <2>6. Carried'
    <3>1. Reaches(task[p].conn, Jump[n])
      BY <2>1, <2>2 DEF Equipped
    <3>2. ASSUME NEW d \in Conns, NEW via, NEW node, conns'[d].via = via,
                 conns'[d].node = node, conns'[d].st # "fresh"
          PROVE  node \in Nodes /\ Reaches(via, Jump[node])
      <4>1. CASE d = c
        BY <2>1, <2>3, <3>1, <3>2, <4>1
      <4>2. CASE d # c
        BY <2>3, <3>2, <4>2 DEF Carried
      <4>3. QED BY <4>1, <4>2
    <3>3. ASSUME NEW d \in Conns, NEW via, NEW node, conns'[d].via = via,
                 conns'[d].node = node, conns'[d].st # "fresh"
          PROVE  node \in Nodes /\ Reaches(via, Jump[node])'
      BY <2>4, <3>2, <3>3
    <3>4. QED BY <3>3 DEF Carried, Reaches
  <2>7. Entered'
    BY <2>3, <2>4, <2>5 DEF Entered, Reaches
  <2>8. Equipped'
    <3>1. \A q \in Tasks \ {p} : task'[q] = task[q]
      BY <2>1, <2>2, ReturnFacts DEF PoolInv
    <3>2. task'[p].pc = "connect" => Jump[task'[p].at] = n /\ task'[p].conn = c
      BY <2>1, <2>2, ReturnEquips DEF PoolInv
    <3>3. QED BY <2>4, <2>5, <3>1, <3>2 DEF Equipped, Reaches
  <2>9. QED BY <2>6, <2>7, <2>8
<1>8. ASSUME NEW p \in Tasks, Fail(p) \/ Cancel(p) \/ Done(p)
      PROVE  TunnelInv'
  <2>1. UNCHANGED <<entries, conns>> /\ task' = [task EXCEPT ![p] = Quiet]
    BY <1>8 DEF Fail, Cancel, Done, Leave
  <2>2. task'[p].pc = "idle" /\ \A q \in Tasks \ {p} : task'[q] = task[q]
    BY <2>1 DEF Quiet, PoolInv, TypeOK
  <2>3. QED BY <1>1, <2>1, <2>2
<1>9. ASSUME NEW c \in Conns, Drop(c)
      PROVE  TunnelInv'
  <2>1. UNCHANGED <<entries, task>> /\ conns[c].st = "open"
        /\ conns' = [conns EXCEPT ![c].st = "closed"]
    BY <1>9 DEF Drop, IsOpen
  <2>2. \A d \in Conns : /\ conns[d].st # "fresh" <=> conns'[d].st # "fresh"
                         /\ conns'[d].node = conns[d].node
                         /\ conns'[d].via = conns[d].via
    BY <2>1 DEF PoolInv, TypeOK
  <2>3. QED BY <1>2, <2>1, <2>2
<1>10. ASSUME NEW n \in Nodes, Age(n)
       PROVE  TunnelInv'
  <2>1. /\ UNCHANGED <<conns, task>> /\ entries[n] # NoEntry
        /\ \A x \in Nodes \ {n} : entries'[x] = entries[x]
        /\ entries'[n].conn = entries[n].conn
    BY <1>10 DEF Age, PoolInv, TypeOK, Entry
  <2>2. \A x \in Nodes : entries'[x] # NoEntry =>
            entries[x] # NoEntry /\ entries'[x].conn = entries[x].conn
    BY <2>1
  <2>3. QED BY <1>1, <2>1, <2>2
<1>11. ASSUME Reap
       PROVE  TunnelInv'
  <2>1. /\ UNCHANGED task
        /\ \A n \in Nodes : entries'[n] \in {entries[n], NoEntry}
        /\ conns' = [c \in Conns |-> IF \E n \in Expired : entries[n].conn = c
                                     THEN [conns[c] EXCEPT !.st = "closed"] ELSE conns[c]]
    BY <1>11 DEF Reap
  <2>2. \A n \in Expired : entries[n] # NoEntry /\ Reaches(entries[n].conn, n)
    BY DEF Expired, NoEntry, Entered
  <2>3. ASSUME NEW c \in Conns
        PROVE  /\ conns[c].st # "fresh" <=> conns'[c].st # "fresh"
               /\ conns'[c].node = conns[c].node
               /\ conns'[c].via = conns[c].via
    <3>1. CASE \E n \in Expired : entries[n].conn = c
      <4>1. conns'[c] = [conns[c] EXCEPT !.st = "closed"]
        BY <2>1, <3>1
      <4>2. conns[c].st # "fresh"
        BY <2>2, <3>1, PoolAssumption DEF Reaches, Expired
      <4>3. QED BY <4>1, <4>2 DEF PoolInv, TypeOK
    <3>2. CASE ~ \E n \in Expired : entries[n].conn = c
      BY <2>1, <3>2
    <3>3. QED BY <3>1, <3>2
  <2>4. QED BY <1>2, <2>1, <2>3
<1>12. ASSUME Restart
       PROVE  TunnelInv'
  <2>1. Carried'
    BY <1>12 DEF Restart, Carried
  <2>2. Entered'
    BY <1>12 DEF Restart, Entered
  <2>3. Equipped'
    BY <1>12 DEF Restart, Equipped, Quiet
  <2>4. QED BY <2>1, <2>2, <2>3
<1>13. CASE UNCHANGED poolVars
  BY SMTT(30), <1>1, <1>13 DEF poolVars
<1>14. QED
  BY <1>3, <1>5, <1>6, <1>7, <1>8, <1>9, <1>10, <1>11, <1>12, <1>13 DEF Next, Step, World

(* An open connection runs through a connection of its jump host, at every
   level of the recursion, whatever calls and losses came in between. *)
THEOREM AlwaysThroughJump == Spec => []ThroughJump
<1>1. Init => TunnelInv
  BY DEF Init, TunnelInv, Carried, Entered, Equipped, Quiet
<1>2. PoolInv /\ TunnelInv /\ [Next]_poolVars => TunnelInv'
  BY TunnelStep
<1>3. TunnelInv => ThroughJump
  BY PoolAssumption DEF TunnelInv, Carried, Reaches, ThroughJump, IsOpen
<1>4. QED BY <1>1, <1>2, <1>3, PoolInvariant, PTL DEF Spec

------------------------------------------------------------------------------
(* The pool implements ConnCache. *)
Busy == {"acquire", "wait", "connect"}

(* A call knows which node it wants until it is over. *)
Wanting ==
    \A p \in Tasks : task[p].want \in (IF task[p].pc = "idle" THEN {None} ELSE Nodes)

(* What a step may do to a call: nothing, begin it, go on, answer it with a connection that
   is open now, or end it. *)
Moves(q) ==
    \/ task'[q] = task[q]
    \/ task[q].pc = "idle" /\ task'[q].pc = "acquire" /\ task'[q].want \in Nodes
    \/ task[q].pc \in Busy /\ task'[q].pc \in Busy /\ task'[q].want = task[q].want
    \/ /\ task[q].pc \in Busy /\ task'[q].pc = "held" /\ task'[q].want = task[q].want
       /\ OpenTo(task[q].want)' # {}
    \/ task'[q] = Quiet

(* acquire(n) returns a connection of n, to the call or to a frame of it. *)
LEMMA ReturnMoves ==
    ASSUME TypeOK, NEW p \in Tasks, NEW n \in Nodes, NEW c \in Conns, Return(p, n, c),
           task[p].pc \in Busy, c \in OpenTo(n)'
    PROVE  \A q \in Tasks : Moves(q)
<1>1. \A q \in Tasks \ {p} : task'[q] = task[q]
  BY DEF Return, Goto, TypeOK
<1>2. CASE n = task[p].want
  <2>0. Goto(p, "held", n, c)
    BY <1>2 DEF Return
  <2>1. task'[p].pc = "held" /\ task'[p].want = task[p].want
    BY <2>0 DEF Goto, TypeOK
  <2>2. OpenTo(task[p].want)' # {}
    BY <1>2, <2>1 DEF OpenTo, IsOpen
  <2>3. QED BY <1>1, <2>1, <2>2 DEF Moves
<1>3. CASE n # task[p].want
  <2>1. task'[p].pc = "connect" /\ task'[p].want = task[p].want
    BY <1>3 DEF Return, Goto, TypeOK
  <2>2. QED BY <1>1, <2>1 DEF Moves, Busy
<1>4. QED BY <1>2, <1>3

(* The entry a look finds alive is a connection of its node. *)
LEMMA LiveOpen ==
    ASSUME TypeOK, TunnelInv, NEW n \in Nodes, Live(n), UNCHANGED conns
    PROVE  entries[n].conn \in Conns /\ entries[n].conn \in OpenTo(n)'
<1>1. entries[n].conn \in Conns /\ entries[n] # NoEntry /\ IsOpen(entries[n].conn)
  BY LiveFacts DEF Live
<1>2. conns[entries[n].conn].node = n
  BY <1>1, PoolAssumption DEF TunnelInv, Entered, Reaches
<1>3. QED BY <1>1, <1>2 DEF OpenTo, IsOpen

LEMMA CallStep ==
    ASSUME PoolInv, TunnelInv, Wanting, [Next]_poolVars
    PROVE  \A q \in Tasks : Moves(q)
<1>0. TypeOK /\ Placed
  BY DEF PoolInv
<1>1. ASSUME NEW p \in Tasks, NEW n \in Nodes, Acquire(p, n)
      PROVE  \A q \in Tasks : Moves(q)
  <2>1. /\ task[p].pc = "idle" /\ task'[p].pc = "acquire" /\ task'[p].want = n
        /\ \A q \in Tasks \ {p} : task'[q] = task[q]
    BY <1>0, <1>1 DEF Acquire, TypeOK, Quiet
  <2>2. QED BY <2>1 DEF Moves
<1>a. ASSUME NEW p \in Tasks, NEW n \in Nodes, NEW c \in Conns \cup {None}, NEW pc \in Busy,
             task[p].pc \in Busy, Goto(p, pc, n, c)
      PROVE  \A q \in Tasks : Moves(q)
  <2>1. /\ task'[p].pc = pc /\ task'[p].want = task[p].want
        /\ \A q \in Tasks \ {p} : task'[q] = task[q]
    BY <1>0, <1>a DEF Goto, TypeOK
  <2>2. QED BY <1>a, <2>1 DEF Moves
<1>2. ASSUME NEW p \in Tasks, Look(p)
      PROVE  \A q \in Tasks : Moves(q)
  <2>1. PICK n \in Nodes : task[p].at = n
    BY <1>0, <1>2 DEF Look, Placed
  <2>2. task[p].pc \in Busy /\ UNCHANGED conns
    BY <1>2 DEF Look, Busy
  <2>3. CASE Live(n)
    <3>1. Return(p, n, entries[n].conn)
      BY <1>2, <2>1, <2>3 DEF Look
    <3>2. QED BY <1>0, <2>2, <2>3, <3>1, LiveOpen, ReturnMoves
  <2>4. CASE ~ Live(n)
    <3>1. Goto(p, "wait", n, None)
      BY <1>2, <2>1, <2>4 DEF Look
    <3>2. QED BY <1>a, <2>2, <3>1 DEF Busy
  <2>5. QED BY <2>3, <2>4
<1>3. ASSUME NEW p \in Tasks, LookAgain(p)
      PROVE  \A q \in Tasks : Moves(q)
  <2>1. PICK n \in Nodes : task[p].at = n
    BY <1>0, <1>3 DEF LookAgain, Placed
  <2>2. task[p].pc \in Busy /\ UNCHANGED conns
    BY <1>3 DEF LookAgain, Busy
  <2>3. CASE Live(n)
    <3>1. Return(p, n, entries[n].conn)
      BY <1>3, <2>1, <2>3 DEF LookAgain
    <3>2. QED BY <1>0, <2>2, <2>3, <3>1, LiveOpen, ReturnMoves
  <2>4. CASE ~ Live(n)
    <3>1. \/ Goto(p, "connect", n, None)
          \/ Jump[n] # None /\ Goto(p, "acquire", Jump[n], None)
      BY <1>3, <2>1, <2>4 DEF LookAgain
    <3>2. Jump[n] \in Nodes \cup {None}
      BY PoolAssumption
    <3>3. QED BY <1>a, <2>2, <3>1, <3>2 DEF Busy
  <2>5. QED BY <2>3, <2>4
<1>4. ASSUME NEW p \in Tasks, NEW c \in Conns, Connected(p, c)
      PROVE  \A q \in Tasks : Moves(q)
  <2>1. PICK n \in Nodes : task[p].at = n
    BY <1>0, <1>4 DEF Connected, Placed
  <2>2. task[p].pc \in Busy /\ Return(p, n, c)
    BY <1>4, <2>1 DEF Connected, Busy
  <2>3. conns'[c].st = "open" /\ conns'[c].node = n
    BY <1>0, <1>4, <2>1 DEF Connected, TypeOK
  <2>4. c \in OpenTo(n)'
    BY <2>3 DEF OpenTo, IsOpen
  <2>5. QED BY <1>0, <2>2, <2>4, ReturnMoves
<1>5. ASSUME NEW p \in Tasks, Fail(p) \/ Cancel(p) \/ Done(p)
      PROVE  \A q \in Tasks : Moves(q)
  <2>1. task' = [task EXCEPT ![p] = Quiet]
    BY <1>5 DEF Fail, Cancel, Leave, Done
  <2>2. QED BY <1>0, <2>1 DEF Moves, TypeOK
<1>6. CASE World \/ UNCHANGED poolVars
  BY <1>6 DEF World, Drop, Age, Reap, Restart, poolVars, Moves
<1>7. QED BY <1>1, <1>2, <1>3, <1>4, <1>5, <1>6 DEF Next, Step

LEMMA WantingStep ==
    ASSUME TypeOK, Wanting, \A q \in Tasks : Moves(q)
    PROVE  Wanting'
BY DEF Wanting, Moves, Busy, Quiet, TypeOK

(* Calls of the pool are calls of the cache. *)
LEMMA AskStep ==
    ASSUME TypeOK, Wanting, NEW q \in Tasks, Moves(q)
    PROVE  \/ askBar'[q] = askBar[q]
           \/ Cache!Asks(q) \/ Cache!Answered(q) \/ Cache!Refused(q)
<1>1. CASE task'[q] = task[q]
  BY <1>1 DEF askBar
<1>2. CASE task[q].pc = "idle" /\ task'[q].pc = "acquire" /\ task'[q].want \in Nodes
  <2>1. task[q].want = None
    BY <1>2 DEF Wanting
  <2>2. QED BY <1>2, <2>1 DEF askBar, Cache!Asks, Cache!NoAsk
<1>3. CASE task[q].pc \in Busy /\ task'[q].pc \in Busy /\ task'[q].want = task[q].want
  BY <1>3 DEF askBar, Busy
<1>4. CASE /\ task[q].pc \in Busy /\ task'[q].pc = "held" /\ task'[q].want = task[q].want
           /\ OpenTo(task[q].want)' # {}
  <2>1. task[q].want \in Nodes
    BY <1>4 DEF Wanting, Busy
  <2>2. slotBar'[task[q].want] = "live"
    BY <1>4, <2>1 DEF slotBar
  <2>3. QED BY <1>4, <2>1, <2>2 DEF askBar, Cache!Answered, Busy
<1>5. CASE task'[q] = Quiet
  BY <1>5 DEF askBar, Quiet, Cache!Refused, Cache!NoAsk
<1>6. QED BY <1>1, <1>2, <1>3, <1>4, <1>5 DEF Moves

(* A node's slot becomes live only by the connect that was under way, since a node has
   one connection at most. *)
LEMMA SlotMoves ==
    ASSUME PoolInv, [Next]_poolVars, NEW m \in Nodes
    PROVE  Cache!SlotStep(m)
<1>0. TypeOK /\ SingleFlight
  BY PoolSingle DEF PoolInv
<1> USE DEF slotBar, Cache!SlotStep
<1>1. CASE OpenTo(m)' = OpenTo(m)
  <2>1. slotBar'[m] = slotBar[m] \/ {slotBar[m], slotBar'[m]} = {"none", "opening"}
    BY <1>1
  <2>2. QED BY <2>1
<1>2. CASE UNCHANGED task /\ OpenTo(m)' \subseteq OpenTo(m)
  <2>1. Connecting(m)' = Connecting(m)
    BY <1>2 DEF Connecting
  <2>2. OpenTo(m) # {} => Connecting(m) = {}
    BY <1>0 DEF SingleFlight
  <2>3. QED BY <1>2, <2>1, <2>2
<1>3. CASE UNCHANGED conns
  <2>1. OpenTo(m)' = OpenTo(m)
    BY <1>3 DEF OpenTo, IsOpen
  <2>2. QED BY <1>1, <2>1
<1>4. CASE Restart
  <2>1. OpenTo(m)' = {} /\ Connecting(m)' = {}
    BY <1>4 DEF Restart, OpenTo, IsOpen, Connecting, Quiet
  <2>2. QED BY <2>1
<1>5. CASE Reap \/ \E c \in Conns : Drop(c)
  <2>1. UNCHANGED task /\ \A c \in Conns : IsOpen(c)' => conns'[c] = conns[c]
    BY <1>0, <1>5 DEF Reap, Drop, TypeOK, IsOpen
  <2>2. OpenTo(m)' \subseteq OpenTo(m)
    BY <2>1 DEF OpenTo, IsOpen
  <2>3. QED BY <1>2, <2>1, <2>2
<1>6. ASSUME NEW p \in Tasks, NEW c \in Conns, Connected(p, c)
      PROVE  Cache!SlotStep(m)
  <2>1. /\ task[p].pc = "connect" /\ conns[c].st = "fresh"
        /\ conns'[c].st = "open" /\ conns'[c].node = task[p].at
        /\ \A d \in Conns \ {c} : conns'[d] = conns[d]
    BY <1>0, <1>6 DEF Connected, TypeOK
  <2>2. CASE task[p].at = m
    <3>1. p \in Connecting(m) /\ c \in OpenTo(m)'
      BY <2>1, <2>2 DEF Connecting, OpenTo, IsOpen
    <3>2. OpenTo(m) = {}
      BY <1>0, <3>1 DEF SingleFlight
    <3>3. QED BY <3>1, <3>2
  <2>3. CASE task[p].at # m
    <3>1. OpenTo(m)' = OpenTo(m)
      BY <2>1, <2>3 DEF OpenTo, IsOpen
    <3>2. QED BY <1>1, <3>1
  <2>4. QED BY <2>2, <2>3
<1>7. ASSUME NEW p \in Tasks, NEW n \in Nodes,
             Acquire(p, n) \/ Look(p) \/ LookAgain(p) \/ Fail(p) \/ Cancel(p) \/ Done(p)
      PROVE  UNCHANGED conns
  BY <1>7 DEF Acquire, Look, LookAgain, Fail, Cancel, Leave, Done
<1>8. QED
  BY <1>3, <1>4, <1>5, <1>6, <1>7 DEF Next, Step, World, Age, poolVars

(* Every behaviour of the pool, seen through the mapping, is one of the cache its
   documentation describes: a slot per node that opens before it is live, and calls that are
   answered only with a connection that is (CacheOfConnections). *)
THEOREM PoolIsCache == Spec => CacheOfConnections
<1>1. Init => TunnelInv /\ Wanting
  BY DEF Init, TunnelInv, Carried, Entered, Equipped, Wanting, Quiet
<1>2. PoolInv /\ TunnelInv /\ Wanting /\ [Next]_poolVars => (TunnelInv /\ Wanting)'
  BY TunnelStep, CallStep, WantingStep DEF PoolInv
<1>3. Spec => [](PoolInv /\ TunnelInv /\ Wanting)
  BY <1>1, <1>2, PoolInvariant, PTL DEF Spec
<1>4. Init => Cache!Init
  BY DEF Init, Cache!Init, slotBar, askBar, OpenTo, IsOpen, Connecting, Quiet, Cache!NoAsk
<1>5. ASSUME PoolInv, Wanting, Wanting', TunnelInv, [Next]_poolVars
      PROVE  Cache!Next
  <2>1. slotBar' \in [Nodes -> {"none", "opening", "live"}]
    BY DEF slotBar
  <2>2. askBar' \in [Tasks -> Cache!Requests]
    BY <1>5 DEF askBar, Cache!Requests, Wanting
  <2>3. \A n \in Nodes : Cache!SlotStep(n)
    BY <1>5, SlotMoves
  <2>4. \A q \in Tasks : askBar'[q] = askBar[q] \/ Cache!Asks(q) \/ Cache!Answered(q)
                            \/ Cache!Refused(q)
    BY <1>5, CallStep, AskStep DEF PoolInv
  <2>5. QED BY <2>1, <2>2, <2>3, <2>4 DEF Cache!Next
<1>6. QED BY <1>3, <1>4, <1>5, PTL DEF Spec, CacheOfConnections, Cache!Spec
==============================================================================
