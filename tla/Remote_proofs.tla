---------------------------- MODULE Remote_proofs ----------------------------
(* Proofs about what runs on a node: a shell session, for any number of calls and every
   size of its buffers; a command's output, for every cap and any number of hosts; and the
   backups of files, for any number of writers.  The three share no state. *)
EXTENDS MCRemote, FiniteSetTheorems, SequenceTheorems, TLAPS

------------------------------------------------------------------------------
(* The shell session. *)
(* Whoever sets the closed flag has closed the channel, or found it closed: what a queued
   call writes cannot reach the shell. *)
ClosedIsCut == closed => ~ channel

IInv ==
    /\ {closed, channel} \subseteq BOOLEAN
    /\ pc \in [Runs -> {"idle", "waiting", "reading", "done"}]
    /\ ClosedIsCut

(* A step after which no call is reading that was not before, unless the session is open. *)
Step == IInv' /\ (closed => \A r \in Runs : pc[r] # "reading" => pc'[r] # "reading")

LEMMA EndsStep ==
    ASSUME IInv, NEW r \in Runs, NEW how, Ends(r, how), {closed', channel'} \subseteq BOOLEAN,
           closed' => ~ channel'
    PROVE  Step
<1>1. pc' = [pc EXCEPT ![r] = "done"]
  BY DEF Ends
<1>2. QED BY <1>1 DEF IInv, ClosedIsCut, Step

LEMMA WriteStep ==
    ASSUME IInv, NEW r \in Runs, Write(r), UNCHANGED <<closed, channel>>
    PROVE  Step
BY DEF Write, IInv, ClosedIsCut, Step

LEMMA CloseFacts ==
    ASSUME IInv, Close
    PROVE  {closed', channel'} \subseteq BOOLEAN /\ ~ channel'
BY DEF Close, IInv, ClosedIsCut

LEMMA ShellStep ==
    ASSUME IInv, [Next]_vars
    PROVE  Step
<1>1. CASE Shell
  <2>1. UNCHANGED <<closed, pc>> /\ (channel' = channel \/ channel' = FALSE)
    BY <1>1 DEF Shell, ShellPrints, CommandEnds, ShellDies
  <2>2. CASE channel' = channel
    BY <2>1, <2>2 DEF IInv, ClosedIsCut, Step
  <2>3. CASE channel' = FALSE
    BY <2>1, <2>3 DEF IInv, ClosedIsCut, Step
  <2>4. QED BY <2>1, <2>2, <2>3
<1>2. CASE Edit
  BY <1>2 DEF Edit, IInv, ClosedIsCut, Step
<1>3. CASE ShellClose
  BY <1>3, CloseFacts DEF ShellClose, IInv, ClosedIsCut, Step
<1>4. ASSUME NEW r \in Runs, ShellRun(r)
      PROVE  Step
  <2>1. UNCHANGED <<closed, channel>>
    BY <1>4 DEF ShellRun
  <2>2. CASE closed \/ ~ granted
    BY <1>4, <2>1, <2>2 DEF ShellRun, IInv, ClosedIsCut, Step
  <2>3. CASE ~ closed /\ granted /\ line = <<>>
    BY <1>4, <2>1, <2>3, WriteStep DEF ShellRun
  <2>4. CASE ~ closed /\ granted /\ line # <<>>
    <3>1. pc' = [pc EXCEPT ![r] = "waiting"]
      BY <1>4, <2>4 DEF ShellRun
    <3>2. QED BY <2>1, <3>1 DEF IInv, ClosedIsCut, Step
  <2>5. QED BY <2>2, <2>3, <2>4
<1>5. ASSUME NEW r \in Runs, Locked(r)
      PROVE  Step
  BY <1>5, WriteStep DEF Locked
<1>6. ASSUME NEW r \in Runs, Read(r)
      PROVE  Step
  <2>1. UNCHANGED <<closed, channel>> /\ (UNCHANGED pc \/ Ends(r, "answered"))
    BY <1>6 DEF Read, Answered
  <2>2. CASE UNCHANGED pc
    BY <2>1, <2>2 DEF IInv, ClosedIsCut, Step
  <2>3. CASE Ends(r, "answered")
    BY <2>1, <2>3, EndsStep DEF IInv, ClosedIsCut
  <2>4. QED BY <2>1, <2>2, <2>3
<1>7. ASSUME NEW r \in Runs, ReadEnd(r)
      PROVE  Step
  BY <1>7, EndsStep DEF ReadEnd, IInv
<1>8. ASSUME NEW r \in Runs, Timeout(r)
      PROVE  Step
  BY <1>8, EndsStep, CloseFacts DEF Timeout
<1>9. ASSUME NEW r \in Runs, Cancel(r)
      PROVE  Step
  BY <1>9, EndsStep DEF Cancel, IInv, ClosedIsCut
<1>10. CASE UNCHANGED vars
  BY <1>10 DEF vars, IInv, ClosedIsCut, Step
<1>11. QED
  BY <1>1, <1>2, <1>3, <1>4, <1>5, <1>6, <1>7, <1>8, <1>9, <1>10 DEF Next, Calls

(* A call that was queued when the session was destroyed runs nothing on it
   (DestroyedRunsNothing). *)
THEOREM NothingAfterTheEnd == Spec => DestroyedRunsNothing
<1>1. Init => IInv
  BY DEF Init, IInv, ClosedIsCut
<1>2. IInv /\ [Next]_vars => IInv'
  BY ShellStep DEF Step
<1>3. IInv /\ [Next]_vars
        => [closed => \A r \in Runs : pc[r] # "reading" => pc'[r] # "reading"]_vars
  BY ShellStep DEF Step
<1>4. QED BY <1>1, <1>2, <1>3, PTL DEF Spec, DestroyedRunsNothing

------------------------------------------------------------------------------
(* What a call's answer holds. *)
(* A sequence without its i-th element. *)
LEMMA WithoutPlace ==
    ASSUME NEW S, NEW s \in Seq(S), NEW i \in 1..Len(s)
    PROVE  \E t \in Seq(S) :
              /\ t = SubSeq(s, 1, i - 1) \o SubSeq(s, i + 1, Len(s))
              /\ Len(t) = Len(s) - 1
              /\ \A k \in 1..Len(s) - 1 : t[k] = IF k < i THEN s[k] ELSE s[k + 1]
<1> DEFINE head == SubSeq(s, 1, i - 1)
<1> DEFINE tail == SubSeq(s, i + 1, Len(s))
<1>0. Len(s) \in Nat /\ i \in Nat /\ i >= 1 /\ i <= Len(s)
  OBVIOUS
<1>1. /\ head \in Seq(S) /\ Len(head) = i - 1
      /\ \A k \in 1..i - 1 : head[k] = s[k]
  <2>1. \A k \in 1..i - 1 : s[k] \in S
    BY <1>0, ElementOfSeq
  <2>2. PICK m \in Int : m = i - 1
    BY <1>0
  <2>3. /\ SubSeq(s, 1, m) \in Seq(S) /\ Len(SubSeq(s, 1, m)) = IF 1 <= m THEN m - 1 + 1 ELSE 0
        /\ \A k \in 1..m - 1 + 1 : SubSeq(s, 1, m)[k] = s[1 + k - 1]
    BY <2>1, <2>2, SubSeqProperties
  <2>4. QED BY <1>0, <2>2, <2>3
<1>2. /\ tail \in Seq(S) /\ Len(tail) = Len(s) - i
      /\ \A k \in 1..Len(s) - i : tail[k] = s[i + k]
  <2>1. \A k \in i + 1..Len(s) : s[k] \in S
    BY <1>0, ElementOfSeq
  <2>2. PICK m \in Int : m = i + 1
    BY <1>0
  <2>3. PICK n \in Int : n = Len(s)
    BY <1>0
  <2>4. /\ SubSeq(s, m, n) \in Seq(S) /\ Len(SubSeq(s, m, n)) = IF m <= n THEN n - m + 1 ELSE 0
        /\ \A k \in 1..n - m + 1 : SubSeq(s, m, n)[k] = s[m + k - 1]
    BY <2>1, <2>2, <2>3, SubSeqProperties
  <2>5. QED BY <1>0, <2>2, <2>3, <2>4
<1> HIDE DEF head, tail
<1>3. /\ head \o tail \in Seq(S) /\ Len(head \o tail) = Len(head) + Len(tail)
      /\ \A k \in 1..Len(head) + Len(tail) :
            (head \o tail)[k] = IF k <= Len(head) THEN head[k] ELSE tail[k - Len(head)]
  BY <1>1, <1>2, ConcatProperties
<1>4. PICK t : t = head \o tail
  OBVIOUS
<1>5. Len(t) = Len(s) - 1
  <2>1. Len(t) = Len(head) + Len(tail)
    BY <1>3, <1>4
  <2>2. Len(t) = (i - 1) + (Len(s) - i)
    BY <1>1, <1>2, <2>1
  <2>3. QED BY <1>0, <2>2
<1>6. ASSUME NEW k \in 1..Len(s) - 1
      PROVE  t[k] = IF k < i THEN s[k] ELSE s[k + 1]
  <2>0. k \in Int /\ k >= 1 /\ k <= Len(s) - 1
    BY <1>0
  <2>1. t[k] = IF k <= i - 1 THEN head[k] ELSE tail[k - (i - 1)]
    <3>1. Len(head) + Len(tail) = Len(s) - 1
      BY <1>3, <1>4, <1>5
    <3>2. t[k] = IF k <= Len(head) THEN head[k] ELSE tail[k - Len(head)]
      BY <1>3, <1>4, <3>1
    <3>3. QED BY <1>1, <3>2
  <2>2. CASE k < i
    <3>1. k <= i - 1 /\ k \in 1..i - 1
      BY <1>0, <2>0, <2>2
    <3>2. t[k] = head[k]
      BY <2>1, <3>1
    <3>3. QED BY <1>1, <2>2, <3>1, <3>2
  <2>3. CASE ~ (k < i)
    <3>1. k - (i - 1) \in 1..Len(s) - i /\ i + (k - (i - 1)) = k + 1
      BY <1>0, <2>0, <2>3
    <3>2. tail[k - (i - 1)] = s[k + 1]
      BY <1>2, <3>1
    <3>3. ~ (k <= i - 1)
      BY <1>0, <2>0, <2>3
    <3>4. t[k] = s[k + 1]
      BY <2>1, <3>2, <3>3
    <3>5. QED BY <2>3, <3>4
  <2>4. QED BY <2>2, <2>3
<1>7. t \in Seq(S)
  BY <1>3, <1>4
<1>8. t = SubSeq(s, 1, i - 1) \o SubSeq(s, i + 1, Len(s))
  BY <1>4 DEF head, tail
<1>9. QED BY <1>5, <1>6, <1>7, <1>8

(* What read() takes from the stream, and what it leaves. *)
LEMMA Taking ==
    ASSUME NEW S, NEW s \in Seq(S), NEW n \in 1..Len(s)
    PROVE  /\ SubSeq(s, 1, n) \in Seq(S) /\ Len(SubSeq(s, 1, n)) = n
           /\ \A k \in 1..n : SubSeq(s, 1, n)[k] = s[k]
           /\ SubSeq(s, n + 1, Len(s)) \in Seq(S)
           /\ Len(SubSeq(s, n + 1, Len(s))) = Len(s) - n
           /\ \A k \in 1..Len(s) - n : SubSeq(s, n + 1, Len(s))[k] = s[n + k]
<1>0. Len(s) \in Nat /\ n \in Nat /\ n >= 1 /\ n <= Len(s)
  OBVIOUS
<1>1. /\ SubSeq(s, 1, n) \in Seq(S) /\ Len(SubSeq(s, 1, n)) = n
      /\ \A k \in 1..n : SubSeq(s, 1, n)[k] = s[k]
  <2>1. \A k \in 1..n : s[k] \in S
    BY <1>0, ElementOfSeq
  <2>2. /\ SubSeq(s, 1, n) \in Seq(S) /\ Len(SubSeq(s, 1, n)) = IF 1 <= n THEN n - 1 + 1 ELSE 0
        /\ \A k \in 1..n - 1 + 1 : SubSeq(s, 1, n)[k] = s[1 + k - 1]
    BY <1>0, <2>1, SubSeqProperties
  <2>3. QED BY <1>0, <2>2
<1>2. /\ SubSeq(s, n + 1, Len(s)) \in Seq(S) /\ Len(SubSeq(s, n + 1, Len(s))) = Len(s) - n
      /\ \A k \in 1..Len(s) - n : SubSeq(s, n + 1, Len(s))[k] = s[n + k]
  <2>1. \A k \in n + 1..Len(s) : s[k] \in S
    BY <1>0, ElementOfSeq
  <2>2. PICK m \in Int : m = n + 1
    BY <1>0
  <2>3. PICK l \in Int : l = Len(s)
    BY <1>0
  <2>4. /\ SubSeq(s, m, l) \in Seq(S) /\ Len(SubSeq(s, m, l)) = IF m <= l THEN l - m + 1 ELSE 0
        /\ \A k \in 1..l - m + 1 : SubSeq(s, m, l)[k] = s[m + k - 1]
    BY <2>1, <2>2, <2>3, SubSeqProperties
  <2>5. QED BY <1>0, <2>2, <2>3, <2>4
<1>3. QED BY <1>1, <1>2

(* What is trimmed is the beginning of what was read. *)
LEMMA TrimmedFacts ==
    ASSUME NEW S, NEW s \in Seq(S)
    PROVE  /\ Trimmed(s) \in Seq(S) /\ Len(Trimmed(s)) <= 4 * Limit
           /\ \A k \in 1..Len(Trimmed(s)) : \E i \in 1..Len(s) : Trimmed(s)[k] = s[i]
<1>0. Len(s) \in Nat /\ Limit \in Nat \ {0} /\ 4 * Limit \in Nat /\ 2 * Limit \in Nat
      /\ 2 * Limit < 4 * Limit
  BY ShellAssumption
<1>1. CASE Len(s) > 4 * Limit
  <2>1. PICK m \in Int : m = Len(s) - 2 * Limit + 1
    BY <1>0
  <2>2. m >= 1 /\ m <= Len(s)
    BY <1>0, <1>1, <2>1
  <2>3. \A k \in m..Len(s) : s[k] \in S
    BY <1>0, <2>2, ElementOfSeq
  <2>4. /\ SubSeq(s, m, Len(s)) \in Seq(S)
        /\ Len(SubSeq(s, m, Len(s))) = IF m <= Len(s) THEN Len(s) - m + 1 ELSE 0
        /\ \A k \in 1..Len(s) - m + 1 : SubSeq(s, m, Len(s))[k] = s[m + k - 1]
    BY <1>0, <2>3, SubSeqProperties
  <2>5. Trimmed(s) = SubSeq(s, m, Len(s))
    BY <1>1, <2>1 DEF Trimmed
  <2>6. Len(Trimmed(s)) = 2 * Limit
    BY <1>0, <2>1, <2>2, <2>4, <2>5
  <2>7. ASSUME NEW k \in 1..Len(Trimmed(s))
        PROVE  \E i \in 1..Len(s) : Trimmed(s)[k] = s[i]
    <3>1. m + k - 1 \in 1..Len(s) /\ k \in 1..Len(s) - m + 1
      BY <1>0, <2>1, <2>2, <2>6
    <3>2. Trimmed(s)[k] = s[m + k - 1]
      BY <2>4, <2>5, <3>1
    <3>3. QED BY <3>1, <3>2
  <2>8. Trimmed(s) \in Seq(S)
    BY <2>4, <2>5
  <2>9. QED BY <1>0, <2>6, <2>7, <2>8
<1>2. CASE ~ (Len(s) > 4 * Limit)
  BY <1>0, <1>2 DEF Trimmed
<1>3. QED BY <1>1, <1>2

------------------------------------------------------------------------------
(* Whose pieces a reader may meet besides its own: those of calls nobody waits for. *)
Stale(q) == outcome[q] = "cancelled" \/ Torn(q)

Reading == \E r \in Runs : pc[r] = "reading"

(* The line holds who waits or reads, each once; only its first reads. *)
Orderly ==
    /\ \A i, j \in 1..Len(line) : line[i] = line[j] => i = j
    /\ \A r \in Runs : pc[r] \in {"waiting", "reading"} <=> \E i \in 1..Len(line) : line[i] = r
    /\ \A r \in Runs : pc[r] = "reading" => line[1] = r
    /\ \A r \in Runs : pc[r] # "done" => outcome[r] = "none" /\ answer[r] = NoAnswer

(* What the shell has to run is the reader's, or was given up by its caller. *)
Running ==
    /\ closed => ~ channel
    /\ ~ channel => stdin = <<>>
    /\ \A i, j \in 1..Len(stdin) : stdin[i] = stdin[j] => i = j
    /\ \A i \in 1..Len(stdin) :
          /\ stdin[i] \notin ended
          /\ pc[stdin[i]] = "reading" \/ outcome[stdin[i]] = "cancelled"
    /\ \A r \in Runs : pc[r] \in {"idle", "waiting"} => r \notin ended

(* The marker and its tail come when the command has ended, and nothing of it after them. *)
Printed ==
    /\ \A i \in 1..Len(stdout) : stdout[i].kind # "out" => stdout[i].run \in ended
    /\ \A i \in 1..Len(buf) : buf[i].kind # "out" => buf[i].run \in ended
    /\ \A i, j \in 1..Len(stdout) :
           i < j /\ stdout[i].kind = "tail" => stdout[j].run # stdout[i].run
    /\ \A i \in 1..Len(buf), j \in 1..Len(stdout) :
           Reading /\ buf[i].kind = "tail" => stdout[j].run # buf[i].run

(* What a reader has read or will read is its own, or nobody waits for it. *)
Owned(q) == pc[q] = "reading" \/ Stale(q)
Sources ==
    /\ channel \/ Reading => \A i \in 1..Len(stdout) : Owned(stdout[i].run)
    /\ Reading => \A i \in 1..Len(buf) : Owned(buf[i].run)

ShellInv == TypeOK /\ Orderly /\ Running /\ Printed /\ Sources /\ OwnOutput

LEMMA ShellTyped ==
    ASSUME TypeOK
    PROVE  /\ {granted, closed, channel} \subseteq BOOLEAN
           /\ line \in Seq(Runs) /\ stdin \in Seq(Runs)
           /\ Len(line) \in Nat /\ Len(stdin) \in Nat /\ Len(stdout) \in Nat /\ Len(buf) \in Nat
           /\ \A i \in 1..Len(line) : line[i] \in Runs
           /\ \A i \in 1..Len(stdin) : stdin[i] \in Runs
           /\ \A i \in 1..Len(stdout) : stdout[i] \in Piece
           /\ \A i \in 1..Len(buf) : buf[i] \in Piece
<1>1. line \in Seq(Runs) /\ stdin \in Seq(Runs) /\ stdout \in Seq(Piece) /\ buf \in Seq(Piece)
      /\ {granted, closed, channel} \subseteq BOOLEAN
  BY DEF TypeOK
<1>2. QED BY <1>1, ElementOfSeq, LenProperties

(* There is one reader. *)
LEMMA OneReader ==
    ASSUME Orderly, NEW q \in Runs, NEW r \in Runs, pc[q] = "reading", pc[r] = "reading"
    PROVE  q = r
BY DEF Orderly

(* A call leaves the line. *)
LEMMA Leaves ==
    ASSUME TypeOK, Orderly, NEW r \in Runs, NEW how \in Outcomes, Ends(r, how),
           \A q \in Runs : q # r => answer'[q] = answer[q]
    PROVE  /\ Orderly' /\ line' \in Seq(Runs)
           /\ pc' \in [Runs -> {"idle", "waiting", "reading", "done"}] /\ pc'[r] = "done"
           /\ outcome' \in [Runs -> Outcomes] /\ outcome'[r] = how
           /\ \A q \in Runs \ {r} : pc'[q] = pc[q] /\ outcome'[q] = outcome[q]
           /\ pc[r] \in {"waiting", "reading"} /\ outcome[r] = "none" /\ answer[r] = NoAnswer
<1>1. /\ pc' = [pc EXCEPT ![r] = "done"] /\ outcome' = [outcome EXCEPT ![r] = how]
      /\ pc \in [Runs -> {"idle", "waiting", "reading", "done"}]
      /\ outcome \in [Runs -> Outcomes] /\ line \in Seq(Runs) /\ Len(line) \in Nat
  BY ShellTyped DEF Ends, TypeOK
<1>2. /\ pc' \in [Runs -> {"idle", "waiting", "reading", "done"}] /\ pc'[r] = "done"
      /\ outcome' \in [Runs -> Outcomes] /\ outcome'[r] = how
      /\ \A q \in Runs \ {r} : pc'[q] = pc[q] /\ outcome'[q] = outcome[q]
  BY <1>1
<1>3. PICK i \in 1..Len(line) :
          line[i] = r /\ line' = SubSeq(line, 1, i - 1) \o SubSeq(line, i + 1, Len(line))
  BY DEF Ends
<1>4. PICK n \in Nat : n = Len(line) /\ 1 <= i /\ i <= n /\ i \in Nat
  BY <1>1
<1>5. /\ line' \in Seq(Runs) /\ Len(line') = n - 1
      /\ \A k \in 1..n - 1 : line'[k] = IF k < i THEN line[k] ELSE line[k + 1]
  <2>1. PICK t \in Seq(Runs) :
            /\ t = SubSeq(line, 1, i - 1) \o SubSeq(line, i + 1, Len(line))
            /\ Len(t) = Len(line) - 1
            /\ \A k \in 1..Len(line) - 1 : t[k] = IF k < i THEN line[k] ELSE line[k + 1]
    BY <1>1, WithoutPlace, ZenonT(40)
  <2>2. line' = t
    BY <1>3, <2>1
  <2>3. Len(line) - 1 = n - 1
    BY <1>4
  <2>4. QED BY <2>1, <2>2, <2>3
<1>6. pc[r] \in {"waiting", "reading"}
  BY <1>3 DEF Orderly
<1>7. outcome[r] = "none" /\ answer[r] = NoAnswer
  BY <1>6 DEF Orderly
<1>8. \A k, l \in 1..n : line[k] = line[l] => k = l
  BY <1>4 DEF Orderly
<1>9. ASSUME NEW k \in 1..n - 1
      PROVE  \E l \in 1..n : l # i /\ line'[k] = line[l] /\ (l = IF k < i THEN k ELSE k + 1)
  <2>1. CASE k < i
    BY <1>4, <1>5, <2>1
  <2>2. CASE ~ (k < i)
    <3>1. k + 1 \in 1..n /\ k + 1 # i
      BY <1>4, <2>2
    <3>2. QED BY <1>5, <2>2, <3>1
  <2>3. QED BY <2>1, <2>2
<1>10. ASSUME NEW l \in 1..n, l # i
       PROVE  \E k \in 1..n - 1 : line'[k] = line[l] /\ (l < i => k = l)
  <2>1. CASE l < i
    <3>1. l \in 1..n - 1
      BY <1>4, <2>1
    <3>2. QED BY <1>5, <2>1, <3>1
  <2>2. CASE ~ (l < i)
    <3>1. PICK k \in 1..n - 1 : k + 1 = l /\ ~ (k < i)
      <4>1. l - 1 \in 1..n - 1 /\ (l - 1) + 1 = l /\ ~ (l - 1 < i)
        BY <1>4, <1>10, <2>2
      <4>2. QED BY <4>1
    <3>2. line'[k] = line[l]
      BY <1>5, <3>1
    <3>3. QED BY <2>2, <3>2
  <2>3. QED BY <2>1, <2>2
<1>11. \A k, m \in 1..n - 1 : line'[k] = line'[m] => k = m
  <2> SUFFICES ASSUME NEW k \in 1..n - 1, NEW m \in 1..n - 1, line'[k] = line'[m]
      PROVE  k = m
    OBVIOUS
  <2>1. PICK a \in 1..n : line'[k] = line[a] /\ (a = IF k < i THEN k ELSE k + 1)
    BY <1>9
  <2>2. PICK b \in 1..n : line'[m] = line[b] /\ (b = IF m < i THEN m ELSE m + 1)
    BY <1>9
  <2>3. a = b
    BY <1>8, <2>1, <2>2
  <2>4. k \in Int /\ m \in Int /\ i \in Int
    BY <1>4
  <2>5. QED BY <2>1, <2>2, <2>3, <2>4
<1>12. \A q \in Runs : pc'[q] \in {"waiting", "reading"} <=> \E k \in 1..n - 1 : line'[k] = q
  <2> SUFFICES ASSUME NEW q \in Runs
      PROVE  pc'[q] \in {"waiting", "reading"} <=> \E k \in 1..n - 1 : line'[k] = q
    OBVIOUS
  <2>1. CASE q = r
    <3>1. ASSUME NEW k \in 1..n - 1 PROVE line'[k] # r
      <4>1. PICK l \in 1..n : l # i /\ line'[k] = line[l]
        BY <1>9
      <4>2. i \in 1..n
        BY <1>4
      <4>3. QED BY <1>3, <1>8, <4>1, <4>2
    <3>2. QED BY <1>2, <2>1, <3>1
  <2>2. CASE q # r
    <3>1. pc'[q] \in {"waiting", "reading"} <=> \E l \in 1..n : line[l] = q
      BY <1>2, <1>4, <2>2 DEF Orderly
    <3>2. ASSUME NEW l \in 1..n, line[l] = q PROVE \E k \in 1..n - 1 : line'[k] = q
      BY <1>3, <1>10, <2>2, <3>2
    <3>3. ASSUME NEW k \in 1..n - 1, line'[k] = q PROVE \E l \in 1..n : line[l] = q
      BY <1>9, <3>3
    <3>4. QED BY <3>1, <3>2, <3>3
  <2>3. QED BY <2>1, <2>2
<1>13. ASSUME NEW q \in Runs, pc'[q] = "reading"
       PROVE  line'[1] = q
  <2>1. q # r /\ pc[q] = "reading"
    BY <1>2, <1>13
  <2>2. line[1] = q
    BY <2>1 DEF Orderly
  <2>3. 1 < i /\ 1 \in 1..n - 1
    BY <1>3, <1>4, <2>1, <2>2
  <2>4. QED BY <1>5, <2>2, <2>3
<1>14. \A q \in Runs : pc'[q] # "done" => outcome'[q] = "none" /\ answer'[q] = NoAnswer
  BY <1>2 DEF Orderly, NoAnswer
<1>15. Len(line') = n - 1
  BY <1>5
<1>16. Orderly'
  BY <1>11, <1>12, <1>13, <1>14, <1>15 DEF Orderly, NoAnswer
<1>17. QED BY <1>2, <1>5, <1>6, <1>7, <1>16

(* The end of one call, if it is not with an answer, changes no answer and clears no other
   call of what a reader may meet. *)
LEMMA EndsUnanswered ==
    ASSUME ShellInv, NEW r \in Runs, outcome[r] = "none", answer[r] = NoAnswer, pc[r] # "done",
           outcome'[r] # "answered", UNCHANGED <<answer, ended>>,
           \A q \in Runs \ {r} : outcome'[q] = outcome[q]
    PROVE  OwnOutput' /\ \A q \in Runs : Stale(q) => Stale(q)'
<1>1. \A q \in Runs : Stale(q) => q # r
  BY DEF Stale, Torn
<1>2. \A q \in Runs : Stale(q) => Stale(q)'
  BY <1>1 DEF Stale, Torn
<1>3. \A p \in Runs : answer[p].from \subseteq Runs
  BY DEF ShellInv, TypeOK
<1>4. ASSUME NEW p \in Runs
      PROVE  /\ outcome'[p] = "answered" => p \in ended'
             /\ \A q \in answer'[p].from \ {p} : outcome'[q] = "cancelled" \/ Torn(q)'
  <2>1. outcome'[p] = "answered" => p \in ended'
    BY DEF ShellInv, OwnOutput
  <2>2. \A q \in answer[p].from \ {p} : Stale(q)
    BY DEF ShellInv, OwnOutput, Stale
  <2>3. \A q \in answer'[p].from \ {p} : Stale(q)'
    BY <1>2, <1>3, <2>2
  <2>4. QED BY <2>1, <2>3 DEF Stale
<1>5. QED BY <1>2, <1>4 DEF OwnOutput

(* What the shell prints is of the command it runs, which has not ended before. *)
LEMMA MoreStdout ==
    ASSUME ShellInv, stdin # <<>>, NEW m \in Nat,
           Len(stdout') = Len(stdout) + m,
           \A i \in 1..Len(stdout) : stdout'[i] = stdout[i],
           \A i \in Len(stdout) + 1..Len(stdout) + m :
               /\ stdout'[i].run = stdin[1]
               /\ stdout'[i].kind # "out" => stdin[1] \in ended'
               /\ stdout'[i].kind = "tail" => i = Len(stdout) + m,
           ended \subseteq ended', UNCHANGED <<buf, pc, outcome, answer, channel>>
    PROVE  Printed' /\ Sources'
<1> DEFINE q == stdin[1]
<1>1. PICK n \in Nat : n = Len(stdout)
  BY ShellTyped DEF ShellInv
<1>2. 1 \in 1..Len(stdin)
  <2>1. stdin \in Seq(Runs) /\ Len(stdin) \in Nat
    BY ShellTyped DEF ShellInv
  <2>2. Len(stdin) # 0
    BY <2>1, EmptySeq
  <2>3. QED BY <2>1, <2>2
<1>3. q \in Runs /\ q \notin ended /\ channel /\ (pc[q] = "reading" \/ outcome[q] = "cancelled")
  BY <1>2, ShellTyped DEF ShellInv, Running
<1>4. Owned(q)
  BY <1>3 DEF Owned, Stale
<1> HIDE DEF q
<1>5. Len(stdout') = n + m /\ \A i \in 1..n : stdout'[i] = stdout[i]
  BY <1>1
<1>6. \A i \in n + 1..n + m : /\ stdout'[i].run = q
                              /\ stdout'[i].kind # "out" => q \in ended'
                              /\ stdout'[i].kind = "tail" => i = n + m
  BY <1>1 DEF q
<1>7. ASSUME NEW i \in 1..n + m
      PROVE  i \in 1..n \/ i \in n + 1..n + m
  BY <1>1
<1>8. Reading' = Reading /\ \A p : Owned(p)' = Owned(p)
  BY DEF Reading, Owned, Stale, Torn
<1>9. /\ \A i \in 1..n : stdout[i].kind # "out" => stdout[i].run \in ended
      /\ \A i \in 1..Len(buf) : buf[i].kind # "out" => buf[i].run \in ended
      /\ \A i, j \in 1..n : i < j /\ stdout[i].kind = "tail" => stdout[j].run # stdout[i].run
      /\ \A i \in 1..Len(buf), j \in 1..n :
             Reading /\ buf[i].kind = "tail" => stdout[j].run # buf[i].run
  BY <1>1 DEF ShellInv, Printed
<1>10. \A i \in 1..n + m : stdout'[i].kind # "out" => stdout'[i].run \in ended'
  BY <1>5, <1>6, <1>7, <1>9
<1>11. ASSUME NEW i \in 1..n + m, NEW j \in 1..n + m, i < j, stdout'[i].kind = "tail"
       PROVE  stdout'[j].run # stdout'[i].run
  <2>1. CASE i \in 1..n /\ j \in 1..n
    BY <1>5, <1>9, <1>11, <2>1
  <2>2. CASE i \in 1..n /\ j \in n + 1..n + m
    <3>1. stdout'[i].run \in ended
      BY <1>5, <1>9, <1>11, <2>2
    <3>2. QED BY <1>3, <1>6, <2>2, <3>1
  <2>3. CASE i \in n + 1..n + m
    <3>1. i = n + m
      BY <1>6, <1>11, <2>3
    <3>2. QED BY <1>11, <3>1
  <2>4. QED BY <1>7, <2>1, <2>2, <2>3
<1>12. ASSUME NEW i \in 1..Len(buf), NEW j \in 1..n + m, Reading, buf[i].kind = "tail"
       PROVE  stdout'[j].run # buf[i].run
  <2>1. CASE j \in 1..n
    BY <1>5, <1>9, <1>12, <2>1
  <2>2. CASE j \in n + 1..n + m
    BY <1>3, <1>6, <1>9, <1>12, <2>2
  <2>3. QED BY <1>7, <2>1, <2>2
<1>13. Printed'
  BY <1>5, <1>8, <1>9, <1>10, <1>11, <1>12 DEF Printed
<1>14. \A i \in 1..n : Owned(stdout[i].run)
  BY <1>1, <1>3 DEF ShellInv, Sources
<1>15. \A i \in 1..n + m : Owned(stdout'[i].run)
  BY <1>4, <1>5, <1>6, <1>7, <1>14
<1>16. Sources'
  BY <1>5, <1>8, <1>15 DEF ShellInv, Sources
<1>17. QED BY <1>13, <1>16

LEMMA HeadRuns ==
    ASSUME ShellInv, stdin # <<>>
    PROVE  /\ stdin \in Seq(Runs) /\ Len(stdin) \in Nat \ {0} /\ 1 \in 1..Len(stdin)
           /\ Head(stdin) = stdin[1] /\ stdin[1] \in Runs
           /\ Tail(stdin) \in Seq(Runs) /\ Len(Tail(stdin)) = Len(stdin) - 1
           /\ \A i \in 1..Len(stdin) - 1 : Tail(stdin)[i] = stdin[i + 1]
<1>1. stdin \in Seq(Runs) /\ Len(stdin) \in Nat
  BY ShellTyped DEF ShellInv
<1>2. Len(stdin) # 0
  BY <1>1, EmptySeq
<1>3. 1 \in 1..Len(stdin)
  BY <1>1, <1>2
<1>4. stdin[1] \in Runs
  BY <1>1, <1>3, ElementOfSeq
<1>5. Head(stdin) = stdin[1] /\ Tail(stdin) \in Seq(Runs) /\ Len(Tail(stdin)) = Len(stdin) - 1
      /\ \A i \in 1..Len(stdin) - 1 : Tail(stdin)[i] = stdin[i + 1]
  BY <1>1, HeadTailProperties
<1>6. QED BY <1>1, <1>2, <1>3, <1>4, <1>5

LEMMA PrintsKeeps ==
    ASSUME ShellInv, ShellPrints
    PROVE  ShellInv'
<1> DEFINE p == [run |-> stdin[1], kind |-> "out"]
<1>1. /\ stdin # <<>> /\ UNCHANGED <<granted, stdin, ended, closed, channel, line, pc, outcome, buf, answer>>
      /\ stdout' = Append(stdout, p)
  BY HeadRuns DEF ShellPrints
<1>2. p \in Piece /\ p.run = stdin[1] /\ p.kind = "out"
  BY <1>1, HeadRuns DEF Piece
<1>3. stdout \in Seq(Piece) /\ Len(stdout) \in Nat
  BY ShellTyped DEF ShellInv, TypeOK
<1> HIDE DEF p
<1>4. /\ stdout' \in Seq(Piece) /\ Len(stdout') = Len(stdout) + 1
      /\ \A i \in 1..Len(stdout) : stdout'[i] = stdout[i]
      /\ stdout'[Len(stdout) + 1] = p
  BY <1>1, <1>2, <1>3, AppendProperties
<1>5. \A i \in Len(stdout) + 1..Len(stdout) + 1 : i = Len(stdout) + 1
  BY <1>3
<1>6. Printed' /\ Sources'
  BY <1>1, <1>2, <1>4, <1>5, MoreStdout
<1>7. TypeOK'
  BY <1>1, <1>4 DEF ShellInv, TypeOK
<1>8. Orderly' /\ Running' /\ OwnOutput'
  BY <1>1 DEF ShellInv, Orderly, Running, OwnOutput, Torn
<1>9. QED BY <1>6, <1>7, <1>8 DEF ShellInv

LEMMA CommandEndsKeeps ==
    ASSUME ShellInv, CommandEnds
    PROVE  ShellInv'
<1> DEFINE m == [run |-> stdin[1], kind |-> "mark"]
<1> DEFINE t == [run |-> stdin[1], kind |-> "tail"]
<1>1. /\ stdin # <<>> /\ UNCHANGED <<granted, closed, channel, line, pc, outcome, buf, answer>>
      /\ stdin' = Tail(stdin) /\ ended' = ended \cup {stdin[1]}
      /\ stdout' = stdout \o <<m, t>>
  BY HeadRuns DEF CommandEnds
<1>2. m \in Piece /\ m.run = stdin[1] /\ m.kind = "mark"
      /\ t \in Piece /\ t.run = stdin[1] /\ t.kind = "tail"
  BY <1>1, HeadRuns DEF Piece
<1>3. PICK n \in Nat : n = Len(stdout) /\ stdout \in Seq(Piece)
  BY ShellTyped DEF ShellInv, TypeOK
<1> HIDE DEF m, t
<1>4. <<m, t>> \in Seq(Piece) /\ Len(<<m, t>>) = 2 /\ <<m, t>>[1] = m /\ <<m, t>>[2] = t
  BY <1>2
<1>5. PICK two \in Seq(Piece) : two = <<m, t>>
  BY <1>4
<1>6. Len(two) = 2 /\ two[1] = m /\ two[2] = t /\ stdout' = stdout \o two
  BY <1>1, <1>4, <1>5
<1>7. /\ stdout' \in Seq(Piece) /\ Len(stdout') = n + 2
      /\ \A i \in 1..n + 2 : stdout'[i] = IF i <= n THEN stdout[i] ELSE two[i - n]
  <2>1. /\ stdout \o two \in Seq(Piece) /\ Len(stdout \o two) = Len(stdout) + Len(two)
        /\ \A i \in 1..Len(stdout) + Len(two) : (stdout \o two)[i] =
               IF i <= Len(stdout) THEN stdout[i] ELSE two[i - Len(stdout)]
    BY <1>3, ConcatProperties
  <2>2. Len(stdout) = n /\ Len(stdout) + Len(two) = n + 2 /\ stdout' = stdout \o two
    BY <1>3, <1>6
  <2>3. stdout' \in Seq(Piece) /\ Len(stdout') = n + 2
    BY <2>1, <2>2
  <2>4. QED BY <2>1, <2>2, <2>3
<1>8. /\ \A i \in 1..n : stdout'[i] = stdout[i]
      /\ stdout'[n + 1] = m /\ stdout'[n + 2] = t
  <2>1. n + 1 \in 1..n + 2 /\ n + 2 \in 1..n + 2 /\ ~ (n + 1 <= n) /\ ~ (n + 2 <= n)
        /\ (n + 1) - n = 1 /\ (n + 2) - n = 2 /\ \A i \in 1..n : i \in 1..n + 2 /\ i <= n
    OBVIOUS
  <2>2. QED BY <1>6, <1>7, <2>1
<1>9. \A i \in n + 1..n + 2 : i = n + 1 \/ i = n + 2
  OBVIOUS
<1>10. n + 1 # n + 2
  OBVIOUS
<1>11. Printed' /\ Sources'
  <2>1. \A i \in n + 1..n + 2 :
            /\ stdout'[i].run = stdin[1] /\ stdin[1] \in ended'
            /\ stdout'[i].kind = "tail" => i = n + 2
    BY <1>1, <1>2, <1>8, <1>9, <1>10
  <2>2. ended \subseteq ended'
    BY <1>1
  <2>3. QED BY <1>1, <1>3, <1>7, <1>8, <2>1, <2>2, MoreStdout
<1>12. /\ stdin[1] \in Runs /\ stdin' \in Seq(Runs) /\ Len(stdin) \in Nat /\ Len(stdin') = Len(stdin) - 1
       /\ \A i \in 1..Len(stdin) - 1 : stdin'[i] = stdin[i + 1] /\ i + 1 \in 1..Len(stdin) /\ i + 1 # 1
       /\ 1 \in 1..Len(stdin)
  BY <1>1, HeadRuns
<1>13. TypeOK'
  BY <1>1, <1>7, <1>12 DEF ShellInv, TypeOK
<1>14. Running'
  <2>1. channel /\ channel' /\ stdin[1] \in Runs
    BY <1>1, <1>12 DEF ShellInv, Running
  <2>2. \A i, j \in 1..Len(stdin) : stdin[i] = stdin[j] => i = j
    BY DEF ShellInv, Running
  <2>3. \A i, j \in 1..Len(stdin') : stdin'[i] = stdin'[j] => i = j
    <3> SUFFICES ASSUME NEW i \in 1..Len(stdin) - 1, NEW j \in 1..Len(stdin) - 1, stdin'[i] = stdin'[j]
        PROVE  i = j
      BY <1>12
    <3>1. i + 1 = j + 1
      BY <1>12, <2>2
    <3>2. QED BY <1>12, <3>1
  <2>4. \A i \in 1..Len(stdin') : stdin'[i] \notin ended' /\ (pc'[stdin'[i]] = "reading" \/ outcome'[stdin'[i]] = "cancelled")
    <3> SUFFICES ASSUME NEW i \in 1..Len(stdin) - 1
        PROVE  stdin'[i] \notin ended' /\ (pc'[stdin'[i]] = "reading" \/ outcome'[stdin'[i]] = "cancelled")
      BY <1>12
    <3>1. stdin'[i] = stdin[i + 1] /\ i + 1 \in 1..Len(stdin) /\ stdin[i + 1] # stdin[1]
      BY <1>12, <2>2
    <3>2. QED BY <1>1, <3>1 DEF ShellInv, Running
  <2>5. ASSUME NEW r \in Runs, pc'[r] \in {"idle", "waiting"} PROVE r \notin ended'
    <3>1. outcome[r] = "none" /\ pc[r] # "reading" /\ r \notin ended
      BY <1>1, <2>5 DEF ShellInv, Orderly, Running
    <3>2. stdin[1] # r
      BY <1>12, <3>1 DEF ShellInv, Running
    <3>3. QED BY <1>1, <3>1, <3>2
  <2>6. QED BY <1>1, <2>1, <2>3, <2>4, <2>5 DEF ShellInv, Running
<1>15. Orderly'
  BY <1>1 DEF ShellInv, Orderly
<1>16. OwnOutput'
  BY <1>1 DEF ShellInv, OwnOutput, Torn
<1>17. QED BY <1>11, <1>13, <1>14, <1>15, <1>16 DEF ShellInv

(* The channel goes, or nothing that the calls see changes. *)
LEMMA ChannelGoes ==
    ASSUME ShellInv, UNCHANGED <<stdout, ended, line, pc, outcome, buf, answer>>,
           granted' \in BOOLEAN,
           \/ UNCHANGED <<channel, stdin, closed>>
           \/ channel' = FALSE /\ stdin' = <<>> /\ closed' \in BOOLEAN
    PROVE  ShellInv'
<1>1. \A q : Owned(q)' = Owned(q) /\ Torn(q)' = Torn(q)
  BY DEF Owned, Stale, Torn
<1>2. Reading' = Reading /\ (channel' => channel) /\ {closed', channel'} \subseteq BOOLEAN
      /\ stdin' \in Seq(Runs)
  <2>1. Reading' = Reading
    BY DEF Reading
  <2>2. closed \in BOOLEAN /\ channel \in BOOLEAN /\ stdin \in Seq(Runs) /\ <<>> \in Seq(Runs)
    BY EmptySeq DEF ShellInv, TypeOK
  <2>3. CASE UNCHANGED <<channel, stdin, closed>>
    BY <2>1, <2>2, <2>3
  <2>4. CASE channel' = FALSE /\ stdin' = <<>> /\ closed' \in BOOLEAN
    BY <2>1, <2>2, <2>4
  <2>5. QED BY <2>3, <2>4
<1>3. TypeOK'
  BY <1>2 DEF ShellInv, TypeOK
<1>4. Orderly' /\ OwnOutput'
  BY <1>1 DEF ShellInv, Orderly, OwnOutput
<1>5. Running'
  <2>1. CASE UNCHANGED <<channel, stdin, closed>>
    BY <2>1 DEF ShellInv, Running
  <2>2. CASE channel' = FALSE /\ stdin' = <<>>
    <3>1. Len(stdin') = 0 /\ \A i \in 1..0 : FALSE
      BY <2>2, EmptySeq
    <3>2. QED BY <2>2, <3>1 DEF ShellInv, Running
  <2>3. QED BY <2>1, <2>2
<1>6. Printed' /\ Sources'
  BY <1>1, <1>2 DEF ShellInv, Printed, Sources
<1>7. QED BY <1>3, <1>4, <1>5, <1>6 DEF ShellInv

LEMMA QuietShellKeeps ==
    ASSUME ShellInv, ShellDies \/ Edit \/ ShellClose \/ UNCHANGED vars
    PROVE  ShellInv'
<1>1. {granted, closed, channel} \subseteq BOOLEAN
  BY DEF ShellInv, TypeOK
<1>2. QED BY <1>1, ChannelGoes DEF ShellDies, Edit, ShellClose, Close, vars, shellVars

(* A call ends without an answer: it was the reader, and the channel has gone, or it is
   cancelled. *)
LEMMA CallEnds ==
    ASSUME ShellInv, NEW r \in Runs, NEW how \in Outcomes \ {"answered"}, Ends(r, how),
           UNCHANGED <<granted, stdout, ended, buf, answer>>,
           \/ how = "cancelled" /\ UNCHANGED <<closed, channel, stdin>>
           \/ pc[r] = "reading" /\ closed' \in BOOLEAN /\ channel' = FALSE /\ stdin' = <<>>
    PROVE  ShellInv'
<1>0. TypeOK /\ Orderly /\ Running /\ Printed /\ Sources
  BY DEF ShellInv
<1>1. /\ Orderly' /\ line' \in Seq(Runs)
      /\ pc' \in [Runs -> {"idle", "waiting", "reading", "done"}] /\ pc'[r] = "done"
      /\ outcome' \in [Runs -> Outcomes] /\ outcome'[r] = how
      /\ \A q \in Runs \ {r} : pc'[q] = pc[q] /\ outcome'[q] = outcome[q]
      /\ pc[r] \in {"waiting", "reading"} /\ outcome[r] = "none" /\ answer[r] = NoAnswer
  BY <1>0, Leaves
<1>2. OwnOutput' /\ \A q \in Runs : Stale(q) => Stale(q)'
  BY <1>1, EndsUnanswered
<1>3. {closed', channel'} \subseteq BOOLEAN /\ stdin' \in Seq(Runs) /\ (channel' => channel)
  <2>1. closed \in BOOLEAN /\ channel \in BOOLEAN /\ stdin \in Seq(Runs) /\ <<>> \in Seq(Runs)
    BY <1>0, EmptySeq DEF TypeOK
  <2>2. CASE UNCHANGED <<closed, channel, stdin>>
    BY <2>1, <2>2
  <2>3. CASE closed' \in BOOLEAN /\ channel' = FALSE /\ stdin' = <<>>
    BY <2>1, <2>3
  <2>4. QED BY <2>2, <2>3
<1>4. TypeOK'
  BY <1>0, <1>1, <1>3 DEF TypeOK
<1>5. Reading' => Reading
  BY <1>1 DEF Reading
<1>6. Printed'
  BY <1>0, <1>5 DEF Printed
<1>7. \A q \in Runs : pc'[q] \in {"idle", "waiting"} => pc[q] \in {"idle", "waiting"}
  BY <1>1
<1>8. CASE how = "cancelled" /\ UNCHANGED <<closed, channel, stdin>>
  <2>1. \A q \in Runs : Owned(q) => Owned(q)'
    BY <1>1, <1>2, <1>8 DEF Owned, Stale
  <2>2. \A i \in 1..Len(stdin) : stdin[i] \in Runs
    BY <1>0, ShellTyped
  <2>3. \A i \in 1..Len(stdin) : pc'[stdin[i]] = "reading" \/ outcome'[stdin[i]] = "cancelled"
    BY <1>0, <1>1, <1>8, <2>2 DEF Running
  <2>4. Running'
    BY <1>0, <1>7, <1>8, <2>3 DEF Running
  <2>5. /\ \A i \in 1..Len(stdout) : stdout[i].run \in Runs
        /\ \A i \in 1..Len(buf) : buf[i].run \in Runs
    BY <1>0, ShellTyped DEF Piece
  <2>6. Sources'
    BY <1>0, <1>5, <1>8, <2>1, <2>5 DEF Sources
  <2>7. QED BY <1>1, <1>2, <1>4, <1>6, <2>4, <2>6 DEF ShellInv
<1>9. CASE pc[r] = "reading" /\ channel' = FALSE /\ stdin' = <<>>
  <2>1. ~ Reading'
    BY <1>0, <1>1, <1>9, OneReader DEF Reading
  <2>2. Len(stdin') = 0 /\ \A i \in 1..0 : FALSE
    BY <1>9, EmptySeq
  <2>3. Running'
    BY <1>0, <1>7, <1>9, <2>2 DEF Running
  <2>4. Sources'
    BY <1>9, <2>1 DEF Sources
  <2>5. QED BY <1>1, <1>2, <1>4, <1>6, <2>3, <2>4 DEF ShellInv
<1>10. QED BY <1>8, <1>9

LEMMA EndingsKeep ==
    ASSUME ShellInv, NEW r \in Runs, ReadEnd(r) \/ Timeout(r) \/ Cancel(r)
    PROVE  ShellInv'
<1>1. {closed, channel} \subseteq BOOLEAN /\ (closed => ~ channel) /\ (~ channel => stdin = <<>>)
  BY DEF ShellInv, TypeOK, Running
<1>2. {"exited", "timeout", "cancelled"} \subseteq Outcomes \ {"answered"}
  BY DEF Outcomes
<1>3. CASE ReadEnd(r)
  BY <1>1, <1>2, <1>3, CallEnds DEF ReadEnd, shellVars
<1>4. CASE Timeout(r)
  <2>1. closed' = TRUE /\ channel' = FALSE /\ stdin' = <<>>
    BY <1>1, <1>4 DEF Timeout, Close
  <2>2. QED BY <1>2, <1>4, <2>1, CallEnds DEF Timeout
<1>5. CASE Cancel(r)
  BY <1>1, <1>2, <1>5, CallEnds DEF Cancel, shellVars
<1>6. QED BY <1>3, <1>4, <1>5

(* The owner of the lock writes its command, or finds the channel closed. *)
LEMMA WriteKeeps ==
    ASSUME ShellInv, NEW r \in Runs, Write(r), pc[r] \in {"idle", "waiting"}, ~ Reading,
           UNCHANGED <<granted, stdout, ended, closed, channel, answer>>,
           Orderly', line' \in Seq(Runs)
    PROVE  ShellInv'
<1>0. TypeOK /\ Orderly /\ Running /\ Printed /\ Sources
  BY DEF ShellInv
<1>1. /\ outcome[r] = "none" /\ answer[r] = NoAnswer /\ r \notin ended
      /\ pc \in [Runs -> {"idle", "waiting", "reading", "done"}] /\ outcome \in [Runs -> Outcomes]
      /\ stdin \in Seq(Runs)
  BY <1>0 DEF Orderly, Running, TypeOK
<1>2. CASE channel
  <2>1. /\ pc' = [pc EXCEPT ![r] = "reading"] /\ stdin' = Append(stdin, r) /\ buf' = <<>>
        /\ UNCHANGED outcome
    BY <1>2 DEF Write
  <2>2. /\ pc' \in [Runs -> {"idle", "waiting", "reading", "done"}] /\ pc'[r] = "reading"
        /\ \A q \in Runs \ {r} : pc'[q] = pc[q]
    BY <1>1, <2>1
  <2>3. PICK n \in Nat : n = Len(stdin) /\ \A i \in 1..n : stdin[i] \in Runs
    BY <1>0, ShellTyped
  <2>4. /\ stdin' \in Seq(Runs) /\ Len(stdin') = n + 1
        /\ \A i \in 1..n : stdin'[i] = stdin[i]
        /\ stdin'[n + 1] = r
    BY <1>1, <2>1, <2>3, AppendProperties
  <2>5. buf' \in Seq(Piece) /\ Len(buf') = 0 /\ \A i \in 1..0 : FALSE
    BY <2>1, EmptySeq
  <2>6. 0 <= 4 * Limit
    BY ShellAssumption
  <2>7. TypeOK'
    BY <1>0, <2>1, <2>2, <2>4, <2>5, <2>6 DEF TypeOK
  <2>8. \A i \in 1..n + 1 : i \in 1..n \/ i = n + 1
    BY <2>3
  <2>9. \A i \in 1..n : /\ stdin[i] # r /\ stdin[i] \notin ended
                        /\ outcome[stdin[i]] = "cancelled"
    BY <1>0, <1>1, <2>3 DEF Running, Reading
  <2>10. \A i, j \in 1..n : stdin[i] = stdin[j] => i = j
    BY <1>0, <2>3 DEF Running
  <2>11. Running'
    <3>1. \A i, j \in 1..n + 1 : stdin'[i] = stdin'[j] => i = j
      BY <2>4, <2>8, <2>9, <2>10
    <3>2. \A i \in 1..n + 1 : stdin'[i] \notin ended
              /\ (pc'[stdin'[i]] = "reading" \/ outcome'[stdin'[i]] = "cancelled")
      BY <1>1, <2>1, <2>2, <2>4, <2>8, <2>9
    <3>3. \A q \in Runs : pc'[q] \in {"idle", "waiting"} => q \notin ended
      BY <1>0, <2>2 DEF Running
    <3>4. (closed => ~ channel) /\ channel'
      BY <1>0, <1>2 DEF Running
    <3>5. QED BY <2>4, <3>1, <3>2, <3>3, <3>4 DEF Running
  <2>12. Printed'
    BY <1>0, <2>5 DEF Printed
  <2>13. Sources'
    <3>1. \A i \in 1..Len(stdout) : stdout[i].run \in Runs /\ Owned(stdout[i].run)
      BY <1>0, <1>2, ShellTyped DEF Sources, Piece
    <3>2. \A q \in Runs : Owned(q) => Owned(q)'
      BY <2>1, <2>2 DEF Owned, Stale, Torn
    <3>3. QED BY <2>5, <3>1, <3>2 DEF Sources
  <2>14. OwnOutput'
    BY <2>1 DEF ShellInv, OwnOutput, Torn
  <2>15. QED BY <2>7, <2>11, <2>12, <2>13, <2>14 DEF ShellInv
<1>3. CASE ~ channel
  <2>1. /\ pc' = [pc EXCEPT ![r] = "done"] /\ outcome' = [outcome EXCEPT ![r] = "broken"]
        /\ UNCHANGED <<stdin, buf>>
    BY <1>3 DEF Write
  <2>2. /\ pc' \in [Runs -> {"idle", "waiting", "reading", "done"}] /\ pc'[r] = "done"
        /\ outcome' \in [Runs -> Outcomes] /\ outcome'[r] = "broken"
        /\ \A q \in Runs \ {r} : pc'[q] = pc[q] /\ outcome'[q] = outcome[q]
    BY <1>1, <2>1 DEF Outcomes
  <2>3. OwnOutput'
    BY <1>1, <2>2, EndsUnanswered
  <2>4. ~ Reading'
    BY <2>2 DEF Reading
  <2>5. TypeOK'
    BY <1>0, <2>1, <2>2 DEF TypeOK
  <2>6. stdin = <<>> /\ Len(stdin) = 0 /\ \A i \in 1..0 : FALSE
    BY <1>0, <1>3, EmptySeq DEF Running
  <2>7. Running'
    BY <1>0, <1>3, <2>1, <2>2, <2>6 DEF Running
  <2>8. Printed' /\ Sources'
    BY <1>0, <1>3, <2>1, <2>4 DEF Printed, Sources
  <2>9. QED BY <2>3, <2>5, <2>7, <2>8 DEF ShellInv
<1>4. QED BY <1>2, <1>3

LEMMA ShellRunKeeps ==
    ASSUME ShellInv, NEW r \in Runs, ShellRun(r)
    PROVE  ShellInv'
<1>0. /\ TypeOK /\ Orderly /\ Running /\ Printed /\ Sources
      /\ pc[r] = "idle" /\ UNCHANGED <<granted, stdout, ended, closed, channel, answer>>
      /\ pc \in [Runs -> {"idle", "waiting", "reading", "done"}] /\ outcome \in [Runs -> Outcomes]
      /\ line \in Seq(Runs)
  BY DEF ShellInv, ShellRun, TypeOK
<1>1. outcome[r] = "none" /\ answer[r] = NoAnswer /\ \A i \in 1..Len(line) : line[i] # r
  BY <1>0 DEF Orderly
<1>2. CASE closed \/ ~ granted
  <2>1. /\ pc' = [pc EXCEPT ![r] = "done"] /\ outcome' = [outcome EXCEPT ![r] = "refused"]
        /\ UNCHANGED <<line, stdin, buf>>
    BY <1>2 DEF ShellRun
  <2>2. /\ pc' \in [Runs -> {"idle", "waiting", "reading", "done"}] /\ pc'[r] = "done"
        /\ outcome' \in [Runs -> Outcomes] /\ outcome'[r] = "refused"
        /\ \A q \in Runs \ {r} : pc'[q] = pc[q] /\ outcome'[q] = outcome[q]
    BY <1>0, <2>1 DEF Outcomes
  <2>3. OwnOutput' /\ \A q \in Runs : Stale(q) => Stale(q)'
    BY <1>0, <1>1, <2>2, EndsUnanswered
  <2>4. Reading' = Reading
    BY <1>0, <2>2 DEF Reading
  <2>5. TypeOK'
    BY <1>0, <2>1, <2>2 DEF TypeOK
  <2>6. Orderly'
    BY <1>0, <1>1, <2>1, <2>2 DEF Orderly, NoAnswer
  <2>7. \A i \in 1..Len(stdin) : stdin[i] \in Runs \ {r}
    BY <1>0, <1>1, ShellTyped DEF Running
  <2>8. Running'
    BY <1>0, <2>1, <2>2, <2>7 DEF Running
  <2>9. /\ \A i \in 1..Len(stdout) : stdout[i].run \in Runs
        /\ \A i \in 1..Len(buf) : buf[i].run \in Runs
    BY <1>0, ShellTyped DEF Piece
  <2>10. \A q \in Runs : Owned(q) => Owned(q)'
    BY <1>0, <2>2, <2>3 DEF Owned
  <2>11. Printed' /\ Sources'
    BY <1>0, <2>1, <2>4, <2>9, <2>10 DEF Printed, Sources
  <2>12. QED BY <2>3, <2>5, <2>6, <2>8, <2>11 DEF ShellInv
<1>3. CASE ~ (closed \/ ~ granted) /\ line = <<>>
  <2>1. Write(r) /\ line' = IF channel THEN <<r>> ELSE <<>>
    BY <1>3 DEF ShellRun
  <2>2. Len(line) = 0 /\ \A i \in 1..0 : FALSE
    BY <1>3, EmptySeq
  <2>3. \A q \in Runs : pc[q] \notin {"waiting", "reading"}
    BY <1>0, <2>2 DEF Orderly
  <2>4. ~ Reading
    BY <2>3 DEF Reading
  <2>5. Orderly' /\ line' \in Seq(Runs)
    <3>1. CASE channel
      <4>1. /\ pc' = [pc EXCEPT ![r] = "reading"] /\ UNCHANGED outcome /\ line' = <<r>>
        BY <2>1, <3>1 DEF Write
      <4>2. /\ pc'[r] = "reading" /\ \A q \in Runs \ {r} : pc'[q] = pc[q]
        BY <1>0, <4>1
      <4>3. line' \in Seq(Runs) /\ Len(line') = 1 /\ line'[1] = r /\ \A i \in 1..1 : i = 1
        BY <4>1
      <4>4. QED BY <1>0, <1>1, <2>3, <4>1, <4>2, <4>3 DEF Orderly, NoAnswer
    <3>2. CASE ~ channel
      <4>1. /\ pc' = [pc EXCEPT ![r] = "done"] /\ outcome' = [outcome EXCEPT ![r] = "broken"]
            /\ UNCHANGED line
        BY <1>3, <2>1, <3>2 DEF Write
      <4>2. pc'[r] = "done" /\ \A q \in Runs \ {r} : pc'[q] = pc[q] /\ outcome'[q] = outcome[q]
        BY <1>0, <4>1
      <4>3. QED BY <1>0, <2>2, <2>3, <4>1, <4>2 DEF Orderly, NoAnswer
    <3>3. QED BY <3>1, <3>2
  <2>6. QED BY <1>0, <2>1, <2>4, <2>5, WriteKeeps
<1>4. CASE ~ (closed \/ ~ granted) /\ line # <<>>
  <2>1. /\ line' = Append(line, r) /\ pc' = [pc EXCEPT ![r] = "waiting"]
        /\ UNCHANGED <<stdin, buf, outcome>>
    BY <1>4 DEF ShellRun
  <2>2. /\ pc' \in [Runs -> {"idle", "waiting", "reading", "done"}] /\ pc'[r] = "waiting"
        /\ \A q \in Runs \ {r} : pc'[q] = pc[q]
    BY <1>0, <2>1
  <2>3. PICK n \in Nat : n = Len(line) /\ 1 \in 1..n
    <3>1. Len(line) \in Nat \ {0}
      BY <1>0, <1>4, EmptySeq
    <3>2. QED BY <3>1
  <2>4. /\ line' \in Seq(Runs) /\ Len(line') = n + 1
        /\ \A i \in 1..n : line'[i] = line[i]
        /\ line'[n + 1] = r
    BY <1>0, <2>1, <2>3, AppendProperties
  <2>5. \A i \in 1..n + 1 : i \in 1..n \/ i = n + 1
    BY <2>3
  <2>6. \A i \in 1..n : i \in 1..n + 1
    BY <2>3
  <2>7. n + 1 \in 1..n + 1
    BY <2>3
  <2>8. Orderly'
    <3>1. \A i, j \in 1..n : line[i] = line[j] => i = j
      BY <1>0, <2>3 DEF Orderly
    <3>2. \A i \in 1..n : line[i] # r
      BY <1>1, <2>3
    <3>3. \A i, j \in 1..n + 1 : line'[i] = line'[j] => i = j
      BY <2>4, <2>5, <3>1, <3>2
    <3>4. ASSUME NEW q \in Runs
          PROVE  pc'[q] \in {"waiting", "reading"} <=> \E i \in 1..n + 1 : line'[i] = q
      <4>1. CASE q = r
        BY <2>2, <2>4, <2>7, <4>1
      <4>2. CASE q # r
        <5>1. pc'[q] \in {"waiting", "reading"} <=> \E i \in 1..n : line[i] = q
          BY <1>0, <2>2, <2>3, <4>2 DEF Orderly
        <5>2. QED BY <2>4, <2>5, <2>6, <4>2, <5>1
      <4>3. QED BY <4>1, <4>2
    <3>5. \A q \in Runs : pc'[q] = "reading" => line'[1] = q
      BY <1>0, <2>2, <2>3, <2>4 DEF Orderly
    <3>6. \A q \in Runs : pc'[q] # "done" => outcome'[q] = "none" /\ answer'[q] = NoAnswer
      BY <1>0, <1>1, <2>1, <2>2 DEF Orderly
    <3>7. QED BY <2>4, <3>3, <3>4, <3>5, <3>6 DEF Orderly, NoAnswer
  <2>9. Reading' = Reading /\ \A q \in Runs : Owned(q) => Owned(q)'
    BY <1>0, <2>1, <2>2 DEF Reading, Owned, Stale, Torn
  <2>10. \A i \in 1..Len(stdin) : stdin[i] \in Runs \ {r}
    BY <1>0, <1>1, ShellTyped DEF Running
  <2>11. Running'
    BY <1>0, <2>1, <2>2, <2>10 DEF Running
  <2>12. /\ \A i \in 1..Len(stdout) : stdout[i].run \in Runs
         /\ \A i \in 1..Len(buf) : buf[i].run \in Runs
    BY <1>0, ShellTyped DEF Piece
  <2>13. Printed' /\ Sources'
    BY <1>0, <2>1, <2>9, <2>12 DEF Printed, Sources
  <2>14. TypeOK'
    BY <1>0, <2>1, <2>2, <2>4 DEF TypeOK
  <2>15. OwnOutput'
    BY <1>0, <2>1 DEF ShellInv, OwnOutput, Torn
  <2>16. QED BY <2>8, <2>11, <2>13, <2>14, <2>15 DEF ShellInv
<1>5. QED BY <1>2, <1>3, <1>4

LEMMA LockedKeeps ==
    ASSUME ShellInv, NEW r \in Runs, Locked(r)
    PROVE  ShellInv'
<1>0. /\ TypeOK /\ Orderly
      /\ pc[r] = "waiting" /\ Head(line) = r /\ Write(r)
      /\ line' = IF channel THEN line ELSE Tail(line)
      /\ UNCHANGED <<granted, stdout, ended, closed, channel, answer>>
      /\ pc \in [Runs -> {"idle", "waiting", "reading", "done"}]
      /\ line \in Seq(Runs) /\ Len(line) \in Nat
  BY ShellTyped DEF ShellInv, Locked, TypeOK
<1>1. PICK n \in Nat : n = Len(line) /\ 1 \in 1..n
  <2>1. \E i \in 1..Len(line) : line[i] = r
    BY <1>0 DEF Orderly
  <2>2. QED BY <1>0, <2>1
<1>2. line[1] = r /\ line # <<>>
  <2>1. Len(line) # 0
    BY <1>1
  <2>2. line # <<>>
    BY <2>1, EmptySeq
  <2>3. QED BY <1>0, <2>2
<1>3. ~ Reading
  BY <1>0, <1>2 DEF Reading, Orderly
<1>4. CASE channel
  <2>1. /\ pc' = [pc EXCEPT ![r] = "reading"] /\ UNCHANGED <<outcome, line>>
    BY <1>0, <1>4 DEF Write
  <2>2. pc'[r] = "reading" /\ \A q \in Runs \ {r} : pc'[q] = pc[q]
    BY <1>0, <2>1
  <2>3. \A q \in Runs : pc'[q] = "reading" => line'[1] = q
    BY <1>2, <1>3, <2>1, <2>2 DEF Reading
  <2>4. \A q \in Runs : pc'[q] \in {"waiting", "reading"} <=> pc[q] \in {"waiting", "reading"}
    BY <1>0, <2>2
  <2>5. Orderly'
    BY <1>0, <2>1, <2>2, <2>3, <2>4 DEF Orderly, NoAnswer
  <2>6. QED BY <1>0, <1>3, <2>1, <2>5, WriteKeeps
<1>5. CASE ~ channel
  <2>1. /\ pc' = [pc EXCEPT ![r] = "done"] /\ outcome' = [outcome EXCEPT ![r] = "broken"]
        /\ line' = Tail(line)
    BY <1>0, <1>5 DEF Write
  <2>2. PICK t \in Seq(Runs) :
            /\ t = SubSeq(line, 1, 1 - 1) \o SubSeq(line, 1 + 1, Len(line))
            /\ Len(t) = Len(line) - 1
            /\ \A k \in 1..Len(line) - 1 : t[k] = IF k < 1 THEN line[k] ELSE line[k + 1]
    BY <1>0, <1>1, WithoutPlace
  <2>3. /\ Tail(line) \in Seq(Runs) /\ Len(Tail(line)) = Len(line) - 1
        /\ \A k \in 1..Len(line) - 1 : Tail(line)[k] = line[k + 1]
    BY <1>0, <1>2, HeadTailProperties
  <2>4. Len(Tail(line)) = Len(t) /\ \A k \in 1..Len(Tail(line)) : Tail(line)[k] = t[k]
    <3>1. \A k \in 1..Len(line) - 1 : ~ (k < 1)
      BY <1>0
    <3>2. QED BY <2>2, <2>3, <3>1
  <2>5. Tail(line) = t
    BY <2>3, <2>4, SeqEqual
  <2>6. Ends(r, "broken")
    BY <1>1, <1>2, <2>1, <2>2, <2>5 DEF Ends
  <2>7. "broken" \in Outcomes
    BY DEF Outcomes
  <2>8. Orderly' /\ line' \in Seq(Runs)
    BY <1>0, <2>6, <2>7, Leaves
  <2>9. QED BY <1>0, <1>3, <2>8, WriteKeeps
<1>6. QED BY <1>4, <1>5

(* read() takes some of what has come: it is joined to what was read before. *)
LEMMA ReadFacts ==
    ASSUME ShellInv, NEW n \in 1..Len(stdout)
    PROVE  \E s \in Seq(Piece) :
              /\ s = buf \o SubSeq(stdout, 1, n)
              /\ \A i \in 1..Len(s) : \/ \E k \in 1..Len(buf) : s[i] = buf[k]
                                      \/ \E k \in 1..n : s[i] = stdout[k]
<1>1. stdout \in Seq(Piece) /\ buf \in Seq(Piece) /\ Len(stdout) \in Nat /\ Len(buf) \in Nat
  BY ShellTyped DEF ShellInv, TypeOK
<1>2. /\ SubSeq(stdout, 1, n) \in Seq(Piece) /\ Len(SubSeq(stdout, 1, n)) = n
      /\ \A k \in 1..n : SubSeq(stdout, 1, n)[k] = stdout[k]
  BY <1>1, Taking
<1>3. PICK u \in Seq(Piece) : u = SubSeq(stdout, 1, n)
  BY <1>2
<1>4. Len(u) = n /\ \A k \in 1..n : u[k] = stdout[k]
  BY <1>2, <1>3
<1>5. PICK b \in Nat : b = Len(buf)
  BY <1>1
<1>6. /\ buf \o u \in Seq(Piece) /\ Len(buf \o u) = Len(buf) + Len(u)
      /\ \A i \in 1..Len(buf) + Len(u) :
            (buf \o u)[i] = IF i <= Len(buf) THEN buf[i] ELSE u[i - Len(buf)]
  BY <1>1, <1>3, ConcatProperties
<1>7. PICK s \in Seq(Piece) : s = buf \o u
  BY <1>6
<1>8. Len(s) = b + n
  BY <1>4, <1>5, <1>6, <1>7
<1>9. \A i \in 1..b + n : s[i] = IF i <= b THEN buf[i] ELSE u[i - b]
  BY <1>4, <1>5, <1>6, <1>7
<1>10. ASSUME NEW i \in 1..b + n
       PROVE  (\E k \in 1..b : s[i] = buf[k]) \/ (\E k \in 1..n : s[i] = stdout[k])
  <2>0. n \in Nat
    BY <1>1
  <2>1. CASE i <= b
    <3>1. i \in 1..b
      BY <2>0, <2>1
    <3>2. QED BY <1>9, <2>1, <3>1
  <2>2. CASE ~ (i <= b)
    <3>1. i - b \in 1..n
      BY <2>0, <2>2
    <3>2. QED BY <1>4, <1>9, <2>2, <3>1
  <2>3. QED BY <2>1, <2>2
<1>11. \A i \in 1..Len(s) : \/ \E k \in 1..Len(buf) : s[i] = buf[k]
                            \/ \E k \in 1..n : s[i] = stdout[k]
  BY <1>5, <1>8, <1>10
<1>12. QED BY <1>3, <1>7, <1>11

LEMMA ReadKeeps ==
    ASSUME ShellInv, NEW r \in Runs, Read(r)
    PROVE  ShellInv'
<1>0. /\ TypeOK /\ Orderly /\ Running /\ Printed /\ Sources /\ OwnOutput
      /\ pc[r] = "reading" /\ UNCHANGED <<granted, stdin, ended, channel>>
      /\ Reading
  BY DEF ShellInv, Read, Reading
<1>1. PICK n \in 1..Len(stdout) :
          /\ stdout' = SubSeq(stdout, n + 1, Len(stdout))
          /\ IF Found(r, buf \o SubSeq(stdout, 1, n)) THEN Answered(r, buf \o SubSeq(stdout, 1, n))
             ELSE buf' = Trimmed(buf \o SubSeq(stdout, 1, n)) /\ UNCHANGED <<pc, outcome, line, answer, closed>>
  BY DEF Read
<1>2. PICK s \in Seq(Piece) :
          /\ s = buf \o SubSeq(stdout, 1, n)
          /\ \A i \in 1..Len(s) : \/ \E k \in 1..Len(buf) : s[i] = buf[k]
                                  \/ \E k \in 1..n : s[i] = stdout[k]
  BY ReadFacts
<1>3. IF Found(r, s) THEN Answered(r, s)
      ELSE buf' = Trimmed(s) /\ UNCHANGED <<pc, outcome, line, answer, closed>>
  BY <1>1, <1>2
<1>4. PICK m \in Nat : m = Len(stdout) /\ stdout \in Seq(Piece) /\ n \in 1..m
  BY <1>0, ShellTyped DEF TypeOK
<1>5. /\ stdout' \in Seq(Piece) /\ Len(stdout') = m - n
      /\ \A k \in 1..m - n : stdout'[k] = stdout[n + k]
  <2>1. /\ SubSeq(stdout, n + 1, Len(stdout)) \in Seq(Piece)
        /\ Len(SubSeq(stdout, n + 1, Len(stdout))) = Len(stdout) - n
        /\ \A k \in 1..Len(stdout) - n : SubSeq(stdout, n + 1, Len(stdout))[k] = stdout[n + k]
    BY <1>4, Taking
  <2>2. QED BY <1>1, <1>4, <2>1
<1>6. \A k \in 1..m - n : n + k \in 1..m
  BY <1>4
<1>7. \A k \in 1..n : k \in 1..m
  BY <1>4
<1>8. \A i \in 1..Len(s) : s[i] \in Piece
  BY <1>2, ElementOfSeq
<1>9. \A i \in 1..Len(s) : s[i].run \in Runs /\ Owned(s[i].run)
                           /\ (s[i].kind # "out" => s[i].run \in ended)
  <2>1. \A k \in 1..Len(buf) : Owned(buf[k].run) /\ (buf[k].kind # "out" => buf[k].run \in ended)
    BY <1>0 DEF Sources, Printed
  <2>2. \A k \in 1..n : Owned(stdout[k].run) /\ (stdout[k].kind # "out" => stdout[k].run \in ended)
    BY <1>0, <1>4, <1>7 DEF Sources, Printed
  <2>3. QED BY <1>2, <1>8, <2>1, <2>2 DEF Piece
<1>10. ASSUME NEW i \in 1..Len(s), s[i].kind = "tail", NEW k \in 1..m - n
       PROVE  stdout'[k].run # s[i].run
  <2>1. stdout'[k] = stdout[n + k] /\ n + k \in 1..Len(stdout)
    BY <1>4, <1>5, <1>6
  <2>2. CASE \E l \in 1..Len(buf) : s[i] = buf[l]
    BY <1>0, <1>10, <2>1, <2>2 DEF Printed
  <2>3. CASE \E l \in 1..n : s[i] = stdout[l]
    <3>1. PICK l \in 1..n : s[i] = stdout[l]
      BY <2>3
    <3>2. l \in 1..Len(stdout) /\ l < n + k
      BY <1>4
    <3>3. QED BY <1>0, <1>10, <2>1, <3>1, <3>2 DEF Printed
  <2>4. QED BY <1>2, <2>2, <2>3
<1>11. /\ \A k \in 1..m - n : stdout'[k].run \in Runs /\ Owned(stdout'[k].run)
       /\ \A k \in 1..m - n : stdout'[k].kind # "out" => stdout'[k].run \in ended
  BY <1>0, <1>4, <1>5, <1>6, ShellTyped DEF Sources, Printed, Piece
<1>12. ASSUME NEW i \in 1..m - n, NEW j \in 1..m - n, i < j, stdout'[i].kind = "tail"
       PROVE  stdout'[j].run # stdout'[i].run
  <2>1. n + i < n + j
    BY <1>4, <1>12
  <2>2. QED BY <1>0, <1>4, <1>5, <1>6, <1>12, <2>1 DEF Printed
<1>13. CASE Found(r, s)
  <2>1. /\ answer' = [answer EXCEPT ![r] = [from |-> {s[i].run : i \in 1..Len(s)},
                                            code |-> Has(s, r, "tail")]]
        /\ Ends(r, "answered")
        /\ UNCHANGED <<buf, closed>>
    BY <1>3, <1>13 DEF Answered
  <2> DEFINE own == [from |-> {s[i].run : i \in 1..Len(s)}, code |-> Has(s, r, "tail")]
  <2>2. answer \in [Runs -> [from : SUBSET Runs, code : BOOLEAN]]
    BY <1>0 DEF TypeOK
  <2>3. /\ own \in [from : SUBSET Runs, code : BOOLEAN]
        /\ own.from = {s[i].run : i \in 1..Len(s)} /\ (own.code <=> Has(s, r, "tail"))
    <3>1. {s[i].run : i \in 1..Len(s)} \in SUBSET Runs
      BY <1>9
    <3>2. Has(s, r, "tail") \in BOOLEAN
      BY DEF Has
    <3>3. QED BY <3>1, <3>2
  <2>4. answer' = [answer EXCEPT ![r] = own]
    BY <2>1
  <2> HIDE DEF own
  <2>5. /\ answer' \in [Runs -> [from : SUBSET Runs, code : BOOLEAN]] /\ answer'[r] = own
        /\ \A q \in Runs \ {r} : answer'[q] = answer[q]
    BY <2>2, <2>3, <2>4
  <2>6. "answered" \in Outcomes
    BY DEF Outcomes
  <2>7. /\ Orderly' /\ line' \in Seq(Runs)
        /\ pc' \in [Runs -> {"idle", "waiting", "reading", "done"}] /\ pc'[r] = "done"
        /\ outcome' \in [Runs -> Outcomes] /\ outcome'[r] = "answered"
        /\ \A q \in Runs \ {r} : pc'[q] = pc[q] /\ outcome'[q] = outcome[q]
        /\ outcome[r] = "none"
    BY <1>0, <2>1, <2>5, <2>6, Leaves
  <2>8. TypeOK'
    BY <1>0, <1>5, <2>1, <2>5, <2>7 DEF TypeOK
  <2>9. ~ Reading'
    BY <1>0, <2>7, OneReader DEF Reading
  <2>10. ASSUME NEW q \in Runs \ {r}, Owned(q)
         PROVE  Stale(q) /\ Stale(q)'
    <3>1. pc[q] # "reading"
      BY <1>0, OneReader
    <3>2. Stale(q)
      BY <2>10, <3>1 DEF Owned
    <3>3. QED BY <2>5, <2>7, <3>2 DEF Stale, Torn
  <2>11. \A i \in 1..Len(stdin) : stdin[i] \in Runs
    BY <1>0, ShellTyped
  <2>12. r \in ended
    <3>1. PICK i \in 1..Len(s) : s[i] = [run |-> r, kind |-> "mark"]
      BY <1>13 DEF Found, Has
    <3>2. s[i].kind # "out" /\ s[i].run = r
      BY <3>1
    <3>3. QED BY <1>9, <3>2
  <2>13. Running'
    <3>1. \A i \in 1..Len(stdin) : stdin[i] # r
      BY <1>0, <2>12 DEF Running
    <3>2. \A i \in 1..Len(stdin) : pc'[stdin[i]] = "reading" \/ outcome'[stdin[i]] = "cancelled"
      BY <1>0, <2>7, <2>11, <3>1 DEF Running
    <3>3. \A q \in Runs : pc'[q] \in {"idle", "waiting"} => q \notin ended
      BY <1>0, <2>7 DEF Running
    <3>4. QED BY <1>0, <2>1, <3>2, <3>3 DEF Running
  <2>14. Printed'
    <3>1. \A i \in 1..Len(buf) : buf[i].kind # "out" => buf[i].run \in ended
      BY <1>0 DEF Printed
    <3>2. QED BY <1>0, <1>5, <1>11, <1>12, <2>1, <2>9, <3>1 DEF Printed
  <2>15. ASSUME NEW k \in 1..m - n
         PROVE  Owned(stdout[k].run)'
    <3>1. CASE stdout'[k].run # r
      <4>1. stdout'[k].run \in Runs \ {r} /\ Owned(stdout'[k].run)
        BY <1>11, <3>1
      <4>2. ASSUME NEW q \in Runs \ {r}, Owned(q)
            PROVE  Owned(q)'
        BY <2>10, <4>2 DEF Owned
      <4>3. \A q \in Runs \ {r} : Owned(q) => pc'[q] = "reading" \/ Stale(q)'
        BY <4>2 DEF Owned
      <4>4. QED BY <4>1, <4>3 DEF Owned, Stale, Torn
    <3>2. CASE stdout'[k].run = r
      <4>1. ~ Has(s, r, "tail")
        <5>1. ASSUME NEW i \in 1..Len(s), s[i] = [run |-> r, kind |-> "tail"]
              PROVE  FALSE
          <6>1. s[i].kind = "tail" /\ s[i].run = r
            BY <5>1
          <6>2. QED BY <1>10, <3>2, <6>1
        <5>2. QED BY <5>1 DEF Has
      <4>2. ~ own.code
        BY <2>3, <4>1
      <4>3. outcome'[r] = "answered" /\ ~ answer'[r].code
        BY <2>5, <2>7, <4>2
      <4>4. QED BY <3>2, <4>3 DEF Owned, Stale, Torn
    <3>3. QED BY <3>1, <3>2
  <2>16. Sources'
    BY <1>5, <2>9, <2>15 DEF Sources
  <2>17. OwnOutput'
    <3>1. ASSUME NEW p \in Runs, outcome'[p] = "answered" PROVE p \in ended'
      BY <1>0, <2>7, <2>12, <3>1 DEF OwnOutput
    <3>2. ASSUME NEW p \in Runs, NEW q \in answer'[p].from \ {p}
          PROVE  Stale(q)'
      <4>1. CASE p = r
        <5>1. PICK i \in 1..Len(s) : q = s[i].run
          BY <2>3, <2>5, <3>2, <4>1
        <5>2. q \in Runs \ {r} /\ Owned(q)
          BY <1>9, <3>2, <4>1, <5>1
        <5>3. QED BY <2>10, <5>2
      <4>2. CASE p # r
        <5>1. q \in Runs /\ Stale(q)
          BY <1>0, <2>2, <2>5, <3>2, <4>2 DEF OwnOutput, Stale
        <5>2. q # r
          BY <2>7, <5>1 DEF Stale, Torn
        <5>3. QED BY <2>10, <5>1, <5>2 DEF Owned
      <4>3. QED BY <4>1, <4>2
    <3>3. QED BY <3>1, <3>2 DEF OwnOutput, Stale
  <2>18. QED BY <2>7, <2>8, <2>13, <2>14, <2>16, <2>17 DEF ShellInv
<1>14. CASE ~ Found(r, s)
  <2>1. buf' = Trimmed(s) /\ UNCHANGED <<pc, outcome, line, answer, closed>>
    BY <1>3, <1>14
  <2>2. /\ buf' \in Seq(Piece) /\ Len(buf') <= 4 * Limit
        /\ \A k \in 1..Len(buf') : \E i \in 1..Len(s) : buf'[k] = s[i]
    BY <1>2, <2>1, TrimmedFacts
  <2>3. TypeOK'
    BY <1>0, <1>5, <2>1, <2>2 DEF TypeOK
  <2>4. Orderly' /\ OwnOutput' /\ Running'
    BY <1>0, <2>1 DEF Orderly, OwnOutput, Torn, Running, NoAnswer
  <2>5. \A q : Owned(q)' = Owned(q)
    BY <2>1 DEF Owned, Stale, Torn
  <2>6. \A i \in 1..Len(buf') : Owned(buf'[i].run) /\ (buf'[i].kind # "out" => buf'[i].run \in ended)
    BY <1>9, <2>2
  <2>7. \A i \in 1..Len(buf'), j \in 1..m - n : buf'[i].kind = "tail" => stdout'[j].run # buf'[i].run
    BY <1>10, <2>2
  <2>8. Printed'
    BY <1>0, <1>5, <1>11, <1>12, <2>6, <2>7 DEF Printed
  <2>9. Sources'
    BY <1>5, <1>11, <2>5, <2>6 DEF Sources
  <2>10. QED BY <2>3, <2>4, <2>8, <2>9 DEF ShellInv
<1>15. QED BY <1>13, <1>14

LEMMA ShellInvInit ==
    ASSUME Init
    PROVE  ShellInv
<1>1. <<>> \in Seq(Runs) /\ <<>> \in Seq(Piece) /\ Len(<<>>) = 0 /\ \A i \in 1..0 : FALSE
  BY EmptySeq
<1>2. 0 <= 4 * Limit
  BY ShellAssumption
<1>3. NoAnswer \in [from : SUBSET Runs, code : BOOLEAN] /\ NoAnswer.from = {}
  BY DEF NoAnswer
<1>4. TypeOK
  BY <1>1, <1>2, <1>3 DEF Init, TypeOK, Outcomes
<1>5. Orderly /\ Running /\ Printed /\ Sources
  BY <1>1 DEF Init, Orderly, Running, Printed, Sources, Reading
<1>6. OwnOutput
  BY <1>3 DEF Init, OwnOutput, Torn
<1>7. QED BY <1>4, <1>5, <1>6 DEF ShellInv

LEMMA ShellInvStep ==
    ASSUME ShellInv, [Next]_vars
    PROVE  ShellInv'
<1>1. CASE ShellPrints
  BY <1>1, PrintsKeeps
<1>2. CASE CommandEnds
  BY <1>2, CommandEndsKeeps
<1>3. CASE ShellDies \/ Edit \/ ShellClose \/ UNCHANGED vars
  BY <1>3, QuietShellKeeps
<1>4. ASSUME NEW r \in Runs, Calls(r)
      PROVE  ShellInv'
  BY <1>4, ShellRunKeeps, LockedKeeps, ReadKeeps, EndingsKeep DEF Calls
<1>5. QED BY <1>1, <1>2, <1>3, <1>4 DEF Next, Shell

(* For any number of calls, any window and any limit: a session's state has its types, and what
   is kept of the output never exceeds four times the limit (TypeOK). *)
THEOREM ShellTypes == Spec => []TypeOK
<1>1. ShellInv => TypeOK
  BY DEF ShellInv
<1>2. QED BY <1>1, ShellInvInit, ShellInvStep, PTL DEF Spec

(* However calls queue, are cancelled, time out and are cut off: an answer comes after the call's
   own command has ended, and what it holds of another call nobody waits for (OwnOutput). *)
THEOREM AnswersOwnOutput == Spec => []OwnOutput
<1>1. ShellInv => OwnOutput
  BY DEF ShellInv
<1>2. QED BY <1>1, ShellInvInit, ShellInvStep, PTL DEF Spec

------------------------------------------------------------------------------
(* A command's output. *)
(* How far a drain is: what was taken off the stream is kept up to the cap, and the flag
   says whether that was all. *)
Consumed(h, s) == stream[h][s].printed - stream[h][s].unread

Counts(k, n) ==
    /\ k.kept = IF n > Cap THEN Cap ELSE n
    /\ k.flag <=> n > Cap

AnyStream == [open : BOOLEAN, printed : Nat, unread : Nat]
AnySink   == [kept : Nat, flag : BOOLEAN]

StreamTypes ==
    /\ place \in [Hosts -> Places]
    /\ stream \in [Hosts -> [Streams -> AnyStream]]
    /\ sink \in [Hosts -> [Streams -> AnySink]]

Draining(h) ==
    /\ place[h] \in {"queued", "connecting"} => sink[h] = Empty
    /\ \A s \in Streams :
          /\ stream[h][s].unread <= stream[h][s].printed
          /\ place[h] \in {"draining", "closing"} => Counts(sink[h][s], Consumed(h, s))
          /\ place[h] = "closing" => ~ stream[h][s].open /\ stream[h][s].unread = 0

OutputInv == StreamTypes /\ \A h \in Hosts : Draining(h)

(* However the output comes in chunks, what is kept is as much of it as the cap allows. *)
LEMMA TakenCounts ==
    ASSUME NEW k \in AnySink, NEW m \in Nat, NEW n \in Nat, Counts(k, m)
    PROVE  Taken(k, n) \in AnySink /\ Counts(Taken(k, n), m + n)
<1> DEFINE room == Cap - k.kept
<1> DEFINE more == IF n < room THEN n ELSE room
<1>0. Cap \in Nat /\ k.kept \in Nat /\ k.flag \in BOOLEAN
  BY RunAssumption DEF AnySink
<1> DEFINE cut == k.flag \/ n > room
<1>1. Taken(k, n) = [kept |-> k.kept + more, flag |-> cut]
  BY DEF Taken
<1>2. /\ Taken(k, n).kept = k.kept + more
      /\ Taken(k, n).flag = cut
  <2> HIDE DEF cut, more
  <2>1. QED BY <1>1
<1>3. k.kept + more \in Nat /\ k.kept + more = IF m + n > Cap THEN Cap ELSE m + n
  BY <1>0 DEF Counts
<1>4. (m > Cap \/ n > room) <=> m + n > Cap
  BY <1>0 DEF Counts
<1>5. k.flag <=> m > Cap
  BY DEF Counts
<1>6. cut \in BOOLEAN
  OBVIOUS
<1>7. cut <=> m + n > Cap
  <2> HIDE DEF room
  <2>1. QED BY <1>4, <1>5
<1> HIDE DEF more, cut
<1>8. Taken(k, n) \in AnySink
  BY <1>1, <1>3, <1>6 DEF AnySink
<1>9. QED BY <1>2, <1>3, <1>7, <1>8 DEF Counts

(* One stream of one host changes. *)
LEMMA PutFacts ==
    ASSUME NEW X, NEW f \in [Hosts -> [Streams -> X]], NEW h \in Hosts, NEW s \in Streams,
           NEW v \in X, NEW g, g = [f EXCEPT ![h] = [f[h] EXCEPT ![s] = v]]
    PROVE  /\ g \in [Hosts -> [Streams -> X]]
           /\ g[h][s] = v
           /\ \A i \in Hosts, t \in Streams : i # h \/ t # s => g[i][t] = f[i][t]
           /\ \A i \in Hosts \ {h} : g[i] = f[i]
<1>1. [f[h] EXCEPT ![s] = v] \in [Streams -> X]
  OBVIOUS
<1>2. QED BY <1>1

LEMMA OutputStep ==
    ASSUME OutputInv, [RunNext]_runVars
    PROVE  OutputInv'
<1>0. StreamTypes /\ \A h \in Hosts : Draining(h)
  BY DEF OutputInv
<1>1. ASSUME NEW h \in Hosts, NEW s \in Streams, CommandPrints(h, s)
      PROVE  OutputInv'
  <2> DEFINE old == stream[h][s]
  <2> DEFINE new == [old EXCEPT !.printed = @ + 1, !.unread = @ + 1]
  <2>1. UNCHANGED <<place, sink>> /\ old.open
    BY <1>1 DEF CommandPrints
  <2>2. stream' = [stream EXCEPT ![h] = [stream[h] EXCEPT ![s] = new]]
    BY <1>1 DEF CommandPrints
  <2>3. old \in AnyStream
    BY <1>0 DEF StreamTypes
  <2>4. /\ new \in AnyStream
        /\ new.printed = old.printed + 1 /\ new.unread = old.unread + 1
        /\ {old.printed, old.unread} \subseteq Nat
    <3> DEFINE half == [old EXCEPT !.printed = @ + 1]
    <3>1. half \in AnyStream /\ new = [half EXCEPT !.unread = @ + 1]
      BY <2>3 DEF AnyStream
    <3>2. new \in AnyStream
      <4> HIDE DEF half, new
      <4>1. QED BY <3>1 DEF AnyStream
    <3>3. QED BY <2>3, <3>2 DEF AnyStream
  <2> HIDE DEF new
  <2>5. /\ stream' \in [Hosts -> [Streams -> AnyStream]] /\ stream'[h][s] = new
        /\ \A i \in Hosts, t \in Streams : i # h \/ t # s => stream'[i][t] = stream[i][t]
        /\ \A i \in Hosts \ {h} : stream'[i] = stream[i]
    BY <1>0, <2>2, <2>4, PutFacts DEF StreamTypes
  <2>6. StreamTypes'
    BY <1>0, <2>1, <2>5 DEF StreamTypes
  <2>7. Consumed(h, s)' = Consumed(h, s) /\ place[h] # "closing"
    <3>1. place[h] # "closing"
      BY <1>0, <2>1 DEF Draining
    <3>2. new.printed - new.unread = old.printed - old.unread
      BY <2>4
    <3>3. QED BY <2>5, <3>1, <3>2 DEF Consumed
  <2>8. new.unread <= new.printed
    BY <1>0, <2>3, <2>4 DEF Draining, AnyStream
  <2>9. Draining(h)'
    BY <1>0, <2>1, <2>5, <2>7, <2>8 DEF Draining, Consumed
  <2>10. \A i \in Hosts \ {h} : Draining(i)'
    BY <1>0, <2>1, <2>5 DEF Draining, Consumed
  <2>11. QED BY <2>6, <2>9, <2>10 DEF OutputInv
<1>2. ASSUME NEW h \in Hosts, NEW s \in Streams, StreamCloses(h, s)
      PROVE  OutputInv'
  <2> DEFINE old == stream[h][s]
  <2> DEFINE new == [old EXCEPT !.open = FALSE]
  <2>1. UNCHANGED <<place, sink>>
    BY <1>2 DEF StreamCloses
  <2>2. stream' = [stream EXCEPT ![h] = [stream[h] EXCEPT ![s] = new]]
    BY <1>2 DEF StreamCloses
  <2>3. old \in AnyStream
    BY <1>0 DEF StreamTypes
  <2>4. /\ new \in AnyStream /\ ~ new.open
        /\ new.printed = old.printed /\ new.unread = old.unread
    BY <2>3 DEF AnyStream
  <2> HIDE DEF new
  <2>5. /\ stream' \in [Hosts -> [Streams -> AnyStream]] /\ stream'[h][s] = new
        /\ \A i \in Hosts, t \in Streams : i # h \/ t # s => stream'[i][t] = stream[i][t]
        /\ \A i \in Hosts \ {h} : stream'[i] = stream[i]
    BY <1>0, <2>2, <2>4, PutFacts DEF StreamTypes
  <2>6. StreamTypes'
    BY <1>0, <2>1, <2>5 DEF StreamTypes
  <2>7. Draining(h)'
    BY <1>0, <2>1, <2>4, <2>5 DEF Draining, Consumed
  <2>8. \A i \in Hosts \ {h} : Draining(i)'
    BY <1>0, <2>1, <2>5 DEF Draining, Consumed
  <2>9. QED BY <2>6, <2>7, <2>8 DEF OutputInv
<1>3. ASSUME NEW h \in Hosts, NEW s \in Streams, Drain(h, s)
      PROVE  OutputInv'
  <2>1. PICK n \in 1..stream[h][s].unread :
            /\ sink' = [sink EXCEPT ![h][s] = Taken(@, n)]
            /\ stream' = [stream EXCEPT ![h][s].unread = @ - n]
    BY <1>3 DEF Drain
  <2> DEFINE old == stream[h][s]
  <2> DEFINE new == [old EXCEPT !.unread = @ - n]
  <2> DEFINE kept == Taken(sink[h][s], n)
  <2>2. UNCHANGED place /\ place[h] = "draining"
    BY <1>3 DEF Drain
  <2>3. old \in AnyStream /\ sink[h][s] \in AnySink
    BY <1>0 DEF StreamTypes
  <2>4. /\ n \in Nat /\ new \in AnyStream
        /\ new.printed = old.printed /\ new.unread = old.unread - n
    BY <2>3 DEF AnyStream
  <2>5. old.unread <= old.printed /\ Counts(sink[h][s], Consumed(h, s))
    BY <1>0, <2>2 DEF Draining
  <2>6. Consumed(h, s) \in Nat /\ old.printed - new.unread = Consumed(h, s) + n
        /\ new.unread <= new.printed
    BY <2>3, <2>4, <2>5 DEF AnyStream, Consumed
  <2>7. kept \in AnySink /\ Counts(kept, Consumed(h, s) + n)
    BY <2>3, <2>4, <2>5, <2>6, TakenCounts
  <2>8. /\ stream' = [stream EXCEPT ![h] = [stream[h] EXCEPT ![s] = new]]
        /\ sink' = [sink EXCEPT ![h] = [sink[h] EXCEPT ![s] = kept]]
    BY <2>1
  <2> HIDE DEF new, kept
  <2>9. /\ stream' \in [Hosts -> [Streams -> AnyStream]] /\ stream'[h][s] = new
        /\ \A i \in Hosts, t \in Streams : i # h \/ t # s => stream'[i][t] = stream[i][t]
        /\ \A i \in Hosts \ {h} : stream'[i] = stream[i]
    BY <1>0, <2>4, <2>8, PutFacts DEF StreamTypes
  <2>10. /\ sink' \in [Hosts -> [Streams -> AnySink]] /\ sink'[h][s] = kept
         /\ \A i \in Hosts, t \in Streams : i # h \/ t # s => sink'[i][t] = sink[i][t]
         /\ \A i \in Hosts \ {h} : sink'[i] = sink[i]
    BY <1>0, <2>7, <2>8, PutFacts DEF StreamTypes
  <2>11. StreamTypes'
    BY <1>0, <2>2, <2>9, <2>10 DEF StreamTypes
  <2>12. Consumed(h, s)' = Consumed(h, s) + n
    BY <2>4, <2>6, <2>9 DEF Consumed
  <2>13. Draining(h)'
    BY <1>0, <2>2, <2>6, <2>7, <2>9, <2>10, <2>12 DEF Draining, Consumed
  <2>14. \A i \in Hosts \ {h} : Draining(i)'
    BY <1>0, <2>2, <2>9, <2>10 DEF Draining, Consumed
  <2>15. QED BY <2>11, <2>13, <2>14 DEF OutputInv
<1>4. ASSUME NEW h \in Hosts, Started(h)
      PROVE  OutputInv'
  <2> DEFINE new == [s \in Streams |-> [Quiet[s] EXCEPT !.open = TRUE]]
  <2>1. /\ place[h] = "connecting" /\ UNCHANGED sink
        /\ place' = [place EXCEPT ![h] = "draining"]
        /\ stream' = [stream EXCEPT ![h] = new]
    BY <1>4 DEF Started, UpTo
  <2>2. \A s \in Streams : Quiet[s] \in AnyStream /\ Quiet[s].unread = 0 /\ Quiet[s].printed = 0
    BY DEF Quiet, AnyStream
  <2>3. new \in [Streams -> AnyStream]
    BY <2>2 DEF AnyStream
  <2>4. \A s \in Streams : new[s].unread = 0 /\ new[s].printed = 0
    BY <2>2 DEF AnyStream
  <2> HIDE DEF new
  <2>5. StreamTypes' /\ place'[h] = "draining" /\ stream'[h] = new
    BY <1>0, <2>1, <2>3 DEF StreamTypes, Places
  <2>6. \A s \in Streams : Counts(sink'[h][s], 0)
    BY <1>0, <2>1, RunAssumption DEF Draining, Counts, Empty
  <2>7. Draining(h)'
    BY <2>4, <2>5, <2>6 DEF Draining, Consumed
  <2>8. \A i \in Hosts \ {h} : Draining(i)'
    BY <1>0, <2>1 DEF Draining, Consumed, StreamTypes
  <2>9. QED BY <2>5, <2>7, <2>8 DEF OutputInv
<1>5. ASSUME NEW h \in Hosts, NEW r, Answer(h, r)
      PROVE  OutputInv'
  <2>1. /\ place' = [place EXCEPT ![h] = "done"]
        /\ stream' = [stream EXCEPT ![h] = Quiet] /\ sink' = [sink EXCEPT ![h] = Empty]
    BY <1>5 DEF Answer, UpTo
  <2>2. /\ Quiet \in [Streams -> AnyStream] /\ Empty \in [Streams -> AnySink]
        /\ \A s \in Streams : Quiet[s].unread = 0 /\ Quiet[s].printed = 0
    BY DEF Quiet, Empty, AnyStream, AnySink
  <2>3. StreamTypes' /\ place'[h] = "done" /\ stream'[h] = Quiet
    BY <1>0, <2>1, <2>2 DEF StreamTypes, Places
  <2>4. Draining(h)'
    BY <2>2, <2>3 DEF Draining
  <2>5. \A i \in Hosts \ {h} : Draining(i)'
    BY <1>0, <2>1 DEF Draining, Consumed, StreamTypes
  <2>6. QED BY <2>3, <2>4, <2>5 DEF OutputInv
<1>6. ASSUME NEW h \in Hosts, Drained(h)
      PROVE  OutputInv'
  BY <1>0, <1>6 DEF Drained, UpTo, OutputInv, StreamTypes, Draining, Consumed, Places
<1>7. ASSUME NEW h \in Hosts, Enter(h) \/ TimesOut(h)
      PROVE  OutputInv'
  BY <1>0, <1>7 DEF Enter, TimesOut, UpTo, OutputInv, StreamTypes, Draining, Consumed, Places
<1>8. ASSUME UNCHANGED runVars \/ \E h \in Hosts : CommandExits(h)
      PROVE  OutputInv'
  <2>1. UNCHANGED <<place, stream, sink>>
    BY <1>8 DEF CommandExits, runVars
  <2>2. QED BY <1>0, <2>1 DEF OutputInv, StreamTypes, Draining, Consumed
<1>9. ASSUME NEW h \in Hosts, Raises(h) \/ Ended(h) \/ GivenUp(h)
      PROVE  \E r : Answer(h, r)
  BY <1>9 DEF Raises, Ended, GivenUp
<1>10. QED
  BY <1>1, <1>2, <1>3, <1>4, <1>5, <1>6, <1>7, <1>8, <1>9 DEF RunNext, OnHost, One

(* For every cap and however the output is cut into chunks: it is kept up to the cap, and
   what is not kept is flagged (SaysWhatItCut). *)
THEOREM CutIsFlagged == RunSpec => []SaysWhatItCut
<1>1. RunInit => OutputInv
  <2> SUFFICES ASSUME RunInit PROVE OutputInv
    OBVIOUS
  <2>1. /\ Quiet \in [Streams -> AnyStream] /\ Empty \in [Streams -> AnySink]
        /\ \A s \in Streams : Quiet[s].unread = 0 /\ Quiet[s].printed = 0
    BY DEF Quiet, Empty, AnyStream, AnySink
  <2>2. StreamTypes
    BY <2>1 DEF RunInit, StreamTypes, Places
  <2>3. \A h \in Hosts : Draining(h)
    BY <2>1 DEF RunInit, Draining
  <2>4. QED BY <2>2, <2>3 DEF OutputInv
<1>2. OutputInv /\ [RunNext]_runVars => OutputInv'
  BY OutputStep
<1>3. OutputInv => SaysWhatItCut
  <2> SUFFICES ASSUME OutputInv, NEW h \in Hosts, NEW s \in Streams, place[h] = "closing"
               PROVE  Counts(sink[h][s], stream[h][s].printed)
    BY DEF SaysWhatItCut, Counts
  <2>1. Counts(sink[h][s], Consumed(h, s)) /\ stream[h][s].unread = 0
    BY DEF OutputInv, Draining
  <2>2. stream[h][s].printed \in Nat
    BY DEF OutputInv, StreamTypes, AnyStream
  <2>3. Consumed(h, s) = stream[h][s].printed
    BY <2>1, <2>2 DEF Consumed
  <2>4. QED BY <2>1, <2>3
<1>4. QED BY <1>1, <1>2, <1>3, PTL DEF RunSpec

------------------------------------------------------------------------------
(* The backups of files. *)
FileTypes ==
    /\ writer \in [Writers -> Writer]
    /\ shadow = [w \in Writers |-> shadow[w]]
    /\ backups = [t \in 0..MaxClock |-> backups[t]]
    /\ second \in 0..MaxClock /\ source \in Nat
    /\ past = [w \in Writers |-> past[w]]
    /\ met \subseteq Writers /\ shared \subseteq Writers

(* A call that has its copy, and that nobody came between, holds a copy of what is at the
   path; once it has opened the path, of what it overwrote. *)
Kept(w) ==
    /\ writer[w].at \in {"new", "looked"} => writer[w].name = NoName
    /\ writer[w].at \in {"new", "looked", "copying", "ready"} => shadow[w] = Absent
    /\ writer[w].name # NoName /\ w \notin met \cup shared =>
           /\ writer[w].at = "ready" => target # Absent /\ backups[writer[w].name] = target
           /\ shadow[w] # Absent => backups[writer[w].name] = shadow[w]

FilesInv == FileTypes /\ \A w \in Writers : Kept(w)

(* A call that others leave alone, or that ends. *)
LEMMA StillKept ==
    ASSUME FilesInv, NEW q \in Writers, shadow'[q] = shadow[q],
           writer'[q].name = writer[q].name,
           writer'[q].at = writer[q].at \/ writer'[q].at \in {"unlinked", "done", "failed"},
           writer[q].name # NoName /\ q \notin (met \cup shared)' =>
               /\ q \notin met \cup shared
               /\ writer'[q].at = "ready" => target' = target
               /\ backups'[writer[q].name] = backups[writer[q].name]
    PROVE  Kept(q)'
<1>1. Kept(q)
  BY DEF FilesInv
<1>2. NoName' = NoName
  BY DEF NoName
<1>3. QED BY <1>1, <1>2 DEF Kept

LEMMA FilesStep ==
    ASSUME FilesInv, [FilesNext]_fileToolVars
    PROVE  FilesInv'
<1>0. FileTypes /\ \A w \in Writers : Kept(w)
  BY DEF FilesInv
<1> USE DEF NoName
<1>1. CASE UNCHANGED fileToolVars \/ ClockTicks
  <2>1. UNCHANGED <<target, backups, writer, source, history>> /\ second' \in 0..MaxClock
    BY <1>0, <1>1, FilesAssumption DEF fileToolVars, ClockTicks, FileTypes
  <2>2. FileTypes'
    BY <1>0, <2>1 DEF FileTypes, history
  <2>3. \A w \in Writers : Kept(w)'
    BY <2>1, StillKept DEF history
  <2>4. QED BY <2>2, <2>3 DEF FilesInv
<1>2. CASE DeletePath
  <2>1. /\ UNCHANGED <<backups, second, source, shadow, shared>> /\ met' = met \cup Copied
        /\ Recorded(Pending)
        /\ writer' = [w \in Writers |-> IF Spot(w, "open") THEN [writer[w] EXCEPT !.at = "unlinked"]
                                        ELSE writer[w]]
    BY <1>2 DEF DeletePath
  <2>2. FileTypes'
    BY <1>0, <2>1 DEF FileTypes, Writer, Spots, Copied, Recorded
  <2>3. ASSUME NEW w \in Writers
        PROVE  Kept(w)'
    <3>1. /\ writer'[w].name = writer[w].name
          /\ writer'[w].at = writer[w].at \/ writer'[w].at = "unlinked"
      BY <1>0, <2>1 DEF FileTypes, Writer
    <3>2. writer'[w].at = "ready" => w \in met'
      BY <2>1, <3>1 DEF Copied
    <3>3. QED BY <2>1, <3>1, <3>2, StillKept
  <2>4. QED BY <2>2, <2>3 DEF FilesInv
<1>3. ASSUME NEW w \in Writers, UNCHANGED <<backups, second, source, shadow, shared>>,
             past' = [q \in Writers |-> past'[q]], met \subseteq met', met' \subseteq Writers,
             writer' \in [Writers -> Writer], \A q \in Writers \ {w} : writer'[q] = writer[q],
             target' = target \/ Copied \ {w} \subseteq met' \/ target = Absent,
             Kept(w)'
      PROVE  FilesInv'
  <2>1. FileTypes'
    BY <1>0, <1>3 DEF FileTypes
  <2>2. ASSUME NEW q \in Writers \ {w}
        PROVE  Kept(q)'
    <3>1. writer[q].name # NoName /\ q \notin (met \cup shared)' /\ writer'[q].at = "ready"
              => target' = target
      BY <1>0, <1>3 DEF Kept, Copied
    <3>2. QED BY <1>3, <3>1, StillKept
  <2>3. QED BY <1>3, <2>1, <2>2 DEF FilesInv
<1>4. ASSUME NEW w \in Writers, LookForFile(w) \/ NameBackup(w) \/ CopyFails(w) \/ Relay(w)
      PROVE  FilesInv'
  <2>1. /\ UNCHANGED <<target, backups, second, source, shadow, met, shared>>
        /\ past' = [q \in Writers |-> past'[q]]
    BY <1>0, <1>4 DEF LookForFile, NameBackup, CopyFails, Relay, history, FileTypes
  <2>2. /\ writer' \in [Writers -> Writer] /\ \A q \in Writers \ {w} : writer'[q] = writer[q]
        /\ writer[w].at \in {"new", "looked", "copying"}
        /\ \/ writer'[w].at \in {"looked", "ready", "failed"} /\ writer'[w].name = NoName
           \/ writer'[w].at = "copying"
    <3> MaxClock \in Nat /\ MaxFile \in Nat
      BY FilesAssumption
    <3>1. writer \in [Writers -> Writer] /\ second \in 0..MaxClock /\ source \in Nat /\ Kept(w)
      BY <1>0 DEF FileTypes
    <3>2. CASE LookForFile(w)
      <4>1. writer[w].at = "new" /\ (MoveTo(w, "looked") \/ MoveTo(w, "ready"))
        BY <3>2 DEF LookForFile, Spot
      <4>2. QED BY <3>1, <4>1 DEF MoveTo, Writer, Spots, Kept
    <3>3. CASE NameBackup(w)
      <4> DEFINE new == [writer[w] EXCEPT !.at = "copying", !.name = second]
      <4>1. writer[w].at = "looked" /\ writer' = [writer EXCEPT ![w] = new]
        BY <3>3 DEF NameBackup, Spot
      <4>2. second \in 0..MaxClock + 1
        BY <3>1
      <4>3. new \in Writer /\ new.at = "copying"
        BY <3>1, <4>2 DEF Writer, Spots
      <4> HIDE DEF new
      <4>4. QED BY <3>1, <4>1, <4>3
    <3>4. CASE CopyFails(w)
      <4> DEFINE new == [writer[w] EXCEPT !.at = "ready", !.name = NoName]
      <4>1. writer[w].at = "copying" /\ writer' = [writer EXCEPT ![w] = new]
        BY <3>4 DEF CopyFails, Spot
      <4>2. new \in Writer /\ new.at = "ready" /\ new.name = NoName
        <5>1. NoName \in 0..NoName
          OBVIOUS
        <5>2. writer[w] \in Writer
          BY <3>1
        <5> HIDE DEF NoName
        <5>3. QED BY <5>1, <5>2 DEF Writer, Spots
      <4> HIDE DEF new
      <4>3. QED BY <3>1, <4>1, <4>2
    <3>5. CASE Relay(w)
      <4>1. ReadCapped > MaxFile \/ ReadCapped \in 0..MaxFile
        BY <3>1 DEF ReadCapped
      <4>2. QED BY <3>1, <3>5, <4>1 DEF Relay, MoveTo, Spot, Writer, Spots, Kept
    <3>6. QED BY <1>4, <3>2, <3>3, <3>4, <3>5
  <2>3. shadow[w] = Absent
    BY <1>0, <2>2 DEF Kept
  <2>4. Kept(w)'
    BY <2>1, <2>2, <2>3 DEF Kept
  <2>5. QED BY <1>0, <1>3, <2>1, <2>2, <2>4 DEF FileTypes
<1>5. ASSUME NEW w \in Writers, CopyFile(w)
      PROVE  FilesInv'
  <2>1. /\ UNCHANGED <<target, second, source, shadow, past>> /\ target # Absent
        /\ writer[w].at = "copying"
        /\ backups' = [backups EXCEPT ![writer[w].name] = target]
        /\ met' = met \ {w}
        /\ shared' = (shared \ {w}) \cup {q \in Writers \ {w} : writer[q].name = writer[w].name}
    BY <1>5 DEF CopyFile, Spot
  <2>2. /\ writer' \in [Writers -> Writer] /\ \A q \in Writers \ {w} : writer'[q] = writer[q]
        /\ writer'[w].at = "ready"
        /\ writer'[w].name = writer[w].name \/ writer'[w].name = NoName
    <3>1. writer \in [Writers -> Writer] /\ NoName \in 0..NoName
      BY <1>0, FilesAssumption DEF FileTypes
    <3>2. \/ writer' = [writer EXCEPT ![w].at = "ready"]
          \/ writer' = [writer EXCEPT ![w].at = "ready", ![w].name = NoName]
      BY <1>5 DEF CopyFile, MoveTo
    <3>3. QED BY <3>1, <3>2 DEF Writer, Spots
  <2>3. FileTypes'
    BY <1>0, <2>1, <2>2 DEF FileTypes
  <2>4. ASSUME NEW q \in Writers \ {w}
        PROVE  Kept(q)'
    <3>1. writer[q].name # NoName /\ q \notin (met \cup shared)' =>
              q \notin met \cup shared /\ backups'[writer[q].name] = backups[writer[q].name]
      BY <1>0, <2>1 DEF FileTypes, Writer
    <3>2. QED BY <2>1, <2>2, <3>1, StillKept
  <2>5. Kept(w)'
    <3>1. shadow'[w] = Absent
      BY <1>0, <2>1 DEF Kept
    <3>2. CASE writer'[w].name = NoName
      BY <2>2, <3>1, <3>2 DEF Kept
    <3>3. CASE writer'[w].name # NoName
      <4>1. writer'[w].name \in 0..MaxClock /\ writer'[w].name = writer[w].name
        BY <2>2, <3>3, FilesAssumption DEF Writer
      <4>2. backups'[writer'[w].name] = target
        BY <1>0, <2>1, <4>1 DEF FileTypes
      <4>3. QED BY <2>1, <2>2, <3>1, <4>2 DEF Kept
    <3>4. QED BY <3>2, <3>3
  <2>6. QED BY <2>3, <2>4, <2>5 DEF FilesInv
<1>6. ASSUME NEW w \in Writers, OpenFile(w)
      PROVE  FilesInv'
  <2>1. /\ UNCHANGED <<backups, second, source, shared>> /\ writer[w].at = "ready"
        /\ past' = [q \in Writers |-> past'[q]]
        /\ writer' \in [Writers -> Writer] /\ \A q \in Writers \ {w} : writer'[q] = writer[q]
        /\ writer'[w].at = "open" /\ writer'[w].name = writer[w].name
    BY <1>0, <1>6 DEF OpenFile, MoveTo, Spot, FileTypes, Writer, Spots, Recorded
  <2>2. shadow[w] = Absent
    BY <1>0, <2>1 DEF Kept
  <2>3. CASE Is(w, "append")
    <3>1. UNCHANGED <<shadow, met>> /\ (target' = target \/ target = Absent)
      BY <1>6, <2>3 DEF OpenFile
    <3>2. Kept(w)'
      BY <2>1, <2>2, <3>1 DEF Kept
    <3>3. QED BY <1>0, <1>3, <2>1, <3>1, <3>2 DEF FileTypes
  <2>4. CASE ~ Is(w, "append")
    <3>1. shadow' = [shadow EXCEPT ![w] = target] /\ met' = met \cup (Copied \ {w})
      BY <1>6, <2>4 DEF OpenFile
    <3>2. FileTypes'
      BY <1>0, <2>1, <3>1 DEF FileTypes, Copied
    <3>3. ASSUME NEW q \in Writers \ {w}
          PROVE  Kept(q)'
      <4>1. shadow'[q] = shadow[q]
        BY <1>0, <3>1 DEF FileTypes
      <4>2. writer'[q].at = "ready" => q \in met'
        BY <2>1, <3>1 DEF Copied
      <4>3. QED BY <2>1, <3>1, <4>1, <4>2, StillKept
    <3>4. Kept(w)'
      <4>1. shadow'[w] = target
        BY <1>0, <3>1 DEF FileTypes
      <4>2. w \notin (met \cup shared)' => w \notin met \cup shared
        BY <2>1, <3>1
      <4>3. QED BY <1>0, <2>1, <4>1, <4>2 DEF Kept
    <3>5. QED BY <3>2, <3>3, <3>4 DEF FilesInv
  <2>5. QED BY <2>3, <2>4
<1>7. ASSUME NEW w \in Writers, WriteFile(w) \/ CallFails(w)
      PROVE  FilesInv'
  <2>1. /\ UNCHANGED <<backups, second, source, shadow, shared>>
        /\ past' = [q \in Writers |-> past'[q]]
        /\ writer' \in [Writers -> Writer] /\ \A q \in Writers \ {w} : writer'[q] = writer[q]
        /\ writer'[w].at \in {"done", "failed"} /\ writer'[w].name = writer[w].name
    <3>1. /\ UNCHANGED <<backups, second, source, shadow, shared>>
          /\ past' = [q \in Writers |-> past'[q]]
          /\ MoveTo(w, "done") \/ MoveTo(w, "failed")
      BY <1>0, <1>7 DEF WriteFile, CallFails, Recorded, history, FileTypes
    <3>2. PICK spot \in {"done", "failed"} : writer' = [writer EXCEPT ![w].at = spot]
      BY <3>1 DEF MoveTo
    <3>3. [writer[w] EXCEPT !.at = spot] \in Writer
      BY <1>0 DEF FileTypes, Writer, Spots
    <3>4. QED BY <1>0, <3>1, <3>2, <3>3 DEF FileTypes, Writer
  <2>2. \/ UNCHANGED <<target, met>>
        \/ met' = met \cup (Copied \ {w})
    BY <1>7 DEF WriteFile, CallFails, history
  <2>3. Kept(w)'
    BY <2>1, <2>2, StillKept
  <2>4. QED BY <1>0, <1>3, <2>1, <2>2, <2>3 DEF FileTypes, Copied
<1>8. QED
  BY <1>1, <1>2, <1>4, <1>5, <1>6, <1>7 DEF FilesNext

(* A call that is about to take its copy will copy something that it has seen; who has
   overwritten the file, or will, and whose backup nobody replaced, has such a copy. *)
Seen(w) ==
    /\ writer[w].at \in {"looked", "copying"} => target \in past[w]
    /\ writer[w].name # NoName /\ w \notin shared /\ (writer[w].at = "ready" \/ shadow[w] # Absent)
           => backups[writer[w].name] \in past[w] \ {Absent}

LEMMA StillSeen ==
    ASSUME FilesInv, NEW q \in Writers, Seen(q), shadow'[q] = shadow[q],
           writer'[q].name = writer[q].name,
           writer'[q].at = writer[q].at \/ writer'[q].at \in {"unlinked", "done", "failed"},
           past[q] \subseteq past'[q],
           writer[q].at \in {"looked", "copying"} => target' = target \/ target' \in past'[q],
           writer[q].name # NoName /\ q \notin shared' =>
               q \notin shared /\ backups'[writer[q].name] = backups[writer[q].name]
    PROVE  Seen(q)'
BY DEF Seen, NoName

LEMMA SeenStep ==
    ASSUME FilesInv, \A w \in Writers : Seen(w), [FilesNext]_fileToolVars
    PROVE  \A w \in Writers : Seen(w)'
<1>0. FileTypes /\ \A w \in Writers : Kept(w)
  BY DEF FilesInv
<1> USE DEF NoName
<1>1. CASE UNCHANGED fileToolVars \/ ClockTicks
  <2>1. UNCHANGED <<target, backups, writer, history>>
    BY <1>1 DEF fileToolVars, ClockTicks
  <2>2. QED BY <2>1, StillSeen DEF history
<1>2. CASE DeletePath
  <2>1. /\ UNCHANGED <<backups, shadow, shared>> /\ Recorded(Pending)
        /\ writer' = [w \in Writers |-> IF Spot(w, "open") THEN [writer[w] EXCEPT !.at = "unlinked"]
                                        ELSE writer[w]]
    BY <1>2 DEF DeletePath
  <2>2. ASSUME NEW w \in Writers
        PROVE  Seen(w)'
    <3>1. /\ writer'[w].name = writer[w].name
          /\ writer'[w].at = writer[w].at \/ writer'[w].at = "unlinked"
      BY <1>0, <2>1 DEF FileTypes, Writer
    <3>2. /\ past[w] \subseteq past'[w]
          /\ writer[w].at \in {"looked", "copying"} => target' \in past'[w]
      BY <2>1 DEF Recorded, Pending
    <3>3. QED BY <2>1, <3>1, <3>2, StillSeen
  <2>3. QED BY <2>2
<1>3. ASSUME NEW w \in Writers, UNCHANGED <<target, backups, shadow, shared>>,
             \A q \in Writers \ {w} : writer'[q] = writer[q] /\ past'[q] = past[q],
             Seen(w)'
      PROVE  \A q \in Writers : Seen(q)'
  BY <1>3, StillSeen
<1>4. ASSUME NEW w \in Writers,
             LookForFile(w) \/ NameBackup(w) \/ CopyFails(w) \/ Relay(w) \/ CallFails(w)
      PROVE  \A q \in Writers : Seen(q)'
  <2>1. /\ UNCHANGED <<target, backups, shadow, shared>>
        /\ \A q \in Writers \ {w} : writer'[q] = writer[q] /\ past'[q] = past[q]
    BY <1>0, <1>4 DEF LookForFile, NameBackup, CopyFails, Relay, CallFails, MoveTo, history, FileTypes
  <2>2. writer[w] \in Writer /\ Kept(w)
    BY <1>0 DEF FileTypes
  <2>3. CASE LookForFile(w)
    <3>1. /\ writer[w].at = "new" /\ (MoveTo(w, "looked") \/ MoveTo(w, "ready"))
          /\ past' = [past EXCEPT ![w] = {target}]
      BY <2>3 DEF LookForFile, Spot
    <3>2. past'[w] = {target} /\ writer'[w].name = NoName /\ shadow[w] = Absent
      BY <1>0, <2>2, <3>1 DEF MoveTo, FileTypes, Kept, Writer
    <3>3. Seen(w)'
      BY <2>1, <3>2 DEF Seen
    <3>4. QED BY <1>3, <2>1, <3>3
  <2>4. CASE NameBackup(w)
    <3>1. /\ writer[w].at = "looked" /\ past' = past
          /\ writer' = [writer EXCEPT ![w].at = "copying", ![w].name = second]
      BY <2>4 DEF NameBackup, Spot, history
    <3>2. writer'[w].at = "copying" /\ shadow[w] = Absent
      BY <1>0, <2>2, <3>1 DEF FileTypes, Kept, Writer
    <3>3. Seen(w)'
      BY <2>1, <3>1, <3>2 DEF Seen
    <3>4. QED BY <1>3, <2>1, <3>3
  <2>5. CASE CopyFails(w)
    <3>1. /\ past' = past
          /\ writer' = [writer EXCEPT ![w].at = "ready", ![w].name = NoName]
      BY <2>5 DEF CopyFails, history
    <3>2. writer'[w].at = "ready" /\ writer'[w].name = NoName
      BY <1>0, <2>2, <3>1 DEF FileTypes, Writer
    <3>3. Seen(w)'
      BY <3>2 DEF Seen
    <3>4. QED BY <1>3, <2>1, <3>3
  <2>6. CASE Relay(w)
    <3>1. writer[w].at = "new" /\ writer[w].name = NoName
      BY <2>2, <2>6 DEF Relay, Spot, Kept
    <3>2. writer'[w].at \in {"ready", "failed"} /\ writer'[w].name = NoName
      BY <1>0, <2>2, <2>6, <3>1 DEF Relay, MoveTo, FileTypes, Writer
    <3>3. Seen(w)'
      BY <3>2 DEF Seen
    <3>4. QED BY <1>3, <2>1, <3>3
  <2>7. CASE CallFails(w)
    <3>1. past' = past /\ writer' = [writer EXCEPT ![w].at = "failed"]
      BY <2>7 DEF CallFails, MoveTo, history
    <3>2. writer'[w].at = "failed" /\ writer'[w].name = writer[w].name
      BY <1>0, <2>2, <3>1 DEF FileTypes, Writer
    <3>3. Seen(w)'
      BY <2>1, <3>1, <3>2, StillSeen
    <3>4. QED BY <1>3, <2>1, <3>3
  <2>8. QED BY <1>4, <2>3, <2>4, <2>5, <2>6, <2>7
<1>5. ASSUME NEW w \in Writers, CopyFile(w)
      PROVE  \A q \in Writers : Seen(q)'
  <2>1. /\ UNCHANGED <<target, shadow, past>> /\ target # Absent
        /\ writer[w].at = "copying"
        /\ backups' = [backups EXCEPT ![writer[w].name] = target]
        /\ shared' = (shared \ {w}) \cup {q \in Writers \ {w} : writer[q].name = writer[w].name}
    BY <1>5 DEF CopyFile, Spot
  <2>2. /\ writer' \in [Writers -> Writer] /\ \A q \in Writers \ {w} : writer'[q] = writer[q]
        /\ writer'[w].at = "ready"
        /\ writer'[w].name = writer[w].name \/ writer'[w].name = NoName
    <3>1. writer \in [Writers -> Writer] /\ NoName \in 0..NoName
      BY <1>0, FilesAssumption DEF FileTypes
    <3>2. \/ writer' = [writer EXCEPT ![w].at = "ready"]
          \/ writer' = [writer EXCEPT ![w].at = "ready", ![w].name = NoName]
      BY <1>5 DEF CopyFile, MoveTo
    <3>3. QED BY <3>1, <3>2 DEF Writer, Spots
  <2>3. ASSUME NEW q \in Writers \ {w}
        PROVE  Seen(q)'
    <3>1. writer[q].name # NoName /\ q \notin shared' =>
              q \notin shared /\ backups'[writer[q].name] = backups[writer[q].name]
      BY <1>0, <2>1 DEF FileTypes, Writer
    <3>2. QED BY <2>1, <2>2, <3>1, StillSeen
  <2>4. Seen(w)'
    <3>1. target \in past[w]
      BY <2>1 DEF Seen
    <3>2. CASE writer'[w].name = NoName
      BY <2>2, <3>2 DEF Seen
    <3>3. CASE writer'[w].name # NoName
      <4>1. writer'[w].name \in 0..MaxClock /\ writer'[w].name = writer[w].name
        BY <2>2, <3>3, FilesAssumption DEF Writer
      <4>2. backups'[writer'[w].name] = target
        BY <1>0, <2>1, <4>1 DEF FileTypes
      <4>3. QED BY <2>1, <2>2, <3>1, <4>2 DEF Seen
    <3>4. QED BY <3>2, <3>3
  <2>5. QED BY <2>3, <2>4
<1>6. ASSUME NEW w \in Writers, OpenFile(w) \/ WriteFile(w)
      PROVE  \A q \in Writers : Seen(q)'
  <2>1. /\ UNCHANGED <<backups, shared>> /\ Recorded(Pending \ {w})
        /\ writer[w].at \in {"ready", "open", "unlinked"}
        /\ MoveTo(w, "open") \/ MoveTo(w, "done")
        /\ \A q \in Writers \ {w} : shadow'[q] = shadow[q]
    BY <1>0, <1>6 DEF OpenFile, WriteFile, Spot, FileTypes
  <2>2. /\ \A q \in Writers \ {w} : writer'[q] = writer[q]
        /\ writer'[w].at \in {"open", "done"} /\ writer'[w].name = writer[w].name
    BY <1>0, <2>1 DEF MoveTo, FileTypes, Writer
  <2>3. /\ \A q \in Writers : past[q] \subseteq past'[q]
        /\ \A q \in Writers \ {w} : writer[q].at \in {"looked", "copying"} => target' \in past'[q]
    BY <2>1 DEF Recorded, Pending
  <2>4. ASSUME NEW q \in Writers \ {w}
        PROVE  Seen(q)'
    BY <2>1, <2>2, <2>3, StillSeen
  <2>5. Seen(w)'
    <3>1. writer[w].at = "ready" \/ shadow'[w] = shadow[w]
      BY <1>0, <1>6 DEF OpenFile, WriteFile, Spot
    <3>2. QED BY <2>1, <2>2, <2>3, <3>1 DEF Seen
  <2>6. QED BY <2>4, <2>5
<1>7. QED BY <1>1, <1>2, <1>4, <1>5, <1>6 DEF FilesNext

(* Any number of calls that write, copy, append and delete, overlapping in any order: who
   names a backup that no other call has taken the name of finds there a file that stood at
   the path between its look and its open; and, if nobody changed the path between its cp and
   its open, what it overwrote (BackedUp). *)
THEOREM OverwritesAreBackedUp == FilesSpec => []BackedUp
<1> DEFINE Inv == FilesInv /\ \A w \in Writers : Seen(w)
<1>1. FilesInit => Inv
  BY FilesAssumption
  DEF FilesInit, FilesInv, FileTypes, Kept, Seen, Writer, Spots, NoName
<1>2. Inv /\ [FilesNext]_fileToolVars => Inv'
  BY FilesStep, SeenStep
<1>3. Inv => BackedUp
  BY DEF FilesInv, Kept, Seen, BackedUp
<1>4. QED BY <1>1, <1>2, <1>3, PTL DEF FilesSpec
------------------------------------------------------------------------------
(* Types. *)
(* Who is between the semaphore and its row. *)
Holding == {h \in Hosts : place[h] \in {"connecting", "draining", "closing", "killed"}}
PermitsAddUp == IsFiniteSet(Holding) /\ permits \in Nat /\ permits + Cardinality(Holding) = Concurrency

RunTypes ==
    /\ place \in [Hosts -> Places]
    /\ process \in [Hosts -> {"none", "running"} \cup Codes]
    /\ stream \in [Hosts -> [Streams -> Stream]]
    /\ sink \in [Hosts -> [Streams -> Sink]]
    /\ row \in [Hosts -> Row \cup {NoRow, Failed}]

(* A command that is waited for has been started. *)
StartedOnce ==
    \A h \in Hosts : place[h] \in {"draining", "closing", "killed"} => process[h] # "none"

LEMMA StartedOnceKept ==
    ASSUME RunTypes, StartedOnce, [RunNext]_runVars
    PROVE  StartedOnce'
<1>1. place \in [Hosts -> Places] /\ process \in [Hosts -> {"none", "running"} \cup Codes]
  BY DEF RunTypes
<1>2. CASE UNCHANGED <<place, process>>
  BY <1>2 DEF StartedOnce
<1>3. ASSUME NEW h \in Hosts,
             CommandExits(h) \/ Enter(h) \/ Started(h) \/ Drained(h) \/ TimesOut(h)
      PROVE  StartedOnce'
  <2>1. \A q \in Hosts \ {h} : place'[q] = place[q] /\ process'[q] = process[q]
    BY <1>1, <1>3 DEF CommandExits, Enter, Started, Drained, TimesOut, UpTo
  <2>2. /\ place'[h] \in {"draining", "closing", "killed"} =>
               place[h] \in {"draining", "closing", "killed"} \/ process'[h] = "running"
        /\ process'[h] = "none" => process[h] = "none"
    BY <1>1, <1>3 DEF CommandExits, Enter, Started, Drained, TimesOut, UpTo, Codes
  <2>3. QED BY <2>1, <2>2 DEF StartedOnce
<1>4. ASSUME NEW h \in Hosts, Raises(h) \/ Ended(h) \/ GivenUp(h)
      PROVE  StartedOnce'
  <2>1. place' = [place EXCEPT ![h] = "done"] /\ process' = [process EXCEPT ![h] = "none"]
    BY <1>4 DEF Raises, Ended, GivenUp, Answer, UpTo
  <2>2. QED BY <1>1, <2>1 DEF StartedOnce
<1>5. ASSUME NEW h \in Hosts, NEW s \in Streams,
             CommandPrints(h, s) \/ StreamCloses(h, s) \/ Drain(h, s)
      PROVE  UNCHANGED <<place, process>>
  BY <1>5 DEF CommandPrints, StreamCloses, Drain
<1>6. QED BY <1>2, <1>3, <1>4, <1>5 DEF RunNext, OnHost, One, runVars

LEMMA PermitsKept ==
    ASSUME RunTypes, PermitsAddUp, [RunNext]_runVars
    PROVE  PermitsAddUp'
<1> USE DEF RunTypes
<1>1. CASE UNCHANGED <<permits, Holding>>
  BY <1>1 DEF PermitsAddUp
<1>2. ASSUME NEW h \in Hosts, Enter(h)
      PROVE  PermitsAddUp'
  <2>1. h \notin Holding /\ permits > 0 /\ permits' = permits - 1
        /\ place' = [place EXCEPT ![h] = "connecting"]
    BY <1>2 DEF Enter, UpTo, Holding
  <2>2. Holding' = Holding \cup {h}
    BY <2>1 DEF Holding
  <2>3. IsFiniteSet(Holding') /\ Cardinality(Holding') = Cardinality(Holding) + 1
    BY <2>1, <2>2, FS_AddElement DEF PermitsAddUp
  <2>4. Cardinality(Holding) \in Nat
    BY FS_CardinalityType DEF PermitsAddUp
  <2>5. QED BY <2>1, <2>3, <2>4, RunAssumption DEF PermitsAddUp
<1>3. ASSUME NEW h \in Holding, NEW r, Answer(h, r)
      PROVE  PermitsAddUp'
  <2>1. h \in Hosts /\ permits' = permits + 1 /\ place' = [place EXCEPT ![h] = "done"]
    BY <1>3 DEF Answer, UpTo, Holding
  <2>2. Holding' = Holding \ {h}
    BY <2>1 DEF Holding
  <2>3. IsFiniteSet(Holding') /\ Cardinality(Holding') = Cardinality(Holding) - 1
    BY <1>3, <2>2, FS_RemoveElement DEF PermitsAddUp
  <2>4. Cardinality(Holding) \in Nat
    BY FS_CardinalityType DEF PermitsAddUp
  <2>5. QED BY <2>1, <2>3, <2>4, RunAssumption DEF PermitsAddUp
<1>4. ASSUME NEW h \in Hosts, Started(h) \/ Drained(h) \/ TimesOut(h)
      PROVE  UNCHANGED <<permits, Holding>>
  BY <1>4 DEF Started, Drained, TimesOut, UpTo, Holding
<1>5. ASSUME NEW h \in Hosts, OnHost(h) \/ \E s \in Streams : Drain(h, s)
      PROVE  UNCHANGED <<permits, Holding>>
  BY <1>5 DEF OnHost, CommandPrints, StreamCloses, CommandExits, Drain, Holding
<1>6. ASSUME NEW h \in Hosts, Raises(h) \/ Ended(h) \/ GivenUp(h)
      PROVE  h \in Holding /\ \E r : Answer(h, r)
  BY <1>6 DEF Raises, Ended, GivenUp, Holding
<1>7. CASE UNCHANGED runVars
  BY <1>7 DEF runVars, PermitsAddUp, Holding
<1>8. QED BY <1>1, <1>2, <1>3, <1>4, <1>5, <1>6, <1>7 DEF RunNext, One

LEMMA RunTypesKept ==
    ASSUME RunTypes, StartedOnce, [RunNext]_runVars
    PROVE  RunTypes'
<1>0. /\ place \in [Hosts -> Places] /\ process \in [Hosts -> {"none", "running"} \cup Codes]
      /\ stream \in [Hosts -> [Streams -> Stream]] /\ sink \in [Hosts -> [Streams -> Sink]]
      /\ row \in [Hosts -> Row \cup {NoRow, Failed}]
      /\ MaxOut \in Nat /\ Pipe \in Nat /\ Cap \in Nat /\ Pipe # 0
  BY RunAssumption DEF RunTypes
<1>1. Quiet \in [Streams -> Stream] /\ Empty \in [Streams -> Sink]
      /\ \A s \in Streams : Quiet[s] = [open |-> FALSE, printed |-> 0, unread |-> 0]
  BY <1>0 DEF Quiet, Empty, Stream, Sink
<1>2. ASSUME NEW h \in Hosts, NEW s \in Streams, CommandPrints(h, s)
      PROVE  RunTypes'
  <2> DEFINE old == stream[h][s]
  <2> DEFINE new == [old EXCEPT !.printed = @ + 1, !.unread = @ + 1]
  <2>1. /\ UNCHANGED <<place, process, sink, row>> /\ old.printed < MaxOut /\ old.unread < Pipe
        /\ stream' = [stream EXCEPT ![h] = [stream[h] EXCEPT ![s] = new]]
    BY <1>2 DEF CommandPrints
  <2>2. old \in Stream
    BY <1>0
  <2>3. new \in Stream
    <3>1. old.printed + 1 \in 0..MaxOut /\ old.unread + 1 \in 0..Pipe
      BY <1>0, <2>1, <2>2 DEF Stream
    <3> DEFINE half == [old EXCEPT !.printed = @ + 1]
    <3>2. half \in Stream /\ half.unread = old.unread /\ new = [half EXCEPT !.unread = @ + 1]
      BY <2>2, <3>1 DEF Stream
    <3> HIDE DEF half, new
    <3>3. QED BY <3>1, <3>2 DEF Stream
  <2> HIDE DEF new
  <2>4. stream' \in [Hosts -> [Streams -> Stream]]
    BY <1>0, <2>1, <2>3, PutFacts
  <2>5. QED BY <1>0, <2>1, <2>4 DEF RunTypes
<1>3. ASSUME NEW h \in Hosts, NEW s \in Streams, StreamCloses(h, s)
      PROVE  RunTypes'
  <2> DEFINE old == stream[h][s]
  <2> DEFINE new == [old EXCEPT !.open = FALSE]
  <2>1. /\ UNCHANGED <<place, process, sink, row>>
        /\ stream' = [stream EXCEPT ![h] = [stream[h] EXCEPT ![s] = new]]
    BY <1>3 DEF StreamCloses
  <2>2. new \in Stream
    <3>1. old \in Stream
      BY <1>0
    <3>2. QED BY <3>1 DEF Stream
  <2> HIDE DEF new
  <2>3. stream' \in [Hosts -> [Streams -> Stream]]
    BY <1>0, <2>1, <2>2, PutFacts
  <2>4. QED BY <1>0, <2>1, <2>3 DEF RunTypes
<1>4. ASSUME NEW h \in Hosts, NEW s \in Streams, Drain(h, s)
      PROVE  RunTypes'
  <2>1. PICK n \in 1..stream[h][s].unread :
            /\ sink' = [sink EXCEPT ![h][s] = Taken(@, n)]
            /\ stream' = [stream EXCEPT ![h][s].unread = @ - n]
    BY <1>4 DEF Drain
  <2> DEFINE old == stream[h][s]
  <2> DEFINE new == [old EXCEPT !.unread = @ - n]
  <2> DEFINE kept == Taken(sink[h][s], n)
  <2>2. /\ UNCHANGED <<place, process, row>>
        /\ stream' = [stream EXCEPT ![h] = [stream[h] EXCEPT ![s] = new]]
        /\ sink' = [sink EXCEPT ![h] = [sink[h] EXCEPT ![s] = kept]]
    BY <1>4, <2>1 DEF Drain
  <2>3. old \in Stream /\ sink[h][s] \in Sink
    BY <1>0
  <2>4. new \in Stream /\ n \in Nat
    <3>1. old.unread - n \in 0..Pipe /\ n \in Nat
      BY <1>0, <2>3 DEF Stream
    <3>2. new = [open |-> old.open, printed |-> old.printed, unread |-> old.unread - n]
      BY <2>3 DEF Stream
    <3>3. QED BY <2>3, <3>1, <3>2 DEF Stream
  <2>5. kept \in Sink
    <3> DEFINE room == Cap - sink[h][s].kept
    <3> DEFINE more == sink[h][s].kept + IF n < room THEN n ELSE room
    <3> DEFINE flag == sink[h][s].flag \/ n > room
    <3>1. kept = [kept |-> more, flag |-> flag]
      BY DEF Taken
    <3>2. more \in 0..Cap
      BY <1>0, <2>3, <2>4 DEF Sink
    <3>3. flag \in BOOLEAN
      OBVIOUS
    <3> HIDE DEF kept, more, flag
    <3>4. QED BY <3>1, <3>2, <3>3 DEF Sink
  <2> HIDE DEF new, kept
  <2>6. stream' \in [Hosts -> [Streams -> Stream]]
    BY <1>0, <2>2, <2>4, PutFacts
  <2>7. sink' \in [Hosts -> [Streams -> Sink]]
    BY <1>0, <2>2, <2>5, PutFacts
  <2>8. QED BY <1>0, <2>2, <2>6, <2>7 DEF RunTypes
<1>5. ASSUME NEW h \in Hosts, Started(h)
      PROVE  RunTypes'
  <2> DEFINE new == [s \in Streams |-> [Quiet[s] EXCEPT !.open = TRUE]]
  <2>1. /\ place' = [place EXCEPT ![h] = "draining"] /\ process' = [process EXCEPT ![h] = "running"]
        /\ stream' = [stream EXCEPT ![h] = new] /\ UNCHANGED <<sink, row>>
    BY <1>5 DEF Started, UpTo
  <2>2. new \in [Streams -> Stream]
    BY <1>0, <1>1 DEF Stream
  <2> HIDE DEF new
  <2>3. QED BY <1>0, <2>1, <2>2 DEF RunTypes, Places
<1>6. ASSUME NEW h \in Hosts, NEW r \in Row \cup {Failed}, Answer(h, r)
      PROVE  RunTypes'
  <2>1. /\ row' = [row EXCEPT ![h] = r] /\ place' = [place EXCEPT ![h] = "done"]
        /\ process' = [process EXCEPT ![h] = "none"]
        /\ stream' = [stream EXCEPT ![h] = Quiet] /\ sink' = [sink EXCEPT ![h] = Empty]
    BY <1>6 DEF Answer, UpTo
  <2>2. QED BY <1>0, <1>1, <2>1 DEF RunTypes, Places
<1>7. ASSUME NEW h \in Hosts, Raises(h) \/ Ended(h) \/ GivenUp(h)
      PROVE  \E r \in Row \cup {Failed} : Answer(h, r)
  <2>1. process[h] = "running" \/ process[h] = "none" \/ process[h] \in Codes
    BY <1>0
  <2>2. CASE Raises(h)
    BY <2>2 DEF Raises
  <2>3. CASE GivenUp(h)
    <3>1. PICK code \in {"124"} \cup ({process[h]} \cap Codes) :
              Answer(h, [code |-> code, timed_out |-> TRUE])
      BY <2>3 DEF GivenUp
    <3>2. [code |-> code, timed_out |-> TRUE] \in Row
      BY DEF Row
    <3>3. QED BY <3>1, <3>2
  <2>4. CASE Ended(h)
    <3>1. place[h] = "closing"
          /\ Answer(h, [code |-> IF process[h] = "running" THEN "-1" ELSE process[h], timed_out |-> FALSE])
      BY <2>4 DEF Ended
    <3>2. PICK c : c = IF process[h] = "running" THEN "-1" ELSE process[h]
      OBVIOUS
    <3>3. c \in Codes
      BY <2>1, <3>1, <3>2 DEF Codes, StartedOnce
    <3>4. [code |-> c, timed_out |-> FALSE] \in Row
      BY <3>3 DEF Row
    <3>5. QED BY <3>1, <3>2, <3>4
  <2>5. QED BY <1>7, <2>2, <2>3, <2>4
<1>8. ASSUME NEW h \in Hosts, CommandExits(h) \/ TimesOut(h)
      PROVE  RunTypes'
  <2>1. /\ UNCHANGED <<stream, sink, row>> /\ place' \in [Hosts -> Places]
        /\ process' \in [Hosts -> {"none", "running"} \cup Codes]
    BY <1>0, <1>8 DEF CommandExits, TimesOut, UpTo, Places, Codes
  <2>2. QED BY <1>0, <2>1 DEF RunTypes
<1>9. ASSUME NEW h \in Hosts, Enter(h) \/ Drained(h)
      PROVE  RunTypes'
  BY <1>0, <1>9 DEF Enter, Drained, UpTo, RunTypes, Places
<1>10. CASE UNCHANGED runVars
  BY <1>10 DEF runVars, RunTypes
<1>11. QED
  BY <1>2, <1>3, <1>4, <1>5, <1>6, <1>7, <1>8, <1>9, <1>10 DEF RunNext, OnHost, One

(* What is at the path, and who writes to it, as long as it is there. *)
Bytes == Seq(Writers \cup {Original})
Contents ==
    /\ target \in Content
    /\ backups \in [0..MaxClock -> Content] /\ shadow \in [Writers -> Content]
    /\ past \in [Writers -> SUBSET Content]
    /\ \A w \in Writers : writer[w].at = "open" => target \in Bytes

LEMMA WrittenIsBytes ==
    ASSUME NEW w \in Writers, writer[w] \in Writer
    PROVE  Written(w) \in Bytes
<1>1. writer[w].held \in Nat
  BY FilesAssumption DEF Writer
<1>2. <<w>> \in Bytes
  BY DEF Bytes
<1>3. [i \in 1..writer[w].held |-> w] \in Bytes
  <2>1. PICK n \in Nat : n = writer[w].held
    BY <1>1
  <2>2. [i \in 1..n |-> w] \in Bytes
    BY DEF Bytes
  <2>3. QED BY <2>1, <2>2
<1>4. QED BY <1>2, <1>3 DEF Written

LEMMA ContentsKept ==
    ASSUME FilesInv, Contents, [FilesNext]_fileToolVars
    PROVE  Contents'
<1>0. /\ writer \in [Writers -> Writer] /\ target \in Content
      /\ backups \in [0..MaxClock -> Content] /\ shadow \in [Writers -> Content]
      /\ past \in [Writers -> SUBSET Content]
      /\ \A w \in Writers : writer[w].at = "open" => target \in Bytes
      /\ Content = {Absent} \cup Bytes
  BY DEF FilesInv, FileTypes, Contents, Content, Bytes
<1>1. ASSUME UNCHANGED <<target, shadow>>, backups' \in [0..MaxClock -> Content],
             past' \in [Writers -> SUBSET Content],
             \A w \in Writers : writer'[w].at = "open" => writer[w].at = "open"
      PROVE  Contents'
  BY <1>0, <1>1 DEF Contents, Content, Bytes
<1>2. CASE UNCHANGED fileToolVars \/ ClockTicks
  <2>1. UNCHANGED <<target, backups, writer, shadow, past>>
    BY <1>2 DEF fileToolVars, ClockTicks, history
  <2>2. QED BY <1>0, <1>1, <2>1
<1>3. CASE DeletePath
  <2>1. /\ target' = Absent /\ UNCHANGED <<backups, shadow>> /\ Recorded(Pending)
        /\ \A w \in Writers : writer'[w].at # "open"
    <3>1. writer' = [w \in Writers |-> IF Spot(w, "open") THEN [writer[w] EXCEPT !.at = "unlinked"]
                                       ELSE writer[w]]
      BY <1>3 DEF DeletePath
    <3>2. ASSUME NEW w \in Writers PROVE writer'[w].at # "open"
      BY <1>0, <3>1 DEF Spot, Writer
    <3>3. QED BY <1>3, <3>2 DEF DeletePath
  <2>2. past' \in [Writers -> SUBSET Content]
    BY <1>0, <2>1 DEF Recorded
  <2>3. QED BY <1>0, <2>1, <2>2 DEF Contents, Content, Bytes
<1>4. ASSUME NEW w \in Writers,
             LookForFile(w) \/ NameBackup(w) \/ CopyFails(w) \/ Relay(w) \/ CallFails(w)
      PROVE  Contents'
  <2>1. /\ UNCHANGED <<target, backups, shadow>> /\ past' \in [Writers -> SUBSET Content]
        /\ \A q \in Writers \ {w} : writer'[q] = writer[q]
        /\ writer'[w].at # "open"
    <3>1. UNCHANGED <<target, backups, shadow>>
      BY <1>4 DEF LookForFile, NameBackup, CopyFails, Relay, CallFails, history
    <3>2. past' = past \/ past' = [past EXCEPT ![w] = {target}]
      BY <1>4 DEF LookForFile, NameBackup, CopyFails, Relay, CallFails, history
    <3>3. past' \in [Writers -> SUBSET Content]
      BY <1>0, <3>2
    <3>4. (\A q \in Writers \ {w} : writer'[q] = writer[q]) /\ writer'[w].at # "open"
      BY <1>0, <1>4 DEF LookForFile, NameBackup, CopyFails, Relay, CallFails, MoveTo, Writer
    <3>5. QED BY <3>1, <3>3, <3>4
  <2>2. QED BY <1>0, <1>1, <2>1
<1>5. ASSUME NEW w \in Writers, CopyFile(w)
      PROVE  Contents'
  <2>1. /\ UNCHANGED <<target, shadow, past>> /\ backups' = [backups EXCEPT ![writer[w].name] = target]
        /\ \/ MoveTo(w, "ready")
           \/ writer' = [writer EXCEPT ![w].at = "ready", ![w].name = NoName]
    BY <1>5 DEF CopyFile
  <2>2. \A q \in Writers \ {w} : writer'[q] = writer[q]
    BY <1>0, <2>1 DEF MoveTo
  <2>3. writer'[w].at # "open"
    BY <1>0, <2>1 DEF MoveTo, Writer
  <2>4. backups' \in [0..MaxClock -> Content]
    BY <1>0, <2>1
  <2>5. QED BY <1>0, <1>1, <2>1, <2>2, <2>3, <2>4
<1>6. ASSUME NEW w \in Writers, OpenFile(w)
      PROVE  Contents'
  <2>1. <<>> \in Bytes
    BY EmptySeq DEF Bytes
  <2>2. /\ UNCHANGED backups /\ target' \in Bytes /\ shadow' \in [Writers -> Content]
    BY <1>0, <1>6, <2>1 DEF OpenFile
  <2>3. past' \in [Writers -> SUBSET Content]
    BY <1>0, <1>6, <2>2 DEF OpenFile, Recorded
  <2>4. QED BY <1>0, <2>2, <2>3 DEF Contents, Content, Bytes
<1>7. ASSUME NEW w \in Writers, WriteFile(w)
      PROVE  Contents'
  <2>1. UNCHANGED <<backups, shadow>> /\ writer' = [writer EXCEPT ![w].at = "done"]
    BY <1>7 DEF WriteFile, MoveTo
  <2>2. \A q \in Writers : writer'[q].at = "open" => writer[q].at = "open"
    BY <1>0, <2>1 DEF Writer
  <2>3. CASE Spot(w, "unlinked")
    <3>1. UNCHANGED target
      BY <1>7, <2>3 DEF WriteFile
    <3>2. past' \in [Writers -> SUBSET Content]
      BY <1>0, <1>7, <3>1 DEF WriteFile, Recorded
    <3>3. QED BY <1>0, <1>1, <2>1, <2>2, <3>1, <3>2
  <2>4. CASE ~ Spot(w, "unlinked")
    <3>1. target \in Bytes /\ Written(w) \in Bytes
      BY <1>0, <1>7, <2>4, WrittenIsBytes DEF WriteFile, Spot
    <3>2. target' = IF Is(w, "append") THEN target \o Written(w)
                    ELSE Written(w) \o SubSeq(target, Len(Written(w)) + 1, Len(target))
      BY <1>7, <2>4 DEF WriteFile
    <3>3. SubSeq(target, Len(Written(w)) + 1, Len(target)) \in Bytes
      <4>1. PICK m \in Int, n \in Int : m = Len(Written(w)) + 1 /\ n = Len(target) /\ m >= 1
        BY <3>1, LenProperties DEF Bytes
      <4>2. \A i \in m..n : target[i] \in Writers \cup {Original}
        BY <3>1, <4>1, ElementOfSeq DEF Bytes
      <4>3. SubSeq(target, m, n) \in Bytes
        BY <4>2, SubSeqProperties DEF Bytes
      <4>4. QED BY <4>1, <4>3
    <3>4. target' \in Bytes
      BY <3>1, <3>2, <3>3, ConcatProperties DEF Bytes
    <3>5. past' \in [Writers -> SUBSET Content]
      BY <1>0, <1>7, <3>4 DEF WriteFile, Recorded
    <3>6. QED BY <1>0, <2>1, <2>2, <3>4, <3>5 DEF Contents, Content, Bytes
  <2>5. QED BY <2>3, <2>4
<1>8. QED BY <1>2, <1>3, <1>4, <1>5, <1>6, <1>7 DEF FilesNext

RunInv  == RunTypes /\ StartedOnce /\ PermitsAddUp
PathInv == FilesInv /\ Contents

LEMMA RunInvInit ==
    ASSUME RunInit
    PROVE  RunInv
<1>1. /\ Quiet \in [Streams -> Stream] /\ Empty \in [Streams -> Sink]
  BY RunAssumption DEF Quiet, Empty, Stream, Sink
<1>2. RunTypes /\ StartedOnce
  BY <1>1 DEF RunInit, RunTypes, StartedOnce, Places
<1>3. Holding = {}
  BY DEF RunInit, Holding
<1>4. PermitsAddUp
  BY <1>3, RunAssumption, FS_EmptySet DEF RunInit, PermitsAddUp
<1>5. QED BY <1>2, <1>4 DEF RunInv

LEMMA RunTypeFromInv ==
    ASSUME RunInv
    PROVE  RunTypeOK
<1>1. Cardinality(Holding) \in Nat /\ permits \in Nat /\ permits + Cardinality(Holding) = Concurrency
      /\ RunTypes /\ Concurrency \in Nat
  BY FS_CardinalityType, RunAssumption DEF RunInv, PermitsAddUp
<1>2. QED BY <1>1 DEF RunTypes, RunTypeOK

LEMMA PathInvInit ==
    ASSUME FilesInit
    PROVE  PathInv
<1>1. FilesInv
  BY FilesAssumption DEF FilesInit, FilesInv, FileTypes, Kept, Writer, Spots, NoName
<1>2. <<Original>> \in Bytes
  BY DEF Bytes
<1>3. \A w \in Writers : writer[w].at # "open"
  BY DEF FilesInit
<1>4. Contents
  BY <1>2, <1>3 DEF FilesInit, Contents, Content, Bytes
<1>5. QED BY <1>1, <1>4 DEF PathInv

LEMMA RemoteTypeFromInv ==
    ASSUME ShellInv, RunInv, PathInv
    PROVE  RemoteTypeOK
<1>1. FilesTypeOK
  BY DEF PathInv, FilesInv, FileTypes, Contents, FilesTypeOK
<1>2. QED BY <1>1, RunTypeFromInv DEF ShellInv, RemoteTypeOK

LEMMA RemoteStep ==
    ASSUME ShellInv, RunInv, PathInv,
           [RemoteNext]_<<vars, runVars, fileToolVars, part>>
    PROVE  ShellInv' /\ RunInv' /\ PathInv'
<1>1. [Next]_vars /\ [RunNext]_runVars /\ [FilesNext]_fileToolVars
  BY DEF RemoteNext, shellAlone, runAlone, filesAlone
<1>2. ShellInv'
  BY <1>1, ShellInvStep
<1>3. RunInv'
  BY <1>1, RunTypesKept, StartedOnceKept, PermitsKept DEF RunInv
<1>4. PathInv'
  BY <1>1, FilesStep, ContentsKept DEF PathInv
<1>5. QED BY <1>2, <1>3, <1>4

(* For any number of calls, hosts and writers and whatever the limits: the state has its types;
   a session buffers at most four times its limit, a sink keeps at most its cap, no more hosts
   are let in than the semaphore allows, every row of an answer has an exit code that the
   command or the timeout gave, and a copy holds no more than a file may have (RemoteTypeOK). *)
THEOREM RemoteTypes == RemoteSpec => []RemoteTypeOK
<1>1. RemoteInit => ShellInv /\ RunInv /\ PathInv
  BY ShellInvInit, RunInvInit, PathInvInit DEF RemoteInit
<1>2. ShellInv /\ RunInv /\ PathInv /\ [RemoteNext]_<<vars, runVars, fileToolVars, part>>
          => (ShellInv /\ RunInv /\ PathInv)'
  BY RemoteStep
<1>3. ShellInv /\ RunInv /\ PathInv => RemoteTypeOK
  BY RemoteTypeFromInv
<1>4. QED BY <1>1, <1>2, <1>3, PTL DEF RemoteSpec
==============================================================================
