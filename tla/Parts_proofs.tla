---------------------------- MODULE Parts_proofs ----------------------------
(* Proofs about the parts that share no state: a log subscription, for every ring, page and
   line length; a job's output, for every log and answer length; and the egress proxy.  Those
   about jobs and about the authorization server's tables are in modules of their own, and
   are put together with these for the specification that the run checks. *)
EXTENDS MCParts, Jobs_proofs, AuthServer_proofs, FunctionTheorems, SequenceTheorems

(* How many lines of a sequence are over-long: of none, of one, and of two sequences. *)
LEMMA LongType ==
    ASSUME NEW s \in Seq(Nat)
    PROVE  Long(s) \in Nat /\ IsFiniteSet({i \in 1..Len(s) : s[i] > MaxLine})
<1>1. IsFiniteSet(1..Len(s))
  BY FS_Interval
<1>2. QED BY <1>1, FS_Subset, FS_CardinalityType DEF Long

LEMMA LongNone == Long(<<>>) = 0
<1>1. {i \in 1..Len(<<>>) : <<>>[i] > MaxLine} = {}
  OBVIOUS
<1>2. QED BY <1>1, FS_EmptySet DEF Long

LEMMA LongOne ==
    ASSUME NEW n \in Nat
    PROVE  Long(<<n>>) = IF n > MaxLine THEN 1 ELSE 0
<1> DEFINE places == {i \in 1..Len(<<n>>) : <<n>>[i] > MaxLine}
<1>1. n > MaxLine => places = {1}
  OBVIOUS
<1>2. ~ (n > MaxLine) => places = {}
  OBVIOUS
<1> HIDE DEF places
<1>3. Long(<<n>>) = Cardinality(places)
  BY DEF Long, places
<1>4. QED BY <1>1, <1>2, <1>3, FS_EmptySet, FS_Singleton

LEMMA LongConcat ==
    ASSUME NEW s \in Seq(Nat), NEW t \in Seq(Nat)
    PROVE  Long(s \o t) = Long(s) + Long(t)
<1> DEFINE A == {i \in 1..Len(s) : s[i] > MaxLine}
<1> DEFINE B == {i \in 1..Len(t) : t[i] > MaxLine}
<1> DEFINE C == {i + Len(s) : i \in B}
<1> DEFINE shift == [i \in B |-> i + Len(s)]
<1>1. /\ IsFiniteSet(A) /\ IsFiniteSet(B)
      /\ Long(s) = Cardinality(A) /\ Long(t) = Cardinality(B)
      /\ {Long(s), Long(t)} \subseteq Nat
  BY LongType DEF Long
<1>2. {i \in 1..Len(s \o t) : (s \o t)[i] > MaxLine} = A \cup C
  <2>1. /\ s \o t \in Seq(Nat) /\ Len(s \o t) = Len(s) + Len(t)
        /\ \A i \in 1..Len(s) + Len(t) :
              (s \o t)[i] = IF i <= Len(s) THEN s[i] ELSE t[i - Len(s)]
    BY ConcatProperties
  <2>2. ASSUME NEW i \in 1..Len(s \o t), (s \o t)[i] > MaxLine
        PROVE  i \in A \cup C
    <3>1. CASE i <= Len(s)
      BY <2>1, <2>2, <3>1
    <3>2. CASE i > Len(s)
      <4>1. i - Len(s) \in 1..Len(t) /\ t[i - Len(s)] > MaxLine
        BY <2>1, <2>2, <3>2
      <4>2. i = (i - Len(s)) + Len(s)
        BY <2>1
      <4>3. QED BY <4>1, <4>2
    <3>3. QED BY <2>1, <3>1, <3>2
  <2>3. ASSUME NEW i \in A \cup C
        PROVE  i \in 1..Len(s \o t) /\ (s \o t)[i] > MaxLine
    <3>1. CASE i \in A
      BY <2>1, <3>1
    <3>2. CASE i \in C
      <4>1. PICK j \in B : i = j + Len(s)
        BY <3>2
      <4>2. i \in 1..Len(s) + Len(t) /\ ~ (i <= Len(s)) /\ i - Len(s) = j
        BY <4>1
      <4>3. QED BY <2>1, <4>1, <4>2
    <3>3. QED BY <2>3, <3>1, <3>2
  <2>4. QED BY <2>2, <2>3
<1>3. A \cap C = {}
  OBVIOUS
<1>4. shift \in Surjection(B, C) /\ shift \in Injection(B, C)
  <2>1. shift \in [B -> C]
    OBVIOUS
  <2>2. \A c \in C : \E b \in B : shift[b] = c
    OBVIOUS
  <2>3. \A a, b \in B : shift[a] = shift[b] => a = b
    OBVIOUS
  <2>4. QED BY <2>1, <2>2, <2>3 DEF Surjection, Injection, IsInjective
<1> HIDE DEF A, B, C, shift
<1>5. IsFiniteSet(C) /\ Cardinality(C) = Cardinality(B)
  BY <1>1, <1>4, FS_Surjection, FS_CardinalityType
<1>6. Cardinality(A \cup C) = Cardinality(A) + Cardinality(C)
  <2>1. Cardinality(A \cup C) = Cardinality(A) + Cardinality(C) - Cardinality(A \cap C)
    BY <1>1, <1>5, FS_Union
  <2>2. Cardinality(A \cap C) = 0
    BY <1>3, FS_EmptySet
  <2>3. Cardinality(A) \in Nat /\ Cardinality(C) \in Nat
    BY <1>1, <1>5, FS_CardinalityType
  <2>4. QED BY <2>1, <2>2, <2>3
<1>7. QED BY <1>1, <1>2, <1>5, <1>6 DEF Long

(* The ring holds the last lines there are. *)
Numbered ==
    /\ Len(ring) <= seq
    /\ \A i \in 1..Len(ring) : ring[i] = seq - Len(ring) + i

(* The line that a notice may have pushed out without a count. *)
Notice == IF pump \in {"failed", "closed"} THEN 1 ELSE 0

(* What is not in the ring is counted, and what the reader did not get was counted when it
   read on. *)
Losses ==
    /\ seq <= Len(ring) + dropped + Notice
    /\ counted <= dropped /\ since <= seq
    /\ \A n \in 1..since : n \in seen \/ n <= counted + Notice

(* The splitter skips while the line it is in is over-long, and else holds all of it. *)
Splits ==
    /\ {printed, long, cuts} \subseteq Nat /\ last \in 0..MaxLine + 1
    /\ pump = "up" => /\ skipping <=> last > MaxLine
                      /\ ~ skipping => partial = last

LogInv == LogTypeOK /\ Numbered /\ Losses /\ Splits /\ LinesOfInput

LEMMA KeptFacts ==
    ASSUME NEW S, NEW s \in Seq(S)
    PROVE  /\ Kept(s) \in Seq(S)
           /\ Len(Kept(s)) = IF Len(s) > Ring THEN Ring ELSE Len(s)
           /\ \A i \in 1..Len(Kept(s)) : Kept(s)[i] = s[Len(s) - Len(Kept(s)) + i]
<1>0. Ring \in Nat \ {0} /\ Len(s) \in Nat
  BY LogAssumption
<1>1. CASE Len(s) > Ring
  <2> DEFINE m == Len(s) - Ring + 1
  <2>1. Kept(s) = SubSeq(s, m, Len(s)) /\ m \in 1..Len(s)
    BY <1>0, <1>1 DEF Kept, LastOf
  <2>2. \A i \in m..Len(s) : s[i] \in S
    BY <2>1, ElementOfSeq, <1>0
  <2>3. /\ SubSeq(s, m, Len(s)) \in Seq(S)
        /\ Len(SubSeq(s, m, Len(s))) = Ring
        /\ \A i \in 1..Ring : SubSeq(s, m, Len(s))[i] = s[m + i - 1]
    <3>1. m \in Int /\ Len(s) \in Int /\ m <= Len(s) /\ Len(s) - m + 1 = Ring
      BY <1>0, <2>1
    <3> HIDE DEF m
    <3>2. QED BY <2>2, <3>1, SubSeqProperties
  <2>4. QED BY <1>0, <1>1, <2>1, <2>3
<1>2. CASE ~ (Len(s) > Ring)
  BY <1>0, <1>2 DEF Kept
<1>3. QED BY <1>1, <1>2

(* Lines are put into the buffer: it holds the last ones still. *)
LEMMA RingStep ==
    ASSUME LogTypeOK, Numbered, NEW k \in Nat, NEW new \in Seq(Nat), Len(new) = k,
           \A i \in 1..k : new[i] = seq + i, ring' = Kept(ring \o new), seq' = seq + k
    PROVE  /\ ring' \in Seq(1..seq') /\ Numbered'
           /\ Len(ring') = IF Len(ring) + k > Ring THEN Ring ELSE Len(ring) + k
<1> DEFINE all == ring \o new
<1>0. /\ seq \in Nat /\ ring \in Seq(1..seq) /\ Len(ring) <= Ring /\ Len(ring) \in Nat
      /\ Ring \in Nat \ {0}
  BY LogAssumption DEF LogTypeOK
<1>1. all \in Seq(Nat) /\ Len(all) = Len(ring) + k
  <2>1. ring \in Seq(Nat)
    BY <1>0, SeqMonotonic
  <2>2. QED BY <2>1, ConcatProperties
<1>2. \A i \in 1..Len(all) : all[i] = seq - Len(ring) + i
  <2>1. TAKE i \in 1..Len(all)
  <2>2. CASE i <= Len(ring)
    BY <1>0, <1>1, <2>2, ConcatProperties DEF Numbered
  <2>3. CASE ~ (i <= Len(ring))
    <3>1. all[i] = new[i - Len(ring)]
      BY <1>0, <1>1, <2>3, ConcatProperties
    <3>2. i - Len(ring) \in 1..k
      BY <1>0, <1>1, <2>3
    <3>3. QED BY <1>0, <3>1, <3>2
  <2>4. QED BY <2>2, <2>3
<1> HIDE DEF all
<1>3. /\ Kept(all) \in Seq(Nat)
      /\ Len(Kept(all)) = IF Len(all) > Ring THEN Ring ELSE Len(all)
      /\ \A i \in 1..Len(Kept(all)) : Kept(all)[i] = all[Len(all) - Len(Kept(all)) + i]
  BY <1>1, KeptFacts
<1>4. ring' = Kept(all)
  BY DEF all
<1>5. Len(ring') = IF Len(ring) + k > Ring THEN Ring ELSE Len(ring) + k
  BY <1>1, <1>3, <1>4
<1>6. Len(ring') <= seq' /\ Len(ring') \in Nat /\ seq' \in Nat
  BY <1>0, <1>5 DEF Numbered
<1>7. \A i \in 1..Len(ring') : ring'[i] = seq' - Len(ring') + i /\ ring'[i] \in 1..seq'
  <2>1. TAKE i \in 1..Len(ring')
  <2>2. ring'[i] = all[Len(all) - Len(ring') + i]
    BY <1>3, <1>4
  <2>3. Len(all) - Len(ring') + i \in 1..Len(all)
    BY <1>0, <1>1, <1>5, <1>6
  <2>4. ring'[i] = seq - Len(ring) + (Len(all) - Len(ring') + i)
    BY <1>2, <2>2, <2>3
  <2>5. QED BY <1>0, <1>1, <1>6, <2>4
<1>8. ring' \in Seq(1..seq')
  <2>1. ring' \in [1..Len(ring') -> 1..seq']
    BY <1>3, <1>4, <1>7, LenProperties
  <2>2. QED BY <1>6, <2>1, SeqDef
<1>9. QED BY <1>5, <1>6, <1>7, <1>8 DEF Numbered

LEMMA PushStep ==
    ASSUME LogInv, NEW out \in Seq(Nat), Push(out), Notice' = Notice,
           UNCHANGED <<since, seen, counted>>
    PROVE  /\ ring' \in Seq(1..seq') /\ Len(ring') <= Ring /\ dropped' \in Nat
           /\ Numbered'
           /\ seq' = seq + Len(out) /\ seen' \subseteq 1..seq'
           /\ seq' <= Len(ring') + dropped' + Notice'
           /\ counted' <= dropped' /\ since' <= seq'
           /\ \A n \in 1..since' : n \in seen' \/ n <= counted' + Notice'
<1> DEFINE new == [i \in 1..Len(out) |-> seq + i]
<1> DEFINE over == Len(ring) + Len(out) - Ring
<1>0. /\ Len(out) \in Nat /\ seq \in Nat /\ Len(ring) \in Nat /\ Len(ring) <= Ring
      /\ Ring \in Nat /\ {dropped, counted, since} \subseteq Nat /\ Notice \in {0, 1}
      /\ seen \subseteq 1..seq
  BY LogAssumption DEF LogInv, LogTypeOK, Notice
<1>a. seq <= Len(ring) + dropped + Notice /\ counted <= dropped /\ since <= seq
  BY DEF LogInv, Losses
<1>1. new \in Seq(Nat) /\ Len(new) = Len(out) /\ \A i \in 1..Len(out) : new[i] = seq + i
  <2>1. new \in [1..Len(out) -> Nat]
    BY <1>0
  <2>2. QED BY <1>0, <2>1, SeqDef, LenProperties
<1>2. /\ ring' = Kept(ring \o new) /\ seq' = seq + Len(out)
      /\ dropped' = dropped + IF over > 0 THEN over ELSE 0
  BY DEF Push
<1> HIDE DEF new
<1>3. /\ ring' \in Seq(1..seq') /\ Numbered'
      /\ Len(ring') = IF Len(ring) + Len(out) > Ring THEN Ring ELSE Len(ring) + Len(out)
  BY <1>0, <1>1, <1>2, RingStep DEF LogInv
<1>4. Notice' = Notice
  OBVIOUS
<1>5. seq' <= Len(ring') + dropped' + Notice' /\ dropped' \in Nat /\ dropped' >= dropped
  <2>1. dropped' = dropped + IF over > 0 THEN over ELSE 0
    BY <1>2
  <2>2. CASE over > 0
    <3>1. dropped' = dropped + over /\ Len(ring') = Ring
      BY <1>0, <1>3, <2>1, <2>2
    <3>2. QED BY <1>0, <1>a, <1>2, <1>4, <2>2, <3>1, SMTT(30)
  <2>3. CASE ~ (over > 0)
    <3>1. dropped' = dropped /\ Len(ring') = Len(ring) + Len(out)
      BY <1>0, <1>3, <2>1, <2>3
    <3>2. seq' = seq + Len(out) /\ Notice' = Notice
      BY <1>2, <1>4
    <3>3. QED BY <1>0, <1>a, <3>1, <3>2
  <2>4. QED BY <2>2, <2>3
<1>6. Len(ring') <= Ring /\ seen' \subseteq 1..seq'
  BY <1>0, <1>2, <1>3
<1>7. counted' <= dropped' /\ since' <= seq'
  <2>1. counted' = counted /\ since' = since /\ seq' >= seq /\ seq' \in Nat
    BY <1>0, <1>2
  <2>2. QED BY <1>0, <1>a, <1>5, <2>1, SMTT(30)
<1>8. \A n \in 1..since' : n \in seen' \/ n <= counted' + Notice'
  BY <1>4 DEF LogInv, Losses
<1>9. QED BY <1>2, <1>3, <1>5, <1>6, <1>7, <1>8

LEMMA PieceFacts ==
    ASSUME NEW start \in Nat, NEW c \in Seq(Nat), c # <<>>
    PROVE  /\ Len(c) \in Nat \ {0}
           /\ Whole(start, c) \in Seq(Nat) /\ Len(Whole(start, c)) = Len(c) - 1
           /\ Rest(start, c) \in Nat
<1>1. Len(c) \in Nat \ {0} /\ \A i \in 1..Len(c) : c[i] \in Nat
  BY EmptySeq, ElementOfSeq
<1>2. Whole(start, c) \in [1..Len(c) - 1 -> Nat]
  BY <1>1 DEF Whole
<1>3. Len(c) - 1 \in Nat
  BY <1>1
<1>4. Whole(start, c) \in Seq(Nat) /\ Len(Whole(start, c)) = Len(c) - 1
  BY <1>2, <1>3, SeqDef DEF Whole
<1>5. QED BY <1>1, <1>4 DEF Rest

(* An over-long first line is one over-long line more than there are after it. *)
LEMMA LongFirst ==
    ASSUME NEW s \in Seq(Nat), s # <<>>, s[1] > MaxLine
    PROVE  Long(s) = 1 + Long(SubSeq(s, 2, Len(s))) /\ SubSeq(s, 2, Len(s)) \in Seq(Nat)
<1>1. Len(s) \in Nat \ {0} /\ \A i \in 1..Len(s) : s[i] \in Nat
  BY EmptySeq, ElementOfSeq
<1>2. SubSeq(s, 2, Len(s)) \in Seq(Nat)
  BY <1>1, SubSeqProperties
<1>3. s = <<s[1]>> \o SubSeq(s, 2, Len(s))
  BY <1>1, SubSeqFull, SubSeqRecursiveFirst
<1>4. <<s[1]>> \in Seq(Nat) /\ s[1] \in Nat
  BY <1>1
<1>5. Long(s) = Long(<<s[1]>>) + Long(SubSeq(s, 2, Len(s)))
  BY <1>2, <1>3, <1>4, LongConcat
<1>6. QED BY <1>2, <1>4, <1>5, LongOne

(* Whatever was held of the first line, the lines after it are the same. *)
LEMMA WholeTail ==
    ASSUME NEW m \in Nat, NEW n \in Nat, NEW c \in Seq(Nat), c # <<>>
    PROVE  SubSeq(Whole(m, c), 2, Len(Whole(m, c))) = SubSeq(Whole(n, c), 2, Len(Whole(n, c)))
<1> DEFINE k == Len(c) - 1
<1>0. Whole(m, c) \in Seq(Nat) /\ Len(Whole(m, c)) = Len(c) - 1 /\ Len(c) \in Nat \ {0}
  BY PieceFacts
<1>a. Whole(n, c) \in Seq(Nat) /\ Len(Whole(n, c)) = Len(c) - 1
  BY PieceFacts
<1>1. /\ Whole(m, c) \in Seq(Nat) /\ Len(Whole(m, c)) = k /\ k \in Nat
      /\ Whole(n, c) \in Seq(Nat) /\ Len(Whole(n, c)) = k
  BY <1>0, <1>a
<1>2. \A i \in 2..k : Whole(m, c)[i] = Whole(n, c)[i]
  BY <1>1 DEF Whole
<1> HIDE DEF k
<1>3. /\ \A i \in 2..k : Whole(m, c)[i] \in Nat
      /\ \A i \in 2..k : Whole(n, c)[i] \in Nat
  BY <1>1, ElementOfSeq, SMTT(30)
<1>4. /\ SubSeq(Whole(m, c), 2, k) \in Seq(Nat)
      /\ Len(SubSeq(Whole(m, c), 2, k)) = IF 2 <= k THEN k - 1 ELSE 0
      /\ \A i \in 1..k - 1 : SubSeq(Whole(m, c), 2, k)[i] = Whole(m, c)[i + 1]
  BY <1>1, <1>3, SubSeqProperties
<1>5. /\ SubSeq(Whole(n, c), 2, k) \in Seq(Nat)
      /\ Len(SubSeq(Whole(n, c), 2, k)) = IF 2 <= k THEN k - 1 ELSE 0
      /\ \A i \in 1..k - 1 : SubSeq(Whole(n, c), 2, k)[i] = Whole(n, c)[i + 1]
  BY <1>1, <1>3, SubSeqProperties
<1>6. \A i \in 1..Len(SubSeq(Whole(m, c), 2, k)) :
          SubSeq(Whole(m, c), 2, k)[i] = SubSeq(Whole(n, c), 2, k)[i]
  BY <1>1, <1>2, <1>4, <1>5
<1>7. SubSeq(Whole(m, c), 2, k) = SubSeq(Whole(n, c), 2, k)
  BY <1>4, <1>5, <1>6, SeqEqual
<1>8. QED BY <1>1, <1>7

(* What the first PageLimit places of a set are: a place before one of them is one too. *)
LEMMA PageDown ==
    ASSUME NEW places \in SUBSET Nat, IsFiniteSet(places), NEW m \in Page(places),
           NEW i \in places, i <= m
    PROVE  i \in Page(places)
<1> DEFINE upto(k) == {j \in places : j <= k}
<1>0. m \in places /\ m \in Nat /\ i \in Nat /\ places \subseteq Nat
  BY DEF Page
<1>1. upto(i) \subseteq upto(m) /\ upto(m) \subseteq places
  <2>1. \A j \in places : j \in Nat
    BY <1>0
  <2>2. \A j \in places : j <= i => j <= m
    BY <1>0, <2>1
  <2>3. QED BY <2>2
<1>2. IsFiniteSet(upto(m))
  BY <1>1, FS_Subset
<1>3. IsFiniteSet(upto(i)) /\ Cardinality(upto(i)) <= Cardinality(upto(m))
  BY <1>1, <1>2, FS_Subset
<1>4. Cardinality(upto(i)) \in Nat /\ Cardinality(upto(m)) \in Nat
  BY <1>2, <1>3, FS_CardinalityType
<1>5. Cardinality(upto(m)) <= PageLimit
  BY DEF Page
<1>6. PageLimit \in Nat
  BY LogAssumption
<1> HIDE DEF upto
<1>7. Cardinality(upto(i)) <= PageLimit
  BY <1>3, <1>4, <1>5, <1>6
<1>8. QED BY <1>7 DEF Page, upto

(* A chunk is cut into the lines it ends and, if it is over-long by now, the one it does not
   end. *)
LEMMA ChunkStep ==
    ASSUME LogInv, NEW c \in Chunks, Chunk(c)
    PROVE  /\ Cut(c).out \in Seq(Nat)
           /\ partial' \in 0..MaxLine /\ skipping' \in BOOLEAN
           /\ Splits' /\ LinesOfInput'
<1> DEFINE whole == Whole(partial, c)
<1> DEFINE rest == Rest(partial, c)
<1> DEFINE over == rest > MaxLine
<1> DEFINE n == IF over THEN 1 ELSE 0
<1> DEFINE out == Cut(c).out
<1>0. /\ c \in Seq(Nat) /\ c # <<>> /\ MaxLine \in Nat \ {0}
      /\ partial \in 0..MaxLine /\ partial \in Nat /\ last \in Nat /\ last \in 0..MaxLine + 1
      /\ skipping \in BOOLEAN /\ pump = "up" /\ pump' = pump
      /\ {printed, long, cuts, seq} \subseteq Nat
  BY LogAssumption DEF LogInv, LogTypeOK, Splits, Chunk
<1>a. printed \in Nat /\ long \in Nat /\ cuts \in Nat /\ seq \in Nat
  BY <1>0
<1>1. (skipping <=> last > MaxLine) /\ (~ skipping => partial = last)
  BY <1>0 DEF LogInv, Splits
<1>2. /\ seq = printed + IF last > MaxLine THEN 1 ELSE 0
      /\ cuts = long + IF last > MaxLine THEN 1 ELSE 0
  BY <1>0 DEF LogInv, LinesOfInput
<1>3. /\ Len(c) \in Nat \ {0} /\ \A i \in 1..Len(c) : c[i] \in Nat
      /\ whole \in Seq(Nat) /\ Len(whole) = Len(c) - 1 /\ rest \in Nat
  BY <1>0, PieceFacts, ElementOfSeq
<1>b. Len(c) \in Nat /\ Len(c) >= 1
  BY <1>3
<1>4. /\ Whole(last, c) \in Seq(Nat) /\ Len(Whole(last, c)) = Len(c) - 1
      /\ Rest(last, c) \in Nat
  BY <1>0, PieceFacts
<1>5. /\ seq' = seq + Len(out) /\ cuts' = cuts + Long(out)
      /\ printed' = printed + Len(c) - 1 /\ long' = long + Long(Whole(last, c))
      /\ last' = Cutoff(Rest(last, c))
  BY DEF Chunk, Push
<1>6. /\ partial' = IF over THEN 0 ELSE rest
      /\ skipping' = (over \/ (skipping /\ Len(c) = 1))
  BY DEF Chunk, Cut
<1>7. partial' \in 0..MaxLine /\ skipping' \in BOOLEAN
  <2> HIDE DEF rest
  <2>1. QED BY <1>0, <1>3, <1>6
<1>8. Long(<<rest>>) = n /\ (over => <<rest>> \in Seq(Nat) /\ Len(<<rest>>) = 1)
  BY <1>3, LongOne
<1>9. /\ out = SubSeq(whole, IF skipping THEN 2 ELSE 1, Len(whole))
               \o (IF over /\ ~ (skipping /\ Len(c) = 1) THEN <<rest>> ELSE <<>>)
  BY DEF Cut
<1> HIDE DEF out, whole, rest
(* It remains to count: the lines, those that are cut, and the line that has begun. *)
<1>10. SUFFICES /\ out \in Seq(Nat)
                /\ {Len(out), Long(out), Long(Whole(last, c))} \subseteq Nat
                /\ last' \in 0..MaxLine + 1
                /\ skipping' <=> last' > MaxLine
                /\ ~ skipping' => partial' = last'
                /\ seq' = printed' + IF last' > MaxLine THEN 1 ELSE 0
                /\ cuts' = long' + IF last' > MaxLine THEN 1 ELSE 0
  <2>1. printed' \in Nat /\ long' \in Nat /\ cuts' \in Nat
    <3>1. printed' \in Nat
      BY <1>a, <1>b, <1>5
    <3>2. Len(out) \in Nat /\ Long(out) \in Nat /\ Long(Whole(last, c)) \in Nat
      BY <1>10
    <3>3. long' \in Nat /\ cuts' \in Nat
      BY <1>a, <1>5, <3>2, SMTT(30)
    <3>4. QED BY <3>1, <3>3
  <2>2. Splits'
    BY <2>1, <1>10 DEF Splits
  <2>3. LinesOfInput'
    BY <1>10 DEF LinesOfInput
  <2>4. QED BY <1>7, <1>10, <2>2, <2>3 DEF out
<1>11. CASE ~ skipping
  <2>1. partial = last /\ whole = Whole(last, c) /\ rest = Rest(last, c)
    BY <1>1, <1>11 DEF whole, rest
  <2>2. out = whole \o (IF over THEN <<rest>> ELSE <<>>)
    BY <1>3, <1>9, <1>11, SubSeqFull
  <2>3. /\ out \in Seq(Nat) /\ Len(out) = Len(whole) + n /\ Long(out) = Long(whole) + n
        /\ Long(whole) \in Nat
    <3>1. CASE over
      <4>1. PICK t \in Seq(Nat) : t = <<rest>> /\ Len(t) = n /\ Long(t) = n
        BY <1>8, <3>1
      <4>2. out = whole \o t
        BY <2>2, <3>1, <4>1
      <4>3. out \in Seq(Nat) /\ Len(out) = Len(whole) + Len(t)
        BY <1>3, <4>2, ConcatProperties
      <4>4. Long(out) = Long(whole) + Long(t) /\ Long(whole) \in Nat
        BY <1>3, <4>2, LongConcat, LongType
      <4>5. QED BY <4>1, <4>3, <4>4
    <3>2. CASE ~ over
      <4>1. out = whole
        BY <1>3, <2>2, <3>2, ConcatEmptySeq
      <4>2. Long(whole) \in Nat /\ Len(whole) \in Nat
        <5>1. Long(whole) \in Nat
          BY <1>3, LongType
        <5>2. QED BY <1>b, <1>3, <5>1
      <4>3. QED BY <1>3, <3>2, <4>1, <4>2
    <3>3. QED BY <3>1, <3>2
  <2>4. last' = IF over THEN MaxLine + 1 ELSE rest
    BY <1>5, <2>1 DEF Cutoff
  <2>5. last' \in 0..MaxLine + 1 /\ (last' > MaxLine <=> over)
    BY <1>0, <1>3, <2>4, SMTT(30)
  <2>6. (skipping' <=> over) /\ (~ over => partial' = last')
    BY <1>6, <1>11, <2>4
  <2>7. ~ (last > MaxLine)
    BY <1>1, <1>11
  <2>8. seq' = printed' + n
    <3>1. seq = printed /\ Len(out) = Len(c) - 1 + n /\ n \in {0, 1}
      BY <1>a, <1>2, <1>3, <2>3, <2>7
    <3> HIDE DEF n
    <3>2. QED BY <1>a, <1>b, <1>5, <3>1
  <2>9. cuts' = long' + n
    <3>1. cuts = long /\ Long(out) = Long(whole) + n /\ n \in {0, 1}
      BY <1>a, <1>2, <2>3, <2>7
    <3> HIDE DEF n
    <3>2. QED BY <1>a, <1>5, <2>1, <2>3, <3>1
  <2>10. QED BY <1>3, <2>1, <2>3, <2>5, <2>6, <2>8, <2>9, SMTT(30)
<1>12. CASE skipping /\ Len(c) = 1
  <2>1. out = <<>> /\ whole = <<>> /\ Whole(last, c) = <<>>
    <3>1. whole = <<>> /\ Whole(last, c) = <<>>
      BY <1>3, <1>4, <1>12, EmptySeq
    <3>2. SubSeq(whole, 2, Len(whole)) = <<>>
      BY <3>1, SubSeqEmpty
    <3>3. QED BY <1>9, <1>12, <3>1, <3>2
  <2>2. Len(out) = 0 /\ Long(out) = 0 /\ Long(Whole(last, c)) = 0 /\ out \in Seq(Nat)
    BY <2>1, LongNone, EmptySeq
  <2>3. Rest(last, c) > MaxLine
    <3>1. Rest(last, c) = last + c[1] /\ c[1] \in Nat
      BY <1>3, <1>12 DEF Rest
    <3>2. QED BY <1>0, <1>1, <1>12, <3>1
  <2>4. last' = MaxLine + 1
    BY <1>5, <2>3 DEF Cutoff
  <2>5. skipping'
    BY <1>6, <1>12
  <2>6. seq' = printed' + 1 /\ cuts' = long' + 1
    <3>1. seq = printed + 1 /\ cuts = long + 1
      BY <1>1, <1>2, <1>12
    <3>2. QED BY <1>a, <1>5, <1>12, <2>2, <3>1
  <2>7. QED BY <1>0, <2>2, <2>4, <2>5, <2>6
<1>13. CASE skipping /\ Len(c) # 1
  <2> DEFINE tail == SubSeq(whole, 2, Len(whole))
  <2>1. rest = Rest(last, c)
    BY <1>13 DEF rest, Rest
  <2>2. /\ tail = SubSeq(Whole(last, c), 2, Len(Whole(last, c)))
        /\ Whole(last, c) # <<>> /\ Whole(last, c)[1] > MaxLine
    <3>1. Len(c) - 1 >= 1
      BY <1>3, <1>13
    <3>2. Whole(last, c)[1] = last + c[1] /\ c[1] \in Nat
      BY <1>3, <3>1 DEF Whole
    <3>3. Whole(last, c)[1] > MaxLine
      BY <1>0, <1>1, <1>13, <3>2
    <3>4. Whole(last, c) # <<>>
      BY <1>4, <3>1, EmptySeq
    <3>5. QED BY <1>0, <3>3, <3>4, WholeTail DEF whole
  <2>3. tail \in Seq(Nat) /\ Long(Whole(last, c)) = 1 + Long(tail) /\ Long(tail) \in Nat
    BY <1>4, <2>2, LongFirst, LongType
  <2>4. Len(tail) = Len(c) - 2
    <3>1. \A i \in 2..Len(whole) : whole[i] \in Nat
      BY <1>3, ElementOfSeq
    <3>2. Len(tail) = IF 2 <= Len(whole) THEN Len(whole) - 2 + 1 ELSE 0
      BY <1>3, <3>1, SubSeqProperties
    <3>3. QED BY <1>3, <1>13, <3>2
  <2>5. out = tail \o (IF over THEN <<rest>> ELSE <<>>)
    BY <1>9, <1>13
  <2> HIDE DEF tail
  <2>6. /\ out \in Seq(Nat) /\ Len(out) = Len(tail) + n /\ Long(out) = Long(tail) + n
    <3>1. CASE over
      <4>1. PICK t \in Seq(Nat) : t = <<rest>> /\ Len(t) = n /\ Long(t) = n
        BY <1>8, <3>1
      <4>2. out = tail \o t
        BY <2>5, <3>1, <4>1
      <4>3. out \in Seq(Nat) /\ Len(out) = Len(tail) + Len(t)
        BY <2>3, <4>2, ConcatProperties
      <4>4. Long(out) = Long(tail) + Long(t)
        BY <2>3, <4>2, LongConcat
      <4>5. QED BY <4>1, <4>3, <4>4
    <3>2. CASE ~ over
      <4>1. out = tail
        BY <2>3, <2>5, <3>2, ConcatEmptySeq
      <4>2. QED BY <1>3, <2>3, <2>4, <3>2, <4>1
    <3>3. QED BY <3>1, <3>2
  <2>7. last' = IF over THEN MaxLine + 1 ELSE rest
    BY <1>5, <2>1 DEF Cutoff
  <2>8. last' \in 0..MaxLine + 1 /\ (last' > MaxLine <=> over)
    BY <1>0, <1>3, <2>7, SMTT(30)
  <2>9. (skipping' <=> over) /\ (~ over => partial' = last')
    BY <1>6, <1>13, <2>7
  <2>10. last > MaxLine
    BY <1>1, <1>13
  <2>11. seq' = printed' + n
    <3>1. seq = printed + 1 /\ Len(out) = Len(c) - 2 + n /\ n \in {0, 1}
      BY <1>2, <2>4, <2>6, <2>10
    <3> HIDE DEF n
    <3>2. QED BY <1>a, <1>b, <1>5, <3>1
  <2>12. cuts' = long' + n
    <3>1. cuts = long + 1 /\ Long(out) = Long(tail) + n /\ n \in {0, 1}
      BY <1>2, <2>6, <2>10
    <3> HIDE DEF n
    <3>2. QED BY <1>a, <1>5, <2>3, <3>1, SMTT(30)
  <2>13. QED BY <1>3, <2>3, <2>4, <2>6, <2>8, <2>9, <2>11, <2>12, SMTT(30)
<1>14. QED BY <1>11, <1>12, <1>13

(* A page holds every line after the cursor that the buffer has up to the new cursor. *)
LEMMA ReadStep ==
    ASSUME LogInv, Read
    PROVE  LogInv'
<1> DEFINE page == Page(Fresh)
<1>0. /\ seq \in Nat /\ ring \in Seq(1..seq) /\ Len(ring) \in Nat /\ Len(ring) <= seq
      /\ {dropped, counted, since} \subseteq Nat /\ seen \subseteq 1..seq
      /\ Notice \in {0, 1} /\ Notice' = Notice
      /\ seq <= Len(ring) + dropped + Notice /\ counted <= dropped /\ since <= seq
  <2>1. Notice \in {0, 1} /\ Notice' = Notice
    BY DEF Read, Give, Notice
  <2>2. /\ seq \in Nat /\ {dropped, counted, since} \subseteq Nat
        /\ ring \in Seq(1..seq) /\ seen \subseteq 1..seq
    BY DEF LogInv, LogTypeOK
  <2>3. Len(ring) \in Nat
    BY <2>2
  <2>4. /\ Len(ring) <= seq
        /\ seq <= Len(ring) + dropped + Notice /\ counted <= dropped /\ since <= seq
    BY DEF LogInv, Numbered, Losses
  <2>5. QED BY <2>1, <2>2, <2>3, <2>4
<1>1. \A i \in 1..Len(ring) : ring[i] = seq - Len(ring) + i /\ ring[i] \in 1..seq
  <2>1. \A i \in 1..Len(ring) : ring[i] = seq - Len(ring) + i
    BY DEF LogInv, Numbered
  <2>2. PICK l \in Nat : l = Len(ring)
    BY <1>0
  <2>3. seq \in Nat /\ l <= seq
    BY <1>0, <2>2
  <2>4. \A i \in 1..l : seq - l + i \in 1..seq
    BY <2>3
  <2>5. QED BY <2>1, <2>2, <2>4
<1>2. /\ seen' = seen \cup {ring[i] : i \in page} /\ counted' = dropped
      /\ UNCHANGED <<partial, skipping, ring, seq, dropped, pump, cuts, printout>>
      /\ Follow(page)
  BY DEF Read, Give
<1>3. page \subseteq Fresh /\ Fresh \subseteq 1..Len(ring) /\ Fresh \in SUBSET Nat
      /\ IsFiniteSet(Fresh)
  <2>1. page \subseteq Fresh
    BY DEF Page
  <2>2. Fresh \subseteq 1..Len(ring) /\ Fresh \in SUBSET Nat
    BY <1>0 DEF Fresh
  <2>3. IsFiniteSet(1..Len(ring))
    BY <1>0, FS_Interval
  <2>4. QED BY <2>1, <2>2, <2>3, FS_Subset
<1>4. seen' \subseteq 1..seq
  BY <1>0, <1>1, <1>2, <1>3
<1>5. /\ since' \in Nat /\ since' <= seq
      /\ \A n \in since + 1..since' : n \in seen' \/ n <= dropped + Notice
  <2>1. CASE page = {} /\ since' = since
    BY <1>0, <2>1
  <2>2. ASSUME NEW m \in page, since' = ring[m]
        PROVE  /\ since' \in Nat /\ since' <= seq
               /\ \A n \in since + 1..since' : n \in seen' \/ n <= dropped + Notice
    <3>1. m \in 1..Len(ring) /\ since' = seq - Len(ring) + m /\ since' \in 1..seq
      BY <1>1, <1>3, <2>2
    <3>2. ASSUME NEW n \in since + 1..since', n > seq - Len(ring)
          PROVE  n \in seen'
      <4>n. n \in Int /\ n - seq + Len(ring) \in Int /\ n <= seq - Len(ring) + m
        BY <1>0, <3>1
      <4>0. PICK i \in Int : i = n - seq + Len(ring)
        BY <4>n
      <4>1. i \in 1..Len(ring) /\ i <= m /\ i \in Nat /\ n = seq - Len(ring) + i
        <5>1. i >= 1 /\ i <= Len(ring) /\ i <= m /\ n = seq - Len(ring) + i
          <6>1. n > seq - Len(ring) /\ m <= Len(ring) /\ m \in Int
            BY <1>0, <3>1, <3>2
          <6>2. seq \in Int /\ Len(ring) \in Int
            BY <1>0
          <6>3. QED BY <4>n, <4>0, <6>1, <6>2
        <5>2. QED BY <1>0, <4>0, <5>1
      <4>2. ring[i] = n /\ n > since
        <5>1. ring[i] = n
          BY <1>1, <4>1
        <5>2. n > since
          BY <1>0, <3>2
        <5>3. QED BY <5>1, <5>2
      <4>3. i \in Fresh
        BY <4>1, <4>2 DEF Fresh
      <4>4. i \in page
        BY <1>3, <4>1, <4>3, PageDown
      <4>5. QED BY <1>2, <4>2, <4>4
    <3>3. \A n \in since + 1..since' : ~ (n > seq - Len(ring)) => n <= dropped + Notice
      <4>1. TAKE n \in since + 1..since'
      <4>2. n \in Int /\ seq - Len(ring) <= dropped + Notice
        BY <1>0, <3>1, SMTT(30)
      <4>3. QED BY <1>0, <4>2
    <3>4. QED BY <3>1, <3>2, <3>3
  <2>3. QED BY <1>2, <2>1, <2>2 DEF Follow
<1>6. \A n \in 1..since' : n \in seen' \/ n <= counted' + Notice'
  <2>1. TAKE n \in 1..since'
  <2>2. CASE n <= since
    <3>1. n \in seen \/ n <= counted + Notice
      BY <1>0, <2>2 DEF LogInv, Losses
    <3>2. QED BY <1>0, <1>2, <3>1
  <2>3. CASE ~ (n <= since)
    BY <1>0, <1>2, <1>5, <2>3, SMTT(30)
  <2>4. QED BY <2>2, <2>3
<1>7. LogTypeOK'
  BY <1>0, <1>2, <1>4, <1>5 DEF LogInv, LogTypeOK
<1>8. Numbered' /\ Splits' /\ LinesOfInput'
  BY <1>2 DEF LogInv, Numbered, Splits, LinesOfInput, printout
<1>9. Losses'
  BY <1>0, <1>2, <1>5, <1>6 DEF Losses
<1>10. QED BY <1>7, <1>8, <1>9 DEF LogInv

LEMMA LogStep ==
    ASSUME LogInv, [LogNext]_logVars
    PROVE  LogInv'
<1>1. ASSUME NEW c \in Chunks, Chunk(c)
      PROVE  LogInv'
  <2>1. Push(Cut(c).out) /\ UNCHANGED <<pump, since, seen, counted>> /\ Notice' = Notice
    BY <1>1 DEF Chunk, Notice
  <2>2. Cut(c).out \in Seq(Nat) /\ partial' \in 0..MaxLine /\ skipping' \in BOOLEAN
        /\ Splits' /\ LinesOfInput'
    BY <1>1, ChunkStep
  <2>3. /\ ring' \in Seq(1..seq') /\ Len(ring') <= Ring /\ dropped' \in Nat
        /\ Numbered'
        /\ seq' = seq + Len(Cut(c).out) /\ seen' \subseteq 1..seq'
        /\ seq' <= Len(ring') + dropped' + Notice'
        /\ counted' <= dropped' /\ since' <= seq'
        /\ \A n \in 1..since' : n \in seen' \/ n <= counted' + Notice'
    BY <2>1, <2>2, PushStep
  <2>4. seq' \in Nat
    <3>1. seq \in Nat
      BY DEF LogInv, LogTypeOK
    <3>2. Len(Cut(c).out) \in Nat
      BY <2>2
    <3>3. QED BY <2>3, <3>1, <3>2
  <2>5. LogTypeOK'
    BY <2>1, <2>2, <2>3, <2>4 DEF LogInv, LogTypeOK
  <2>6. QED BY <2>2, <2>3, <2>5 DEF LogInv, Losses
<1>2. ASSUME StreamEnds
      PROVE  LogInv'
  <2> DEFINE out == IF partial > 0 /\ ~ skipping THEN <<partial>> ELSE <<>>
  <2>1. /\ Push(out) /\ UNCHANGED <<printout, skipping, since, seen, counted>>
        /\ partial' = 0 /\ pump = "up" /\ pump' = "ended"
    BY <1>2 DEF StreamEnds
  <2>2. out \in Seq(Nat)
    <3>1. partial \in Nat
      BY LogAssumption DEF LogInv, LogTypeOK
    <3>2. <<partial>> \in Seq(Nat) /\ <<>> \in Seq(Nat)
      BY <3>1
    <3>3. QED BY <3>2
  <2>3. PICK k \in Nat : k = Len(out) /\ cuts' = cuts + Long(out) /\ Long(out) \in Nat
    <3>1. cuts' = cuts + Long(out) /\ Long(out) \in Nat /\ Len(out) \in Nat
      <4> HIDE DEF out
      <4>1. cuts' = cuts + Long(out)
        BY <2>1 DEF Push
      <4>2. Long(out) \in Nat
        BY <2>2, LongType
      <4>3. Len(out) \in Nat
        BY <2>2
      <4>4. QED BY <4>1, <4>2, <4>3
    <3>2. QED BY <3>1
  <2> HIDE DEF out
  <2>4. Notice' = Notice
    BY <2>1 DEF Notice
  <2>5. /\ ring' \in Seq(1..seq') /\ Len(ring') <= Ring /\ dropped' \in Nat
        /\ Numbered'
        /\ seq' = seq + k /\ seen' \subseteq 1..seq'
        /\ seq' <= Len(ring') + dropped' + Notice'
        /\ counted' <= dropped' /\ since' <= seq'
        /\ \A n \in 1..since' : n \in seen' \/ n <= counted' + Notice'
    BY <2>1, <2>2, <2>3, <2>4, PushStep
  <2>6. seq' \in Nat /\ 0 \in 0..MaxLine /\ cuts' \in Nat
    <3>1. seq \in Nat /\ cuts \in Nat /\ MaxLine \in Nat
      BY LogAssumption DEF LogInv, LogTypeOK, Splits
    <3>2. QED BY <2>3, <2>5, <3>1
  <2>7. LogTypeOK'
    BY <2>1, <2>5, <2>6 DEF LogInv, LogTypeOK
  <2>8. Splits' /\ LinesOfInput'
    BY <2>1, <2>6 DEF LogInv, Splits, LinesOfInput, printout
  <2>9. QED BY <2>5, <2>7, <2>8 DEF LogInv, Losses
<1>3. ASSUME StreamFails
      PROVE  LogInv'
  <2>1. /\ pump = "up" /\ pump' = "failed" /\ Notice = 0 /\ Notice' = 1
        /\ ring' = Kept(Append(ring, seq + 1)) /\ seq' = seq + 1
        /\ UNCHANGED <<partial, skipping, dropped, since, seen, counted, cuts, printout>>
    BY <1>3 DEF StreamFails, Notice
  <2>2. /\ seq \in Nat /\ ring \in Seq(1..seq) /\ Len(ring) \in Nat /\ Len(ring) <= Ring
        /\ dropped \in Nat /\ counted \in Nat /\ since \in Nat /\ seen \subseteq 1..seq
        /\ seq <= Len(ring) + dropped /\ counted <= dropped /\ since <= seq
        /\ Ring \in Nat
    BY <2>1, LogAssumption DEF LogInv, LogTypeOK, Losses
  <2>3. Append(ring, seq + 1) = ring \o <<seq + 1>>
    <3>1. ring \in Seq(Nat)
      BY <2>2, SeqMonotonic
    <3>2. QED BY <2>2, <3>1, AppendIsConcat
  <2>4. /\ ring' \in Seq(1..seq') /\ Numbered'
        /\ Len(ring') = IF Len(ring) + 1 > Ring THEN Ring ELSE Len(ring) + 1
    <3>1. <<seq + 1>> \in Seq(Nat) /\ Len(<<seq + 1>>) = 1
          /\ \A i \in 1..1 : <<seq + 1>>[i] = seq + i
      BY <2>2
    <3>2. LogTypeOK /\ Numbered
      BY DEF LogInv
    <3>3. ring' = Kept(ring \o <<seq + 1>>)
      BY <2>1, <2>3
    <3>4. QED BY <2>1, <3>1, <3>2, <3>3, RingStep
  <2>5. seq' \in Nat /\ Len(ring') <= Ring /\ seen' \subseteq 1..seq'
    BY <2>1, <2>2, <2>4
  <2>6. seq' <= Len(ring') + dropped' + 1 /\ counted' <= dropped' /\ since' <= seq'
    BY <2>1, <2>2, <2>4
  <2>7. \A n \in 1..since' : n \in seen' \/ n <= counted' + 1
    <3>1. \A n \in 1..since : n \in seen \/ n <= counted + 0
      BY <2>1 DEF LogInv, Losses
    <3>2. QED BY <2>1, <2>2, <3>1
  <2>8. LogTypeOK'
    BY <2>1, <2>2, <2>4, <2>5 DEF LogInv, LogTypeOK
  <2>9. Splits' /\ LinesOfInput'
    BY <2>1 DEF LogInv, Splits, LinesOfInput, printout
  <2>10. Losses'
    BY <2>1, <2>6, <2>7 DEF Losses
  <2>11. QED BY <2>4, <2>8, <2>9, <2>10 DEF LogInv
<1>4. ASSUME Close
      PROVE  LogInv'
  <2>1. /\ pump' = "closed" /\ Notice \in {0, 1} /\ Notice' = 1
        /\ UNCHANGED <<partial, skipping, ring, seq, dropped, since, seen, counted, cuts, printout>>
    BY <1>4 DEF Close, Notice
  <2>2. LogTypeOK' /\ Numbered' /\ Splits' /\ LinesOfInput'
    BY <2>1 DEF LogInv, LogTypeOK, Numbered, Splits, LinesOfInput, printout
  <2>3. /\ seq \in Nat /\ Len(ring) \in Nat /\ dropped \in Nat /\ counted \in Nat
        /\ since \in Nat
    BY DEF LogInv, LogTypeOK
  <2>4. Losses'
    <3>1. seq <= Len(ring) + dropped + 1
      BY <2>1, <2>3 DEF LogInv, Losses
    <3>2. \A n \in 1..since : n \in seen \/ n <= counted + 1
      BY <2>1, <2>3 DEF LogInv, Losses
    <3>3. QED BY <2>1, <3>1, <3>2 DEF LogInv, Losses
  <2>5. QED BY <2>2, <2>4 DEF LogInv
<1>5. CASE UNCHANGED logVars
  BY <1>5 DEF logVars, printout, LogInv, LogTypeOK, Numbered, Notice, Losses, Splits,
              LinesOfInput
<1>6. QED BY <1>1, <1>2, <1>3, <1>4, <1>5, ReadStep DEF LogNext

LEMMA LogInitial ==
    ASSUME LogInit
    PROVE  LogInv
<1>1. ring \in Seq(1..seq) /\ Len(ring) = 0 /\ 0 \in 0..MaxLine /\ MaxLine \in Nat /\ Ring \in Nat
  <2>1. MaxLine \in Nat /\ Ring \in Nat
    BY LogAssumption
  <2>2. ring = <<>> /\ seq = 0
    BY DEF LogInit
  <2>3. QED BY <2>1, <2>2
<1>2. LogTypeOK
  <2>1. skipping \in BOOLEAN /\ pump \in {"up", "ended", "failed", "closed"}
    BY DEF LogInit
  <2>2. partial \in 0..MaxLine /\ Len(ring) <= Ring /\ seen \subseteq 1..seq
    BY <1>1 DEF LogInit
  <2>3. {seq, dropped, since, counted} \subseteq Nat
    BY DEF LogInit
  <2>4. QED BY <1>1, <2>1, <2>2, <2>3 DEF LogTypeOK
<1>3. Numbered /\ Losses
  BY <1>1 DEF LogInit, Numbered, Losses, Notice
<1>4. Splits /\ LinesOfInput
  BY <1>1 DEF LogInit, Splits, LinesOfInput
<1>5. QED BY <1>2, <1>3, <1>4 DEF LogInv

(* What was missed are numbers up to the count, and the notice's one. *)
LEMMA LossBound ==
    ASSUME LogInv
    PROVE  LossCounted
<1>1. counted \in Nat /\ since \in Nat /\ Notice \in {0, 1}
  BY DEF LogInv, LogTypeOK, Notice
<1>2. Missed \subseteq 1..counted + Notice
  <2>1. \A n \in 1..since : n \in seen \/ n <= counted + Notice
    BY DEF LogInv, Losses
  <2> HIDE DEF Notice
  <2>2. QED BY <1>1, <2>1 DEF Missed
<1>3. IsFiniteSet(1..counted + Notice) /\ Cardinality(1..counted + Notice) = counted + Notice
  <2>1. PICK m \in Nat : m = counted + Notice
    BY <1>1
  <2>2. IsFiniteSet(1..m) /\ Cardinality(1..m) = m
    BY FS_Interval
  <2>3. QED BY <2>1, <2>2
<1>4. Cardinality(Missed) <= counted + Notice
  BY <1>2, <1>3, FS_Subset
<1>5. QED BY <1>4 DEF LossCounted, Notice

(* A reader that follows its cursor misses no more lines than it was told of
   (LossCounted), whatever the sizes of the buffer and of the pages. *)
THEOREM LogLossCounted == LogSpec => []LossCounted
<1>1. LogInit => LogInv
  BY LogInitial
<1>2. LogInv /\ [LogNext]_logVars => LogInv'
  BY LogStep
<1>3. LogInv => LossCounted
  BY LossBound
<1>4. QED BY <1>1, <1>2, <1>3, PTL DEF LogSpec

(* However the text comes in chunks, the lines in the buffer are those the node printed, and
   those cut are the over-long ones (LinesOfInput). *)
THEOREM LogLinesOfInput == LogSpec => []LinesOfInput
<1>1. LogInit => LogInv
  BY LogInitial
<1>2. LogInv /\ [LogNext]_logVars => LogInv'
  BY LogStep
<1>3. LogInv => LinesOfInput
  BY DEF LogInv
<1>4. QED BY <1>1, <1>2, <1>3, PTL DEF LogSpec

(* What is held of an over-long line, and the buffer, stay within their bounds. *)
THEOREM LogTypes == LogSpec => []LogTypeOK
<1>1. LogInit => LogInv
  BY LogInitial
<1>2. LogInv /\ [LogNext]_logVars => LogInv'
  BY LogStep
<1>3. LogInv => LogTypeOK
  BY DEF LogInv
<1>4. QED BY <1>1, <1>2, <1>3, PTL DEF LogSpec

------------------------------------------------------------------------------
(* The output of a job. *)
(* Of the bytes after the offset those that are not stripped come first. *)
LEMMA FromTheOffset ==
    ASSUME NEW m \in Nat, NEW end \in Nat, NEW D \in SUBSET (m + 1..end),
           \A i \in D : \A j \in m + 1..i : j \in D
    PROVE  /\ IsFiniteSet(D) /\ Cardinality(D) \in Nat
           /\ m + 1..m + Cardinality(D) \subseteq D
<1>1. IsFiniteSet(m + 1..end)
  BY FS_Interval
<1>2. IsFiniteSet(D) /\ Cardinality(D) \in Nat
  BY <1>1, FS_Subset, FS_CardinalityType
<1>3. ASSUME NEW x \in m + 1..m + Cardinality(D), x \notin D
      PROVE  FALSE
  <2>1. x \in Int /\ x >= m + 1 /\ x <= m + Cardinality(D)
    BY <1>2
  <2>2. D \subseteq m + 1..x - 1
    <3>1. ASSUME NEW i \in D, ~ (i <= x - 1)
          PROVE  FALSE
      <4>1. i \in Int /\ i <= end
        OBVIOUS
      <4>2. x \in m + 1..i
        BY <2>1, <3>1, <4>1
      <4>3. QED BY <1>3, <4>2
    <3>2. QED BY <2>1, <3>1
  <2>3. PICK k \in Nat : k = x - 1 - m
    BY <2>1
  <2>4. IsFiniteSet(m + 1..x - 1) /\ Cardinality(m + 1..x - 1) = k
    <3>1. PICK a \in Int, b \in Int : a = m + 1 /\ b = x - 1
      BY <2>1
    <3>2. IsFiniteSet(a..b) /\ Cardinality(a..b) = IF a > b THEN 0 ELSE b - a + 1
      BY FS_Interval
    <3>3. (IF a > b THEN 0 ELSE b - a + 1) = k
      BY <2>1, <2>3, <3>1
    <3>4. QED BY <3>1, <3>2, <3>3
  <2>5. Cardinality(D) <= k
    BY <2>2, <2>4, FS_Subset
  <2>6. QED BY <1>2, <2>1, <2>3, <2>5
<1>4. QED BY <1>2, <1>3

(* What an answer gives, in whatever alphabet the job writes. *)
LEMMA AnswerFacts ==
    ASSUME OutTypeOK, NEW end \in Nat, end <= Len(log),
           NEW body, body = {i \in Raw(end) : ~ Blank(i, end)}
    PROVE  /\ body \subseteq 1..Len(log) /\ Cardinality(body) \in Nat
           /\ offset + 1..offset + Cardinality(body) \subseteq body
           /\ Halves(body, end) \in Nat
           /\ Bytes(body, end) = Cardinality(body) + 2 * Halves(body, end)
<1>0. offset \in Nat /\ Len(log) \in Nat
  BY DEF OutTypeOK
<1>1. body \in SUBSET (offset + 1..end) /\ body \subseteq 1..Len(log)
  BY <1>0 DEF Raw
<1>2. \A i \in body : \A j \in offset + 1..i : j \in body
  <2>1. TAKE i \in body
  <2>2. TAKE j \in offset + 1..i
  <2>3. i \in Int /\ j \in Int /\ i <= end /\ j <= i
    BY <1>0, <1>1
  <2>4. j \in Raw(end)
    BY <1>0, <2>3 DEF Raw
  <2>5. PICK k \in i..end : log[k] # "n"
    BY DEF Blank
  <2>6. k \in j..end
    BY <2>3
  <2>7. QED BY <2>4, <2>5, <2>6 DEF Blank
<1>3. /\ IsFiniteSet(body) /\ Cardinality(body) \in Nat
      /\ offset + 1..offset + Cardinality(body) \subseteq body
  BY <1>0, <1>1, <1>2, FromTheOffset
<1>4. Halves(body, end) \in Nat
  BY <1>3, FS_Subset, FS_CardinalityType DEF Halves
<1>5. QED BY <1>1, <1>3, <1>4 DEF Bytes

(* What an answer adds to the bytes that were missed: at most those that its halves stand for. *)
LEMMA MissedFacts ==
    ASSUME NEW m \in Nat, NEW c \in Nat, NEW k \in Nat, NEW o \in Nat, o <= m + c + k,
           NEW G, NEW B, m + 1..m + c \subseteq B
    PROVE  /\ Cardinality((1..m) \ G) \in Nat /\ Cardinality((1..o) \ (G \cup B)) \in Nat
           /\ Cardinality((1..o) \ (G \cup B)) <= Cardinality((1..m) \ G) + k
<1> DEFINE M == (1..m) \ G
<1> DEFINE I == m + c + 1..m + c + k
<1> DEFINE N == (1..o) \ (G \cup B)
<1>1. IsFiniteSet(1..m) /\ IsFiniteSet(1..o) /\ IsFiniteSet(I)
  BY FS_Interval
<1>2. IsFiniteSet(M) /\ IsFiniteSet(N) /\ Cardinality(M) \in Nat /\ Cardinality(N) \in Nat
  BY <1>1, FS_Subset, FS_CardinalityType
<1>3. Cardinality(I) = k
  <2>1. PICK a \in Int, b \in Int : a = m + c + 1 /\ b = m + c + k
    OBVIOUS
  <2>2. Cardinality(a..b) = IF a > b THEN 0 ELSE b - a + 1
    BY FS_Interval
  <2>3. (IF a > b THEN 0 ELSE b - a + 1) = k
    BY <2>1
  <2>4. QED BY <2>1, <2>2, <2>3
<1>4. N \subseteq M \cup I
  <2>1. ASSUME NEW x \in N
        PROVE  x \in M \cup I
    <3>1. x \in Int /\ 1 <= x /\ x <= m + c + k /\ x \notin G /\ x \notin m + 1..m + c
      OBVIOUS
    <3>2. CASE x <= m
      BY <3>1, <3>2
    <3>3. CASE ~ (x <= m)
      <4>1. x >= m + c + 1
        BY <3>1, <3>3
      <4>2. QED BY <3>1, <4>1
    <3>4. QED BY <3>2, <3>3
  <2>2. QED BY <2>1
<1> HIDE DEF M, I, N
<1>5. /\ IsFiniteSet(M \cup I) /\ Cardinality(M \cap I) \in Nat
      /\ Cardinality(M \cup I) = Cardinality(M) + Cardinality(I) - Cardinality(M \cap I)
  <2>1. IsFiniteSet(M \cap I)
    BY <1>2, FS_Intersection
  <2>2. QED BY <1>1, <1>2, <2>1, FS_Union, FS_CardinalityType
<1>6. Cardinality(N) <= Cardinality(M \cup I)
  BY <1>4, <1>5, FS_Subset
<1>7. Cardinality(N) <= Cardinality(M) + k
  <2>1. PICK u \in Nat, v \in Nat, w \in Nat :
            u = Cardinality(N) /\ v = Cardinality(M) /\ w = Cardinality(M \cap I)
    BY <1>2, <1>5
  <2>2. u <= v + k - w
    BY <1>3, <1>5, <1>6, <2>1
  <2>3. QED BY <2>1, <2>2
<1>8. QED BY <1>2, <1>7 DEF M, N

LEMMA OutStep ==
    ASSUME OutTypeOK, [OutNext]_outVars
    PROVE  OutTypeOK' /\ (GapFree => GapFree')
<1>0. /\ log \in Seq(Alphabet) /\ Len(log) \in Nat /\ Len(log) <= MaxLog /\ MaxLog \in Nat
      /\ MaxBytes \in Nat /\ offset \in Nat /\ offset <= Len(log) /\ got \subseteq 1..Len(log)
      /\ size \in 0..Len(log) \cup {NoCall} /\ halves \in Nat
  BY OutputAssumption DEF OutTypeOK
<1>1. ASSUME NEW b \in Alphabet, JobWrites(b)
      PROVE  OutTypeOK' /\ (GapFree => GapFree')
  <2>1. log' = Append(log, b) /\ UNCHANGED <<offset, size, got, halves>> /\ Len(log) < MaxLog
    BY <1>1 DEF JobWrites
  <2>2. log' \in Seq(Alphabet) /\ Len(log') = Len(log) + 1
    BY <1>0, <2>1, AppendProperties
  <2>3. QED BY <1>0, <2>1, <2>2 DEF OutTypeOK, GapFree, NoCall
<1>2. ASSUME AskOutput
      PROVE  OutTypeOK' /\ (GapFree => GapFree')
  BY <1>0, <1>2 DEF AskOutput, OutTypeOK, GapFree
<1>3. ASSUME AnswerOutput
      PROVE  OutTypeOK' /\ (GapFree => GapFree')
  <2> DEFINE end == Smaller(offset + MaxBytes, Len(log))
  <2> DEFINE body == {i \in Raw(end) : ~ Blank(i, end)}
  <2>1. /\ size # NoCall /\ got' = got \cup body /\ log' = log /\ size' = NoCall
        /\ offset' = Smaller(offset + Bytes(body, end), size)
        /\ halves' = halves + Halves(body, end)
    BY <1>3 DEF AnswerOutput, NextOffset
  <2>2. end \in Nat /\ end <= Len(log)
    BY <1>0 DEF Smaller
  <2> HIDE DEF end
  <2>3. /\ body \subseteq 1..Len(log) /\ Cardinality(body) \in Nat
        /\ offset + 1..offset + Cardinality(body) \subseteq body
        /\ Halves(body, end) \in Nat
        /\ Bytes(body, end) = Cardinality(body) + 2 * Halves(body, end)
    BY <2>2, AnswerFacts
  <2>4. size \in 0..Len(log)
    BY <1>0, <2>1
  <2>5. PICK c \in Nat, h \in Nat : c = Cardinality(body) /\ h = Halves(body, end)
    BY <2>3
  <2> HIDE DEF body
  <2>6. offset' = Smaller(offset + (c + 2 * h), size) /\ halves' = halves + h
    BY <2>1, <2>3, <2>5
  <2>7. offset' \in Nat /\ offset' <= offset + c + 2 * h /\ offset' <= Len(log)
    BY <1>0, <2>4, <2>6 DEF Smaller
  <2>8. OutTypeOK'
    <3>1. got' \subseteq 1..Len(log) /\ log' = log /\ size' = NoCall /\ halves' \in Nat
      BY <1>0, <2>1, <2>3, <2>6
    <3>2. offset' \in 0..Len(log)
      BY <1>0, <2>7
    <3>3. QED BY <1>0, <3>1, <3>2 DEF OutTypeOK, NoCall
  <2>9. ASSUME GapFree
        PROVE  GapFree'
    <3>1. offset + 1..offset + c \subseteq body
      BY <2>3, <2>5
    <3>2. PICK k \in Nat : k = 2 * h
      BY <2>5
    <3>3. offset' <= offset + c + k
      BY <2>7, <3>2
    <3>4. /\ Cardinality((1..offset) \ got) \in Nat
          /\ Cardinality((1..offset') \ (got \cup body)) \in Nat
          /\ Cardinality((1..offset') \ (got \cup body)) <= Cardinality((1..offset) \ got) + k
      BY <1>0, <2>7, <3>1, <3>3, MissedFacts
    <3>5. PICK u \in Nat, v \in Nat : /\ u = Cardinality((1..offset) \ got)
                                     /\ v = Cardinality((1..offset') \ (got \cup body))
      BY <3>4
    <3>6. u <= 2 * halves
      BY <2>9, <3>5 DEF GapFree
    <3>7. v <= 2 * (halves + h)
      BY <1>0, <3>2, <3>4, <3>5, <3>6
    <3>8. QED BY <2>1, <2>6, <3>5, <3>7 DEF GapFree
  <2>10. QED BY <2>8, <2>9
<1>4. CASE UNCHANGED outVars
  BY <1>4 DEF outVars, OutTypeOK, GapFree
<1>5. QED BY <1>1, <1>2, <1>3, <1>4 DEF OutNext

LEMMA OutInitial ==
    ASSUME OutInit
    PROVE  OutTypeOK /\ GapFree
<1>1. Len(log) = 0 /\ log \in Seq(Alphabet) /\ MaxLog \in Nat
  BY OutputAssumption DEF OutInit
<1>2. OutTypeOK
  BY <1>1 DEF OutInit, OutTypeOK
<1>3. (1..offset) \ got = {}
  BY DEF OutInit
<1>4. Cardinality((1..offset) \ got) = 0
  BY <1>3, FS_EmptySet
<1>5. GapFree
  BY <1>4 DEF OutInit, GapFree
<1>6. QED BY <1>2, <1>5

(* No answer sends a client past the end of the log, whatever bytes the job writes. *)
THEOREM OutputTypes == OutSpec => []OutTypeOK
<1>1. OutInit => OutTypeOK
  BY OutInitial
<1>2. OutTypeOK /\ [OutNext]_outVars => OutTypeOK'
  BY OutStep
<1>3. QED BY <1>1, <1>2, PTL DEF OutSpec

(* A client that reads on from next_offset misses at most two bytes for each half of a
   character it is shown (GapFree), and so none where no answer splits a character: in every
   text, however long the log and the answers are, and while the job writes. *)
THEOREM OutputGapFree == OutSpec => []GapFree
<1>1. OutInit => OutTypeOK /\ GapFree
  BY OutInitial
<1>2. OutTypeOK /\ GapFree /\ [OutNext]_outVars => OutTypeOK' /\ GapFree'
  BY OutStep
<1>3. QED BY <1>1, <1>2, PTL DEF OutSpec

------------------------------------------------------------------------------
(* The egress proxy, for every set of addresses and every amount of data. *)
(* What has happened by the time the handler is where it is. *)
Progress ==
    /\ at \in {"head", "resolve", "connecting"}
       => up = "none" /\ c2u = "off" /\ u2c = "off" /\ down = "open"
    /\ at = "confirm" => up = "open" /\ c2u = "off" /\ u2c = "off" /\ down = "open"
    /\ at \in {"resolve", "connecting", "confirm", "sending", "relay", "tunnel"} => allowed
    /\ at = "connecting" => pinned \in Public
    /\ at \in {"sending", "relay"} => method = "http" /\ up # "none"
    /\ {c2u, u2c} \cap {"run", "full"} # {} => up # "none"
    /\ unread <= sent

(* The transport to the client is closed at the end of what the server sent, or after
   one of the peers went away. *)
ClosedForAReason ==
    /\ method = "connect" /\ up = "closed" /\ u2c \in {"run", "full"}
       => client # "up" \/ server = "gone"
    /\ method = "connect" /\ up # "none" /\ down = "closed"
       => u2c \notin {"run", "full"}
          /\ (client = "up" => u2c = "ended" /\ (server = "gone" \/ (server = "half" /\ unread = 0)))

ProxyInv == ProxyTypeOK /\ Progress /\ OnlyPublic /\ ClosedForAReason

LEMMA ProxyStep ==
    ASSUME ProxyInv, [ProxyNext]_proxyVars
    PROVE  ProxyInv'
<1> USE ProxyAssumption DEF ProxyInv, ProxyTypeOK, Progress, OnlyPublic, ClosedForAReason,
        Sides, Pipe, peers, request, Plus1
<1>1. CASE Rebind
  BY <1>1 DEF Rebind
<1>2. CASE ClientEnds
  BY <1>2 DEF ClientEnds
<1>3. CASE ServerSends
  BY <1>3 DEF ServerSends
<1>4. CASE ServerEnds
  BY <1>4 DEF ServerEnds
<1>5. CASE RefuseHead
  BY <1>5 DEF RefuseHead, Fail
<1>6. CASE AcceptHead
  BY <1>6 DEF AcceptHead
<1>7. CASE ResolveTarget
  BY <1>7 DEF ResolveTarget, Fail, Crash
<1>8. CASE Connect
  <2>1. /\ at = "connecting" /\ up = "none" /\ allowed /\ pinned \in Public
        /\ UNCHANGED <<method, allowed, dns, pinned, client, server, unread, sent, slow, c2u, u2c>>
    BY <1>8 DEF Connect
  <2>2. CASE Opened /\ at' \in {"confirm", "sending"} /\ UNCHANGED <<heads, down>>
             /\ (at' = "sending" => method = "http")
    BY <2>1, <2>2 DEF Opened
  <2>3. CASE Fail /\ UNCHANGED <<up, peer>>
    BY <2>1, <2>3 DEF Fail
  <2>4. QED BY <1>8, <2>2, <2>3 DEF Connect
<1>9. CASE SendRequest
  BY <1>9 DEF SendRequest, Fail, Crash
<1>10. CASE RelayPiece
  BY <1>10 DEF RelayPiece, Fail
<1>11. CASE RelayEnds
  BY <1>11 DEF RelayEnds
<1>12. CASE RelayBreaks
  BY <1>12 DEF RelayBreaks, Fail
<1>13. CASE PipePiece
  BY <1>13 DEF PipePiece
<1>14. CASE ClientPipeEnds
  BY <1>14 DEF ClientPipeEnds, Joined
<1>15. CASE ClientWriteFails
  BY <1>15 DEF ClientWriteFails, Joined
<1>16. CASE ServerPipeEnds
  <2>1. /\ u2c \in {"run", "full"} /\ u2c' = "ended" /\ down' = "closed" /\ at' \in {"done", at}
        /\ UNCHANGED <<method, allowed, dns, pinned, up, peer, client, server, unread, sent, slow,
                       c2u, heads>>
    BY <1>16 DEF ServerPipeEnds, ServerPipeOver, Joined
  <2>2. \/ server = "half" /\ unread = 0
        \/ server = "gone" \/ up = "closed" \/ client = "gone"
    BY <1>16 DEF ServerPipeEnds, ServerPipeOver
  <2>3. ProxyTypeOK'
    BY <2>1
  <2>4. Progress' /\ OnlyPublic'
    BY <2>1
  <2>5. ClosedForAReason'
    BY <2>1, <2>2
  <2>6. QED BY <2>3, <2>4, <2>5
<1>17. CASE UNCHANGED proxyVars
  BY <1>17 DEF proxyVars
<1>18. CASE Confirm
  BY <1>18 DEF Confirm
<1>19. CASE ConfirmFails
  BY <1>19 DEF ConfirmFails, Fail
<1>20. CASE Stalls \/ ReadsOn
  BY <1>20 DEF Stalls, ReadsOn
<1>21. CASE ClientPiece \/ ClientDrained \/ ServerDrained
  BY <1>21 DEF ClientPiece, ClientDrained, ServerDrained
<1>22. QED
  BY <1>1, <1>2, <1>3, <1>4, <1>5, <1>6, <1>7, <1>8, <1>9, <1>10, <1>11, <1>12, <1>13, <1>14,
     <1>15, <1>16, <1>17, <1>18, <1>19, <1>20, <1>21 DEF ProxyNext, Handler

LEMMA ProxyInductive == ProxySpec => []ProxyInv
<1>1. ProxyInit => ProxyInv
  BY ProxyAssumption DEF ProxyInit, ProxyInv, ProxyTypeOK, Progress, OnlyPublic, ClosedForAReason,
                        Sides, Pipe
<1>2. QED BY <1>1, ProxyStep, PTL DEF ProxySpec

(* Every step of the handler and of the pipes keeps the types. *)
THEOREM ProxyTypes == ProxySpec => []ProxyTypeOK
BY ProxyInductive, PTL DEF ProxyInv

(* Whatever the name service answers and when: no connection is opened for a request
   without the password, and none to an address that was not checked. *)
THEOREM PinnedToPublic == ProxySpec => []OnlyPublic
BY ProxyInductive, PTL DEF ProxyInv

(* A tunnel is not closed on a client before it has all of what the server sent. *)
THEOREM NothingLost == ProxySpec => []NothingCutOff
<1>1. ProxyInv => NothingCutOff
  BY DEF ProxyInv, ProxyTypeOK, ClosedForAReason, NothingCutOff
<1>2. QED BY <1>1, ProxyInductive, PTL

------------------------------------------------------------------------------
(* A behaviour of the parts side by side is one of every part: what is proved of each of them
   holds of what the run checks. *)
LEMMA EveryPart ==
    FairSpec =>
        /\ JobsSpec /\ OutSpec /\ ProxySpec /\ LockSpec /\ CbSpec
        /\ LogInit /\ [][LogNext]_logVars
<1>1. Init => JobsInit /\ LogInit /\ OutInit /\ ProxyInit /\ LockInit /\ CbInit
  BY DEF Init
<1>2. [Next]_vars => [JobsNext]_jobVars
  BY DEF Next, vars, logAlone, outAlone, proxyAlone, lockAlone, cbAlone
<1>3. [Next]_vars => [LogNext]_logVars
  BY DEF Next, vars, jobsAlone, outAlone, proxyAlone, lockAlone, cbAlone
<1>4. [Next]_vars => [OutNext]_outVars
  BY DEF Next, vars, jobsAlone, logAlone, proxyAlone, lockAlone, cbAlone
<1>5. [Next]_vars => [ProxyNext]_proxyVars
  BY DEF Next, vars, jobsAlone, logAlone, outAlone, lockAlone, cbAlone
<1>6. [Next]_vars => [LockNext]_lockVars
  BY DEF Next, vars, jobsAlone, logAlone, outAlone, proxyAlone, cbAlone
<1>7. [Next]_vars => [CbNext]_cbVars
  BY DEF Next, vars, jobsAlone, logAlone, outAlone, proxyAlone, lockAlone
<1>8. QED
  BY <1>1, <1>2, <1>3, <1>4, <1>5, <1>6, <1>7, PTL
     DEF FairSpec, JobsSpec, OutSpec, ProxySpec, LockSpec, CbSpec

(* Every part keeps its types and its bounds: the jobs' files, the splitter's buffer and the ring,
   the offsets of a job's output, the pipes of a tunnel, the counters of failed logins and the
   list of refused callbacks (PartsTypeOK). *)
THEOREM PartsTypes == FairSpec => []PartsTypeOK
<1>1. JobsTypeOK /\ LogTypeOK /\ OutTypeOK /\ ProxyTypeOK /\ LockTypeOK /\ CbTypeOK => PartsTypeOK
  BY DEF PartsTypeOK
<1>2. LogInit => LogInv
  BY LogInitial
<1>3. LogInv /\ [LogNext]_logVars => LogInv'
  BY LogStep
<1>4. LogInv => LogTypeOK
  BY DEF LogInv
<1>5. QED
  BY <1>1, <1>2, <1>3, <1>4, EveryPart, JobTypes, OutputTypes, ProxyTypes, LockTypes,
     CallbackTypes, PTL
=============================================================================
