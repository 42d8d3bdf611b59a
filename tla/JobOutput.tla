------------------------------ MODULE JobOutput ------------------------------
(***************************************************************************)
(* job_output (ssh/jobs.py): a client reads a job's log piece by piece, each *)
(* time from the next_offset it was given, while the job writes to it.  The  *)
(* script on the node takes the size first and the bytes after it; the       *)
(* gateway decodes them and strips the newlines at the end.                  *)
(*                                                                         *)
(* A byte is "a", one character; "n", a newline; or "h" and "t", the head    *)
(* and the tail of a character of two bytes.                                 *)
(***************************************************************************)
EXTENDS Naturals, Sequences, FiniteSets

CONSTANTS
    Alphabet,   \* the bytes this job writes, of "a", "n", "h" and "t"
    MaxBytes,   \* max_bytes of job_output
    MaxLog      \* how long the log gets

ASSUME OutputAssumption ==
    Alphabet \subseteq {"a", "n", "h", "t"} /\ MaxBytes \in Nat \ {0} /\ MaxLog \in Nat

VARIABLES
    log,      \* the file stdout.log
    offset,   \* the client's next_offset
    size,     \* what wc -c said, when a call is under way
    got,      \* the positions of the bytes the client was given
    halves    \* history: how many halves of characters the answers showed it

outVars == <<log, offset, size, got, halves>>
NoCall  == MaxLog + 1

(* Types; no answer sends the client past the end of the log. *)
OutTypeOK ==
    /\ log \in Seq(Alphabet) /\ Len(log) <= MaxLog
    /\ offset \in 0..Len(log)
    /\ size \in 0..Len(log) \cup {NoCall}
    /\ got \subseteq 1..Len(log) /\ halves \in Nat

OutInit == log = <<>> /\ offset = 0 /\ size = NoCall /\ got = {} /\ halves = 0

(* A tail follows its head, and nothing else does. *)
JobWrites(b) ==
    /\ Len(log) < MaxLog
    /\ (b = "t") <=> (log # <<>> /\ log[Len(log)] = "h")
    /\ log' = Append(log, b)
    /\ UNCHANGED <<offset, size, got, halves>>

AskOutput ==
    /\ size = NoCall
    /\ size' = Len(log)
    /\ UNCHANGED <<log, offset, got, halves>>

Smaller(m, n) == IF m < n THEN m ELSE n
Raw(end)   == offset + 1 .. end
Blank(p, end) == \A i \in p..end : log[i] = "n"     \* rstrip("\n") takes these

(* Half of a character, its other half being outside of what was read. *)
Half(i, end) ==
    \/ log[i] = "h" /\ i = end
    \/ log[i] = "t" /\ i = offset + 1

Halves(body, end) == Cardinality({i \in body : Half(i, end)})

(* len(body.encode()): decoded with "replace", half of a character is one of three bytes. *)
Bytes(body, end) == Cardinality(body) + 2 * Halves(body, end)

(* Fault of NextOffset: the file's size is where the next call begins. *)
NextOffsetSize(body, end) == size
(* min(offset + len(body.encode()), total) *)
NextOffset(body, end) == Smaller(offset + Bytes(body, end), size)

AnswerOutput ==
    LET end  == Smaller(offset + MaxBytes, Len(log))
        body == {i \in Raw(end) : ~ Blank(i, end)}
    IN  /\ size # NoCall
        /\ got' = got \cup body
        /\ offset' = NextOffset(body, end)
        /\ halves' = halves + Halves(body, end)
        /\ size' = NoCall
        /\ UNCHANGED log

OutNext == (\E b \in Alphabet : JobWrites(b)) \/ AskOutput \/ AnswerOutput
OutSpec == OutInit /\ [][OutNext]_outVars

(* What there is of "gap-free incremental reads" (docs/ARCHITECTURE.md:118) in any text: of
   the bytes before the client's offset it was not given at most two for each half of a
   character that an answer showed it (output, next_offset).  So a client that was never
   shown one has every byte before its offset, and the loss is never more than can be seen. *)
GapFree == Cardinality((1..offset) \ got) <= 2 * halves

(* docs/ARCHITECTURE.md:118: "`job_output` returns `next_offset` for gap-free incremental
   reads."  Every byte before the client's offset was given to it. *)
NoGaps == 1..offset \subseteq got
==============================================================================
