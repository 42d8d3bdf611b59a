------------------------------ MODULE LogBuffer ------------------------------
(***************************************************************************)
(* One log subscription (ssh/logs.py): _capped_lines cuts what the node      *)
(* prints into lines of bounded length, _pump puts them into a ring buffer   *)
(* with a sequence number, and log_read fetches what is new by cursor.       *)
(*                                                                         *)
(* Of the text only the newlines and the lengths between them matter: a      *)
(* chunk is the sequence of the lengths of its pieces, <<2, 0, 1>> being     *)
(* "xx\n\nx".                                                               *)
(***************************************************************************)
EXTENDS Naturals, Sequences, FiniteSets

CONSTANTS
    MaxLine,    \* MAX_LINE_CHARS
    Ring,       \* buffer_lines
    PageLimit,  \* limit of log_read
    MaxLines,   \* lines in the life of a subscription
    Chunks      \* what one read() of the stream may return

ASSUME LogAssumption ==
    /\ {MaxLine, Ring, PageLimit} \subseteq Nat \ {0} /\ MaxLines \in Nat
    /\ \A c \in Chunks : c \in Seq(Nat) /\ c # <<>>

VARIABLES
    partial,   \* buf of _capped_lines: how many characters since the last newline
    skipping,  \* in the discarded tail of an over-long line
    ring,      \* LogSub.buf: the sequence numbers of the lines it holds
    seq,       \* LogSub.seq
    dropped,   \* LogSub.dropped
    pump,      \* "up", "ended" (closed), "failed" (closed after a notice) or "closed"
    since,     \* the reader's cursor: next_seq of its last log_read
    seen,      \* the lines the reader was given
    counted,   \* dropped_lines of its last log_read
    cuts,      \* how many of the lines put into the buffer were cut
    printed,   \* how many lines the node printed
    long,      \* how many of those are longer than MAX_LINE_CHARS
    last       \* the length of the line it has not ended yet, up to MAX_LINE_CHARS + 1

printout == <<printed, long, last>>
logVars == <<partial, skipping, ring, seq, dropped, pump, since, seen, counted, cuts, printout>>

Cutoff(n) == IF n > MaxLine THEN MaxLine + 1 ELSE n
Long(s)   == Cardinality({i \in 1..Len(s) : s[i] > MaxLine})

(* Types, and that an over-long line does not make the gateway's memory grow. *)
LogTypeOK ==
    /\ partial \in 0..MaxLine /\ skipping \in BOOLEAN
    /\ ring \in Seq(1..seq) /\ Len(ring) <= Ring
    /\ {seq, dropped, since, counted} \subseteq Nat
    /\ pump \in {"up", "ended", "failed", "closed"}
    /\ seen \subseteq 1..seq

LogInit ==
    /\ partial = 0 /\ skipping = FALSE
    /\ ring = <<>> /\ seq = 0 /\ dropped = 0 /\ pump = "up"
    /\ since = 0 /\ seen = {} /\ counted = 0
    /\ cuts = 0 /\ printed = 0 /\ long = 0 /\ last = 0

------------------------------------------------------------------------------
(* The lengths of the lines a chunk ends: the first one began in earlier chunks. *)
Whole(start, c) == [i \in 1..Len(c) - 1 |-> IF i = 1 THEN start + c[1] ELSE c[i]]
Rest(start, c)  == IF Len(c) = 1 THEN start + c[1] ELSE c[Len(c)]

(* Fault of Cut: the newline after an over-long line does not end the skipping. *)
CutForever(c) ==
    LET whole == Whole(partial, c)  rest == Rest(partial, c) IN
    [out  |-> IF skipping THEN <<>> ELSE whole \o (IF rest > MaxLine THEN <<rest>> ELSE <<>>),
     rest |-> IF rest > MaxLine THEN 0 ELSE rest,
     skip |-> rest > MaxLine \/ skipping]

(* One chunk through the inner loop of _capped_lines: the lines it yields, and what
   remains.  The tail of an over-long line is dropped up to its newline. *)
Cut(c) ==
    LET whole == Whole(partial, c)
        first == IF skipping THEN 2 ELSE 1
        rest  == Rest(partial, c)
        still == skipping /\ Len(c) = 1
        over  == rest > MaxLine
    IN  [out  |-> SubSeq(whole, first, Len(whole)) \o (IF over /\ ~ still THEN <<rest>> ELSE <<>>),
         rest |-> IF over THEN 0 ELSE rest,
         skip |-> over \/ still]

LastOf(s, n) == SubSeq(s, Len(s) - n + 1, Len(s))
Kept(s) == IF Len(s) > Ring THEN LastOf(s, Ring) ELSE s    \* deque(maxlen)

(* _pump, for the lines of one chunk; nothing is awaited between them. *)
Push(out) ==
    LET new == [i \in 1..Len(out) |-> seq + i]
        over == Len(ring) + Len(out) - Ring IN
    /\ ring' = Kept(ring \o new)
    /\ seq' = seq + Len(out)
    /\ dropped' = dropped + IF over > 0 THEN over ELSE 0
    /\ cuts' = cuts + Long(out)

Chunk(c) ==
    /\ pump = "up" /\ printed + Len(c) <= MaxLines + 1
    /\ Push(Cut(c).out)
    /\ partial' = Cut(c).rest /\ skipping' = Cut(c).skip
    /\ printed' = printed + Len(c) - 1 /\ long' = long + Long(Whole(last, c))
    /\ last' = Cutoff(Rest(last, c))
    /\ UNCHANGED <<pump, since, seen, counted>>

(* tail or journalctl ended; a line without a newline is still one. *)
StreamEnds ==
    /\ pump = "up" /\ pump' = "ended"
    /\ Push(IF partial > 0 /\ ~ skipping THEN <<partial>> ELSE <<>>)
    /\ partial' = 0
    /\ UNCHANGED <<printout, skipping, since, seen, counted>>

(* The connection is lost: a notice is put into the buffer, past the count of what
   falls out of it. *)
StreamFails ==
    /\ pump = "up" /\ pump' = "failed"
    /\ ring' = Kept(Append(ring, seq + 1)) /\ seq' = seq + 1
    /\ UNCHANGED <<partial, skipping, dropped, since, seen, counted, cuts, printout>>

(* Where the lines after the cursor are in the buffer, and the first PageLimit of them. *)
Fresh == {i \in 1..Len(ring) : ring[i] > since}
Page(places) == {i \in places : Cardinality({j \in places : j <= i}) <= PageLimit}

(* The lines of a page are handed out. *)
Give(page) ==
    /\ pump # "closed"
    /\ seen' = seen \cup {ring[i] : i \in page}
    /\ counted' = dropped
    /\ UNCHANGED <<partial, skipping, ring, seq, dropped, pump, cuts, printout>>

(* next_seq: the last line of the page. *)
Follow(page) ==
    \/ page = {} /\ since' = since
    \/ \E i \in page : (\A j \in page : j <= i) /\ since' = ring[i]

(* Fault of Read: the cursor goes to the newest line, also when the page ends before. *)
ReadJumps == Give(Page(Fresh)) /\ since' = seq

(* Fault of Read: the line of the cursor is given again, and fills the page. *)
ReadAgain ==
    LET page == Page({i \in 1..Len(ring) : ring[i] >= since}) IN Give(page) /\ Follow(page)

(* log_read(since_seq = the last next_seq). *)
Read == Give(Page(Fresh)) /\ Follow(Page(Fresh))

(* log_close *)
Close ==
    /\ pump # "closed" /\ pump' = "closed"
    /\ UNCHANGED <<partial, skipping, ring, seq, dropped, since, seen, counted, cuts, printout>>

LogNext == (\E c \in Chunks : Chunk(c)) \/ StreamEnds \/ StreamFails \/ Read \/ Close
LogSpec == LogInit /\ [][LogNext]_logVars /\ WF_logVars(Read)

------------------------------------------------------------------------------
(* However the text is split into chunks, the lines are those the node printed, each
   cut at MAX_LINE_CHARS, and a line that is over-long already is there once. *)
LinesOfInput ==
    LET early == IF last > MaxLine THEN 1 ELSE 0 IN
    pump = "up" => seq = printed + early /\ cuts = long + early

Missed == (1..since) \ seen

(* A reader that follows next_seq misses only lines that dropped_lines of its last
   answer counts; the one line a notice pushes out is the exception. *)
LossCounted ==
    Cardinality(Missed) <= counted + IF pump \in {"failed", "closed"} THEN 1 ELSE 0

(* Who reads on gets to the last line of a log that has ended. *)
ReaderCatchesUp == (pump \in {"ended", "failed"}) ~> (since = seq \/ pump = "closed")
==============================================================================
