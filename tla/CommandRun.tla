------------------------------ MODULE CommandRun ------------------------------
(***************************************************************************)
(* exec_many (tools/core.py) and the run_command it makes on every host       *)
(* (ssh/runner.py): a semaphore lets so many hosts in at a time; on each, the *)
(* process's two streams are drained side by side, kept up to a cap and read  *)
(* on past it, and a timeout cuts the command off.                            *)
(*                                                                         *)
(* Output is counted in pieces.                                              *)
(***************************************************************************)
EXTENDS Integers

CONSTANTS
    Hosts,         \* the targets
    Concurrency,   \* how many are let in at a time
    Cap,           \* max_bytes
    Pipe,          \* what a stream holds unread before the command has to wait
    MaxOut         \* the most a command prints on a stream

ASSUME RunAssumption ==
    /\ Concurrency \in Nat \ {0} /\ {Cap, MaxOut} \subseteq Nat /\ Pipe \in Nat \ {0}

VARIABLES
    permits,   \* of the semaphore
    place,     \* where one(h) is
    process,   \* the process on the host, with its exit code
    stream,    \* its stdout and stderr
    sink,      \* what was kept of them, and the truncation flag
    row        \* the host's row of the answer

runVars  == <<permits, place, process, stream, sink, row>>

Streams  == {"out", "err"}
Places   == {"queued", "connecting", "draining", "closing", "killed", "done"}
Stream   == [open : BOOLEAN, printed : 0..MaxOut, unread : 0..Pipe]
Sink     == [kept : 0..Cap, flag : BOOLEAN]
Codes    == {"ok", "error", "-1"}   \* -1: ended by a signal, or the channel closed with no code
Row      == [code : Codes \cup {"124"}, timed_out : BOOLEAN]
NoRow    == [error |-> "none"]
Failed   == [error |-> "exception"]
Quiet    == [s \in Streams |-> [open |-> FALSE, printed |-> 0, unread |-> 0]]
Empty    == [s \in Streams |-> [kept |-> 0, flag |-> FALSE]]

RunTypeOK ==
    /\ permits \in 0..Concurrency
    /\ place \in [Hosts -> Places]
    /\ process \in [Hosts -> {"none", "running"} \cup Codes]
    /\ stream \in [Hosts -> [Streams -> Stream]]
    /\ sink \in [Hosts -> [Streams -> Sink]]
    /\ row \in [Hosts -> Row \cup {NoRow, Failed}]

RunInit ==
    /\ permits = Concurrency
    /\ place = [h \in Hosts |-> "queued"]
    /\ process = [h \in Hosts |-> "none"]
    /\ stream = [h \in Hosts |-> Quiet]
    /\ sink = [h \in Hosts |-> Empty]
    /\ row = [h \in Hosts |-> NoRow]

------------------------------------------------------------------------------
(* The command on the host. *)
UpTo(h, p) == place' = [place EXCEPT ![h] = p]

CommandPrints(h, s) ==
    /\ stream[h][s].open /\ stream[h][s].printed < MaxOut /\ stream[h][s].unread < Pipe
    /\ stream' = [stream EXCEPT ![h][s].printed = @ + 1, ![h][s].unread = @ + 1]
    /\ UNCHANGED <<permits, place, process, sink, row>>

(* The command closes a stream, or the last process that holds it ends. *)
StreamCloses(h, s) ==
    /\ stream[h][s].open
    /\ stream' = [stream EXCEPT ![h][s].open = FALSE]
    /\ UNCHANGED <<permits, place, process, sink, row>>

(* A process it left behind may still hold the streams. *)
CommandExits(h) ==
    /\ process[h] = "running"
    /\ \E code \in Codes : process' = [process EXCEPT ![h] = code]
    /\ UNCHANGED <<permits, place, stream, sink, row>>

------------------------------------------------------------------------------
Enter(h) ==
    /\ place[h] = "queued" /\ permits > 0
    /\ permits' = permits - 1
    /\ UpTo(h, "connecting")
    /\ UNCHANGED <<process, stream, sink, row>>

(* The row is there, and the semaphore is given back on every way out. *)
Answer(h, r) ==
    /\ row' = [row EXCEPT ![h] = r]
    /\ UpTo(h, "done")
    /\ permits' = permits + 1
    /\ process' = [process EXCEPT ![h] = "none"]
    /\ stream' = [stream EXCEPT ![h] = Quiet] /\ sink' = [sink EXCEPT ![h] = Empty]

(* conn() and create_process *)
Started(h) ==
    /\ place[h] = "connecting"
    /\ UpTo(h, "draining")
    /\ process' = [process EXCEPT ![h] = "running"]
    /\ stream' = [stream EXCEPT ![h] = [s \in Streams |-> [Quiet[s] EXCEPT !.open = TRUE]]]
    /\ UNCHANGED <<permits, sink, row>>

(* Fault of Raises: the host's error ends the task with the semaphore in its hands. *)
RaisesHolding(h) ==
    /\ place[h] \in {"connecting", "draining", "closing"}
    /\ row' = [row EXCEPT ![h] = Failed] /\ UpTo(h, "done")
    /\ UNCHANGED <<permits, process, stream, sink>>

(* No connection, or it is lost: an exception, which becomes the host's row. *)
Raises(h) ==
    /\ place[h] \in {"connecting", "draining", "closing"}
    /\ Answer(h, Failed)

(* Fault of Taken: a chunk that fills the room exactly counts as truncated. *)
TakenStrict(k, n) ==
    LET room == Cap - k.kept IN
    [kept |-> k.kept + IF n < room THEN n ELSE room, flag |-> k.flag \/ n >= room]
(* _drain: a chunk of n pieces goes into the sink as far as there is room. *)
Taken(k, n) ==
    LET room == Cap - k.kept IN
    [kept |-> k.kept + IF n < room THEN n ELSE room, flag |-> k.flag \/ n > room]

Drain(h, s) ==
    /\ place[h] = "draining"
    /\ \E n \in 1..stream[h][s].unread :
           /\ sink' = [sink EXCEPT ![h][s] = Taken(@, n)]
           /\ stream' = [stream EXCEPT ![h][s].unread = @ - n]
    /\ UNCHANGED <<permits, place, process, row>>

(* Both streams are at their end. *)
Drained(h) ==
    /\ place[h] = "draining"
    /\ \A s \in Streams : ~ stream[h][s].open /\ stream[h][s].unread = 0
    /\ UpTo(h, "closing")
    /\ UNCHANGED <<permits, process, stream, sink, row>>

(* wait_closed(): with the exit code, or with the connection. *)
Ended(h) ==
    /\ place[h] = "closing"
    /\ Answer(h, [code |-> IF process[h] = "running" THEN "-1" ELSE process[h], timed_out |-> FALSE])

(* The timeout while draining, or 10 s after it: the drains are cancelled, the command is
   killed, where sshd passes signals on. *)
TimesOut(h) ==
    /\ place[h] \in {"draining", "closing"}
    /\ UpTo(h, "killed")
    /\ \/ process[h] = "running" /\ process' = [process EXCEPT ![h] = "-1"]
       \/ UNCHANGED process
    /\ UNCHANGED <<permits, stream, sink, row>>

(* The exit code if one has come within 5 s, 124 if not. *)
GivenUp(h) ==
    /\ place[h] = "killed"
    /\ \E code \in {"124"} \cup ({process[h]} \cap Codes) :
           Answer(h, [code |-> code, timed_out |-> TRUE])

OnHost(h) ==
    CommandExits(h) \/ \E s \in Streams : CommandPrints(h, s) \/ StreamCloses(h, s)
One(h) ==
    \/ Enter(h) \/ Started(h) \/ Raises(h)
    \/ Drained(h) \/ Ended(h) \/ TimesOut(h) \/ GivenUp(h)
    \/ \E s \in Streams : Drain(h, s)
RunNext == \E h \in Hosts : OnHost(h) \/ One(h)
RunSpec == RunInit /\ [][RunNext]_runVars
(* Connects and commands have timeouts, and the loop comes to every task. *)
RunFair ==
    \A h \in Hosts :
        /\ WF_runVars(Enter(h)) /\ WF_runVars(Started(h) \/ Raises(h))
        /\ WF_runVars(TimesOut(h)) /\ WF_runVars(GivenUp(h))

------------------------------------------------------------------------------
(* Nothing is left out silently: once the drains have ended, what is kept is all that was
   printed or as much as the cap allows, and the flag says which, however the output
   came in chunks. *)
SaysWhatItCut ==
    \A h \in Hosts, s \in Streams :
        place[h] = "closing" =>
            LET all == stream[h][s].printed IN
            /\ sink[h][s].kept = IF all > Cap THEN Cap ELSE all
            /\ sink[h][s].flag <=> all > Cap

(* One host failing does not stop the others (exec_many): once a host is let in, every one gets
   a row, also behind hosts that cannot be reached or whose command never ends or never stops
   printing. *)
EveryHostAnswers ==
    (\E h \in Hosts : place[h] = "connecting") ~> (\A h \in Hosts : row[h] # NoRow)
==============================================================================
