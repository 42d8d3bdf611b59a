----------------------------- MODULE ShellSession -----------------------------
(***************************************************************************)
(* One persistent shell (ssh/session.py) and the shell_run calls that share  *)
(* it (tools/core.py).  A call resolves the host, waits for the session's    *)
(* lock, writes its command and a printf of its own marker to the shell, and *)
(* reads until the marker comes back.  Meanwhile calls are cancelled or time *)
(* out, the session is closed, the shell dies, and the inventory changes.    *)
(*                                                                         *)
(* What the shell prints is a stream of pieces: output, a marker, and the    *)
(* tail of the marker's line with the exit code and the directory.           *)
(***************************************************************************)
EXTENDS Naturals, Sequences

CONSTANTS
    Runs,      \* shell_run calls on this session
    Window,    \* how many pieces may be on their way, printed and not read
    Limit      \* max_bytes, in pieces

ASSUME ShellAssumption == Window \in Nat /\ Limit \in Nat \ {0}

VARIABLES
    granted,   \* does the inventory grant fleet.exec on the session's host
    closed,    \* ShellSession.closed
    channel,   \* is the channel open: what is written reaches the shell
    line,      \* the session's lock: its owner, then those who wait for it
    pc,        \* where each call is
    outcome,   \* how each call ended
    stdin,     \* the commands the shell has to run, the first one running
    stdout,    \* what the shell has printed and nobody has read
    buf,       \* what the owner of the lock has read
    answer,    \* per call: whose pieces its output holds, and is its exit code its own
    ended      \* calls whose command ended, by the shell

shellVars == <<stdin, stdout, ended>>
vars == <<granted, shellVars, closed, channel, line, pc, outcome, buf, answer>>

Piece    == [run : Runs, kind : {"out", "mark", "tail"}]
Outcomes == {"none", "answered", "timeout", "exited", "broken", "refused", "cancelled"}
NoAnswer == [from |-> {}, code |-> FALSE]

TypeOK ==
    /\ {granted, closed, channel} \subseteq BOOLEAN
    /\ line \in Seq(Runs) /\ stdin \in Seq(Runs)
    /\ pc \in [Runs -> {"idle", "waiting", "reading", "done"}]
    /\ outcome \in [Runs -> Outcomes]
    /\ stdout \in Seq(Piece) /\ buf \in Seq(Piece) /\ Len(buf) <= 4 * Limit
    /\ answer \in [Runs -> [from : SUBSET Runs, code : BOOLEAN]]
    /\ ended \subseteq Runs

Init ==
    /\ granted = TRUE
    /\ closed = FALSE /\ channel = TRUE
    /\ line = <<>> /\ stdin = <<>> /\ stdout = <<>> /\ buf = <<>>
    /\ pc = [r \in Runs |-> "idle"]
    /\ outcome = [r \in Runs |-> "none"]
    /\ ended = {}
    /\ answer = [r \in Runs |-> NoAnswer]

------------------------------------------------------------------------------
(* The shell on the node; a command may print for ever. *)
ShellPrints ==
    /\ stdin # <<>> /\ Len(stdout) < Window
    /\ stdout' = Append(stdout, [run |-> Head(stdin), kind |-> "out"])
    /\ UNCHANGED <<granted, stdin, ended, closed, channel, line, pc, outcome, buf, answer>>

(* printf '\nMARKER:%s:%s\n' $? $PWD *)
CommandEnds ==
    /\ stdin # <<>>
    /\ stdin' = Tail(stdin)
    /\ ended' = ended \cup {Head(stdin)}
    /\ stdout' = stdout \o <<[run |-> Head(stdin), kind |-> "mark"],
                             [run |-> Head(stdin), kind |-> "tail"]>>
    /\ UNCHANGED <<granted, closed, channel, line, pc, outcome, buf, answer>>

(* exit, or a signal; what was printed can still be read. *)
ShellDies ==
    /\ channel
    /\ channel' = FALSE /\ stdin' = <<>>
    /\ UNCHANGED <<granted, stdout, ended, closed, line, pc, outcome, buf, answer>>

(* The inventory is edited and loaded again. *)
Edit ==
    /\ granted' = ~ granted
    /\ UNCHANGED <<shellVars, closed, channel, line, pc, outcome, buf, answer>>

------------------------------------------------------------------------------
(* A call that ends leaves the lock to the next in line. *)
Ends(r, how) ==
    /\ pc' = [pc EXCEPT ![r] = "done"]
    /\ outcome' = [outcome EXCEPT ![r] = how]
    /\ \E i \in 1..Len(line) :
           /\ line[i] = r
           /\ line' = SubSeq(line, 1, i - 1) \o SubSeq(line, i + 1, Len(line))

(* The owner writes its command, or finds that the channel is closed; `closed` was
   looked at before the lock was waited for, and is not again. *)
Write(r) ==
    IF channel
    THEN /\ pc' = [pc EXCEPT ![r] = "reading"]
         /\ stdin' = Append(stdin, r)
         /\ buf' = <<>>
         /\ UNCHANGED outcome
    ELSE /\ pc' = [pc EXCEPT ![r] = "done"]
         /\ outcome' = [outcome EXCEPT ![r] = "broken"]
         /\ UNCHANGED <<stdin, buf>>

(* shell_run: get() and resolve() refuse, or the call lines up for the lock, which it
   has at once when nobody else wants it. *)
ShellRun(r) ==
    /\ pc[r] = "idle"
    /\ IF closed \/ ~ granted
       THEN /\ pc' = [pc EXCEPT ![r] = "done"]
            /\ outcome' = [outcome EXCEPT ![r] = "refused"]
            /\ UNCHANGED <<line, stdin, buf>>
       ELSE IF line = <<>>
       THEN Write(r) /\ line' = IF channel THEN <<r>> ELSE <<>>
       ELSE /\ line' = Append(line, r)
            /\ pc' = [pc EXCEPT ![r] = "waiting"]
            /\ UNCHANGED <<stdin, buf, outcome>>
    /\ UNCHANGED <<granted, stdout, ended, closed, channel, answer>>

Locked(r) ==
    /\ pc[r] = "waiting" /\ Head(line) = r
    /\ Write(r)
    /\ line' = IF channel THEN line ELSE Tail(line)
    /\ UNCHANGED <<granted, stdout, ended, closed, channel, answer>>

Has(s, r, kind) == \E i \in 1..Len(s) : s[i] = [run |-> r, kind |-> kind]

(* needle in buf *)
Found(r, s) == Has(s, r, "mark")

(* The output is what stands before the marker, exit code and directory what stands
   after it, if it has come yet. *)
Answered(r, s) ==
    /\ answer' = [answer EXCEPT ![r] = [from |-> {s[i].run : i \in 1..Len(s)},
                                        code |-> Has(s, r, "tail")]]
    /\ Ends(r, "answered")
    /\ UNCHANGED <<buf, closed>>

Trimmed(s) == IF Len(s) > 4 * Limit THEN SubSeq(s, Len(s) - 2 * Limit + 1, Len(s)) ELSE s

(* read() returns some of what has come. *)
Read(r) ==
    /\ pc[r] = "reading"
    /\ \E n \in 1..Len(stdout) :
           LET s == buf \o SubSeq(stdout, 1, n) IN
           /\ stdout' = SubSeq(stdout, n + 1, Len(stdout))
           /\ IF Found(r, s) THEN Answered(r, s)
              ELSE buf' = Trimmed(s) /\ UNCHANGED <<pc, outcome, line, answer, closed>>
    /\ UNCHANGED <<granted, stdin, ended, channel>>

(* ... or nothing, when the channel is closed: the remote shell exited. *)
ReadEnd(r) ==
    /\ pc[r] = "reading" /\ ~ channel /\ stdout = <<>>
    /\ closed' = TRUE
    /\ Ends(r, "exited")
    /\ UNCHANGED <<granted, shellVars, channel, buf, answer>>

(* Fault of Close: the process is left to the node. *)
CloseKeepsProcess == closed' = TRUE /\ UNCHANGED <<channel, stdin>>

(* close(): writes exit and closes the process; what the shell was running is not heard
   of again, and what it had still to run is not run. *)
Close ==
    /\ closed' = TRUE
    /\ IF closed THEN UNCHANGED <<channel, stdin>>
       ELSE channel' = FALSE /\ stdin' = <<>>

(* Fault of Timeout: only a command that prints nothing is given up. *)
TimeoutWhenQuiet(r) ==
    /\ pc[r] = "reading" /\ stdout = <<>>
    /\ Close /\ Ends(r, "timeout")
    /\ UNCHANGED <<granted, stdout, ended, buf, answer>>

(* Fault of Timeout: the session stays open for the next call. *)
TimeoutKeepsSession(r) ==
    /\ pc[r] = "reading"
    /\ Ends(r, "timeout")
    /\ UNCHANGED <<granted, shellVars, closed, channel, buf, answer>>

Timeout(r) ==
    /\ pc[r] = "reading"
    /\ Close /\ Ends(r, "timeout")
    /\ UNCHANGED <<granted, stdout, ended, buf, answer>>

(* The client takes its request back: the command it has written goes on. *)
Cancel(r) ==
    /\ pc[r] \in {"waiting", "reading"}
    /\ Ends(r, "cancelled")
    /\ UNCHANGED <<granted, shellVars, closed, channel, buf, answer>>

(* shell_close, or the reaper. *)
ShellClose ==
    /\ ~ closed
    /\ Close
    /\ UNCHANGED <<granted, stdout, ended, line, pc, outcome, buf, answer>>

Shell == ShellPrints \/ CommandEnds \/ ShellDies
Calls(r) ==
    \/ ShellRun(r) \/ Locked(r) \/ Read(r) \/ ReadEnd(r) \/ Timeout(r) \/ Cancel(r)

Next == Shell \/ Edit \/ ShellClose \/ \E r \in Runs : Calls(r)
Spec == Init /\ [][Next]_vars
(* The event loop comes to every call; wait_for ends every read in time. *)
ShellFair ==
    \A r \in Runs :
        WF_vars(Locked(r)) /\ WF_vars(Read(r)) /\ WF_vars(ReadEnd(r)) /\ WF_vars(Timeout(r))

------------------------------------------------------------------------------
(* An answer is handed out after the call's own command has ended, and holds pieces of
   another call's output only when that one was cancelled while its command ran, or when
   its own marker's line came in two reads. *)
Torn(q) == outcome[q] = "answered" /\ ~ answer[q].code
OwnOutput ==
    \A r \in Runs :
        /\ outcome[r] = "answered" => r \in ended
        /\ \A q \in answer[r].from \ {r} : outcome[q] = "cancelled" \/ Torn(q)

(* The closed flag is read before the lock is waited for.  All the same nothing is sent to
   a session that was destroyed: the command of a queued call is not run. *)
DestroyedRunsNothing ==
    [][closed => \A r \in Runs : pc[r] # "reading" => pc'[r] # "reading"]_vars

(* Every call on the session ends, also those queued behind a command that never does
   or never stops printing. *)
EveryRunEnds == \A r \in Runs : pc[r] \in {"waiting", "reading"} ~> pc[r] = "done"
==============================================================================
