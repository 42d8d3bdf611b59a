----------------------------- MODULE Jobs_proofs -----------------------------
(* Proofs about Jobs, for any number of jobs, callers and restarts of the node. *)
EXTENDS Jobs, TLAPS

Past   == {"zombie", "gone", "stranger"}      \* a wrapper that writes no exit code any more
Before == {"none", "forked", "running"}       \* ... and one that has not begun to

(* How far the script, the wrapper and the command of a job are, and what they have left. *)
Shape(j) ==
    /\ script[j] = "none" => dir[j] = "none"
    /\ script[j] \in {"none", "cd", "fork"} => wrapper[j] = "none"
    /\ script[j] \in {"pid", "pgid", "done"} => wrapper[j] # "none"
    /\ file[j].pid => wrapper[j] # "none"
    /\ wrapper[j] \in {"none", "forked"} => command[j] = "none"
    /\ wrapper[j] \in Before => file[j].rc = "none" /\ dir[j] # "purged"
    /\ wrapper[j] = "writing" => command[j] = "over" /\ file[j].rc # "code"
    /\ file[j].rc # "none" => command[j] = "over"
    /\ dir[j] = "purged" => command[j] = "over"

CodeThere(j) == command[j] = "over" /\ (dir[j] = "there" => file[j].rc = "code")

(* What a call has read stays true, as far as its answer depends on it. *)
ReadOf(c) ==
    LET j == call[c].job  r == call[c].read IN
    /\ Doing(c, "alive") /\ r.rc = "code" => CodeThere(j)
    /\ Doing(c, "state") => r.rc # "code"
    /\ Doing(c, "rc") \/ Doing(c, "alive") \/ Doing(c, "state") =>
           (r.pid => wrapper[j] # "none")

ReportOf(c, j) ==
    /\ report[c][j] = "finished" => CodeThere(j)
    /\ report[c][j] = "aborted" => wrapper[j] \in Past

(* A poller that knows of the end reads the exit code again. *)
Again(c) ==
    LET j == call[c].job IN
    Doing(c, "alive") \/ Doing(c, "state") =>
        (report[c][j] = "finished" /\ dir[j] = "there" => call[c].read.rc = "code")

IInv ==
    /\ JobsTypeOK
    /\ \A j \in Ids : Shape(j)
    /\ \A c \in Callers : ReadOf(c)
    /\ \A c \in Pollers : Again(c) /\ \A j \in Ids : ReportOf(c, j)

(* No step takes a job back. *)
Grows(j) ==
    /\ wrapper[j] # "none" => wrapper'[j] # "none"
    /\ wrapper[j] \in Past => wrapper'[j] \in Past
    /\ command[j] = "over" => command'[j] = "over" /\ (dir'[j] = "there" => dir[j] = "there")
    /\ command[j] = "over" /\ dir[j] = "there" /\ dir'[j] = "there" /\ file[j].rc = "code" =>
           file'[j].rc = "code"

LEMMA InACall ==
    ASSUME JobsTypeOK, NEW c \in Callers, call[c].op # "idle"
    PROVE  /\ call[c] \in Call /\ call[c].job \in Ids /\ call[c].read \in File
           /\ call[c].op \in Ops
BY DEF JobsTypeOK, Idle, Call

(* Calls that go on, or end, and reports as they were: what they say is still so. *)
LEMMA StaysSo ==
    ASSUME IInv, \A j \in Ids : Grows(j), UNCHANGED report,
           \A c \in Callers : call'[c] = call[c] \/ call'[c] = Idle
    PROVE  /\ \A c \in Callers : ReadOf(c)'
           /\ \A c \in Pollers : Again(c)' /\ \A j \in Ids : ReportOf(c, j)'
<1>1. ASSUME NEW c \in Callers
      PROVE  ReadOf(c)'
  <2>1. CASE call'[c] = Idle
    BY <2>1 DEF ReadOf, Doing, Idle
  <2>2. CASE call'[c] = call[c] /\ call[c].op # "idle"
    <3>1. call[c].job \in Ids
      BY <2>2, InACall DEF IInv
    <3>2. Grows(call[c].job) /\ ReadOf(c)
      BY <3>1 DEF IInv
    <3>3. QED BY <2>2, <3>1, <3>2 DEF ReadOf, Doing, Grows, CodeThere
  <2>3. CASE call'[c] = call[c] /\ call[c].op = "idle"
    BY <2>3 DEF ReadOf, Doing
  <2>4. QED BY <2>1, <2>2, <2>3
<1>2. ASSUME NEW c \in Pollers, NEW j \in Ids
      PROVE  ReportOf(c, j)'
  <2>1. ReportOf(c, j) /\ Grows(j)
    BY DEF IInv
  <2>2. QED BY <2>1 DEF ReportOf, Grows, CodeThere
<1>3. ASSUME NEW c \in Pollers
      PROVE  Again(c)'
  <2>0. c \in Callers
    BY DEF Callers
  <2>1. CASE call'[c] = Idle
    BY <2>1 DEF Again, Doing, Idle
  <2>2. CASE call'[c] = call[c] /\ call[c].op # "idle"
    <3>1. call[c].job \in Ids
      BY <2>0, <2>2, InACall DEF IInv
    <3>2. Grows(call[c].job) /\ Again(c) /\ ReportOf(c, call[c].job)
      BY <3>1 DEF IInv
    <3>3. QED BY <2>2, <3>1, <3>2 DEF Again, Doing, Grows, ReportOf, CodeThere
  <2>3. CASE call'[c] = call[c] /\ call[c].op = "idle"
    BY <2>3 DEF Again, Doing
  <2>4. QED BY <2>0, <2>1, <2>2, <2>3
<1>4. QED BY <1>1, <1>2, <1>3

------------------------------------------------------------------------------
(* Steps on the node. *)
Untouched(k) ==
    /\ script'[k] = script[k] /\ dir'[k] = dir[k] /\ file'[k] = file[k]
    /\ wrapper'[k] = wrapper[k] /\ command'[k] = command[k]

NodeTypes ==
    /\ script \in [Ids -> Steps \cup {"none", "done", "failed"}]
    /\ dir \in [Ids -> {"none", "there", "purged"}]
    /\ file \in [Ids -> File]
    /\ wrapper \in [Ids -> Working \cup {"none", "forked", "zombie", "gone", "stranger"}]
    /\ command \in [Ids -> {"none", "running", "over"}]

LEMMA OneJob ==
    ASSUME IInv, NEW j \in Ids, NodeTypes', Shape(j)', Grows(j),
           \A k \in Ids \ {j} : Untouched(k),
           UNCHANGED <<report, reboots>>, call' \in [Callers -> Call \cup {Idle}],
           \A c \in Callers : call'[c] = call[c] \/ call'[c] = Idle
    PROVE  IInv'
<1>1. \A k \in Ids : Shape(k)' /\ Grows(k)
  BY DEF Untouched, Shape, Grows, IInv
<1>2. JobsTypeOK'
  BY DEF JobsTypeOK, NodeTypes, IInv
<1>3. QED BY <1>1, <1>2, StaysSo DEF IInv

LEMMA NodeStep ==
    ASSUME IInv, NEW j \in Ids, OnNode(j)
    PROVE  IInv'
<1> USE DEF Calls
<1>0. JobsTypeOK /\ Shape(j) /\ NodeTypes
  BY DEF IInv, JobsTypeOK, NodeTypes
<1>1. UNCHANGED <<call, report, reboots>>
  BY DEF OnNode, MakeDir, Chdir, Fork, WritePid, WritePgid, StartTimesOut, Setsid, CommandEnds,
         OpenExitCode, WriteExitCode, Reaped, PidReused
<1>2. NodeTypes' /\ \A k \in Ids \ {j} : Untouched(k)
  <2> USE <1>0 DEF NodeTypes, Untouched, Steps, Working, File, At, NotFiles
  <2>1. CASE MakeDir(j)
    BY <2>1 DEF MakeDir
  <2>2. CASE Chdir(j)
    BY <2>2 DEF Chdir
  <2>3. CASE Fork(j)
    BY <2>3 DEF Fork
  <2>4. CASE WritePid(j)
    <3>1. CASE dir[j] = "there"
      <4>1. file[j] \in File /\ file' = [file EXCEPT ![j].pid = TRUE]
        BY <2>4, <3>1 DEF WritePid
      <4>2. [file[j] EXCEPT !.pid = TRUE] \in File
        BY <4>1
      <4>3. file' \in [Ids -> File] /\ \A k \in Ids \ {j} : file'[k] = file[k]
        BY <4>1, <4>2
      <4>4. QED BY <2>4, <3>1, <4>3 DEF WritePid
    <3>2. CASE dir[j] = "purged"
      BY <2>4, <3>2 DEF WritePid, LostDir
    <3>3. QED BY <2>4, <3>1, <3>2 DEF WritePid
  <2>5. CASE WritePgid(j)
    BY <2>5, SMTT(30) DEF WritePgid
  <2>6. CASE StartTimesOut(j)
    BY <2>6 DEF StartTimesOut, ScriptGroupDies
  <2>7. CASE Setsid(j) \/ CommandEnds(j)
    BY <2>7, SMTT(30) DEF Setsid, CommandEnds
  <2>8. CASE OpenExitCode(j)
    BY <2>8 DEF OpenExitCode
  <2>9. CASE WriteExitCode(j)
    BY <2>9 DEF WriteExitCode
  <2>10. CASE Reaped(j) \/ PidReused(j)
    BY <2>10 DEF Reaped, PidReused
  <2>11. QED
    BY <2>1, <2>2, <2>3, <2>4, <2>5, <2>6, <2>7, <2>8, <2>9, <2>10 DEF OnNode
<1>3. Shape(j)' /\ Grows(j)
  <2> USE <1>0 DEF NodeTypes, Shape, Grows, Steps, Working, File, At, NotFiles, Past, Before
  <2>1. CASE MakeDir(j)
    BY <2>1 DEF MakeDir
  <2>2. CASE Chdir(j)
    BY <2>2 DEF Chdir
  <2>3. CASE Fork(j)
    BY <2>3 DEF Fork
  <2>4. CASE WritePid(j)
    BY <2>4 DEF WritePid, LostDir
  <2>5. CASE WritePgid(j)
    BY <2>5 DEF WritePgid
  <2>6. CASE StartTimesOut(j)
    BY <2>6 DEF StartTimesOut, ScriptGroupDies
  <2>7. CASE Setsid(j) \/ CommandEnds(j)
    BY <2>7 DEF Setsid, CommandEnds
  <2>8. CASE OpenExitCode(j)
    BY <2>8 DEF OpenExitCode
  <2>9. CASE WriteExitCode(j)
    BY <2>9 DEF WriteExitCode
  <2>10. CASE Reaped(j) \/ PidReused(j)
    BY <2>10 DEF Reaped, PidReused
  <2>11. QED
    BY <2>1, <2>2, <2>3, <2>4, <2>5, <2>6, <2>7, <2>8, <2>9, <2>10 DEF OnNode
<1>4. QED BY <1>1, <1>2, <1>3, OneJob DEF IInv, JobsTypeOK

LEMMA RebootStep ==
    ASSUME IInv, NodeReboots
    PROVE  IInv'
<1>1. JobsTypeOK'
  BY JobsAssumption DEF IInv, JobsTypeOK, NodeReboots, NotFiles, Steps, Working
<1>2. \A j \in Ids : Shape(j)' /\ Grows(j)
  BY DEF IInv, JobsTypeOK, NodeReboots, NotFiles, Shape, Grows, Steps, Working, Past, Before
<1>3. UNCHANGED report /\ \A c \in Callers : call'[c] = Idle
  BY DEF NodeReboots
<1>4. QED BY <1>1, <1>2, <1>3, StaysSo DEF IInv

------------------------------------------------------------------------------
(* Calls that change the node. *)
LEMMA SignalStep ==
    ASSUME IInv, NEW c \in Admins, NEW lethal, Signal(c, lethal)
    PROVE  IInv'
<1>a. PICK j \in Ids, r \in File : j = call[c].job /\ r = call[c].read
  BY InACall DEF Callers, IInv, Signal, Doing
<1>0. c \in Callers /\ JobsTypeOK /\ NodeTypes
  BY DEF Callers, IInv, JobsTypeOK, NodeTypes
<1>1. UNCHANGED <<dir, file, report, reboots>> /\ call' = [call EXCEPT ![c] = Idle]
  BY DEF Signal, NotFiles
<1>2. \/ r.pgid = "own" /\ Dies(j, lethal)
      \/ ScriptGroupDies(j) /\ UNCHANGED command
      \/ /\ wrapper' = [wrapper EXCEPT ![j] =
                  IF ~ r.pid THEN @ ELSE IF @ = "stranger" THEN "gone"
                  ELSE IF @ \in Working \cup {"forked"} THEN "zombie" ELSE @]
         /\ UNCHANGED <<script, command>>
  BY <1>a DEF Signal
<1>3. NodeTypes' /\ \A k \in Ids \ {j} : Untouched(k)
  BY <1>0, <1>1, <1>2 DEF NodeTypes, Untouched, Dies, ScriptGroupDies, Working, Steps
<1>4. Shape(j)' /\ Grows(j)
  <2>1. Shape(j)
    BY <1>0 DEF IInv
  <2>2. QED BY <1>0, <1>1, <1>2, <2>1
       DEF NodeTypes, Shape, Grows, Dies, ScriptGroupDies, Working, Steps, Past, Before
<1>5. call' \in [Callers -> Call \cup {Idle}] /\ \A d \in Callers : call'[d] = call[d] \/ call'[d] = Idle
  BY <1>0, <1>1 DEF JobsTypeOK
<1>6. QED BY <1>0, <1>1, <1>3, <1>4, <1>5, OneJob

LEMMA RemoveStep ==
    ASSUME IInv, NEW c \in Admins, Remove(c)
    PROVE  IInv'
<1>a. PICK j \in Ids : j = call[c].job
  BY InACall DEF Callers, IInv, Remove, Doing
<1>0. c \in Callers /\ JobsTypeOK /\ NodeTypes
  BY DEF Callers, IInv, JobsTypeOK, NodeTypes
<1>1. /\ UNCHANGED <<script, wrapper, command, report, reboots>>
      /\ call' = [call EXCEPT ![c] = Idle]
      /\ \/ /\ file[j].rc # "none"
            /\ dir' = [dir EXCEPT ![j] = "purged"] /\ file' = [file EXCEPT ![j] = NoFile]
         \/ UNCHANGED <<dir, file>>
  BY <1>a DEF Remove, NotFiles
<1>2. NodeTypes' /\ \A k \in Ids \ {j} : Untouched(k)
  <2>1. NoFile \in File
    BY DEF NoFile, File
  <2>2. CASE UNCHANGED <<dir, file>>
    BY <1>0, <1>1, <2>2 DEF NodeTypes, Untouched
  <2>3. CASE dir' = [dir EXCEPT ![j] = "purged"] /\ file' = [file EXCEPT ![j] = NoFile]
    BY <1>0, <1>1, <2>1, <2>3 DEF NodeTypes, Untouched
  <2>4. QED BY <1>1, <2>2, <2>3
<1>3. Shape(j)' /\ Grows(j)
  <2>1. Shape(j)
    BY <1>0 DEF IInv
  <2>2. QED BY <1>0, <1>1, <2>1 DEF NodeTypes, Shape, Grows, NoFile, File, Working, Before, Past
<1>4. call' \in [Callers -> Call \cup {Idle}] /\ \A d \in Callers : call'[d] = call[d] \/ call'[d] = Idle
  BY <1>0, <1>1 DEF JobsTypeOK
<1>5. QED BY <1>0, <1>1, <1>2, <1>3, <1>4, OneJob

------------------------------------------------------------------------------
(* Calls that only read. *)
LEMMA Reader ==
    ASSUME IInv, NEW c \in Callers, UNCHANGED <<nodeVars, reboots>>,
           call' \in [Callers -> Call \cup {Idle}], report' \in [Pollers -> [Ids -> States]],
           \A d \in Callers \ {c} : call'[d] = call[d],
           \A d \in Pollers \ {c} : report'[d] = report[d],
           ReadOf(c)', c \in Pollers => Again(c)' /\ \A j \in Ids : ReportOf(c, j)'
    PROVE  IInv'
<1>1. JobsTypeOK' /\ \A j \in Ids : Shape(j)'
  BY DEF IInv, JobsTypeOK, Shape, nodeVars
<1>2. ASSUME NEW d \in Callers \ {c}
      PROVE  ReadOf(d)'
  BY <1>2 DEF IInv, ReadOf, Doing, CodeThere, nodeVars
<1>3. ASSUME NEW d \in Pollers \ {c}
      PROVE  Again(d)' /\ \A j \in Ids : ReportOf(d, j)'
  <2>1. d \in Callers \ {c} /\ Again(d) /\ \A j \in Ids : ReportOf(d, j)
    BY DEF Callers, IInv
  <2>2. QED BY <2>1 DEF Again, ReportOf, Doing, CodeThere, nodeVars
<1>4. QED BY <1>1, <1>2, <1>3 DEF IInv

LEMMA BeginStep ==
    ASSUME IInv, NEW c \in Callers, NEW op \in {"rc", "signal", "remove"}, NEW j \in Ids,
           NEW read \in File, Begin(c, op, j, read), read.pid => wrapper[j] # "none"
    PROVE  IInv'
<1> DEFINE new == [op |-> op, job |-> j, read |-> read]
<1>1. new \in Call /\ new.op = op /\ new.job = j /\ new.read = read
  BY DEF Call, Ops
<1> HIDE DEF new
<1>2. /\ call' = [call EXCEPT ![c] = new] /\ call \in [Callers -> Call \cup {Idle}]
      /\ UNCHANGED <<nodeVars, report, reboots>> /\ report \in [Pollers -> [Ids -> States]]
  BY DEF Begin, new, IInv, JobsTypeOK
<1>3. call'[c] = new
  BY <1>2
<1>4. ReadOf(c)' /\ Again(c)'
  BY <1>1, <1>2, <1>3 DEF ReadOf, Again, Doing, nodeVars
<1>5. c \in Pollers => \A k \in Ids : ReportOf(c, k)'
  BY <1>2 DEF IInv, ReportOf, CodeThere, nodeVars
<1>6. QED BY <1>1, <1>2, <1>4, <1>5, Reader

(* An answer that is true of the job becomes the poller's report. *)
LEMMA ToldStep ==
    ASSUME IInv, NEW c \in Pollers, NEW j \in Ids, NEW state \in States, Told(c, j, state),
           UNCHANGED <<nodeVars, reboots>>,
           state = "finished" => CodeThere(j), state = "aborted" => wrapper[j] \in Past
    PROVE  IInv'
<1>1. /\ call' = [call EXCEPT ![c] = Idle] /\ call \in [Callers -> Call \cup {Idle}]
      /\ report' = [report EXCEPT ![c][j] = state] /\ report \in [Pollers -> [Ids -> States]]
      /\ c \in Callers
  BY DEF Told, IInv, JobsTypeOK, Callers
<1>2. call'[c] = Idle /\ report'[c] = [report[c] EXCEPT ![j] = state]
  BY <1>1
<1>3. ReadOf(c)' /\ Again(c)'
  BY <1>2 DEF ReadOf, Again, Doing, Idle
<1>4. \A k \in Ids : ReportOf(c, k)'
  BY <1>1, <1>2 DEF IInv, ReportOf, CodeThere, nodeVars
<1>5. QED BY <1>1, <1>3, <1>4, Reader

(* What a poller is about to say, and what it has said before. *)
LEMMA PollStep ==
    ASSUME IInv, NEW c \in Pollers, Polls(c)
    PROVE  IInv' /\ \A j \in Ids : report[c][j] = "finished" /\ dir'[j] = "there"
                                     => report'[c][j] = "finished"
<1>0. c \in Callers /\ JobsTypeOK
  BY DEF Callers, IInv
<1>1. ASSUME NEW j \in Ids, AskStatus(c, j)
      PROVE  IInv' /\ UNCHANGED report
  <2>1. file[j] \in File /\ Shape(j)
    BY <1>0 DEF IInv, JobsTypeOK
  <2>2. [NoFile EXCEPT !.pid = file[j].pid] \in File
        /\ [NoFile EXCEPT !.pid = file[j].pid].pid = file[j].pid
    BY <2>1 DEF NoFile, File
  <2>3. Begin(c, "rc", j, [NoFile EXCEPT !.pid = file[j].pid])
    BY <1>1 DEF AskStatus
  <2>4. QED BY <1>0, <2>1, <2>2, <2>3, BeginStep DEF Shape, Begin
<1>2. CASE ReadExitCode(c)
  <2>a. PICK j \in Ids, r \in File : j = call[c].job /\ r = call[c].read
    BY <1>0, <1>2, InACall DEF ReadExitCode, Doing
  <2> DEFINE new == [call[c] EXCEPT !.op = "alive", !.read.rc = file[j].rc]
  <2>1. /\ call' = [call EXCEPT ![c] = new] /\ call \in [Callers -> Call \cup {Idle}]
        /\ UNCHANGED <<nodeVars, report, reboots>> /\ report \in [Pollers -> [Ids -> States]]
    BY <1>0, <1>2, <2>a DEF ReadExitCode, JobsTypeOK
  <2>2. /\ new \in Call /\ new.op = "alive" /\ new.job = j
        /\ new.read.rc = file[j].rc /\ new.read.pid = r.pid
    <3>1. call[c] \in Call /\ file[j] \in File
      BY <1>0, <1>2, InACall DEF ReadExitCode, Doing, JobsTypeOK
    <3>2. QED BY <2>a, <3>1 DEF Call, File, Ops
  <2> HIDE DEF new
  <2>3. call'[c] = new
    BY <1>0, <2>1
  <2>4. Shape(j) /\ ReportOf(c, j) /\ (r.pid => wrapper[j] # "none")
    BY <1>0, <1>2, <2>a DEF IInv, ReadOf, ReadExitCode
  <2>5. ReadOf(c)' /\ Again(c)'
    BY <2>1, <2>2, <2>3, <2>4
       DEF ReadOf, Again, Doing, CodeThere, Shape, ReportOf, nodeVars
  <2>6. \A k \in Ids : ReportOf(c, k)'
    BY <2>1 DEF IInv, ReportOf, CodeThere, nodeVars
  <2>7. QED BY <1>0, <2>1, <2>2, <2>5, <2>6, Reader
<1>3. CASE Decide(c)
  <2>a. PICK j \in Ids, r \in File : j = call[c].job /\ r = call[c].read
    BY <1>0, <1>3, InACall DEF Decide, Doing
  <2>b. /\ UNCHANGED <<nodeVars, reboots>> /\ Doing(c, "alive") /\ ReadOf(c) /\ Again(c)
        /\ wrapper \in [Ids -> Working \cup {"none", "forked", "zombie", "gone", "stranger"}]
    BY <1>0, <1>3 DEF Decide, IInv, JobsTypeOK
  <2>1. CASE r.rc = "code" /\ Told(c, j, "finished")
    <3>1. IInv'
      BY <2>a, <2>b, <2>1, ToldStep DEF ReadOf, States
    <3>2. QED BY <1>0, <2>1, <3>1 DEF Told, JobsTypeOK
  <2>2. CASE r.rc # "code" /\ r.pid /\ Goes(c, "state")
    <3>1. PICK new \in Call : /\ call' = [call EXCEPT ![c] = new]
                              /\ new.op = "state" /\ new.job = j /\ new.read = r
      <4>1. call[c] \in Call /\ call' = [call EXCEPT ![c] = [call[c] EXCEPT !.op = "state"]]
        BY <1>0, <2>2, <2>b, InACall DEF Goes, Doing
      <4>2. [call[c] EXCEPT !.op = "state"] \in Call
        BY <4>1 DEF Call, Ops
      <4>3. QED BY <2>a, <4>1, <4>2 DEF Call
    <3>2. /\ call \in [Callers -> Call \cup {Idle}] /\ report \in [Pollers -> [Ids -> States]]
          /\ UNCHANGED report /\ call'[c] = new
      BY <1>0, <2>2, <3>1 DEF JobsTypeOK, Goes
    <3>3. ReadOf(c)' /\ Again(c)'
      BY <2>a, <2>b, <2>2, <3>1, <3>2 DEF ReadOf, Again, Doing, nodeVars
    <3>4. \A k \in Ids : ReportOf(c, k)'
      BY <2>b, <3>2 DEF IInv, ReportOf, CodeThere, nodeVars
    <3>5. QED BY <1>0, <2>b, <3>1, <3>2, <3>3, <3>4, Reader
  <2>3. ASSUME NEW state \in {"aborted", "unknown"}, r.rc # "code", Told(c, j, state),
               state = "aborted" => r.pid /\ ~ Exists(j)
        PROVE  IInv' /\ \A k \in Ids : report[c][k] = "finished" /\ dir'[k] = "there"
                                         => report'[c][k] = "finished"
    <3>1. state = "aborted" => wrapper[j] \in Past
      BY <2>a, <2>b, <2>3 DEF ReadOf, Exists, Past
    <3>2. IInv'
      BY <2>b, <2>3, <3>1, ToldStep DEF States
    <3>3. ~ (report[c][j] = "finished" /\ dir'[j] = "there")
      BY <2>a, <2>b, <2>3 DEF Again, nodeVars
    <3>4. \A k \in Ids \ {j} : report'[c][k] = report[c][k]
      BY <1>0, <2>3 DEF Told, JobsTypeOK
    <3>5. QED BY <3>2, <3>3, <3>4
  <2>4. QED BY <1>3, <2>a, <2>1, <2>2, <2>3 DEF Decide, Goes
<1>4. CASE AskPs(c)
  <2>a. PICK j \in Ids : j = call[c].job
    BY <1>0, <1>4, InACall DEF AskPs, Doing
  <2>b. /\ UNCHANGED <<nodeVars, reboots>> /\ Doing(c, "state") /\ ReadOf(c) /\ Again(c)
    BY <1>0, <1>4 DEF AskPs, IInv
  <2>1. PICK state \in {"aborted", "running"} :
            Told(c, j, state) /\ (state = "aborted" => wrapper[j] \in Past)
    BY <1>4, <2>a DEF AskPs, Past
  <2>2. IInv'
    BY <2>b, <2>1, ToldStep DEF States
  <2>3. ~ (report[c][j] = "finished" /\ dir'[j] = "there")
    BY <2>a, <2>b DEF Again, ReadOf, nodeVars
  <2>4. \A k \in Ids \ {j} : report'[c][k] = report[c][k]
    BY <1>0, <2>1 DEF Told, JobsTypeOK
  <2>5. QED BY <2>2, <2>3, <2>4
<1>5. QED BY <1>1, <1>2, <1>3, <1>4 DEF Polls, ReadExitCode

------------------------------------------------------------------------------
LEMMA JobsStep ==
    ASSUME IInv, [JobsNext]_jobVars
    PROVE  /\ IInv'
           /\ \A c \in Pollers, j \in Ids :
                  report[c][j] = "finished" /\ dir'[j] = "there" => report'[c][j] = "finished"
<1>1. ASSUME NEW j \in Ids, OnNode(j)
      PROVE  IInv' /\ UNCHANGED report
  BY <1>1, NodeStep DEF Calls, OnNode, MakeDir, Chdir, Fork, WritePid, WritePgid, StartTimesOut,
     Setsid, CommandEnds, OpenExitCode, WriteExitCode, Reaped, PidReused
<1>2. ASSUME NEW c \in Pollers, Polls(c)
      PROVE  /\ IInv' /\ \A j \in Ids : report[c][j] = "finished" /\ dir'[j] = "there"
                                          => report'[c][j] = "finished"
             /\ \A d \in Pollers \ {c} : report'[d] = report[d]
  BY <1>2, PollStep, SMTT(30)
     DEF IInv, JobsTypeOK, Polls, AskStatus, Begin, ReadExitCode, Decide, AskPs, Goes, Told
<1>3. ASSUME NEW c \in Admins, Manages(c)
      PROVE  IInv' /\ UNCHANGED report
  <2>0. c \in Callers /\ NoFile \in File /\ NoFile.pid = FALSE
    BY DEF Callers, NoFile, File
  <2>1. ASSUME NEW j \in Ids, AskKill(c, j)
        PROVE  IInv' /\ UNCHANGED report
    <3>1. file[j] \in File /\ Shape(j)
      BY DEF IInv, JobsTypeOK
    <3>2. [file[j] EXCEPT !.rc = "none"] \in File
          /\ [file[j] EXCEPT !.rc = "none"].pid = file[j].pid
      BY <3>1 DEF File
    <3>3. QED BY <2>0, <2>1, <3>1, <3>2, BeginStep DEF AskKill, Shape, Begin
  <2>2. ASSUME NEW j \in Ids, AskPurge(c, j)
        PROVE  IInv' /\ UNCHANGED report
    BY <2>0, <2>2, BeginStep DEF AskPurge, Begin
  <2>3. ASSUME NEW lethal \in BOOLEAN, Signal(c, lethal)
        PROVE  IInv' /\ UNCHANGED report
    BY <2>3, SignalStep DEF Signal
  <2>4. CASE Remove(c)
    BY <2>4, RemoveStep DEF Remove
  <2>5. QED BY <1>3, <2>1, <2>2, <2>3, <2>4 DEF Manages
<1>4. ASSUME NEW c \in Callers, CallLost(c)
      PROVE  IInv' /\ UNCHANGED report
  <2>1. /\ UNCHANGED <<nodeVars, report, reboots>> /\ call' = [call EXCEPT ![c] = Idle]
        /\ call \in [Callers -> Call \cup {Idle}]
    BY <1>4 DEF CallLost, IInv, JobsTypeOK
  <2>2. \A d \in Callers : call'[d] = call[d] \/ call'[d] = Idle
    BY <2>1
  <2>3. JobsTypeOK' /\ \A j \in Ids : Shape(j)' /\ Grows(j)
    BY <2>1 DEF IInv, JobsTypeOK, Shape, Grows, nodeVars
  <2>4. QED BY <2>1, <2>2, <2>3, StaysSo DEF IInv
<1>5. CASE NodeReboots
  BY <1>5, RebootStep DEF NodeReboots
<1>6. CASE UNCHANGED jobVars
  <2>1. JobsTypeOK' /\ \A j \in Ids : Shape(j)' /\ Grows(j)
    BY <1>6 DEF IInv, JobsTypeOK, Shape, Grows, nodeVars, jobVars
  <2>2. QED BY <1>6, <2>1, StaysSo DEF IInv, jobVars
<1>7. QED BY <1>1, <1>2, <1>3, <1>4, <1>5, <1>6 DEF JobsNext

LEMMA JobsInvariant == JobsSpec => []IInv
<1>1. JobsInit => IInv
  BY JobsAssumption DEF JobsInit, IInv, JobsTypeOK, Shape, ReadOf, ReportOf, Again, Doing, Idle,
     NoFile, File, States, Past, Before, CodeThere
<1>2. IInv /\ [JobsNext]_jobVars => IInv'
  BY JobsStep
<1>3. QED BY <1>1, <1>2, PTL DEF JobsSpec

(* The node's files and processes, the scripts' variables and the reports keep their types,
   for any number of jobs and callers (JobsTypeOK). *)
THEOREM JobTypes == JobsSpec => []JobsTypeOK
<1>1. IInv => JobsTypeOK
  BY DEF IInv
<1>2. QED BY <1>1, JobsInvariant, PTL

(* "finished" and "aborted" are said of jobs that are, although the script reads the exit
   code, the process and its state one after the other (ReportsTrue). *)
THEOREM TrueReports == JobsSpec => []ReportsTrue
<1>1. IInv => ReportsTrue
  BY DEF IInv, ReportsTrue, ReportOf, CodeThere, Past, Working
<1>2. QED BY <1>1, JobsInvariant, PTL

(* Only jobs whose command is over are purged (PurgedOver). *)
THEOREM OnlyOverPurged == JobsSpec => []PurgedOver
<1>1. IInv => PurgedOver
  BY DEF IInv, PurgedOver, Shape
<1>2. QED BY <1>1, JobsInvariant, PTL

(* "finished" is the last word on a job (FinishedFinal). *)
THEOREM FinishedForGood == JobsSpec => FinishedFinal
<1>1. IInv /\ [JobsNext]_jobVars
        => [\A c \in Pollers, j \in Ids :
               report[c][j] = "finished" /\ dir'[j] = "there" => report'[c][j] = "finished"]_jobVars
  BY JobsStep
<1>2. QED BY <1>1, JobsInvariant, PTL DEF JobsSpec, FinishedFinal
==============================================================================
