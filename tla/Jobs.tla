-------------------------------- MODULE Jobs --------------------------------
(***************************************************************************)
(* Detached jobs (ssh/jobs.py and the job tools of tools/ops.py).  All their *)
(* state lives on the node: files in the job's directory, and processes.    *)
(* job_start runs a script that makes the directory, forks a wrapper and     *)
(* notes its pid and process group; the wrapper enters a session of its own, *)
(* runs the command and writes its exit code.  job_status, job_kill and      *)
(* job_purge are scripts too: what they read may be stale when they use it. *)
(*                                                                         *)
(* A job's wrapper is the process whose number is in the job's pid file.     *)
(***************************************************************************)
EXTENDS Naturals

CONSTANTS
    Ids,         \* job ids
    Pollers,     \* clients that ask for the state of jobs, one call at a time
    Admins,      \* clients that kill and purge jobs, one call at a time
    MaxReboots   \* how often the node restarts

ASSUME JobsAssumption == MaxReboots \in Nat /\ Pollers \cap Admins = {}

Callers == Pollers \cup Admins

VARIABLES
    script,    \* where the start script of each job is
    dir,       \* the job's directory: "none", "there" or "purged"
    file,      \* the files pid, pgid and exit_code in it
    wrapper,   \* the process setsid bash -c '...'
    command,   \* the command's own processes
    call,      \* what each caller's script has read so far
    report,    \* the state each poller was last told of each job
    reboots

nodeVars == <<script, dir, file, wrapper, command>>
jobVars  == <<nodeVars, call, report, reboots>>

Steps    == {"cd", "fork", "pid", "pgid"}
Working  == {"running", "writing"}        \* a wrapper in its own session
File     == [pid : BOOLEAN, pgid : {"none", "own", "script"}, rc : {"none", "empty", "code"}]
NoFile   == [pid |-> FALSE, pgid |-> "none", rc |-> "none"]
Ops      == {"rc", "alive", "state", "signal", "remove"}
Call     == [op : Ops, job : Ids, read : File]
Idle     == [op |-> "idle"]
States   == {"none", "unknown", "running", "finished", "aborted"}

(* Types. *)
JobsTypeOK ==
    /\ script \in [Ids -> Steps \cup {"none", "done", "failed"}]
    /\ dir \in [Ids -> {"none", "there", "purged"}]
    /\ file \in [Ids -> File]
    /\ wrapper \in [Ids -> Working \cup {"none", "forked", "zombie", "gone", "stranger"}]
    /\ command \in [Ids -> {"none", "running", "over"}]
    /\ call \in [Callers -> Call \cup {Idle}]
    /\ report \in [Pollers -> [Ids -> States]]
    /\ reboots \in 0..MaxReboots

JobsInit ==
    /\ script = [j \in Ids |-> "none"]
    /\ dir = [j \in Ids |-> "none"]
    /\ file = [j \in Ids |-> NoFile]
    /\ wrapper = [j \in Ids |-> "none"]
    /\ command = [j \in Ids |-> "none"]
    /\ call = [c \in Callers |-> Idle]
    /\ report = [c \in Pollers |-> [j \in Ids |-> "none"]]
    /\ reboots = 0

------------------------------------------------------------------------------
(* The start script. *)
At(j, here, next) == script[j] = here /\ script' = [script EXCEPT ![j] = next]
NotFiles == UNCHANGED <<dir, file>>
Calls    == <<call, report, reboots>>

MakeDir(j) ==
    /\ At(j, "none", "cd")
    /\ dir' = [dir EXCEPT ![j] = "there"]
    /\ UNCHANGED <<file, wrapper, command, Calls>>

(* set -e: a working directory that does not exist ends the script, and the
   directory stays behind. *)
Chdir(j) ==
    /\ At(j, "cd", "fork") \/ At(j, "cd", "failed")
    /\ NotFiles /\ UNCHANGED <<wrapper, command, Calls>>

Fork(j) ==
    /\ At(j, "fork", "pid")
    /\ wrapper' = [wrapper EXCEPT ![j] = "forked"]
    /\ NotFiles /\ UNCHANGED <<command, Calls>>

(* A job as short as that may be purged already: then there is no directory to
   write to, and the script fails. *)
LostDir(j) == At(j, "pid", "failed") \/ At(j, "pgid", "failed")

WritePid(j) ==
    /\ \/ /\ dir[j] = "there" /\ At(j, "pid", "pgid")
          /\ file' = [file EXCEPT ![j].pid = TRUE]
       \/ dir[j] = "purged" /\ LostDir(j) /\ UNCHANGED file
    /\ UNCHANGED <<dir, wrapper, command, Calls>>

(* ps names the group the wrapper is in now: the script's own group until the
   wrapper has called setsid.  A wrapper that is gone counts as its own. *)
WritePgid(j) ==
    /\ dir[j] = "there" /\ At(j, "pgid", "done")
    /\ file' = [file EXCEPT ![j].pgid = IF wrapper[j] = "forked" THEN "script" ELSE "own"]
    /\ UNCHANGED <<dir, wrapper, command, Calls>>

(* run_command gives up and kills the script's group, with a wrapper still in it. *)
ScriptGroupDies(j) ==
    /\ script' = [script EXCEPT ![j] = "failed"]
    /\ wrapper' = [wrapper EXCEPT ![j] = IF @ = "forked" THEN "zombie" ELSE @]

StartTimesOut(j) ==
    /\ script[j] \in Steps
    /\ ScriptGroupDies(j)
    /\ NotFiles /\ UNCHANGED <<command, Calls>>

------------------------------------------------------------------------------
(* The wrapper. *)
Setsid(j) ==
    /\ wrapper[j] = "forked"
    /\ wrapper' = [wrapper EXCEPT ![j] = "running"]
    /\ command' = [command EXCEPT ![j] = "running"]
    /\ UNCHANGED <<script, dir, file, Calls>>

CommandEnds(j) ==
    /\ command[j] = "running"
    /\ command' = [command EXCEPT ![j] = "over"]
    /\ UNCHANGED <<script, dir, file, wrapper, Calls>>

OpenExitCode(j) ==
    /\ wrapper[j] = "running" /\ command[j] = "over"
    /\ wrapper' = [wrapper EXCEPT ![j] = "writing"]
    /\ file' = [file EXCEPT ![j].rc = "empty"]
    /\ UNCHANGED <<script, dir, command, Calls>>

(* The file may have been purged: then the code goes to a file without a name. *)
WriteExitCode(j) ==
    /\ wrapper[j] = "writing"
    /\ wrapper' = [wrapper EXCEPT ![j] = "zombie"]
    /\ file' = [file EXCEPT ![j].rc = IF @ = "empty" THEN "code" ELSE @]
    /\ UNCHANGED <<script, dir, command, Calls>>

(* Collected by its parent, or by PID 1: in some containers never. *)
Reaped(j) ==
    /\ wrapper[j] = "zombie"
    /\ wrapper' = [wrapper EXCEPT ![j] = "gone"]
    /\ UNCHANGED <<script, dir, file, command, Calls>>

(* The number comes round again: it is the pid, and may be the group, of another
   process of the same account. *)
PidReused(j) ==
    /\ \/ wrapper[j] = "gone" /\ command[j] # "running"
          /\ wrapper' = [wrapper EXCEPT ![j] = "stranger"]
       \/ wrapper[j] = "stranger" /\ wrapper' = [wrapper EXCEPT ![j] = "gone"]
    /\ UNCHANGED <<script, dir, file, command, Calls>>

NodeReboots ==
    /\ reboots < MaxReboots /\ reboots' = reboots + 1
    /\ script' = [j \in Ids |-> IF script[j] \in Steps THEN "failed" ELSE script[j]]
    /\ wrapper' = [j \in Ids |-> IF wrapper[j] = "none" THEN "none" ELSE "gone"]
    /\ command' = [j \in Ids |-> IF command[j] = "none" THEN "none" ELSE "over"]
    /\ call' = [c \in Callers |-> Idle]
    /\ NotFiles /\ UNCHANGED report

------------------------------------------------------------------------------
(* job_status, job_kill, job_purge. *)
Exists(j) == wrapper[j] \notin {"none", "gone"}       \* kill -0
Told(c, j, state) ==
    /\ report' = [report EXCEPT ![c][j] = state]
    /\ call' = [call EXCEPT ![c] = Idle]
Goes(c, op)    == call' = [call EXCEPT ![c].op = op] /\ UNCHANGED report
Doing(c, op)   == call[c].op = op
Begin(c, op, j, read) ==
    /\ call[c] = Idle
    /\ call' = [call EXCEPT ![c] = [op |-> op, job |-> j, read |-> read]]
    /\ UNCHANGED <<nodeVars, report, reboots>>

(* A directory that is not there has no row. *)
AskStatus(c, j) ==
    dir[j] = "there" /\ Begin(c, "rc", j, [NoFile EXCEPT !.pid = file[j].pid])

ReadExitCode(c) ==
    /\ Doing(c, "rc")
    /\ call' = [call EXCEPT ![c].op = "alive", ![c].read.rc = file[call[c].job].rc]
    /\ UNCHANGED <<nodeVars, report, reboots>>

(* Fault of Decide: the process is asked for before the exit code. *)
DecideProcessFirst(c) ==
    LET j == call[c].job  r == call[c].read IN
    /\ Doing(c, "alive")
    /\ \/ r.pid /\ Exists(j) /\ Goes(c, "state")
       \/ ~ (r.pid /\ Exists(j)) /\ r.rc = "code" /\ Told(c, j, "finished")
       \/ ~ (r.pid /\ Exists(j)) /\ r.rc # "code" /\ Told(c, j, IF r.pid THEN "aborted" ELSE "unknown")
    /\ UNCHANGED <<nodeVars, reboots>>

(* Fault of Decide: that the file is there is enough. *)
DecideByFile(c) ==
    LET j == call[c].job  r == call[c].read IN
    /\ Doing(c, "alive")
    /\ \/ r.rc # "none" /\ Told(c, j, "finished")
       \/ r.rc = "none" /\ r.pid /\ Exists(j) /\ Goes(c, "state")
       \/ r.rc = "none" /\ ~ (r.pid /\ Exists(j)) /\ Told(c, j, IF r.pid THEN "aborted" ELSE "unknown")
    /\ UNCHANGED <<nodeVars, reboots>>

Decide(c) ==
    LET j == call[c].job  r == call[c].read IN
    /\ Doing(c, "alive")
    /\ \/ r.rc = "code" /\ Told(c, j, "finished")
       \/ r.rc # "code" /\ r.pid /\ Exists(j) /\ Goes(c, "state")
       \/ r.rc # "code" /\ r.pid /\ ~ Exists(j) /\ Told(c, j, "aborted")
       \/ r.rc # "code" /\ ~ r.pid /\ Told(c, j, "unknown")
    /\ UNCHANGED <<nodeVars, reboots>>

(* Fault of AskPs: kill -0 alone says that the job runs. *)
AskPsNot(c) ==
    /\ Doing(c, "state")
    /\ Told(c, call[c].job, "running")
    /\ UNCHANGED <<nodeVars, reboots>>

(* Fault of AskPs: the letter of ps is passed on. *)
AskPsRaw(c) ==
    /\ Doing(c, "state")
    /\ Told(c, call[c].job, IF wrapper[call[c].job] = "zombie" THEN "Z" ELSE "running")
    /\ UNCHANGED <<nodeVars, reboots>>

(* A zombie answers kill -0 as well. *)
AskPs(c) ==
    /\ Doing(c, "state")
    /\ Told(c, call[c].job, IF wrapper[call[c].job] = "zombie" THEN "aborted" ELSE "running")
    /\ UNCHANGED <<nodeVars, reboots>>

(* pgid, then pid, read from the files; a lost directory leaves both empty. *)
AskKill(c, j) == Begin(c, "signal", j, [file[j] EXCEPT !.rc = "none"])

Dies(j, lethal) ==    \* the signal reaches the job's own group
    /\ wrapper' = [wrapper EXCEPT ![j] = IF @ = "stranger" THEN "gone"
                                         ELSE IF @ \in Working THEN "zombie" ELSE @]
    /\ \/ command' = [command EXCEPT ![j] = IF @ = "running" THEN "over" ELSE @]
       \/ ~ lethal /\ UNCHANGED command
    /\ UNCHANGED script

InGroup(j, group) ==
    CASE group = "own"    -> (Exists(j) /\ wrapper[j] # "forked") \/ command[j] = "running"
      [] group = "script" -> script[j] \in Steps
      [] group = "none"   -> FALSE

(* The group if there is one, the wrapper alone if not. *)
Signal(c, lethal) ==
    LET j == call[c].job  r == call[c].read IN
    /\ Doing(c, "signal")
    /\ IF InGroup(j, r.pgid)
       THEN \/ r.pgid = "own" /\ Dies(j, lethal)
            \/ r.pgid = "script" /\ ScriptGroupDies(j) /\ UNCHANGED command
       ELSE /\ wrapper' = [wrapper EXCEPT ![j] =
                  IF ~ r.pid THEN @ ELSE IF @ = "stranger" THEN "gone"
                  ELSE IF @ \in Working \cup {"forked"} THEN "zombie" ELSE @]
            /\ UNCHANGED <<script, command>>
    /\ call' = [call EXCEPT ![c] = Idle]
    /\ NotFiles /\ UNCHANGED <<report, reboots>>

AskPurge(c, j) == Begin(c, "remove", j, NoFile)

(* Fault of Remove: what the process says decides, not the exit code. *)
RemoveDead(c) ==
    LET j == call[c].job IN
    /\ Doing(c, "remove")
    /\ dir[j] = "there" /\ ~ (file[j].pid /\ Exists(j))
    /\ dir' = [dir EXCEPT ![j] = "purged"] /\ file' = [file EXCEPT ![j] = NoFile]
    /\ call' = [call EXCEPT ![c] = Idle]
    /\ UNCHANGED <<script, wrapper, command, report, reboots>>

(* Without an exit code, "still running" is the answer. *)
Remove(c) ==
    LET j == call[c].job IN
    /\ Doing(c, "remove")
    /\ IF dir[j] = "there" /\ file[j].rc # "none"
       THEN dir' = [dir EXCEPT ![j] = "purged"] /\ file' = [file EXCEPT ![j] = NoFile]
       ELSE NotFiles
    /\ call' = [call EXCEPT ![c] = Idle]
    /\ UNCHANGED <<script, wrapper, command, report, reboots>>

(* The gateway stops, or the connection is lost, before the answer. *)
CallLost(c) ==
    /\ call[c] # Idle
    /\ call' = [call EXCEPT ![c] = Idle]
    /\ UNCHANGED <<nodeVars, report, reboots>>

OnNode(j) ==
    \/ MakeDir(j) \/ Chdir(j) \/ Fork(j) \/ WritePid(j) \/ WritePgid(j) \/ StartTimesOut(j)
    \/ Setsid(j) \/ CommandEnds(j) \/ OpenExitCode(j) \/ WriteExitCode(j)
    \/ Reaped(j) \/ PidReused(j)

Polls(c) ==
    \/ \E j \in Ids : AskStatus(c, j)
    \/ ReadExitCode(c) \/ Decide(c) \/ AskPs(c)

Manages(c) ==
    \/ \E j \in Ids : AskKill(c, j) \/ AskPurge(c, j)
    \/ Signal(c, TRUE) \/ Signal(c, FALSE) \/ Remove(c)

JobsNext ==
    \/ \E j \in Ids : OnNode(j)
    \/ \E c \in Pollers : Polls(c)
    \/ \E c \in Admins : Manages(c)
    \/ \E c \in Callers : CallLost(c)
    \/ NodeReboots

JobsSpec == JobsInit /\ [][JobsNext]_jobVars
(* The wrapper runs on; the callers poll, and not every call of theirs is lost. *)
JobsFair ==
    /\ \A j \in Ids : WF_jobVars(OpenExitCode(j)) /\ WF_jobVars(WriteExitCode(j))
    /\ \A c \in Pollers, j \in Ids : SF_jobVars(AskStatus(c, j))
    /\ \A c \in Pollers :
           SF_jobVars(ReadExitCode(c)) /\ SF_jobVars(Decide(c)) /\ SF_jobVars(AskPs(c))

------------------------------------------------------------------------------
(* What job_status says is so: a finished job has run to its end and its code is
   there to read, an aborted one has no wrapper that could still write one. *)
ReportsTrue ==
    \A c \in Pollers, j \in Ids :
        /\ report[c][j] = "finished" =>
               command[j] = "over" /\ (dir[j] = "there" => file[j].rc = "code")
        /\ report[c][j] = "aborted" => wrapper[j] \notin Working \cup {"forked"}

(* job_purge leaves running jobs alone (tools/ops.py): what is removed belongs to
   a command that is over, whoever was killed, rebooted or mistaken for it before. *)
PurgedOver == \A j \in Ids : dir[j] = "purged" => command[j] = "over"

(* Who was told that a job finished is never told anything else while its directory
   is there, also when its process number belongs to somebody else by then. *)
FinishedFinal ==
    [][\A c \in Pollers, j \in Ids :
           report[c][j] = "finished" /\ dir'[j] = "there" => report'[c][j] = "finished"]_jobVars

(* Somebody who polls a job whose command ended is told so in the end, although the
   wrapper may stay a zombie for ever; unless its number is taken by a stranger, the
   job is purged, or the start script died before it wrote the number down. *)
Settles ==
    \A c \in Pollers, j \in Ids :
        command[j] = "over" /\ file[j].pid ~>
            \/ report[c][j] \in {"finished", "aborted"}
            \/ wrapper[j] = "stranger" \/ dir[j] = "purged"
==============================================================================
