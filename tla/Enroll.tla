-------------------------------- MODULE Enroll --------------------------------
(***************************************************************************)
(* Enrollment (enroll.py) and `vpsmcp node` (__main__.py) over the files of *)
(* Inventory: a node reports its host key, the gateway writes the entry,    *)
(* reads it back, connects to the node, runs a command on it, and removes   *)
(* the entry again if any of that fails.                                    *)
(*                                                                         *)
(* loop holds the handler that keeps the event loop: from the write to the  *)
(* acquire of the connection a registration does not suspend, so another    *)
(* one can only come in while it connects and while the command runs.  The  *)
(* processes of the command line move at any time.                          *)
(***************************************************************************)
EXTENDS Inventory

CONSTANTS
    Keys,         \* SSH host keys
    Modes,        \* what VPSMCP_ENROLL_MODE may be: "open", "approve"
    MaxRestarts,  \* bound on the restarts of the gateway
    Tool          \* stands for every call that only reads the inventory

ASSUME EnrollAssumption ==
    /\ Requests \cap Commands = {}
    /\ {None, Torn, Tool} \cap (Nodes \cup Keys \cup Writers) = {}
    /\ None # Torn /\ None # Tool
    /\ Modes \subseteq {"open", "approve"}
    /\ MaxTime \in Nat /\ MaxRestarts \in Nat

VARIABLES
    mode,      \* enroll_mode, a setting
    pending,   \* table pending: the report that waits for approval, or None
    conn,      \* the pool's live connection of a node: the host key it was checked
               \* against, or None
    sshd,      \* the host key the node presents
    job,       \* a registration or a command: where it is, its node, the entry it writes
    loop,      \* who keeps the event loop, or None
    restarts,
    approved,  \* history: the reports an administrator approved
    crossed    \* history: the writers whose last write of an entry met another one's

vars == <<fileVars, snapVars, mode, pending, conn, sshd, job, loop, restarts,
          approved, crossed>>

(* by is the registration whose report an entry holds; label stands for what the
   administrator sets: alias, tags, scopes. *)
Host == [key : Keys, label : {"default", "admin"}, by : Requests]

EntryFile == [data : Host \cup {Torn}, time : 0..MaxTime]
OpenFile  == [node : Nodes, to : {"tmp", "file"}]

ASSUME ValuesAssumption ==
    /\ None \notin Host \cup EntryFile \cup OpenFile
    /\ Torn \notin Host

Trial == {"get", "stat", "acquire", "probe"}
Steps == Trial \cup {"idle", "open", "fill", "replace", "ok", "failed", "error", "pending",
                     "lost", "unlink", "forget", "take"}

Quiet == [at |-> "idle", node |-> None, host |-> None, key |-> None, before |-> None]

FilesTypeOK ==
    /\ file \in [Nodes -> EntryFile \cup {None}]
    /\ tmp \in [Nodes -> EntryFile \cup {None}]
    /\ handle \in [Writers -> OpenFile \cup {None}]
    /\ clock \in 0..MaxTime

(* snapTime is only ever compared with Newest. *)
TypeOK ==
    /\ FilesTypeOK
    /\ snap \in [Nodes -> Host \cup {None}]
    /\ mode \in Modes
    /\ pending \in [Nodes -> Host \cup {None}]
    /\ conn \in [Nodes -> Keys \cup {None}] /\ sshd \in [Nodes -> Keys]
    /\ job \in [Writers -> [at : Steps, node : Nodes \cup {None},
                            host : Host \cup {None}, key : Keys \cup {None},
                            before : Host \cup {None, Torn}]]
    /\ loop \in Requests \cup {None, Tool}
    /\ restarts \in 0..MaxRestarts
    /\ approved \subseteq Requests /\ crossed \subseteq Writers

Init ==
    /\ FilesInit
    /\ mode \in Modes
    /\ pending = [n \in Nodes |-> None]
    /\ conn = [n \in Nodes |-> None]
    /\ sshd \in [Nodes -> Keys]
    /\ job = [w \in Writers |-> Quiet]
    /\ loop = None
    /\ restarts = 0
    /\ approved = {} /\ crossed = {}

------------------------------------------------------------------------------
At(w, step) == job[w].at = step

Goto(w, step) == job' = [job EXCEPT ![w].at = step]

Report(r, k) == [key |-> k, label |-> "default", by |-> r]

(* A report passed the gate and its body has been read. *)
Register(r) ==
    /\ mode = "open"
    /\ At(r, "idle") /\ loop = None
    /\ \E n \in Nodes, k \in Keys :
           job' = [job EXCEPT ![r] = [Quiet EXCEPT !.at = "open", !.node = n,
                                                   !.host = Report(r, k)]]
    /\ loop' = r
    /\ UNCHANGED <<mode, crossed, fileVars, snapVars, pending, conn, sshd, restarts, approved>>

(* Fault of RegisterPending: after the report is put down, register goes on. *)
RegisterPendingAtOnce(r) ==
    /\ mode = "approve"
    /\ At(r, "idle") /\ loop = None
    /\ \E n \in Nodes, k \in Keys :
           /\ pending' = [pending EXCEPT ![n] = Report(r, k)]
           /\ job' = [job EXCEPT ![r] = [Quiet EXCEPT !.at = "open", !.node = n,
                                                      !.host = Report(r, k)]]
    /\ loop' = r
    /\ UNCHANGED <<mode, crossed, fileVars, snapVars, conn, sshd, restarts, approved>>

RegisterPending(r) ==
    /\ mode = "approve"
    /\ At(r, "idle") /\ loop = None
    /\ \E n \in Nodes, k \in Keys : pending' = [pending EXCEPT ![n] = Report(r, k)]
    /\ Goto(r, "pending")
    /\ UNCHANGED <<mode, crossed, fileVars, snapVars, conn, sshd, loop, restarts, approved>>

(* The other writers that are between the truncation and the rename of w's entry. *)
Meets(w) == {v \in Writers \ {w} : /\ job[v].node = job[w].node
                                  /\ job[v].at \in {"fill", "replace"}}

(* write_host, by a registration or by a command. *)
Open(w) ==
    /\ At(w, "open")
    /\ Truncate(w, job[w].node)
    /\ Goto(w, "fill")
    /\ crossed' = IF Meets(w) = {} THEN crossed \ {w} ELSE crossed \cup {w} \cup Meets(w)
    /\ UNCHANGED <<mode, snapVars, pending, conn, sshd, loop, restarts, approved>>

Fill(w) ==
    /\ At(w, "fill")
    /\ Write(w, job[w].host)
    /\ Goto(w, "replace")
    /\ UNCHANGED <<mode, crossed, snapVars, pending, conn, sshd, loop, restarts, approved>>

Replace(w) ==
    /\ At(w, "replace")
    /\ MoveIntoPlace(job[w].node)
    /\ job' = [job EXCEPT ![w] = IF w \in Commands THEN Quiet
                                 ELSE [@ EXCEPT !.at = "get",
                                                !.before = Data(file[job[w].node])]]
    /\ UNCHANGED <<mode, crossed, snapVars, pending, conn, sshd, loop, restarts, approved>>

(* Another writer moved the temporary file away.  For a registration the exception
   is outside of the try: the answer is an internal error and nothing is undone. *)
ReplaceFails(w) ==
    /\ At(w, "replace") /\ tmp[job[w].node] = None
    /\ job' = [job EXCEPT ![w] = IF w \in Commands THEN Quiet ELSE [Quiet EXCEPT !.at = "error"]]
    /\ loop' = IF w \in Commands THEN loop ELSE None
    /\ UNCHANGED <<mode, crossed, fileVars, snapVars, pending, conn, sshd, restarts, approved>>

(* Fault of Undo: the entry stays. *)
UndoNothing(r) ==
    /\ job' = [job EXCEPT ![r] = [Quiet EXCEPT !.at = "failed"]]
    /\ loop' = None
    /\ UNCHANGED fileVars

(* The except clause. *)
Undo(r) ==
    /\ Unlink(job[r].node)
    /\ job' = [job EXCEPT ![r] = [Quiet EXCEPT !.at = "failed"]]
    /\ loop' = None

(* self.inv.get().get(nid) *)
LookUp(r, hosts) ==
    LET h == hosts[job[r].node]
    IN  \/ /\ h # None
           /\ job' = [job EXCEPT ![r] = [@ EXCEPT !.at = "acquire", !.key = h.key]]
           /\ loop' = None
           /\ UNCHANGED fileVars
        \/ h = None /\ Undo(r)

GetSnapshot(r) ==
    /\ At(r, "get") /\ Current
    /\ LookUp(r, snap)
    /\ UNCHANGED <<mode, crossed, snapVars, pending, conn, sshd, restarts, approved>>

GetReads(r) ==
    /\ At(r, "get")
    /\ ReadFiles
    /\ Goto(r, "stat")
    /\ UNCHANGED <<mode, crossed, fileVars, pending, conn, sshd, loop, restarts, approved>>

GetRead(r) ==
    /\ At(r, "stat")
    /\ NoteTime
    /\ LookUp(r, snap)
    /\ UNCHANGED <<mode, crossed, pending, conn, sshd, restarts, approved>>

(* SSHPool.acquire: the connection there is, or a new one if the node presents
   the key of the entry. *)
Pooled(n) == conn[n] # None

Acquire(r) ==
    LET n == job[r].node
    IN  /\ At(r, "acquire") /\ loop = None
        /\ \/ Pooled(n) /\ UNCHANGED conn
           \/ /\ ~Pooled(n) /\ sshd[n] = job[r].key
              /\ conn' = [conn EXCEPT ![n] = job[r].key]
        /\ job' = [job EXCEPT ![r] = [@ EXCEPT !.at = "probe", !.key = conn'[n]]]
        /\ UNCHANGED <<mode, crossed, fileVars, snapVars, pending, sshd, loop, restarts, approved>>

(* id -un ran on the node. *)
Probe(r) ==
    /\ At(r, "probe") /\ loop = None
    /\ conn[job[r].node] = job[r].key
    /\ job' = [job EXCEPT ![r] = [Quiet EXCEPT !.at = "ok"]]
    /\ UNCHANGED <<mode, crossed, fileVars, snapVars, pending, conn, sshd, loop, restarts,
                   approved>>

(* Fault of RegisterFails: the command has no timeout and its result no check. *)
RegisterFailsEarly(r) ==
    /\ \/ At(r, "get") /\ Unreadable
       \/ At(r, "acquire") /\ loop = None
    /\ Undo(r)
    /\ UNCHANGED <<mode, crossed, snapVars, pending, conn, sshd, restarts, approved>>

(* No inventory, no connection, no answer in time, or the wrong one. *)
RegisterFails(r) ==
    /\ \/ At(r, "get") /\ Unreadable
       \/ loop = None /\ (At(r, "acquire") \/ At(r, "probe"))
    /\ Undo(r)
    /\ UNCHANGED <<mode, crossed, snapVars, pending, conn, sshd, restarts, approved>>

Deregister(n) ==
    /\ loop = None
    /\ Unlink(n)
    /\ UNCHANGED <<mode, crossed, snapVars, pending, conn, sshd, job, loop, restarts, approved>>

------------------------------------------------------------------------------
(* Any tool: Runtime.resolve reads the inventory, Runtime.conn connects. *)
ToolReads ==
    /\ loop = None
    /\ ReadFiles
    /\ loop' = Tool
    /\ UNCHANGED <<mode, crossed, fileVars, pending, conn, sshd, job, restarts, approved>>

ToolHasRead ==
    /\ loop = Tool
    /\ NoteTime
    /\ loop' = None
    /\ UNCHANGED <<mode, crossed, fileVars, pending, conn, sshd, job, restarts, approved>>

ToolConnects(n) ==
    /\ loop = None
    /\ snap[n] # None /\ ~Pooled(n) /\ sshd[n] = snap[n].key
    /\ conn' = [conn EXCEPT ![n] = snap[n].key]
    /\ UNCHANGED <<mode, crossed, fileVars, snapVars, pending, sshd, job, loop, restarts, approved>>

(* A connection is lost or reaped. *)
Drop(n) ==
    /\ Pooled(n)
    /\ conn' = [conn EXCEPT ![n] = None]
    /\ UNCHANGED <<mode, crossed, fileVars, snapVars, pending, sshd, job, loop, restarts, approved>>

(* New host keys are made on the node; connections go on. *)
NewHostKey(n) ==
    /\ \E k \in Keys \ {sshd[n]} : sshd' = [sshd EXCEPT ![n] = k]
    /\ UNCHANGED <<mode, crossed, fileVars, snapVars, pending, conn, job, loop, restarts, approved>>

------------------------------------------------------------------------------
(* `vpsmcp node`: every process makes its own watcher, so it reads the files. *)
CliEdit(c) ==      \* scopes, rename, tags: the entry with one column changed
    /\ At(c, "idle")
    /\ \E n \in Nodes :
           /\ Contents[n] # None
           /\ job' = [job EXCEPT ![c] = [Quiet EXCEPT !.at = "open", !.node = n,
                                         !.host = [Contents[n] EXCEPT !.label = "admin"]]]
    /\ UNCHANGED <<mode, crossed, fileVars, snapVars, pending, conn, sshd, loop, restarts,
                   approved>>

CliRemove(c) ==
    /\ At(c, "idle")
    /\ \E n \in Nodes :
           /\ Contents[n] # None
           /\ job' = [job EXCEPT ![c] = [Quiet EXCEPT !.at = "unlink", !.node = n]]
    /\ UNCHANGED <<mode, crossed, fileVars, snapVars, pending, conn, sshd, loop, restarts,
                   approved>>

CliUnlink(c) ==
    /\ At(c, "unlink")
    /\ Unlink(job[c].node)
    /\ Goto(c, "forget")
    /\ UNCHANGED <<mode, crossed, snapVars, pending, conn, sshd, loop, restarts, approved>>

CliForget(c) ==
    /\ At(c, "forget")
    /\ pending' = [pending EXCEPT ![job[c].node] = None]
    /\ job' = [job EXCEPT ![c] = Quiet]
    /\ UNCHANGED <<mode, crossed, fileVars, snapVars, conn, sshd, loop, restarts, approved>>

(* take_pending: the SELECT ... *)
CliApprove(c) ==
    /\ At(c, "idle")
    /\ \E n \in Nodes :
           /\ pending[n] # None
           /\ job' = [job EXCEPT ![c] = [Quiet EXCEPT !.at = "take", !.node = n,
                                                      !.host = pending[n]]]
           /\ approved' = approved \cup {pending[n].by}
    /\ UNCHANGED <<mode, crossed, fileVars, snapVars, pending, conn, sshd, loop, restarts>>

(* ... and the DELETE, which takes whatever is pending by then. *)
CliTake(c) ==
    /\ At(c, "take")
    /\ pending' = [pending EXCEPT ![job[c].node] = None]
    /\ Goto(c, "open")
    /\ UNCHANGED <<mode, crossed, fileVars, snapVars, conn, sshd, loop, restarts, approved>>

CliInterrupted(c) ==
    /\ ~At(c, "idle")
    /\ job' = [job EXCEPT ![c] = Quiet]
    /\ handle' = [handle EXCEPT ![c] = None]
    /\ UNCHANGED <<mode, crossed, file, tmp, clock, snapVars, pending, conn, sshd, loop,
                   restarts, approved>>

------------------------------------------------------------------------------
Answered(r) == job[r].at \in {"ok", "failed", "error", "pending", "lost"}

(* The gateway stops, or is killed, and starts: the watcher loads, and old reports
   are collected. *)
Restart ==
    /\ restarts < MaxRestarts
    /\ restarts' = restarts + 1
    /\ job' = [w \in Writers |-> IF w \in Commands \/ At(w, "idle") \/ Answered(w) THEN job[w]
                                 ELSE [Quiet EXCEPT !.at = "lost"]]
    /\ handle' = [w \in Writers |-> IF w \in Requests THEN None ELSE handle[w]]
    /\ loop' = None
    /\ conn' = [n \in Nodes |-> None]
    /\ snap' = Contents
    /\ snapTime' = Newest
    /\ \E old \in SUBSET Nodes :
           pending' = [n \in Nodes |-> IF n \in old THEN None ELSE pending[n]]
    /\ UNCHANGED <<mode, crossed, file, tmp, clock, sshd, approved>>

Next ==
    \/ \E r \in Requests :
           \/ Register(r) \/ RegisterPending(r)
           \/ GetSnapshot(r) \/ GetReads(r) \/ GetRead(r)
           \/ Acquire(r) \/ Probe(r) \/ RegisterFails(r)
    \/ \E w \in Writers : Open(w) \/ Fill(w) \/ Replace(w) \/ ReplaceFails(w)
    \/ \E c \in Commands :
           \/ CliEdit(c) \/ CliRemove(c) \/ CliUnlink(c) \/ CliForget(c)
           \/ CliApprove(c) \/ CliTake(c) \/ CliInterrupted(c)
    \/ \E n \in Nodes : Deregister(n) \/ ToolConnects(n) \/ Drop(n) \/ NewHostKey(n)
    \/ ToolReads \/ ToolHasRead \/ Restart

Spec == Init /\ [][Next]_vars

(* asyncio runs whatever is ready; a connect ends after connect_timeout and the
   command after 20 s. *)
Handling(r) ==
    \/ Open(r) \/ Fill(r) \/ Replace(r) \/ ReplaceFails(r)
    \/ GetSnapshot(r) \/ GetReads(r) \/ GetRead(r)
    \/ Acquire(r) \/ Probe(r) \/ RegisterFails(r)

FairSpec == Spec /\ WF_vars(ToolHasRead) /\ \A r \in Requests : SF_vars(Handling(r))
------------------------------------------------------------------------------
(* Once the watcher sees no reason to read again, it has every entry as it was
   written last: by whatever registration, and after whatever other ones were
   removed (inventory.py, InventoryWatcher.get; a removed entry may linger). *)
WritesSeen ==
    Current => \A n \in Nodes : Contents[n] # None => snap[n] = Contents[n]

(* inventory.py:218: "Write hosts.d/<node_id>.yaml atomically."  Whoever reads the
   file of a node, whenever, finds a whole entry or none.  That holds while the gateway
   alone writes; a process of `vpsmcp node` and the gateway share the temporary name
   (write_host), and can move an empty or mixed file into place: see TornOnlyByTwo. *)
NeverTorn == \A n \in Nodes : Data(file[n]) # Torn

TornByCrossed ==
    \A n \in Nodes : file'[n] # file[n] /\ Data(file'[n]) = Torn
                     => \E w \in crossed : /\ job[w].node = n /\ job'[w] # job[w]
                                          /\ job[w].at \in {"fill", "replace"}

(* What remains of it with any number of processes: a file becomes empty or mixed only by a
   step of a writer that met another one between the truncation and the rename of the same
   node (write_host).  A write that met none leaves a whole entry, whoever was interrupted
   before it, and however torn the file and the temporary file were that it found. *)
TornOnlyByTwo == [][TornByCrossed]_vars

(* docs/OPERATIONS.md:77: "a broken node never stays in the inventory".  However
   registrations overlap, an entry is that of one still on trial, of one that
   reached its node, or of one that a stop of the gateway cut short. *)
BrokenNodeGone ==
    \A n \in Nodes : Contents[n] # None
                     => job[Contents[n].by].at \in Trial \cup {"ok", "lost"}

(* In approve mode a node is listed, and its key trusted, as an administrator
   approved it: neither a report nobody approved nor one that came after the
   approved one (enroll.py, register and take_pending). *)
ApprovedOnly ==
    \A n \in Nodes : mode = "approve" /\ Contents[n] # None => Contents[n].by \in approved

(* Whatever `vpsmcp node` does to its files and the network to its connections, a
   registration that was taken up is answered (enroll.py, register). *)
RegisterAnswered == \A r \in Requests : At(r, "open") ~> Answered(r)

(* docs/OPERATIONS.md:77: "on failure it rolls the entry back".  After a failure
   the entry of the node is the one that the registration had replaced. *)
FailureRollsBack ==
    [][\A r \in Requests : job[r].at \in Trial /\ job'[r].at = "failed"
                            => Data(file'[job[r].node]) = job[r].before]_vars
==============================================================================
