---------------------------- MODULE Enroll_proofs ----------------------------
(* Theorems about Enroll: approval, that only two writers of one node tear a file, and,
   while the gateway alone writes, that files are whole, that no broken node stays and
   that the watcher sees every write. *)
EXTENDS Enroll, FiniteSetTheorems, WellFoundedInduction, TLAPS

Writing == {"open", "fill", "replace"}

Job == [at : Steps, node : Nodes \cup {None}, host : Host \cup {None},
        key : Keys \cup {None}, before : Host \cup {None, Torn}]

(* What a program counter says of the locals. *)
Sound(j) ==
    /\ j.at \in Writing \cup Trial \cup {"unlink", "forget", "take"} => j.node \in Nodes
    /\ j.at \in Writing \cup {"take"} => j.host \in Host

JobsOK == job \in [Writers -> Job] /\ \A w \in Writers : Sound(job[w])

(* The types that the others rest on, and JobsOK. *)
Typed ==
    /\ FilesTypeOK
    /\ snap \in [Nodes -> Host \cup {None}]
    /\ mode \in Modes
    /\ pending \in [Nodes -> Host \cup {None}]
    /\ conn \in [Nodes -> Keys \cup {None}]
    /\ JobsOK
    /\ approved \subseteq Requests

------------------------------------------------------------------------------
(* What each step of write_host and remove_host does to the two files. *)
LEMMA DataType ==
    ASSUME NEW f \in EntryFile \cup {None}
    PROVE  Data(f) \in Host \cup {None, Torn}
BY ValuesAssumption DEF Data, EntryFile

LEMMA TruncateFacts ==
    ASSUME FilesTypeOK, NEW w \in Writers, NEW n \in Nodes, Truncate(w, n)
    PROVE  /\ FilesTypeOK'
           /\ \A m \in Nodes : /\ Data(file'[m]) = Data(file[m])
                               /\ Data(tmp'[m]) \in {Data(tmp[m]), Torn}
<1>1. [data |-> Torn, time |-> clock] \in EntryFile
  BY DEF FilesTypeOK, EntryFile
<1>2. [node |-> n, to |-> "tmp"] \in OpenFile
  BY DEF OpenFile
<1>3. FilesTypeOK'
  BY <1>1, <1>2 DEF Truncate, FilesTypeOK
<1>4. ASSUME NEW m \in Nodes
      PROVE  Data(tmp'[m]) \in {Data(tmp[m]), Torn}
  <2>1. CASE m = n
    <3>1. tmp'[m] = [data |-> Torn, time |-> clock]
      BY <2>1 DEF Truncate, FilesTypeOK
    <3>2. tmp'[m] # None
      BY <1>1, <3>1, ValuesAssumption
    <3>3. QED BY <3>1, <3>2 DEF Data
  <2>2. CASE m # n
    BY <2>2 DEF Truncate, FilesTypeOK
  <2>3. QED BY <2>1, <2>2
<1>5. QED BY <1>3, <1>4 DEF Truncate

(* Put an entry into one of the two files. *)
LEMMA PutFacts ==
    ASSUME NEW f \in [Nodes -> EntryFile \cup {None}], NEW n \in Nodes, NEW h \in Host,
           NEW d \in {h, Torn}, NEW t \in 0..MaxTime,
           NEW g, g = [f EXCEPT ![n] = [data |-> d, time |-> t]]
    PROVE  /\ g \in [Nodes -> EntryFile \cup {None}]
           /\ \A m \in Nodes : Data(g[m]) \in {Data(f[m]), h, Torn}
<1>1. [data |-> d, time |-> t] \in EntryFile
  BY DEF EntryFile
<1>2. [data |-> d, time |-> t] # None
  BY <1>1, ValuesAssumption
<1>3. ASSUME NEW m \in Nodes
      PROVE  Data(g[m]) \in {Data(f[m]), h, Torn}
  <2>1. CASE m = n
    BY <1>2, <2>1 DEF Data
  <2>2. CASE m # n
    BY <2>2
  <2>3. QED BY <2>1, <2>2
<1>4. QED BY <1>1, <1>3

LEMMA WriteFacts ==
    ASSUME FilesTypeOK, NEW w \in Writers, NEW h \in Host, Write(w, h)
    PROVE  /\ FilesTypeOK'
           /\ \A m \in Nodes : /\ Data(file'[m]) \in {Data(file[m]), h, Torn}
                               /\ Data(tmp'[m]) \in {Data(tmp[m]), h, Torn}
<1> USE EnrollAssumption
<1>1. handle' \in [Writers -> OpenFile \cup {None}]
  BY DEF Write, FilesTypeOK
<1>2. CASE /\ handle[w] = None
           /\ UNCHANGED <<file, tmp, clock>>
  BY <1>1, <1>2 DEF FilesTypeOK
<1>3. ASSUME NEW n \in Nodes, clock' = Now, UNCHANGED file,
             NEW d \in Overwritten(tmp[n], h),
             tmp' = [tmp EXCEPT ![n] = [data |-> d, time |-> Now]]
      PROVE  /\ FilesTypeOK'
             /\ \A m \in Nodes : Data(tmp'[m]) \in {Data(tmp[m]), h, Torn}
  <2>1. Now \in 0..MaxTime
    BY DEF FilesTypeOK, Now
  <2>2. d \in {h, Torn}
    BY DEF Overwritten
  <2>3. QED BY <1>1, <1>3, <2>1, <2>2, PutFacts DEF FilesTypeOK
<1>4. ASSUME NEW n \in Nodes, clock' = Now, UNCHANGED tmp,
             NEW d \in Overwritten(file[n], h),
             file' = [file EXCEPT ![n] = [data |-> d, time |-> Now]]
      PROVE  /\ FilesTypeOK'
             /\ \A m \in Nodes : Data(file'[m]) \in {Data(file[m]), h, Torn}
  <2>1. Now \in 0..MaxTime
    BY DEF FilesTypeOK, Now
  <2>2. d \in {h, Torn}
    BY DEF Overwritten
  <2>3. QED BY <1>1, <1>4, <2>1, <2>2, PutFacts DEF FilesTypeOK
<1>5. handle[w] # None => handle[w].node \in Nodes
  BY DEF FilesTypeOK, OpenFile
<1>6. QED BY <1>2, <1>3, <1>4, <1>5 DEF Write

LEMMA MoveFacts ==
    ASSUME FilesTypeOK, NEW n \in Nodes, MoveIntoPlace(n)
    PROVE  /\ FilesTypeOK'
           /\ \A m \in Nodes : /\ Data(file'[m]) \in {Data(file[m]), Data(tmp[m])}
                               /\ Data(tmp'[m]) \in {Data(tmp[m]), None}
<1>1. [node |-> n, to |-> "file"] \in OpenFile
  BY DEF OpenFile
<1>2. handle' \in [Writers -> OpenFile \cup {None}]
  BY <1>1 DEF MoveIntoPlace, FilesTypeOK
<1>3. FilesTypeOK'
  BY <1>2 DEF MoveIntoPlace, FilesTypeOK
<1>4. QED BY <1>3 DEF MoveIntoPlace, FilesTypeOK, Data

LEMMA UnlinkFacts ==
    ASSUME FilesTypeOK, NEW n \in Nodes, Unlink(n)
    PROVE  /\ FilesTypeOK' /\ tmp' = tmp
           /\ \A m \in Nodes : Data(file'[m]) \in {Data(file[m]), None}
BY DEF Unlink, FilesTypeOK, Data

LEMMA ContentsType ==
    ASSUME FilesTypeOK
    PROVE  Contents \in [Nodes -> Host \cup {None}]
BY DataType DEF Contents, FilesTypeOK
------------------------------------------------------------------------------
(* One job changes, to another sound one. *)
LEMMA JobKept ==
    ASSUME JobsOK, NEW w \in Writers, NEW j \in Job, Sound(j), job' = [job EXCEPT ![w] = j]
    PROVE  JobsOK'
<1>1. job' \in [Writers -> Job]
  BY DEF JobsOK
<1>2. \A v \in Writers : job'[v] = IF v = w THEN j ELSE job[v]
  BY DEF JobsOK
<1>3. \A v \in Writers : Sound(job'[v])
  BY <1>2 DEF JobsOK
<1>4. QED BY <1>1, <1>3 DEF JobsOK, Sound

LEMMA QuietSound ==
    ASSUME NEW at \in Steps \ (Writing \cup Trial \cup {"unlink", "forget", "take"})
    PROVE  LET j == [Quiet EXCEPT !.at = at] IN j \in Job /\ Sound(j)
BY DEF Quiet, Job, Sound

LEMMA QuietItself == Quiet \in Job /\ Sound(Quiet)
BY DEF Quiet, Job, Sound, Steps, Writing, Trial

LEMMA GotoKept ==
    ASSUME JobsOK, NEW w \in Writers, NEW at \in Steps, Goto(w, at),
           Sound([job[w] EXCEPT !.at = at])
    PROVE  JobsOK'
<1>1. [job[w] EXCEPT !.at = at] \in Job
  BY DEF JobsOK, Job
<1>2. QED BY <1>1, JobKept DEF Goto

(* A job goes on with the node and the entry it has. *)
LEMMA MoveOn ==
    ASSUME JobsOK, NEW w \in Writers, NEW at \in Steps, Goto(w, at),
           job[w].at \in Writing \cup Trial \cup {"unlink", "take"},
           at \in Writing => job[w].at \in Writing \cup {"take"},
           at # "take"
    PROVE  JobsOK'
<1>1. Sound([job[w] EXCEPT !.at = at])
  BY DEF JobsOK, Job, Sound, Writing
<1>2. QED BY <1>1, GotoKept

(* The exception clause, and the lookup that may lead there. *)
LEMMA UndoTyped ==
    ASSUME FilesTypeOK, JobsOK, NEW r \in Requests, job[r].at \in Trial, Undo(r)
    PROVE  /\ FilesTypeOK' /\ JobsOK'
           /\ \A m \in Nodes : Data(file'[m]) \in {Data(file[m]), None}
           /\ tmp' = tmp
<1>1. r \in Writers /\ job[r].node \in Nodes
  BY DEF Writers, JobsOK, Sound
<1>2. "failed" \in Steps \ (Writing \cup Trial \cup {"unlink", "forget", "take"})
  BY DEF Steps, Writing, Trial
<1>3. JobsOK'
  BY <1>1, <1>2, QuietSound, JobKept DEF Undo
<1>4. QED BY <1>1, <1>3, UnlinkFacts DEF Undo

LEMMA LookUpTyped ==
    ASSUME FilesTypeOK, JobsOK, snap \in [Nodes -> Host \cup {None}],
           NEW r \in Requests, job[r].at \in Trial, LookUp(r, snap)
    PROVE  /\ FilesTypeOK' /\ JobsOK'
           /\ \A m \in Nodes : Data(file'[m]) \in {Data(file[m]), None}
           /\ tmp' = tmp
<1>1. r \in Writers /\ job[r].node \in Nodes /\ job[r] \in Job
  BY DEF Writers, JobsOK, Sound
<1>2. CASE snap[job[r].node] # None
  <2>1. snap[job[r].node].key \in Keys
    BY <1>1, <1>2 DEF Host
  <2> DEFINE j == [job[r] EXCEPT !.at = "acquire", !.key = snap[job[r].node].key]
  <2>2. j \in Job /\ Sound(j)
    BY <1>1, <2>1 DEF Job, Sound, Steps, Trial, Writing
  <2>3. job' = [job EXCEPT ![r] = j] /\ UNCHANGED fileVars
    BY <1>2 DEF LookUp
  <2>4. JobsOK'
    BY <1>1, <2>2, <2>3, JobKept
  <2>5. QED BY <2>3, <2>4 DEF fileVars, FilesTypeOK
<1>3. CASE snap[job[r].node] = None
  BY <1>3, UndoTyped DEF LookUp
<1>4. QED BY <1>2, <1>3
------------------------------------------------------------------------------
(* A job that starts: its node, and its entry if it has one by then. *)
LEMMA StartSound ==
    ASSUME NEW n \in Nodes, NEW h \in Host
    PROVE  /\ LET j == [Quiet EXCEPT !.at = "open", !.node = n, !.host = h]
              IN  j \in Job /\ Sound(j)
           /\ LET j == [Quiet EXCEPT !.at = "take", !.node = n, !.host = h]
              IN  j \in Job /\ Sound(j)
           /\ LET j == [Quiet EXCEPT !.at = "unlink", !.node = n]
              IN  j \in Job /\ Sound(j)
BY DEF Quiet, Job, Sound, Steps, Trial, Writing

LEMMA TypedInit == Init => Typed
<1> SUFFICES ASSUME Init PROVE Typed
  OBVIOUS
<1>1. FilesTypeOK
  BY EnrollAssumption DEF Init, FilesInit, FilesTypeOK
<1>2. JobsOK
  BY QuietItself DEF Init, JobsOK
<1>3. QED BY <1>1, <1>2 DEF Init, FilesInit, Typed

LEMMA RequestTyped ==
    ASSUME Typed, NEW r \in Requests,
           \/ Register(r) \/ RegisterPending(r)
           \/ GetSnapshot(r) \/ GetReads(r) \/ GetRead(r)
           \/ Acquire(r) \/ Probe(r) \/ RegisterFails(r)
    PROVE  Typed'
<1> USE DEF Typed
<1>0. r \in Writers
  BY DEF Writers
<1>q. {"ok", "pending"} \subseteq Steps \ (Writing \cup Trial \cup {"unlink", "forget", "take"})
  BY DEF Steps, Writing, Trial
<1>t. Trial \subseteq Steps
  BY DEF Steps
<1>h. \A k \in Keys : Report(r, k) \in Host
  BY DEF Report, Host
<1>1. CASE Register(r)
  <2>1. PICK n \in Nodes, k \in Keys :
            job' = [job EXCEPT ![r] = [Quiet EXCEPT !.at = "open", !.node = n,
                                                    !.host = Report(r, k)]]
    BY <1>1 DEF Register
  <2>2. JobsOK'
    BY <1>0, <1>h, <2>1, StartSound, JobKept
  <2>3. QED BY <1>1, <2>2 DEF Register, FilesTypeOK, fileVars, snapVars
<1>2. CASE RegisterPending(r)
  <2>1. Sound([job[r] EXCEPT !.at = "pending"])
    BY <1>0 DEF JobsOK, Job, Sound, Writing, Trial
  <2>2. JobsOK'
    BY <1>0, <1>2, <1>q, <2>1, GotoKept DEF RegisterPending
  <2>3. pending' \in [Nodes -> Host \cup {None}]
    BY <1>2, <1>h DEF RegisterPending
  <2>4. QED BY <1>2, <2>2, <2>3 DEF RegisterPending, FilesTypeOK, fileVars, snapVars
<1>3. CASE GetSnapshot(r)
  BY <1>3, LookUpTyped DEF GetSnapshot, At, Trial, snapVars
<1>4. CASE GetReads(r)
  <2>1. JobsOK'
    BY <1>0, <1>4, <1>t, MoveOn DEF GetReads, At, Trial, Writing
  <2>2. QED
    BY <1>4, <2>1, ContentsType DEF GetReads, ReadFiles, FilesTypeOK, fileVars
<1>5. CASE GetRead(r)
  BY <1>5, LookUpTyped DEF GetRead, NoteTime, At, Trial
<1>6. CASE Acquire(r)
  <2> DEFINE j == [job[r] EXCEPT !.at = "probe", !.key = conn'[job[r].node]]
  <2>1. job[r] \in Job /\ job[r].node \in Nodes
    BY <1>0, <1>6 DEF Acquire, At, JobsOK, Sound, Trial
  <2>2. conn' \in [Nodes -> Keys \cup {None}]
    BY <1>6, <2>1 DEF Acquire, Job
  <2>3. j \in Job /\ Sound(j)
    BY <1>t, <2>1, <2>2 DEF Job, Sound, Trial, Writing
  <2>4. JobsOK'
    BY <1>0, <1>6, <2>3, JobKept DEF Acquire
  <2>5. QED BY <1>6, <2>2, <2>4 DEF Acquire, FilesTypeOK, fileVars, snapVars
<1>7. CASE Probe(r)
  <2>1. JobsOK'
    BY <1>0, <1>7, <1>q, QuietSound, JobKept DEF Probe
  <2>2. QED BY <1>7, <2>1 DEF Probe, FilesTypeOK, fileVars, snapVars
<1>8. CASE RegisterFails(r)
  BY <1>8, UndoTyped DEF RegisterFails, At, Trial, snapVars
<1>9. QED BY <1>1, <1>2, <1>3, <1>4, <1>5, <1>6, <1>7, <1>8

LEMMA WriterTyped ==
    ASSUME Typed, NEW w \in Writers, Open(w) \/ Fill(w) \/ Replace(w) \/ ReplaceFails(w)
    PROVE  Typed'
<1> USE DEF Typed
<1>0. /\ job[w] \in Job /\ job[w].at \in Writing
      /\ job[w].node \in Nodes /\ job[w].host \in Host
  BY DEF Open, Fill, Replace, ReplaceFails, At, JobsOK, Sound, Writing
<1>t. Writing \cup Trial \subseteq Steps
  BY DEF Steps, Writing
<1>q. "error" \in Steps \ (Writing \cup Trial \cup {"unlink", "forget", "take"})
  BY DEF Steps, Writing, Trial
<1>1. CASE Open(w)
  <2>1. JobsOK'
    BY <1>0, <1>1, <1>t, MoveOn DEF Open, Writing
  <2>2. FilesTypeOK'
    BY <1>0, <1>1, TruncateFacts DEF Open
  <2>3. QED BY <1>1, <2>1, <2>2 DEF Open, snapVars
<1>2. CASE Fill(w)
  <2>1. JobsOK'
    BY <1>0, <1>2, <1>t, MoveOn DEF Fill, Writing
  <2>2. FilesTypeOK'
    BY <1>0, <1>2, WriteFacts DEF Fill
  <2>3. QED BY <1>2, <2>1, <2>2 DEF Fill, snapVars
<1>3. CASE Replace(w)
  <2> DEFINE j == IF w \in Commands THEN Quiet
                  ELSE [job[w] EXCEPT !.at = "get", !.before = Data(file[job[w].node])]
  <2>1. Data(file[job[w].node]) \in Host \cup {None, Torn}
    BY <1>0, DataType DEF FilesTypeOK
  <2>2. j \in Job /\ Sound(j)
    BY <1>0, <1>t, <2>1, QuietItself DEF Job, Sound, Trial, Writing
  <2>3. JobsOK'
    BY <1>3, <2>2, JobKept DEF Replace
  <2>4. FilesTypeOK'
    BY <1>0, <1>3, MoveFacts DEF Replace
  <2>5. QED BY <1>3, <2>3, <2>4 DEF Replace, snapVars
<1>4. CASE ReplaceFails(w)
  <2> DEFINE j == IF w \in Commands THEN Quiet ELSE [Quiet EXCEPT !.at = "error"]
  <2>1. j \in Job /\ Sound(j)
    BY <1>q, QuietItself, QuietSound
  <2>2. JobsOK'
    BY <1>4, <2>1, JobKept DEF ReplaceFails
  <2>3. QED BY <1>4, <2>2 DEF ReplaceFails, FilesTypeOK, fileVars, snapVars
<1>5. QED BY <1>1, <1>2, <1>3, <1>4

LEMMA CommandTyped ==
    ASSUME Typed, NEW c \in Commands,
           \/ CliEdit(c) \/ CliRemove(c) \/ CliUnlink(c) \/ CliForget(c)
           \/ CliApprove(c) \/ CliTake(c) \/ CliInterrupted(c)
    PROVE  Typed'
<1> USE DEF Typed
<1>0. c \in Writers
  BY DEF Writers
<1>1. CASE CliEdit(c)
  <2>1. PICK n \in Nodes :
            /\ Contents[n] # None
            /\ job' = [job EXCEPT ![c] = [Quiet EXCEPT !.at = "open", !.node = n,
                                           !.host = [Contents[n] EXCEPT !.label = "admin"]]]
    BY <1>1 DEF CliEdit
  <2>2. Contents[n] \in Host
    BY <2>1, ContentsType
  <2>3. [Contents[n] EXCEPT !.label = "admin"] \in Host
    BY <2>2 DEF Host
  <2>4. JobsOK'
    BY <1>0, <2>1, <2>3, StartSound, JobKept
  <2>5. QED BY <1>1, <2>4 DEF CliEdit, FilesTypeOK, fileVars, snapVars
<1>2. CASE CliRemove(c)
  <2>1. PICK n \in Nodes :
            job' = [job EXCEPT ![c] = [Quiet EXCEPT !.at = "unlink", !.node = n]]
    BY <1>2 DEF CliRemove
  <2>2. LET j == [Quiet EXCEPT !.at = "unlink", !.node = n] IN j \in Job /\ Sound(j)
    BY DEF Quiet, Job, Sound, Steps, Trial, Writing
  <2>3. JobsOK'
    BY <1>0, <2>1, <2>2, JobKept
  <2>4. QED BY <1>2, <2>3 DEF CliRemove, FilesTypeOK, fileVars, snapVars
<1>3. CASE CliUnlink(c)
  <2>1. "forget" \in Steps
    BY DEF Steps
  <2>2. JobsOK'
    BY <1>0, <1>3, <2>1, MoveOn DEF CliUnlink, At, Writing
  <2>3. job[c].node \in Nodes
    BY <1>0, <1>3 DEF CliUnlink, At, JobsOK, Sound
  <2>4. FilesTypeOK'
    BY <1>3, <2>3, UnlinkFacts DEF CliUnlink
  <2>5. QED BY <1>3, <2>2, <2>4 DEF CliUnlink, snapVars
<1>4. CASE CliForget(c)
  <2>1. JobsOK'
    BY <1>0, <1>4, QuietItself, JobKept DEF CliForget
  <2>2. QED BY <1>4, <2>1 DEF CliForget, FilesTypeOK, fileVars, snapVars
<1>5. CASE CliApprove(c)
  <2>1. PICK n \in Nodes :
            /\ pending[n] # None
            /\ job' = [job EXCEPT ![c] = [Quiet EXCEPT !.at = "take", !.node = n,
                                                        !.host = pending[n]]]
            /\ approved' = approved \cup {pending[n].by}
    BY <1>5 DEF CliApprove
  <2>2. pending[n] \in Host
    BY <2>1
  <2>3. pending[n].by \in Requests
    BY <2>2 DEF Host
  <2>4. JobsOK'
    BY <1>0, <2>1, <2>2, StartSound, JobKept
  <2>5. QED BY <1>5, <2>1, <2>3, <2>4 DEF CliApprove, FilesTypeOK, fileVars, snapVars
<1>6. CASE CliTake(c)
  <2>1. "open" \in Steps
    BY DEF Steps
  <2>2. Sound([job[c] EXCEPT !.at = "open"])
    BY <1>0, <1>6 DEF CliTake, At, JobsOK, Job, Sound
  <2>3. JobsOK'
    BY <1>0, <1>6, <2>1, <2>2, GotoKept DEF CliTake
  <2>4. QED BY <1>6, <2>3 DEF CliTake, FilesTypeOK, fileVars, snapVars
<1>7. CASE CliInterrupted(c)
  <2>1. JobsOK'
    BY <1>0, <1>7, QuietItself, JobKept DEF CliInterrupted
  <2>2. QED BY <1>7, <2>1 DEF CliInterrupted, FilesTypeOK, snapVars
<1>8. QED BY <1>1, <1>2, <1>3, <1>4, <1>5, <1>6, <1>7

LEMMA RestartTyped ==
    ASSUME Typed, Restart
    PROVE  Typed'
<1> USE DEF Typed
<1>1. LET j == [Quiet EXCEPT !.at = "lost"] IN j \in Job /\ Sound(j)
  <2>1. "lost" \in Steps \ (Writing \cup Trial \cup {"unlink", "forget", "take"})
    BY DEF Steps, Writing, Trial
  <2>2. QED BY <2>1, QuietSound
<1>2. \A w \in Writers : job'[w] \in Job /\ Sound(job'[w])
  BY <1>1 DEF Restart, JobsOK
<1>3. JobsOK'
  BY <1>2 DEF Restart, JobsOK, Sound
<1>4. FilesTypeOK'
  BY DEF Restart, FilesTypeOK
<1>5. snap' \in [Nodes -> Host \cup {None}]
  BY ContentsType DEF Restart
<1>6. pending' \in [Nodes -> Host \cup {None}]
  BY DEF Restart
<1>7. QED BY <1>3, <1>4, <1>5, <1>6 DEF Restart

LEMMA OtherTyped ==
    ASSUME Typed,
           \/ \E n \in Nodes : Deregister(n) \/ ToolConnects(n) \/ Drop(n) \/ NewHostKey(n)
           \/ ToolReads \/ ToolHasRead \/ UNCHANGED vars
    PROVE  Typed'
<1> USE DEF Typed
<1>1. ASSUME NEW n \in Nodes, Deregister(n)
      PROVE  Typed'
  BY <1>1, UnlinkFacts DEF Deregister, JobsOK, Sound, snapVars
<1>2. ASSUME NEW n \in Nodes, ToolConnects(n)
      PROVE  Typed'
  <2>1. snap[n].key \in Keys
    BY <1>2 DEF ToolConnects, Host
  <2>2. QED
    BY <1>2, <2>1 DEF ToolConnects, FilesTypeOK, JobsOK, Sound, fileVars, snapVars
<1>3. ASSUME NEW n \in Nodes, Drop(n) \/ NewHostKey(n)
      PROVE  Typed'
  BY <1>3 DEF Drop, NewHostKey, FilesTypeOK, JobsOK, Sound, fileVars, snapVars
<1>4. CASE ToolReads
  BY <1>4, ContentsType DEF ToolReads, ReadFiles, FilesTypeOK, JobsOK, Sound, fileVars
<1>5. CASE ToolHasRead
  BY <1>5 DEF ToolHasRead, NoteTime, FilesTypeOK, JobsOK, Sound, fileVars
<1>6. CASE UNCHANGED vars
  BY <1>6 DEF vars, FilesTypeOK, JobsOK, Sound, fileVars, snapVars
<1>7. QED BY <1>1, <1>2, <1>3, <1>4, <1>5, <1>6

LEMMA TypedStep == Typed /\ [Next]_vars => Typed'
BY RequestTyped, WriterTyped, CommandTyped, RestartTyped, OtherTyped DEF Next

(* The rest of the types, of what no other type depends on. *)
Apart ==
    /\ sshd \in [Nodes -> Keys] /\ loop \in Requests \cup {None, Tool}
    /\ restarts \in 0..MaxRestarts /\ crossed \subseteq Writers

LEMMA ApartStep == Apart /\ [Next]_vars => Apart'
<1> SUFFICES ASSUME Apart, [Next]_vars PROVE Apart'
  OBVIOUS
<1>1. CASE UNCHANGED <<sshd, restarts, crossed>> /\ loop' \in Requests \cup {None, Tool}
  BY <1>1 DEF Apart
<1>2. ASSUME NEW r \in Requests,
             \/ Register(r) \/ RegisterPending(r) \/ GetSnapshot(r) \/ GetReads(r)
             \/ GetRead(r) \/ Acquire(r) \/ Probe(r) \/ RegisterFails(r)
      PROVE  Apart'
  BY <1>1, <1>2 DEF Apart, Register, RegisterPending, GetSnapshot, GetReads, GetRead,
                    LookUp, Undo, Acquire, Probe, RegisterFails
<1>3. ASSUME NEW w \in Writers, Open(w) \/ Fill(w) \/ Replace(w) \/ ReplaceFails(w)
      PROVE  Apart'
  <2>1. CASE Open(w)
    BY <1>3, <2>1 DEF Apart, Open, Meets
  <2>2. CASE Fill(w) \/ Replace(w) \/ ReplaceFails(w)
    BY <1>1, <2>2 DEF Apart, Fill, Replace, ReplaceFails
  <2>3. QED BY <1>3, <2>1, <2>2
<1>4. ASSUME NEW c \in Commands,
             \/ CliEdit(c) \/ CliRemove(c) \/ CliUnlink(c) \/ CliForget(c)
             \/ CliApprove(c) \/ CliTake(c) \/ CliInterrupted(c)
      PROVE  Apart'
  BY <1>1, <1>4 DEF Apart, CliEdit, CliRemove, CliUnlink, CliForget, CliApprove, CliTake,
                    CliInterrupted
<1>5. ASSUME NEW n \in Nodes, Deregister(n) \/ ToolConnects(n) \/ Drop(n)
      PROVE  Apart'
  BY <1>1, <1>5 DEF Apart, Deregister, ToolConnects, Drop
<1>6. ASSUME NEW n \in Nodes, NewHostKey(n)
      PROVE  Apart'
  BY <1>6 DEF Apart, NewHostKey
<1>7. CASE ToolReads \/ ToolHasRead \/ UNCHANGED vars
  BY <1>1, <1>7 DEF Apart, ToolReads, ToolHasRead, vars
<1>8. CASE Restart
  BY <1>8, EnrollAssumption DEF Apart, Restart
<1>9. QED
  BY <1>2, <1>3, <1>4, <1>5, <1>6, <1>7, <1>8 DEF Next

(* Files, reports, jobs and connections keep their types, in every interleaving of
   registrations, commands, crashes and reads. *)
THEOREM EnrollTypes == Spec => []TypeOK
<1>1. Init => Typed /\ Apart
  BY TypedInit, EnrollAssumption DEF Init, Apart
<1>2. Typed /\ Apart /\ [Next]_vars => Typed' /\ Apart'
  BY TypedStep, ApartStep
<1>3. Typed /\ Apart => TypeOK
  BY DEF Typed, Apart, JobsOK, Job, TypeOK
<1>4. QED BY <1>1, <1>2, <1>3, PTL DEF Spec
------------------------------------------------------------------------------
(* An administrator approved the report that is in d, if a report is in d. *)
Approved(d) == d \in Host => d.by \in approved

(* In approve mode only commands write, and they write what was approved. *)
Trusted ==
    mode = "approve" =>
        /\ \A n \in Nodes : Approved(Data(file[n])) /\ Approved(Data(tmp[n]))
        /\ \A r \in Requests : job[r].at \notin Writing \cup Trial
        /\ \A c \in Commands : job[c].at \in Writing \cup {"take"} => Approved(job[c].host)

LEMMA TrustedInit == Init => Trusted
<1> SUFFICES ASSUME Init PROVE Trusted
  OBVIOUS
<1>1. \A n \in Nodes : Data(file[n]) = None /\ Data(tmp[n]) = None
  BY DEF Init, FilesInit, Data
<1>2. \A w \in Writers : job[w].at = "idle"
  BY DEF Init, Quiet
<1>3. None \notin Host
  BY ValuesAssumption
<1>4. QED BY <1>1, <1>2, <1>3 DEF Trusted, Approved, Writers, Writing, Trial

(* No registration starts to write, and a command holds what it held or what is
   approved. *)
HoldNothingNew ==
    /\ \A r \in Requests : job'[r].at \in Writing \cup Trial
                          => job[r].at \in Writing \cup Trial \/ mode # "approve"
    /\ \A c \in Commands : job'[c].at \in Writing \cup {"take"}
                          => \/ /\ job[c].at \in Writing \cup {"take"}
                                /\ job'[c].host = job[c].host
                             \/ job'[c].host.by \in approved'
                             \/ mode # "approve"

(* Then, if the files take nothing new either, all stays as approved. *)
LEMMA TrustedKept ==
    ASSUME Typed, Trusted, mode' = mode, approved \subseteq approved',
           \A n \in Nodes : /\ Data(file'[n]) \in {Data(file[n]), Data(tmp[n]), None, Torn}
                            /\ Data(tmp'[n]) \in {Data(tmp[n]), None, Torn},
           HoldNothingNew
    PROVE  Trusted'
<1> SUFFICES ASSUME mode = "approve" PROVE Trusted'
  BY DEF Trusted
<1>1. None \notin Host /\ Torn \notin Host
  BY ValuesAssumption
<1>2. ASSUME NEW n \in Nodes
      PROVE  Approved(Data(file[n]))' /\ Approved(Data(tmp[n]))'
  <2>1. /\ Data(file'[n]) \in Host => Data(file'[n]).by \in approved
        /\ Data(tmp'[n]) \in Host => Data(tmp'[n]).by \in approved
    BY <1>1 DEF Trusted, Approved
  <2>2. Data(file[n])' = Data(file'[n]) /\ Data(tmp[n])' = Data(tmp'[n])
    BY DEF Data
  <2>3. QED BY <2>1, <2>2 DEF Approved
<1>3. ASSUME NEW c \in Commands, job'[c].at \in Writing \cup {"take"}
      PROVE  Approved(job[c].host)'
  BY <1>3 DEF Trusted, Approved, HoldNothingNew
<1>4. \A r \in Requests : job'[r].at \notin Writing \cup Trial
  BY DEF Trusted, HoldNothingNew
<1>5. QED BY <1>2, <1>3, <1>4 DEF Trusted

(* One job changes, to one that holds nothing new. *)
LEMMA HoldsOn ==
    ASSUME Typed, NEW w \in Writers, NEW j, job' = [job EXCEPT ![w] = j],
           \/ j.at \notin Writing \cup Trial \cup {"take"}
           \/ /\ w \in Requests
              /\ job[w].at \in Writing \cup Trial \/ mode # "approve"
           \/ w \in Commands /\ j.host.by \in approved'
           \/ /\ w \in Commands /\ j.host = job[w].host
              /\ job[w].at \in Writing \cup {"take"}
    PROVE  HoldNothingNew
<1>1. \A v \in Writers : job'[v] = IF v = w THEN j ELSE job[v]
  BY DEF Typed, JobsOK
<1>2. Requests \cap Commands = {}
  BY EnrollAssumption
<1>3. QED BY <1>1, <1>2 DEF HoldNothingNew, Writers

LEMMA RequestTrusted ==
    ASSUME Typed, Trusted, NEW r \in Requests,
           \/ Register(r) \/ RegisterPending(r)
           \/ GetSnapshot(r) \/ GetReads(r) \/ GetRead(r)
           \/ Acquire(r) \/ Probe(r) \/ RegisterFails(r)
    PROVE  Trusted'
<1>0. r \in Writers
  BY DEF Writers
<1>1. mode' = mode /\ approved' = approved
  BY DEF Register, RegisterPending, GetSnapshot, GetReads, GetRead, Acquire, Probe,
         RegisterFails
<1>2. \A n \in Nodes : /\ Data(file'[n]) \in {Data(file[n]), None}
                       /\ tmp' = tmp
  <2>1. CASE \/ Register(r) \/ RegisterPending(r) \/ GetReads(r) \/ Acquire(r) \/ Probe(r)
    BY <2>1 DEF Register, RegisterPending, GetReads, Acquire, Probe, fileVars
  <2>2. CASE GetSnapshot(r) \/ GetRead(r)
    BY <2>2, LookUpTyped DEF GetSnapshot, GetRead, At, Trial, Typed
  <2>3. CASE RegisterFails(r)
    BY <2>3, UndoTyped DEF RegisterFails, At, Trial, Typed
  <2>4. QED BY <2>1, <2>2, <2>3
<1>3. \E j : /\ job' = [job EXCEPT ![r] = j]
            /\ \/ j.at \notin Writing \cup Trial \cup {"take"}
               \/ job[r].at \in Writing \cup Trial \/ mode # "approve"
  <2>1. CASE Register(r)
    BY <2>1 DEF Register
  <2>2. CASE RegisterPending(r)
    <3>1. [job[r] EXCEPT !.at = "pending"].at = "pending"
      BY <1>0 DEF Typed, JobsOK, Job
    <3>2. QED BY <2>2, <3>1 DEF RegisterPending, Goto, Writing, Trial
  <2>3. CASE GetSnapshot(r) \/ GetRead(r)
    BY <2>3 DEF GetSnapshot, GetRead, LookUp, Undo, At, Trial
  <2>4. CASE GetReads(r) \/ Acquire(r)
    BY <2>4 DEF GetReads, Acquire, Goto, At, Trial
  <2>5. CASE Probe(r)
    BY <2>5 DEF Probe, At, Trial
  <2>6. CASE RegisterFails(r)
    BY <2>6 DEF RegisterFails, Undo, At, Trial
  <2>7. QED BY <2>1, <2>2, <2>3, <2>4, <2>5, <2>6
<1>4. PICK j : /\ job' = [job EXCEPT ![r] = j]
               /\ \/ j.at \notin Writing \cup Trial \cup {"take"}
                  \/ job[r].at \in Writing \cup Trial \/ mode # "approve"
  BY <1>3
<1>5. HoldNothingNew
  BY <1>0, <1>4, HoldsOn
<1>6. QED BY <1>1, <1>2, <1>5, TrustedKept

(* Of the writers, the one that fills its file decides by what it holds. *)
LEMMA FillTrusted ==
    ASSUME Typed, Trusted, NEW w \in Writers, Fill(w)
    PROVE  Trusted'
<1> SUFFICES ASSUME mode = "approve" PROVE Trusted'
  BY DEF Fill, Trusted
<1>1. w \in Commands
  BY DEF Fill, At, Trusted, Writers, Writing
<1>2. /\ job[w] \in Job /\ job[w].host \in Host
      /\ job[w].host.by \in approved
  BY <1>1 DEF Fill, At, Trusted, Approved, Typed, JobsOK, Sound, Writing
<1>3. \A n \in Nodes : /\ Data(file'[n]) \in {Data(file[n]), job[w].host, Torn}
                       /\ Data(tmp'[n]) \in {Data(tmp[n]), job[w].host, Torn}
  BY <1>2, WriteFacts DEF Fill, Typed
<1>4. \A n \in Nodes : Approved(Data(file[n]))' /\ Approved(Data(tmp[n]))'
  <2> SUFFICES ASSUME NEW n \in Nodes
               PROVE  Approved(Data(file[n]))' /\ Approved(Data(tmp[n]))'
    OBVIOUS
  <2>1. /\ Data(file'[n]) \in Host => Data(file'[n]).by \in approved
        /\ Data(tmp'[n]) \in Host => Data(tmp'[n]).by \in approved
    BY <1>2, <1>3, ValuesAssumption DEF Trusted, Approved
  <2>2. /\ Data(file[n])' = Data(file'[n]) /\ Data(tmp[n])' = Data(tmp'[n])
        /\ approved' = approved
    BY DEF Data, Fill
  <2>3. QED BY <2>1, <2>2 DEF Approved
<1>5. job' = [job EXCEPT ![w] = [job[w] EXCEPT !.at = "replace"]]
  BY DEF Fill, Goto
<1>6. \A v \in Writers : job'[v] = IF v = w THEN [job[w] EXCEPT !.at = "replace"] ELSE job[v]
  BY <1>5 DEF Typed, JobsOK
<1>7. \A r \in Requests : job'[r].at \notin Writing \cup Trial
  BY <1>1, <1>6, EnrollAssumption DEF Trusted, Writers
<1>8. \A c \in Commands : job'[c].at \in Writing \cup {"take"} => Approved(job[c].host)'
  BY <1>2, <1>6 DEF Trusted, Approved, Writers, Fill, At, Writing, Job
<1>9. QED BY <1>4, <1>7, <1>8 DEF Trusted

LEMMA WriterTrusted ==
    ASSUME Typed, Trusted, NEW w \in Writers, Open(w) \/ Replace(w) \/ ReplaceFails(w)
    PROVE  Trusted'
<1>0. /\ job[w] \in Job /\ job[w].at \in Writing /\ job[w].node \in Nodes
  BY DEF Open, Replace, ReplaceFails, At, Typed, JobsOK, Sound, Writing
<1>1. mode' = mode /\ approved' = approved
  BY DEF Open, Replace, ReplaceFails
<1>2. \A n \in Nodes : /\ Data(file'[n]) \in {Data(file[n]), Data(tmp[n])}
                       /\ Data(tmp'[n]) \in {Data(tmp[n]), None, Torn}
  <2>1. CASE Open(w)
    BY <1>0, <2>1, TruncateFacts DEF Open, Typed
  <2>2. CASE Replace(w)
    BY <1>0, <2>2, MoveFacts DEF Replace, Typed
  <2>3. CASE ReplaceFails(w)
    BY <2>3 DEF ReplaceFails, fileVars
  <2>4. QED BY <2>1, <2>2, <2>3
<1>3. HoldNothingNew
  <2>1. CASE Open(w)
    <3>1. [job[w] EXCEPT !.at = "fill"].host = job[w].host
      BY <1>0 DEF Job
    <3>2. QED BY <1>0, <2>1, <3>1, HoldsOn DEF Open, Goto, Writers
  <2>2. CASE Replace(w)
    <3> DEFINE j == IF w \in Commands THEN Quiet
                    ELSE [job[w] EXCEPT !.at = "get", !.before = Data(file[job[w].node])]
    <3>1. w \in Requests \/ j.at = "idle"
      BY DEF Writers, Quiet
    <3>2. QED BY <1>0, <2>2, <3>1, HoldsOn DEF Replace, Writing, Trial
  <2>3. CASE ReplaceFails(w)
    <3> DEFINE j == IF w \in Commands THEN Quiet ELSE [Quiet EXCEPT !.at = "error"]
    <3>1. j.at \in {"idle", "error"}
      BY DEF Quiet
    <3>2. QED BY <2>3, <3>1, HoldsOn DEF ReplaceFails, Writing, Trial
  <2>4. QED BY <2>1, <2>2, <2>3
<1>4. QED BY <1>1, <1>2, <1>3, TrustedKept

LEMMA CommandTrusted ==
    ASSUME Typed, Trusted, NEW c \in Commands,
           \/ CliEdit(c) \/ CliRemove(c) \/ CliUnlink(c) \/ CliForget(c)
           \/ CliApprove(c) \/ CliTake(c) \/ CliInterrupted(c)
    PROVE  Trusted'
<1> SUFFICES ASSUME mode = "approve" PROVE Trusted'
  BY DEF CliEdit, CliRemove, CliUnlink, CliForget, CliApprove, CliTake, CliInterrupted, Trusted
<1>0. c \in Writers /\ job[c] \in Job
  BY DEF Writers, Typed, JobsOK
<1>1. mode' = mode /\ approved \subseteq approved'
  BY DEF CliEdit, CliRemove, CliUnlink, CliForget, CliApprove, CliTake, CliInterrupted
<1>2. \A n \in Nodes : Data(file'[n]) \in {Data(file[n]), None} /\ tmp' = tmp
  <2>1. CASE \/ CliEdit(c) \/ CliRemove(c) \/ CliForget(c)
             \/ CliApprove(c) \/ CliTake(c) \/ CliInterrupted(c)
    BY <2>1 DEF CliEdit, CliRemove, CliForget, CliApprove, CliTake, CliInterrupted, fileVars
  <2>2. CASE CliUnlink(c)
    BY <1>0, <2>2, UnlinkFacts DEF CliUnlink, At, Typed, JobsOK, Sound
  <2>3. QED BY <2>1, <2>2
<1>3. HoldNothingNew
  <2>1. CASE CliEdit(c)
    <3>1. PICK n \in Nodes :
              /\ Contents[n] # None
              /\ job' = [job EXCEPT ![c] = [Quiet EXCEPT !.at = "open", !.node = n,
                                             !.host = [Contents[n] EXCEPT !.label = "admin"]]]
      BY <2>1 DEF CliEdit
    <3> DEFINE h == [Contents[n] EXCEPT !.label = "admin"]
               j == [Quiet EXCEPT !.at = "open", !.node = n, !.host = h]
    <3>2. Contents[n] = Data(file[n]) /\ Contents[n] \in Host
      BY <3>1, ContentsType DEF Contents, Typed
    <3>3. Contents[n].by \in approved
      BY <3>2 DEF Trusted, Approved
    <3>4. h.by \in approved'
      BY <1>1, <3>2, <3>3 DEF Host
    <3>5. j.host = h
      BY DEF Quiet
    <3>6. j.host.by \in approved'
      BY <3>4, <3>5
    <3>7. job' = [job EXCEPT ![c] = j]
      BY <3>1
    <3> HIDE DEF j
    <3>8. QED BY <1>0, <3>6, <3>7, HoldsOn
  <2>2. CASE CliRemove(c)
    <3>1. PICK n \in Nodes :
              job' = [job EXCEPT ![c] = [Quiet EXCEPT !.at = "unlink", !.node = n]]
      BY <2>2 DEF CliRemove
    <3>2. [Quiet EXCEPT !.at = "unlink", !.node = n].at = "unlink"
      BY DEF Quiet
    <3>3. QED BY <1>0, <3>1, <3>2, HoldsOn DEF Writing, Trial
  <2>3. CASE CliUnlink(c)
    <3>1. [job[c] EXCEPT !.at = "forget"].at = "forget"
      BY <1>0 DEF Job
    <3>2. QED BY <1>0, <2>3, <3>1, HoldsOn DEF CliUnlink, Goto, Writing, Trial
  <2>4. CASE CliForget(c) \/ CliInterrupted(c)
    <3>1. Quiet.at = "idle"
      BY DEF Quiet
    <3>2. QED BY <1>0, <2>4, <3>1, HoldsOn DEF CliForget, CliInterrupted, Writing, Trial
  <2>5. CASE CliApprove(c)
    <3>1. PICK n \in Nodes :
              /\ job' = [job EXCEPT ![c] = [Quiet EXCEPT !.at = "take", !.node = n,
                                                          !.host = pending[n]]]
              /\ approved' = approved \cup {pending[n].by}
      BY <2>5 DEF CliApprove
    <3> DEFINE j == [Quiet EXCEPT !.at = "take", !.node = n, !.host = pending[n]]
    <3>2. j.host = pending[n]
      BY DEF Quiet
    <3>3. j.host.by \in approved'
      BY <3>1, <3>2
    <3>4. job' = [job EXCEPT ![c] = j]
      BY <3>1
    <3> HIDE DEF j
    <3>5. QED BY <1>0, <3>3, <3>4, HoldsOn
  <2>6. CASE CliTake(c)
    <3>1. [job[c] EXCEPT !.at = "open"].host = job[c].host
      BY <1>0 DEF Job
    <3>2. QED BY <1>0, <2>6, <3>1, HoldsOn DEF CliTake, Goto, At
  <2>7. QED BY <2>1, <2>2, <2>3, <2>4, <2>5, <2>6
<1>4. QED BY <1>1, <1>2, <1>3, TrustedKept

LEMMA OtherTrusted ==
    ASSUME Typed, Trusted,
           \/ \E n \in Nodes : Deregister(n) \/ ToolConnects(n) \/ Drop(n) \/ NewHostKey(n)
           \/ ToolReads \/ ToolHasRead \/ Restart \/ UNCHANGED vars
    PROVE  Trusted'
<1>1. mode' = mode /\ approved' = approved
  BY DEF Deregister, ToolConnects, Drop, NewHostKey, ToolReads, ToolHasRead, Restart, vars
<1>2. \A n \in Nodes : Data(file'[n]) \in {Data(file[n]), None} /\ tmp' = tmp
  <2>1. CASE \E n \in Nodes : Deregister(n)
    BY <2>1, UnlinkFacts DEF Deregister, Typed
  <2>2. CASE ~\E n \in Nodes : Deregister(n)
    BY <2>2 DEF ToolConnects, Drop, NewHostKey, ToolReads, ToolHasRead, Restart, vars, fileVars
  <2>3. QED BY <2>1, <2>2
<1>3. \A w \in Writers : job'[w] = job[w] \/ job'[w].at = "lost"
  <2>1. CASE Restart
    BY <2>1 DEF Restart, Quiet
  <2>2. CASE ~Restart
    BY <2>2 DEF Deregister, ToolConnects, Drop, NewHostKey, ToolReads, ToolHasRead, vars
  <2>3. QED BY <2>1, <2>2
<1>4. HoldNothingNew
  BY <1>3 DEF HoldNothingNew, Writers, Writing, Trial
<1>5. QED BY <1>1, <1>2, <1>4, TrustedKept

(* In approve mode a node is listed, and its key trusted, as an administrator
   approved it, for every number of reports, commands and nodes (enroll.py, register
   and take_pending; __main__.py, cmd_node). *)
THEOREM ApprovedHolds == Spec => []ApprovedOnly
<1>1. Init => Typed /\ Trusted
  BY TypedInit, TrustedInit
<1>2. Typed /\ Trusted /\ [Next]_vars => Typed' /\ Trusted'
  BY TypedStep, RequestTrusted, WriterTrusted, FillTrusted, CommandTrusted, OtherTrusted
     DEF Next
<1>3. Typed /\ Trusted => ApprovedOnly
  <2> SUFFICES ASSUME Typed, Trusted, NEW n \in Nodes, mode = "approve", Contents[n] # None
               PROVE  Contents[n].by \in approved
    BY DEF ApprovedOnly
  <2>1. Contents[n] = Data(file[n]) /\ Contents[n] \in Host
    BY ContentsType DEF Contents, Typed
  <2>2. QED BY <2>1 DEF Trusted, Approved
<1>4. QED BY <1>1, <1>2, <1>3, PTL DEF Spec
------------------------------------------------------------------------------
(* Where a registration keeps the event loop. *)
Busy == Writing \cup {"get", "stat"}

(* Without commands, the registration that has a file open is the only one that
   writes, and what it moves is what it wrote. *)
WritesAlone(r) ==
    /\ job[r].at \in Busy => loop = r
    /\ handle[r] = IF job[r].at = "fill" THEN [node |-> job[r].node, to |-> "tmp"] ELSE None
    /\ job[r].at = "fill" => tmp[job[r].node].data = Torn
    /\ job[r].at = "replace" => Data(tmp[job[r].node]) # Torn

Whole == NeverTorn /\ \A r \in Requests : WritesAlone(r)

(* A step in which no file is written through a handle, nor moved. *)
NobodyWrites ==
    \A s \in Requests : /\ job'[s].at \in Busy => loop' = s
                        /\ \/ job'[s] = job[s]
                           \/ {job[s].at, job'[s].at} \cap {"fill", "replace"} = {}

LEMMA WholeInit == Init => Whole
<1> SUFFICES ASSUME Init PROVE Whole
  OBVIOUS
<1>1. NeverTorn
  BY EnrollAssumption DEF Init, FilesInit, NeverTorn, Data
<1>2. \A r \in Requests : job[r].at = "idle" /\ handle[r] = None
  BY DEF Init, FilesInit, Quiet, Writers
<1>3. QED BY <1>1, <1>2 DEF Whole, WritesAlone, Busy, Writing

LEMMA WholeKept ==
    ASSUME Typed, Whole, Commands = {}, tmp' = tmp, handle' = handle,
           \A n \in Nodes : Data(file'[n]) \in {Data(file[n]), None},
           NobodyWrites
    PROVE  Whole'
<1>1. NeverTorn'
  <2>1. \A n \in Nodes : Data(file'[n]) # Torn
    BY EnrollAssumption DEF Whole, NeverTorn
  <2>2. QED BY <2>1 DEF NeverTorn, Data
<1>2. ASSUME NEW r \in Requests
      PROVE  WritesAlone(r)'
  <2>1. CASE job'[r] = job[r]
    BY <2>1 DEF Whole, WritesAlone, NobodyWrites, Data
  <2>2. CASE {job[r].at, job'[r].at} \cap {"fill", "replace"} = {}
    <3>1. job'[r].at # "fill" /\ job[r].at # "fill" /\ job'[r].at # "replace"
      BY <2>2
    <3>2. QED BY <3>1 DEF Whole, WritesAlone, NobodyWrites
  <2>3. QED BY <2>1, <2>2 DEF NobodyWrites
<1>3. QED BY <1>1, <1>2 DEF Whole

(* No handle is open on an entry, so the removal of one closes none. *)
LEMMA UnlinkAlone ==
    ASSUME Typed, Whole, Commands = {}, NEW n \in Nodes, Unlink(n)
    PROVE  handle' = handle
<1>1. \A w \in Writers : handle[w] # [node |-> n, to |-> "file"]
  <2> SUFFICES ASSUME NEW w \in Writers, handle[w] = [node |-> n, to |-> "file"]
               PROVE  FALSE
    OBVIOUS
  <2>1. [node |-> n, to |-> "file"] # None
    BY ValuesAssumption DEF OpenFile
  <2>2. handle[w] = [node |-> job[w].node, to |-> "tmp"]
    BY <2>1 DEF Whole, WritesAlone, Writers
  <2>3. QED BY <2>2
<1>2. OpenOn(n, "file") = {}
  BY <1>1 DEF OpenOn
<1>3. QED BY <1>2 DEF Unlink, Typed, FilesTypeOK

(* What a step does to the registration r, and to no other one. *)
LEMMA OneMoves ==
    ASSUME Typed, Whole, NEW r \in Requests, NEW j, job' = [job EXCEPT ![r] = j],
           {job[r].at, j.at} \cap {"fill", "replace"} = {},
           j.at \in Busy => loop' = r,
           loop' = loop \/ loop \in {r, None}
    PROVE  NobodyWrites
<1>1. \A s \in Requests : job'[s] = IF s = r THEN j ELSE job[s]
  BY DEF Typed, JobsOK, Writers
<1>2. None \notin Requests
  BY EnrollAssumption DEF Writers
<1>3. QED BY <1>1, <1>2 DEF Whole, WritesAlone, NobodyWrites

LEMMA RequestWhole ==
    ASSUME Typed, Whole, Commands = {}, NEW r \in Requests,
           \/ Register(r) \/ RegisterPending(r)
           \/ GetSnapshot(r) \/ GetReads(r) \/ GetRead(r)
           \/ Acquire(r) \/ Probe(r) \/ RegisterFails(r)
    PROVE  Whole'
<1>0. r \in Writers /\ job[r] \in Job
  BY DEF Writers, Typed, JobsOK
<1>u. ASSUME job[r].at \in Trial, Undo(r), job[r].at \in Busy \/ loop = None
      PROVE  Whole'
  <2>1. /\ tmp' = tmp /\ handle' = handle
        /\ \A n \in Nodes : Data(file'[n]) \in {Data(file[n]), None}
    BY <1>0, <1>u, UndoTyped, UnlinkAlone DEF Undo, Typed, JobsOK, Sound
  <2>2. [Quiet EXCEPT !.at = "failed"].at = "failed"
    BY DEF Quiet
  <2>3. loop \in {r, None}
    BY <1>u DEF Whole, WritesAlone
  <2>4. NobodyWrites
    BY <1>u, <2>2, <2>3, OneMoves DEF Undo, Trial, Busy, Writing
  <2>5. QED BY <2>1, <2>4, WholeKept
<1>g. ASSUME job[r].at \in {"get", "stat"}, LookUp(r, snap)
      PROVE  Whole'
  <2>1. CASE snap[job[r].node] = None
    BY <1>g, <1>u, <2>1 DEF LookUp, Trial, Busy
  <2>2. CASE snap[job[r].node] # None
    <3> DEFINE j == [job[r] EXCEPT !.at = "acquire", !.key = snap[job[r].node].key]
    <3>1. job' = [job EXCEPT ![r] = j] /\ loop' = None /\ UNCHANGED fileVars
      BY <1>g, <2>2 DEF LookUp
    <3>2. j.at = "acquire"
      BY <1>0 DEF Job
    <3>3. loop = r
      BY <1>g DEF Whole, WritesAlone, Busy
    <3> HIDE DEF j
    <3>4. NobodyWrites
      BY <1>g, <3>1, <3>2, <3>3, OneMoves DEF Busy, Writing
    <3>5. QED BY <3>1, <3>4, WholeKept DEF fileVars
  <2>3. QED BY <2>1, <2>2
<1>1. CASE Register(r)
  <2>1. PICK n \in Nodes, k \in Keys :
            job' = [job EXCEPT ![r] = [Quiet EXCEPT !.at = "open", !.node = n,
                                                    !.host = Report(r, k)]]
    BY <1>1 DEF Register
  <2> DEFINE j == [Quiet EXCEPT !.at = "open", !.node = n, !.host = Report(r, k)]
  <2>2. j.at = "open" /\ job' = [job EXCEPT ![r] = j]
    BY <2>1 DEF Quiet
  <2> HIDE DEF j
  <2>3. NobodyWrites
    BY <1>1, <2>2, OneMoves DEF Register, At
  <2>4. QED BY <1>1, <2>3, WholeKept DEF Register, fileVars
<1>2. CASE RegisterPending(r)
  <2>1. [job[r] EXCEPT !.at = "pending"].at = "pending"
    BY <1>0 DEF Job
  <2>2. NobodyWrites
    BY <1>2, <2>1, OneMoves DEF RegisterPending, At, Goto, Busy, Writing
  <2>3. QED BY <1>2, <2>2, WholeKept DEF RegisterPending, fileVars
<1>3. CASE GetSnapshot(r) \/ GetRead(r)
  BY <1>3, <1>g DEF GetSnapshot, GetRead, At
<1>4. CASE GetReads(r)
  <2>1. [job[r] EXCEPT !.at = "stat"].at = "stat"
    BY <1>0 DEF Job
  <2>2. NobodyWrites
    <3>1. loop = r /\ loop' = loop
      BY <1>4 DEF GetReads, At, Whole, WritesAlone, Busy
    <3>2. QED BY <1>4, <2>1, <3>1, OneMoves DEF GetReads, At, Goto
  <2>3. QED BY <1>4, <2>2, WholeKept DEF GetReads, fileVars
<1>5. CASE Acquire(r)
  <2> DEFINE j == [job[r] EXCEPT !.at = "probe", !.key = conn'[job[r].node]]
  <2>1. j.at = "probe" /\ job' = [job EXCEPT ![r] = j]
    BY <1>0, <1>5 DEF Acquire, Job
  <2> HIDE DEF j
  <2>2. job[r].at = "acquire" /\ loop' = loop
    BY <1>5 DEF Acquire, At
  <2>3. NobodyWrites
    BY <2>1, <2>2, OneMoves DEF Busy, Writing
  <2>4. QED BY <1>5, <2>3, WholeKept DEF Acquire, fileVars
<1>6. CASE Probe(r)
  <2>1. [Quiet EXCEPT !.at = "ok"].at = "ok"
    BY DEF Quiet
  <2>2. NobodyWrites
    BY <1>6, <2>1, OneMoves DEF Probe, At, Busy, Writing
  <2>3. QED BY <1>6, <2>2, WholeKept DEF Probe, fileVars
<1>7. CASE RegisterFails(r)
  BY <1>7, <1>u DEF RegisterFails, At, Trial, Busy
<1>8. QED BY <1>1, <1>2, <1>3, <1>4, <1>5, <1>6, <1>7

(* A step of the registration that keeps the event loop. *)
LEMMA LoopWhole ==
    ASSUME Typed, Whole, NEW r \in Requests, job[r].at \in Busy,
           NEW j, job' = [job EXCEPT ![r] = j],
           \A s \in Requests \ {r} : handle[s] = None => handle'[s] = None,
           WritesAlone(r)', NeverTorn'
    PROVE  Whole'
<1>1. ASSUME NEW s \in Requests, s # r
      PROVE  WritesAlone(s)'
  <2>1. job[s].at \notin Busy /\ handle[s] = None
    BY <1>1 DEF Whole, WritesAlone, Busy, Writing
  <2>2. job'[s] = job[s] /\ handle'[s] = None
    BY <1>1, <2>1 DEF Typed, JobsOK, Writers
  <2>3. QED BY <2>1, <2>2 DEF WritesAlone, Busy, Writing
<1>2. QED BY <1>1 DEF Whole

LEMMA WriterWhole ==
    ASSUME Typed, Whole, Commands = {}, NEW r \in Requests,
           Open(r) \/ Fill(r) \/ Replace(r) \/ ReplaceFails(r)
    PROVE  Whole'
<1>0. /\ r \in Writers /\ r \notin Commands
      /\ job[r] \in Job /\ job[r].at \in Writing
      /\ job[r].node \in Nodes /\ job[r].host \in Host
  BY DEF Open, Fill, Replace, ReplaceFails, At, Typed, JobsOK, Sound, Writing, Writers
<1>l. loop = r /\ job[r].at \in Busy
  BY <1>0 DEF Whole, WritesAlone, Busy
<1> DEFINE n == job[r].node
<1>1. CASE Open(r)
  <2> DEFINE j == [job[r] EXCEPT !.at = "fill"]
  <2>1. /\ job' = [job EXCEPT ![r] = j]
        /\ j.at = "fill" /\ j.node = n
    BY <1>0, <1>1 DEF Open, Goto, Job
  <2> HIDE DEF j
  <2>2. job'[r] = j
    BY <1>0, <2>1 DEF Typed, JobsOK
  <2>3. /\ tmp'[n].data = Torn
        /\ handle'[r] = [node |-> n, to |-> "tmp"]
        /\ \A s \in Requests \ {r} : handle'[s] = handle[s]
    BY <1>0, <1>1 DEF Open, Truncate, Typed, FilesTypeOK, Writers
  <2>4. NeverTorn'
    BY <1>1 DEF Open, Truncate, Whole, NeverTorn, Data
  <2>5. loop' = r
    BY <1>1, <1>l DEF Open
  <2>6. WritesAlone(r)'
    BY <2>1, <2>2, <2>3, <2>5 DEF WritesAlone
  <2>7. QED BY <1>l, <2>1, <2>3, <2>4, <2>6, LoopWhole
<1>2. CASE Fill(r)
  <2> DEFINE j == [job[r] EXCEPT !.at = "replace"]
  <2>1. /\ job' = [job EXCEPT ![r] = j]
        /\ j.at = "replace" /\ j.node = n
    BY <1>0, <1>2 DEF Fill, Goto, Job
  <2> HIDE DEF j
  <2>2. job'[r] = j
    BY <1>0, <2>1 DEF Typed, JobsOK
  <2>3. /\ handle[r] = [node |-> n, to |-> "tmp"]
        /\ tmp[n].data = Torn
    BY <1>2 DEF Fill, At, Whole, WritesAlone
  <2>4. handle[r] # None
    BY <1>0, <2>3, ValuesAssumption DEF OpenFile
  <2>5. /\ tmp' = [tmp EXCEPT ![n] = [data |-> job[r].host, time |-> Now]]
        /\ file' = file
    <3>1. Overwritten(tmp[n], job[r].host) = {job[r].host}
      BY <2>3 DEF Overwritten
    <3>2. handle[r].node = n /\ handle[r].to = "tmp"
      BY <2>3
    <3>3. Write(r, job[r].host)
      BY <1>2 DEF Fill
    <3> HIDE DEF n
    <3>4. QED BY <2>4, <3>1, <3>2, <3>3 DEF Write
  <2>6. Data(tmp'[n]) # Torn
    BY <1>0, <2>5, ValuesAssumption, EnrollAssumption DEF Data, Typed, FilesTypeOK
  <2>7. handle'[r] = None /\ \A s \in Requests \ {r} : handle'[s] = handle[s]
    BY <1>0, <1>2 DEF Fill, Write, Typed, FilesTypeOK, Writers
  <2>8. NeverTorn'
    BY <2>5 DEF Whole, NeverTorn, Data
  <2>9. loop' = r
    BY <1>2, <1>l DEF Fill
  <2>10. WritesAlone(r)'
    BY <2>1, <2>2, <2>6, <2>7, <2>9 DEF WritesAlone, Data
  <2>11. QED BY <1>l, <2>1, <2>7, <2>8, <2>10, LoopWhole
<1>3. CASE Replace(r)
  <2> DEFINE j == [job[r] EXCEPT !.at = "get", !.before = Data(file[job[r].node])]
  <2>1. /\ job' = [job EXCEPT ![r] = j]
        /\ j.at = "get"
    BY <1>0, <1>3 DEF Replace, Job
  <2> HIDE DEF j
  <2>2. job'[r] = j
    BY <1>0, <2>1 DEF Typed, JobsOK
  <2>3. Data(tmp[n]) # Torn /\ handle[r] = None
    BY <1>3 DEF Replace, At, Whole, WritesAlone
  <2>4. NeverTorn'
    BY <1>0, <1>3, <2>3 DEF Replace, MoveIntoPlace, Whole, NeverTorn, Data, Typed, FilesTypeOK
  <2>5. \A s \in Requests : handle[s] = None => handle'[s] = None
    <3>1. \A to \in {"tmp", "file"} : [node |-> n, to |-> to] # None
      BY <1>0, ValuesAssumption DEF OpenFile
    <3>2. QED BY <1>3, <3>1 DEF Replace, MoveIntoPlace, OpenOn, Writers
  <2>6. loop' = r
    BY <1>3, <1>l DEF Replace
  <2>7. WritesAlone(r)'
    BY <2>1, <2>2, <2>3, <2>5, <2>6 DEF WritesAlone
  <2>8. QED BY <1>l, <2>1, <2>4, <2>5, <2>7, LoopWhole
<1>4. CASE ReplaceFails(r)
  <2>1. job' = [job EXCEPT ![r] = [Quiet EXCEPT !.at = "error"]] /\ UNCHANGED fileVars
    BY <1>0, <1>4 DEF ReplaceFails
  <2>2. job'[r].at = "error"
    BY <1>0, <2>1 DEF Typed, JobsOK, Quiet
  <2>3. handle[r] = None
    BY <1>4 DEF ReplaceFails, At, Whole, WritesAlone
  <2>4. WritesAlone(r)'
    BY <2>1, <2>2, <2>3 DEF WritesAlone, Busy, Writing, fileVars
  <2>5. NeverTorn'
    BY <2>1 DEF Whole, NeverTorn, Data, fileVars
  <2>6. QED BY <1>l, <2>1, <2>4, <2>5, LoopWhole DEF fileVars
<1>5. QED BY <1>1, <1>2, <1>3, <1>4

LEMMA OtherWhole ==
    ASSUME Typed, Whole, Commands = {},
           \/ \E n \in Nodes : Deregister(n) \/ ToolConnects(n) \/ Drop(n) \/ NewHostKey(n)
           \/ ToolReads \/ ToolHasRead \/ Restart \/ UNCHANGED vars
    PROVE  Whole'
<1> USE DEF NobodyWrites
<1>1. ASSUME NEW n \in Nodes, Deregister(n)
      PROVE  Whole'
  <2>1. /\ handle' = handle /\ tmp' = tmp
        /\ \A m \in Nodes : Data(file'[m]) \in {Data(file[m]), None}
    BY <1>1, UnlinkAlone, UnlinkFacts DEF Deregister, Typed
  <2>2. NobodyWrites
    BY <1>1 DEF Deregister, Whole, WritesAlone
  <2>3. QED BY <2>1, <2>2, WholeKept
<1>2. ASSUME NEW n \in Nodes, ToolConnects(n) \/ Drop(n) \/ NewHostKey(n)
      PROVE  Whole'
  <2>1. NobodyWrites /\ UNCHANGED fileVars
    BY <1>2 DEF ToolConnects, Drop, NewHostKey, Whole, WritesAlone
  <2>2. QED BY <2>1, WholeKept DEF fileVars
<1>3. CASE ToolReads \/ ToolHasRead \/ UNCHANGED vars
  <2>1. Tool \notin Requests /\ None \notin Requests
    BY EnrollAssumption DEF Writers
  <2>2. NobodyWrites /\ UNCHANGED fileVars
    BY <1>3, <2>1 DEF ToolReads, ToolHasRead, vars, Whole, WritesAlone
  <2>3. QED BY <2>2, WholeKept DEF fileVars
<1>4. CASE Restart
  <2>1. \A r \in Requests : job'[r].at \notin Busy /\ handle'[r] = None
    BY <1>4 DEF Restart, At, Answered, Quiet, Busy, Writing, Writers
  <2>2. NeverTorn'
    BY <1>4 DEF Restart, Whole, NeverTorn, Data
  <2>3. QED BY <2>1, <2>2 DEF Whole, WritesAlone, Busy, Writing
<1>5. QED BY <1>1, <1>2, <1>3, <1>4

(* While nobody uses `vpsmcp node`, whoever reads the file of a node finds a whole
   entry or none, however many registrations overlap and wherever the gateway stops
   (inventory.py, write_host; enroll.py, register).  With a command it is false:
   two writers of one node share the name of the temporary file. *)
THEOREM WholeFiles == Commands = {} => (Spec => []NeverTorn)
<1> SUFFICES ASSUME Commands = {} PROVE Spec => []NeverTorn
  OBVIOUS
<1>1. Init => Typed /\ Whole
  BY TypedInit, WholeInit
<1>2. Typed /\ Whole /\ [Next]_vars => Typed' /\ Whole'
  BY TypedStep, RequestWhole, WriterWhole, OtherWhole DEF Next, Writers
<1>3. Whole => NeverTorn
  BY DEF Whole
<1>4. QED BY <1>1, <1>2, <1>3, PTL DEF Spec

------------------------------------------------------------------------------
(* What a registration writes is its own report; what it has written it still has on trial,
   or has finished with. *)
Mine(r) ==
    /\ job[r].at \in Writing => job[r].host.by = r
    /\ job[r].at = "replace" => Data(tmp[job[r].node]) = job[r].host

Entered == Trial \cup {"ok", "lost"}

Backed(n) ==
    Data(file[n]) \in Host =>
        /\ job[Data(file[n]).by].at \in Entered
        /\ job[Data(file[n]).by].at \in Trial => job[Data(file[n]).by].node = n

Owned == (\A r \in Requests : Mine(r)) /\ \A n \in Nodes : Backed(n)

(* What a step that writes no file may do to a registration: begin it, end it, go on with its
   trial, or undo what it wrote. *)
Honest(r) ==
    \/ job'[r] = job[r]
    \/ /\ job'[r].at \notin Writing \/ (job'[r].at = "open" /\ job'[r].host.by = r)
       /\ \/ job[r].at \notin Entered
          \/ job'[r].at \in {"ok", "lost"}
          \/ job[r].at \in Trial /\ job'[r].at \in Trial /\ job'[r].node = job[r].node
          \/ job[r].at \in Trial /\ Data(file'[job[r].node]) = None

LEMMA OwnedKept ==
    ASSUME Typed, Owned, tmp' = tmp, \A n \in Nodes : Data(file'[n]) \in {Data(file[n]), None},
           \A r \in Requests : Honest(r)
    PROVE  Owned'
<1>1. ASSUME NEW r \in Requests
      PROVE  Mine(r)'
  <2>1. Mine(r) /\ Honest(r)
    BY <1>1 DEF Owned
  <2>2. CASE job'[r] = job[r]
    BY <2>1, <2>2 DEF Mine, Data
  <2>3. CASE job'[r].at \notin Writing \/ (job'[r].at = "open" /\ job'[r].host.by = r)
    BY <2>3 DEF Mine, Writing
  <2>4. QED BY <2>1, <2>2, <2>3 DEF Honest
<1>2. ASSUME NEW n \in Nodes, Data(file'[n]) \in Host
      PROVE  /\ job'[Data(file'[n]).by].at \in Entered
             /\ job'[Data(file'[n]).by].at \in Trial => job'[Data(file'[n]).by].node = n
  <2> DEFINE r == Data(file'[n]).by
  <2>1. Data(file'[n]) = Data(file[n]) /\ Data(file'[n]) # None
    BY <1>2, ValuesAssumption
  <2>2. r \in Requests
    BY <1>2 DEF Host
  <2>3. job[r].at \in Entered /\ (job[r].at \in Trial => job[r].node = n)
    BY <1>2, <2>1 DEF Owned, Backed
  <2>4. Honest(r)
    BY <2>2
  <2> HIDE DEF r
  <2>5. job'[r].at \in Entered /\ (job'[r].at \in Trial => job'[r].node = n)
    BY <2>1, <2>3, <2>4 DEF Honest, Entered, Trial
  <2>6. QED BY <2>5 DEF r
<1>3. \A n \in Nodes : Backed(n)'
  BY <1>2 DEF Backed, Data, Host
<1>4. QED BY <1>1, <1>3 DEF Owned

(* One registration moves. *)
LEMMA OneHonest ==
    ASSUME Typed, NEW r \in Requests, NEW j, job' = [job EXCEPT ![r] = j], Honest(r)
    PROVE  \A s \in Requests : Honest(s)
BY DEF Typed, JobsOK, Writers, Honest

LEMMA RequestOwned ==
    ASSUME Typed, Owned, NEW r \in Requests,
           \/ Register(r) \/ RegisterPending(r)
           \/ GetSnapshot(r) \/ GetReads(r) \/ GetRead(r)
           \/ Acquire(r) \/ Probe(r) \/ RegisterFails(r)
    PROVE  Owned'
<1>0. r \in Writers /\ job[r] \in Job /\ job \in [Writers -> Job]
  BY DEF Writers, Typed, JobsOK
<1>u. ASSUME job[r].at \in Trial, Undo(r)
      PROVE  Owned'
  <2>1. /\ tmp' = tmp
        /\ \A n \in Nodes : Data(file'[n]) \in {Data(file[n]), None}
    BY <1>u, UndoTyped DEF Typed
  <2>2. job[r].node \in Nodes
    BY <1>0, <1>u DEF Typed, JobsOK, Sound
  <2>3. Data(file'[job[r].node]) = None
    BY <1>u, <2>2 DEF Undo, Unlink, Typed, FilesTypeOK, Data
  <2>4. job'[r].at = "failed"
    BY <1>0, <1>u DEF Undo, Quiet
  <2>5. Honest(r)
    BY <1>u, <2>3, <2>4 DEF Honest, Writing
  <2>6. QED BY <1>u, <2>1, <2>5, OneHonest, OwnedKept DEF Undo
<1>m. ASSUME NEW j, job' = [job EXCEPT ![r] = j], UNCHANGED <<file, tmp>>,
             \/ job[r].at \in {"idle"} /\ j.at = "pending"
             \/ job[r].at \in {"idle"} /\ j.at = "open" /\ j.host.by = r
             \/ j.at = "ok"
             \/ job[r].at \in Trial /\ j.at \in Trial /\ j.node = job[r].node
      PROVE  Owned'
  <2>1. job'[r] = j
    BY <1>0, <1>m
  <2>2. Honest(r)
    BY <1>m, <2>1 DEF Honest, Writing, Entered, Trial
  <2>3. QED BY <1>m, <2>2, OneHonest, OwnedKept DEF Data
<1>g. ASSUME job[r].at \in {"get", "stat"}, LookUp(r, snap)
      PROVE  Owned'
  <2>1. CASE snap[job[r].node] = None
    BY <1>g, <1>u, <2>1 DEF LookUp, Trial
  <2>2. CASE snap[job[r].node] # None
    <3> DEFINE j == [job[r] EXCEPT !.at = "acquire", !.key = snap[job[r].node].key]
    <3>1. job' = [job EXCEPT ![r] = j] /\ UNCHANGED <<file, tmp>>
      BY <1>g, <2>2 DEF LookUp, fileVars
    <3>2. j.at = "acquire" /\ j.node = job[r].node
      BY <1>0 DEF Job
    <3> HIDE DEF j
    <3>3. QED BY <1>g, <1>m, <3>1, <3>2 DEF Trial
  <2>3. QED BY <2>1, <2>2
<1>1. CASE Register(r)
  <2>1. PICK n \in Nodes, k \in Keys :
            job' = [job EXCEPT ![r] = [Quiet EXCEPT !.at = "open", !.node = n,
                                                    !.host = Report(r, k)]]
    BY <1>1 DEF Register
  <2> DEFINE j == [Quiet EXCEPT !.at = "open", !.node = n, !.host = Report(r, k)]
  <2>2. j.at = "open" /\ j.host.by = r /\ job' = [job EXCEPT ![r] = j]
    BY <2>1 DEF Quiet, Report
  <2> HIDE DEF j
  <2>3. job[r].at = "idle" /\ UNCHANGED <<file, tmp>>
    BY <1>1 DEF Register, At, fileVars
  <2>4. QED BY <1>m, <2>2, <2>3
<1>2. CASE RegisterPending(r)
  <2> DEFINE j == [job[r] EXCEPT !.at = "pending"]
  <2>1. j.at = "pending" /\ job' = [job EXCEPT ![r] = j]
    BY <1>0, <1>2 DEF Job, RegisterPending, Goto
  <2> HIDE DEF j
  <2>2. job[r].at = "idle" /\ UNCHANGED <<file, tmp>>
    BY <1>2 DEF RegisterPending, At, fileVars
  <2>3. QED BY <1>m, <2>1, <2>2
<1>3. CASE GetSnapshot(r) \/ GetRead(r)
  BY <1>3, <1>g DEF GetSnapshot, GetRead, At
<1>4. CASE GetReads(r)
  <2> DEFINE j == [job[r] EXCEPT !.at = "stat"]
  <2>1. j.at = "stat" /\ j.node = job[r].node /\ job' = [job EXCEPT ![r] = j]
    BY <1>0, <1>4 DEF Job, GetReads, Goto
  <2> HIDE DEF j
  <2>2. job[r].at = "get" /\ UNCHANGED <<file, tmp>>
    BY <1>4 DEF GetReads, At, fileVars
  <2>3. QED BY <1>m, <2>1, <2>2 DEF Trial
<1>5. CASE Acquire(r)
  <2> DEFINE j == [job[r] EXCEPT !.at = "probe", !.key = conn'[job[r].node]]
  <2>1. j.at = "probe" /\ j.node = job[r].node /\ job' = [job EXCEPT ![r] = j]
    BY <1>0, <1>5 DEF Acquire, Job
  <2> HIDE DEF j
  <2>2. job[r].at = "acquire" /\ UNCHANGED <<file, tmp>>
    BY <1>5 DEF Acquire, At, fileVars
  <2>3. QED BY <1>m, <2>1, <2>2 DEF Trial
<1>6. CASE Probe(r)
  <2>1. [Quiet EXCEPT !.at = "ok"].at = "ok"
    BY DEF Quiet
  <2>2. QED BY <1>6, <1>m, <2>1 DEF Probe, fileVars
<1>7. CASE RegisterFails(r)
  BY <1>7, <1>u DEF RegisterFails, At, Trial
<1>8. QED BY <1>1, <1>2, <1>3, <1>4, <1>5, <1>6, <1>7

(* A registration that writes: it alone has a step of the writing before it. *)
LEMMA WriterOwned ==
    ASSUME Typed, Whole, Owned, Commands = {}, NEW r \in Requests,
           Open(r) \/ Fill(r) \/ Replace(r) \/ ReplaceFails(r)
    PROVE  Owned'
<1>0. /\ r \in Writers /\ r \notin Commands
      /\ job[r] \in Job /\ job[r].at \in Writing
      /\ job[r].node \in Nodes /\ job[r].host \in Host
  BY DEF Open, Fill, Replace, ReplaceFails, At, Typed, JobsOK, Sound, Writing, Writers
<1>l. \A s \in Requests \ {r} : job[s].at \notin Writing
  BY <1>0 DEF Whole, WritesAlone, Busy
<1>h. job[r].host.by = r
  BY <1>0 DEF Owned, Mine
<1> DEFINE n == job[r].node
<1>m. ASSUME NEW j, job' = [job EXCEPT ![r] = j], j.host = job[r].host, UNCHANGED file,
             j.at = "fill" \/ (j.at = "replace" /\ j.node = n /\ Data(tmp'[n]) = job[r].host)
      PROVE  Owned'
  <2>1. job'[r] = j /\ \A s \in Requests \ {r} : job'[s] = job[s]
    BY <1>0, <1>m DEF Typed, JobsOK, Writers
  <2>2. Mine(r)'
    BY <1>m, <1>h, <2>1 DEF Mine
  <2>3. \A s \in Requests \ {r} : Mine(s)'
    BY <1>l, <2>1 DEF Mine, Writing
  <2>4. ASSUME NEW m \in Nodes
        PROVE  Backed(m)'
    <3>1. Data(file[m]) \in Host => Data(file[m]).by # r /\ Data(file[m]).by \in Requests
      BY <1>0 DEF Owned, Backed, Writing, Entered, Trial, Host
    <3>2. Data(file'[m]) = Data(file[m])
      BY <1>m
    <3>3. QED BY <1>m, <2>1, <3>1, <3>2 DEF Owned, Backed, Data, Host
  <2>5. QED BY <2>2, <2>3, <2>4 DEF Owned
<1>1. CASE Open(r)
  <2> DEFINE j == [job[r] EXCEPT !.at = "fill"]
  <2>1. /\ job' = [job EXCEPT ![r] = j] /\ UNCHANGED file
        /\ j.at = "fill" /\ j.host = job[r].host
    BY <1>0, <1>1 DEF Open, Goto, Job, Truncate
  <2> HIDE DEF j
  <2>2. QED BY <1>m, <2>1
<1>2. CASE Fill(r)
  <2> DEFINE j == [job[r] EXCEPT !.at = "replace"]
  <2>1. /\ job' = [job EXCEPT ![r] = j]
        /\ j.at = "replace" /\ j.node = n /\ j.host = job[r].host
    BY <1>0, <1>2 DEF Fill, Goto, Job
  <2> HIDE DEF j
  <2>2. handle[r] = [node |-> n, to |-> "tmp"] /\ tmp[n].data = Torn
    BY <1>2 DEF Fill, At, Whole, WritesAlone
  <2>3. handle[r] # None
    BY <1>0, <2>2, ValuesAssumption DEF OpenFile
  <2>4. /\ tmp' = [tmp EXCEPT ![n] = [data |-> job[r].host, time |-> Now]]
        /\ file' = file
    <3>1. Overwritten(tmp[n], job[r].host) = {job[r].host}
      BY <2>2 DEF Overwritten
    <3>2. handle[r].node = n /\ handle[r].to = "tmp"
      BY <2>2
    <3>3. Write(r, job[r].host)
      BY <1>2 DEF Fill
    <3> HIDE DEF n
    <3>4. QED BY <2>3, <3>1, <3>2, <3>3 DEF Write
  <2>5. Data(tmp'[n]) = job[r].host
    <3>1. FilesTypeOK'
      BY <1>0, <1>2, WriteFacts DEF Fill, Typed
    <3>2. tmp'[n] = [data |-> job[r].host, time |-> Now]
      BY <1>0, <2>4 DEF Typed, FilesTypeOK
    <3>3. Now \in 0..MaxTime
      BY EnrollAssumption DEF Typed, FilesTypeOK, Now
    <3>4. tmp'[n] # None
      BY <1>0, <3>2, <3>3, ValuesAssumption DEF EntryFile
    <3>5. QED BY <3>2, <3>4 DEF Data
  <2>6. QED BY <1>m, <2>1, <2>4, <2>5
<1>3. CASE Replace(r)
  <2> DEFINE j == [job[r] EXCEPT !.at = "get", !.before = Data(file[job[r].node])]
  <2>1. /\ job' = [job EXCEPT ![r] = j]
        /\ j.at = "get" /\ j.node = n
    BY <1>0, <1>3 DEF Replace, Job
  <2> HIDE DEF j
  <2>2. job'[r] = j /\ \A s \in Requests \ {r} : job'[s] = job[s]
    BY <1>0, <2>1 DEF Typed, JobsOK, Writers
  <2>3. Data(tmp[n]) = job[r].host
    BY <1>3 DEF Replace, At, Owned, Mine
  <2>4. PICK p \in Nodes : p = n
    BY <1>0
  <2>5. /\ Data(file'[p]) = job[r].host
        /\ \A m \in Nodes \ {p} : file'[m] = file[m]
    BY <1>0, <1>3, <2>3, <2>4 DEF Replace, MoveIntoPlace, Typed, FilesTypeOK, Data
  <2>6. \A s \in Requests : Mine(s)'
    BY <1>l, <2>1, <2>2 DEF Mine, Writing
  <2>7. Backed(p)'
    <3>1. job'[r].at = "get" /\ job'[r].node = p
      BY <2>1, <2>2, <2>4
    <3>2. Data(file'[p]).by = r
      BY <1>h, <2>5
    <3>3. QED BY <3>1, <3>2 DEF Backed, Entered, Trial
  <2>8. ASSUME NEW m \in Nodes \ {p}
        PROVE  Backed(m)'
    <3> DEFINE s == Data(file[m]).by
    <3>1. Data(file[m]) \in Host => s # r /\ s \in Requests
      BY <1>0 DEF Owned, Backed, Writing, Entered, Trial, Host
    <3>2. Data(file'[m]) = Data(file[m])
      BY <2>5
    <3>3. Data(file[m]) \in Host => job'[s] = job[s]
      BY <2>2, <3>1
    <3>4. Backed(m)
      BY DEF Owned
    <3>5. QED BY <3>2, <3>3, <3>4 DEF Backed
  <2>9. QED BY <2>6, <2>7, <2>8 DEF Owned
<1>4. CASE ReplaceFails(r)
  <2>1. job' = [job EXCEPT ![r] = [Quiet EXCEPT !.at = "error"]] /\ UNCHANGED fileVars
    BY <1>0, <1>4 DEF ReplaceFails
  <2>2. job'[r].at = "error"
    BY <1>0, <2>1 DEF Typed, JobsOK, Quiet
  <2>3. Honest(r)
    BY <1>0, <2>2 DEF Honest, Writing, Entered, Trial
  <2>4. QED BY <2>1, <2>3, OneHonest, OwnedKept DEF fileVars
<1>5. QED BY <1>1, <1>2, <1>3, <1>4

LEMMA OtherOwned ==
    ASSUME Typed, Owned, Commands = {},
           \/ \E n \in Nodes : Deregister(n) \/ ToolConnects(n) \/ Drop(n) \/ NewHostKey(n)
           \/ ToolReads \/ ToolHasRead \/ Restart \/ UNCHANGED vars
    PROVE  Owned'
<1>1. ASSUME NEW n \in Nodes, Deregister(n)
      PROVE  Owned'
  <2>1. tmp' = tmp /\ \A m \in Nodes : Data(file'[m]) \in {Data(file[m]), None}
    BY <1>1, UnlinkFacts DEF Deregister, Typed
  <2>2. QED BY <1>1, <2>1, OwnedKept DEF Deregister, Honest
<1>2. ASSUME NEW n \in Nodes, ToolConnects(n) \/ Drop(n) \/ NewHostKey(n)
      PROVE  Owned'
  <2>1. UNCHANGED <<file, tmp, job>>
    BY <1>2 DEF ToolConnects, Drop, NewHostKey, fileVars
  <2>2. QED BY <2>1, OwnedKept DEF Honest
<1>3. CASE ToolReads \/ ToolHasRead \/ UNCHANGED vars
  <2>1. UNCHANGED <<file, tmp, job>>
    BY <1>3 DEF ToolReads, ToolHasRead, vars, fileVars
  <2>2. QED BY <2>1, OwnedKept DEF Honest
<1>4. CASE Restart
  <2>1. UNCHANGED <<file, tmp>>
    BY <1>4 DEF Restart
  <2>2. \A r \in Requests : job'[r] = job[r] \/ job'[r].at = "lost"
    BY <1>4 DEF Restart, Quiet, Writers
  <2>3. \A r \in Requests : Honest(r)
    BY <2>2 DEF Honest, Writing
  <2>4. QED BY <2>1, <2>3, OwnedKept
<1>5. QED BY <1>1, <1>2, <1>3, <1>4

(* docs/OPERATIONS.md:77, "a broken node never stays in the inventory": however many
   registrations overlap and wherever the gateway stops, while nobody uses `vpsmcp node` an
   entry is of a registration on trial, of one that reached its node, or of one that a stop
   cut short (BrokenNodeGone). *)
THEOREM NoBrokenNode == Commands = {} => (Spec => []BrokenNodeGone)
<1> SUFFICES ASSUME Commands = {} PROVE Spec => []BrokenNodeGone
  OBVIOUS
<1>1. Init => Typed /\ Whole /\ Owned
  <2>1. Init => Owned
    BY ValuesAssumption
       DEF Init, FilesInit, Owned, Mine, Backed, Data, Quiet, Writing, Writers
  <2>2. QED BY <2>1, TypedInit, WholeInit
<1>2. Typed /\ Whole /\ Owned /\ [Next]_vars => Typed' /\ Whole' /\ Owned'
  <2>1. Typed /\ Whole /\ [Next]_vars => Typed' /\ Whole'
    BY TypedStep, RequestWhole, WriterWhole, OtherWhole DEF Next, Writers
  <2>2. Typed /\ Whole /\ Owned /\ [Next]_vars => Owned'
    BY RequestOwned, WriterOwned, OtherOwned DEF Next, Writers
  <2>3. QED BY <2>1, <2>2
<1>3. Typed /\ Owned => BrokenNodeGone
  <2> SUFFICES ASSUME Typed, Owned, NEW n \in Nodes, Contents[n] # None
               PROVE  job[Contents[n].by].at \in Entered
    BY DEF BrokenNodeGone, Entered
  <2>1. Contents[n] = Data(file[n]) /\ Contents[n] \in Host
    BY ContentsType DEF Contents, Typed
  <2>2. QED BY <2>1 DEF Owned, Backed
<1>4. QED BY <1>1, <1>2, <1>3, PTL DEF Spec

------------------------------------------------------------------------------
(* The watcher sees every write, as long as no two of them fall into one tick of the file
   system's clock; nothing of it is needed that two files have different times. *)
Loading == loop = Tool \/ \E r \in Requests : job[r].at = "stat"

(* What is about to be moved into place was written after the last load. *)
Times ==
    /\ snapTime \in 0..clock
    /\ \A n \in Nodes : file[n] # None => file[n].time <= clock
    /\ \A r \in Requests : job[r].at = "replace" =>
           /\ tmp[job[r].node] # None /\ tmp[job[r].node].time = clock
           /\ snapTime < clock

(* A registration writes once, so the clock has a tick left for those that have not. *)
Unwritten == {r \in Requests : job[r].at \in {"idle", "open", "fill"}}
Counted == clock + Cardinality(Unwritten) <= Cardinality(Requests)

(* What is older than the last load, and during a load every file, is in the snapshot. *)
Seen ==
    \A n \in Nodes : file[n] # None /\ (Loading \/ file[n].time <= snapTime)
                     => snap[n] = file[n].data

SeenInv == Times /\ Counted /\ Seen

(* The gateway alone, with a tick of the clock for every registration there may be. *)
ClockSuffices == Commands = {} /\ IsFiniteSet(Requests) /\ Cardinality(Requests) <= MaxTime

LEMMA MaxOf ==
    ASSUME NEW m \in Nat, NEW S \in SUBSET (0..m), S # {}
    PROVE  Max(S) \in S /\ \A y \in S : y <= Max(S)
<1> DEFINE below == {m - x : x \in S}
<1>1. below \subseteq Nat /\ below # {}
  OBVIOUS
<1>2. PICK b \in below : \A y \in below : ~ (<<y, b>> \in OpToRel(<, Nat))
  BY <1>1, WFMin, NatLessThanWellFounded
<1>3. \A y \in below : ~ (y < b)
  BY <1>1, <1>2 DEF OpToRel
<1>4. PICK x \in S : b = m - x
  BY <1>2
<1>5. ASSUME NEW y \in S
      PROVE  x >= y
  <2>1. m - y \in below /\ ~ (m - y < m - x)
    BY <1>3, <1>4
  <2>2. x \in Int /\ y \in Int
    OBVIOUS
  <2>3. QED BY <2>1, <2>2
<1>6. \E z \in S : \A y \in S : z >= y
  BY <1>5
<1>7. Max(S) \in S /\ \A y \in S : Max(S) >= y
  BY <1>6 DEF Max
<1>8. \A y \in S : y \in Int
  OBVIOUS
<1>9. QED BY <1>7, <1>8

LEMMA NewestFacts ==
    ASSUME Typed
    PROVE  /\ Newest \in 0..MaxTime
           /\ \A n \in Nodes : file[n] # None => file[n].time <= Newest
           /\ (\A n \in Nodes : file[n] # None => file[n].time <= clock) => Newest <= clock
<1> DEFINE times == {0} \cup {file[n].time : n \in {m \in Nodes : file[m] # None}}
<1>1. MaxTime \in Nat /\ clock \in Nat
  BY EnrollAssumption DEF Typed, FilesTypeOK
<1>2. \A n \in Nodes : file[n] # None => file[n].time \in 0..MaxTime
  BY DEF Typed, FilesTypeOK, EntryFile
<1>3. times \in SUBSET (0..MaxTime) /\ times # {}
  BY <1>1, <1>2
<1>4. Max(times) \in times /\ \A y \in times : y <= Max(times)
  BY <1>1, <1>3, MaxOf
<1>5. Newest = Max(times)
  BY DEF Newest
<1> HIDE DEF Newest
<1>6. Newest \in times /\ \A n \in Nodes : file[n] # None => file[n].time <= Newest
  BY <1>4, <1>5
<1>7. QED BY <1>1, <1>3, <1>6

LEMMA ContentsWhole ==
    ASSUME NeverTorn, NEW n \in Nodes, file[n] # None
    PROVE  Contents[n] = file[n].data
BY DEF NeverTorn, Contents, Data

LEMMA CountedDown ==
    ASSUME ClockSuffices, Counted, clock \in Nat, clock' = clock, Unwritten' \subseteq Unwritten
    PROVE  Counted'
<1>1. IsFiniteSet(Unwritten) /\ Cardinality(Requests) \in Nat
  BY FS_Subset, FS_CardinalityType DEF ClockSuffices, Unwritten
<1>2. Cardinality(Unwritten') <= Cardinality(Unwritten)
      /\ Cardinality(Unwritten') \in Nat /\ Cardinality(Unwritten) \in Nat
  BY <1>1, FS_Subset, FS_CardinalityType
<1>3. QED BY <1>1, <1>2 DEF Counted

(* What a step has to leave alone, or may only remove. *)
Goes ==
    /\ \A n \in Nodes : file'[n] = file[n] \/ file'[n] = None
    /\ clock' = clock
    /\ \A r \in Requests : /\ job'[r].at = "replace" =>
                                  job[r].at = "replace" /\ job'[r].node = job[r].node
                                  /\ tmp'[job[r].node] = tmp[job[r].node]
                           /\ job'[r].at \in {"idle", "open", "fill"} =>
                                  job[r].at \in {"idle", "open", "fill"}

LEMMA SeenKept ==
    ASSUME Typed, ClockSuffices, SeenInv, Goes, UNCHANGED snapVars, Loading' => Loading
    PROVE  SeenInv'
<1>1. clock \in Nat
  BY EnrollAssumption DEF Typed, FilesTypeOK
<1>2. Unwritten' \subseteq Unwritten
  BY DEF Unwritten, Goes
<1>3. Counted'
  BY <1>1, <1>2, CountedDown DEF SeenInv, Goes
<1>4. Times'
  BY DEF SeenInv, Times, Goes, snapVars
<1>5. Seen'
  BY DEF SeenInv, Seen, Goes, snapVars
<1>6. QED BY <1>3, <1>4, <1>5 DEF SeenInv

(* The read of the files, and at a start; then the look at their times. *)
LEMMA ReadsSee ==
    ASSUME Typed, NeverTorn, ClockSuffices, SeenInv, Goes, snap' = Contents,
           \/ snapTime' = snapTime
           \/ snapTime' = Newest /\ \A r \in Requests : job'[r].at # "replace"
    PROVE  SeenInv'
<1>1. clock \in Nat
  BY EnrollAssumption DEF Typed, FilesTypeOK
<1>2. Unwritten' \subseteq Unwritten
  BY DEF Unwritten, Goes
<1>3. Counted'
  BY <1>1, <1>2, CountedDown DEF SeenInv, Goes
<1>4. snapTime' \in 0..clock
  BY <1>1, NewestFacts DEF SeenInv, Times
<1>5. Times'
  BY <1>4 DEF SeenInv, Times, Goes
<1>6. Seen'
  BY ContentsWhole DEF Seen, Goes
<1>7. QED BY <1>3, <1>5, <1>6 DEF SeenInv

LEMMA NoteSees ==
    ASSUME Typed, ClockSuffices, SeenInv, Goes, NoteTime, Loading,
           \A r \in Requests : job'[r].at # "replace"
    PROVE  SeenInv'
<1>1. clock \in Nat
  BY EnrollAssumption DEF Typed, FilesTypeOK
<1>2. Unwritten' \subseteq Unwritten
  BY DEF Unwritten, Goes
<1>3. Counted'
  BY <1>1, <1>2, CountedDown DEF SeenInv, Goes
<1>4. snapTime' \in 0..clock
  BY <1>1, NewestFacts DEF SeenInv, Times, NoteTime
<1>5. Times'
  BY <1>4 DEF SeenInv, Times, Goes
<1>6. Seen'
  BY DEF SeenInv, Seen, Goes, NoteTime
<1>7. QED BY <1>3, <1>5, <1>6 DEF SeenInv

(* One registration goes on, or ends; none begins to load. *)
LEMMA OneGoes ==
    ASSUME Typed, NEW r \in Requests, NEW j, job' = [job EXCEPT ![r] = j],
           j.at # "replace",
           j.at \in {"idle", "open", "fill"} => job[r].at \in {"idle", "open", "fill"},
           \A n \in Nodes : file'[n] = file[n] \/ file'[n] = None,
           clock' = clock,
           \A s \in Requests \ {r} :
               job[s].at = "replace" => tmp'[job[s].node] = tmp[job[s].node]
    PROVE  /\ Goes
           /\ j.at # "stat" /\ loop' # Tool => (Loading' => Loading)
<1>1. job'[r] = j /\ \A s \in Requests \ {r} : job'[s] = job[s]
  BY DEF Typed, JobsOK, Writers
<1>2. Goes
  BY <1>1 DEF Goes
<1>3. QED BY <1>1, <1>2 DEF Loading

LEMMA Requested == \A r \in Requests : r \in Writers /\ r # Tool /\ r # None
BY EnrollAssumption DEF Writers

LEMMA SeenInit == ClockSuffices /\ Init => SeenInv
<1> SUFFICES ASSUME ClockSuffices, Init PROVE SeenInv
  OBVIOUS
<1>1. clock = 0 /\ snapTime = 0 /\ \A n \in Nodes : file[n] = None
  BY DEF Init, FilesInit
<1>2. \A r \in Requests : job[r].at = "idle"
  BY DEF Init, Quiet, Writers
<1>3. Times
  BY <1>1, <1>2 DEF Times
<1>4. Cardinality(Requests) \in Nat /\ Unwritten = Requests
  BY <1>2, FS_CardinalityType DEF ClockSuffices, Unwritten
<1>5. Counted
  BY <1>1, <1>4 DEF Counted
<1>6. QED BY <1>1, <1>3, <1>5 DEF SeenInv, Seen

(* The exception clause, and the lookup that may lead there. *)
LEMMA UndoGoes ==
    ASSUME Typed, NEW r \in Requests, job[r].at \in Trial, Undo(r)
    PROVE  Goes /\ (Loading' => Loading) /\ \A s \in Requests : job'[s].at = "replace" => s # r
<1> DEFINE j == [Quiet EXCEPT !.at = "failed"]
<1>1. j.at = "failed" /\ job' = [job EXCEPT ![r] = j]
  BY DEF Undo, Quiet
<1> HIDE DEF j
<1>2. job[r].node \in Nodes
  BY Requested DEF Typed, JobsOK, Sound
<1>3. /\ \A n \in Nodes : file'[n] = file[n] \/ file'[n] = None
      /\ clock' = clock /\ tmp' = tmp /\ loop' = None
  BY <1>2 DEF Undo, Unlink, Typed, FilesTypeOK
<1>4. None # Tool
  BY EnrollAssumption
<1>5. Goes /\ (Loading' => Loading)
  BY <1>1, <1>3, <1>4, OneGoes
<1>6. job'[r] = j
  BY <1>1, Requested DEF Typed, JobsOK
<1>7. QED BY <1>1, <1>5, <1>6

LEMMA LookUpGoes ==
    ASSUME Typed, NEW r \in Requests, job[r].at \in Trial, NEW hosts, LookUp(r, hosts)
    PROVE  Goes /\ (Loading' => Loading) /\ \A s \in Requests : job'[s].at = "replace" => s # r
<1>1. CASE Undo(r)
  BY <1>1, UndoGoes
<1>2. CASE ~ Undo(r)
  <2> DEFINE j == [job[r] EXCEPT !.at = "acquire", !.key = hosts[job[r].node].key]
  <2>1. /\ job' = [job EXCEPT ![r] = j]
        /\ loop' = None /\ UNCHANGED fileVars
    BY <1>2 DEF LookUp
  <2>2. j.at = "acquire"
    BY Requested DEF Typed, JobsOK, Job
  <2> HIDE DEF j
  <2>3. None # Tool
    BY EnrollAssumption
  <2>4. Goes /\ (Loading' => Loading)
    BY <2>1, <2>2, <2>3, OneGoes DEF fileVars
  <2>5. job'[r] = j
    BY <2>1, Requested DEF Typed, JobsOK
  <2>6. QED BY <2>2, <2>4, <2>5
<1>3. QED BY <1>1, <1>2

(* Who keeps the loop is alone in it. *)
LEMMA Alone ==
    ASSUME Whole, NEW r \in Requests, job[r].at \in Busy
    PROVE  /\ loop = r
           /\ \A s \in Requests \ {r} : job[s].at \notin Busy
BY DEF Whole, WritesAlone

LEMMA RequestSeen ==
    ASSUME Typed, Whole, ClockSuffices, SeenInv, NEW r \in Requests,
           \/ Register(r) \/ RegisterPending(r)
           \/ GetSnapshot(r) \/ GetReads(r) \/ GetRead(r)
           \/ Acquire(r) \/ Probe(r) \/ RegisterFails(r)
    PROVE  SeenInv'
<1>0. r \in Writers /\ r # Tool /\ job[r] \in Job
  BY Requested DEF Typed, JobsOK
<1>m. ASSUME NEW j, job' = [job EXCEPT ![r] = j], j.at # "replace", j.at # "stat",
             j.at \in {"idle", "open", "fill"} => job[r].at \in {"idle", "open", "fill"},
             UNCHANGED fileVars, UNCHANGED snapVars, loop' \in {loop, r}
      PROVE  SeenInv'
  <2>1. Goes
    BY <1>m, OneGoes DEF fileVars
  <2>2. loop' = Tool => loop = Tool
    BY <1>0, <1>m
  <2>3. job'[r] = j /\ \A s \in Requests \ {r} : job'[s] = job[s]
    BY <1>m DEF Typed, JobsOK, Writers
  <2>4. Loading' => Loading
    BY <1>m, <2>2, <2>3 DEF Loading
  <2>5. QED BY <1>m, <2>1, <2>4, SeenKept
<1>1. CASE Register(r)
  <2>1. PICK n \in Nodes, k \in Keys :
            job' = [job EXCEPT ![r] = [Quiet EXCEPT !.at = "open", !.node = n,
                                                    !.host = Report(r, k)]]
    BY <1>1 DEF Register
  <2> DEFINE j == [Quiet EXCEPT !.at = "open", !.node = n, !.host = Report(r, k)]
  <2>2. j.at = "open" /\ job' = [job EXCEPT ![r] = j]
    BY <2>1 DEF Quiet
  <2> HIDE DEF j
  <2>3. job[r].at = "idle" /\ UNCHANGED fileVars /\ UNCHANGED snapVars /\ loop' = r
    BY <1>1 DEF Register, At
  <2>4. QED BY <1>m, <2>2, <2>3
<1>2. CASE RegisterPending(r)
  <2> DEFINE j == [job[r] EXCEPT !.at = "pending"]
  <2>1. j.at = "pending" /\ job' = [job EXCEPT ![r] = j]
    BY <1>0, <1>2 DEF Job, RegisterPending, Goto
  <2> HIDE DEF j
  <2>2. UNCHANGED fileVars /\ UNCHANGED snapVars /\ loop' = loop
    BY <1>2 DEF RegisterPending
  <2>3. QED BY <1>m, <2>1, <2>2
<1>3. CASE GetSnapshot(r)
  <2>1. job[r].at \in Trial /\ LookUp(r, snap) /\ UNCHANGED snapVars
    BY <1>3 DEF GetSnapshot, At, Trial
  <2>2. QED BY <2>1, LookUpGoes, SeenKept
<1>4. CASE GetReads(r)
  <2> DEFINE j == [job[r] EXCEPT !.at = "stat"]
  <2>1. j.at = "stat" /\ job' = [job EXCEPT ![r] = j]
    BY <1>0, <1>4 DEF Job, GetReads, Goto
  <2> HIDE DEF j
  <2>2. UNCHANGED fileVars /\ snap' = Contents /\ snapTime' = snapTime
    BY <1>4 DEF GetReads, ReadFiles
  <2>3. Goes
    BY <2>1, <2>2, OneGoes DEF fileVars
  <2>4. QED BY <2>2, <2>3, ReadsSee DEF Whole
<1>5. CASE GetRead(r)
  <2>1. job[r].at = "stat" /\ LookUp(r, snap) /\ NoteTime
    BY <1>5 DEF GetRead, At
  <2>2. Loading
    BY <2>1 DEF Loading
  <2>3. Goes /\ \A s \in Requests : job'[s].at = "replace" => s # r
    BY <2>1, LookUpGoes DEF Trial
  <2>4. \A s \in Requests \ {r} : job[s].at # "replace"
    BY <2>1, Alone DEF Busy, Writing
  <2>5. \A s \in Requests : job'[s].at # "replace"
    BY <2>3, <2>4 DEF Goes
  <2>6. QED BY <2>1, <2>2, <2>3, <2>5, NoteSees
<1>6. CASE Acquire(r)
  <2> DEFINE j == [job[r] EXCEPT !.at = "probe", !.key = conn'[job[r].node]]
  <2>1. j.at = "probe" /\ job' = [job EXCEPT ![r] = j]
    BY <1>0, <1>6 DEF Acquire, Job
  <2> HIDE DEF j
  <2>2. UNCHANGED fileVars /\ UNCHANGED snapVars /\ loop' = loop
    BY <1>6 DEF Acquire
  <2>3. QED BY <1>m, <2>1, <2>2
<1>7. CASE Probe(r)
  <2> DEFINE j == [Quiet EXCEPT !.at = "ok"]
  <2>1. j.at = "ok" /\ job' = [job EXCEPT ![r] = j]
    BY <1>7 DEF Probe, Quiet
  <2> HIDE DEF j
  <2>2. UNCHANGED fileVars /\ UNCHANGED snapVars /\ loop' = loop
    BY <1>7 DEF Probe
  <2>3. QED BY <1>m, <2>1, <2>2
<1>8. CASE RegisterFails(r)
  <2>1. job[r].at \in Trial /\ Undo(r) /\ UNCHANGED snapVars
    BY <1>8 DEF RegisterFails, At, Trial
  <2>2. QED BY <2>1, UndoGoes, SeenKept
<1>9. QED BY <1>1, <1>2, <1>3, <1>4, <1>5, <1>6, <1>7, <1>8

(* The write that fills the temporary file takes the next time. *)
LEMMA FillSeen ==
    ASSUME Typed, Whole, ClockSuffices, SeenInv, NEW r \in Requests, Fill(r)
    PROVE  SeenInv'
<1> DEFINE n == job[r].node
           j == [job[r] EXCEPT !.at = "replace"]
<1>0. /\ r \in Writers /\ r # Tool /\ job[r] \in Job
      /\ job[r].at = "fill" /\ n \in Nodes
  BY Requested DEF Fill, At, Typed, JobsOK, Sound, Writing
<1>1. j.at = "replace" /\ j.node = n /\ job' = [job EXCEPT ![r] = j]
  BY <1>0 DEF Fill, Goto, Job
<1> HIDE DEF j
<1>2. job'[r] = j /\ \A s \in Requests \ {r} : job'[s] = job[s]
  BY <1>0, <1>1 DEF Typed, JobsOK, Writers
<1>3. loop = r /\ \A s \in Requests \ {r} : job[s].at \notin Busy
  BY <1>0, Alone DEF Busy, Writing
<1>4. handle[r] = [node |-> n, to |-> "tmp"]
  BY <1>0 DEF Whole, WritesAlone
<1>5. handle[r] # None
  BY <1>0, <1>4, ValuesAssumption DEF OpenFile
<1>6. /\ file' = file /\ clock' = Now
      /\ \E d \in Overwritten(tmp[n], job[r].host) :
             tmp' = [tmp EXCEPT ![n] = [data |-> d, time |-> Now]]
  <2>1. handle[r].node = n /\ handle[r].to = "tmp"
    BY <1>4
  <2>2. Write(r, job[r].host)
    BY DEF Fill
  <2> HIDE DEF n
  <2>3. QED BY <1>5, <2>1, <2>2 DEF Write
<1>7. FilesTypeOK'
  BY <1>0, WriteFacts DEF Fill, Typed, Sound, JobsOK, Writing
<1>8. /\ IsFiniteSet(Unwritten) /\ Cardinality(Unwritten) \in Nat /\ r \in Unwritten
      /\ Unwritten' = Unwritten \ {r}
  <2>1. IsFiniteSet(Unwritten)
    BY FS_Subset DEF ClockSuffices, Unwritten
  <2>2. r \in Unwritten
    BY <1>0 DEF Unwritten
  <2>3. Unwritten' = Unwritten \ {r}
    BY <1>1, <1>2 DEF Unwritten
  <2>4. QED BY <2>1, <2>2, <2>3, FS_CardinalityType
<1>9. Cardinality(Unwritten') = Cardinality(Unwritten) - 1 /\ Cardinality(Unwritten') \in Nat
  <2>1. Cardinality(Unwritten \ {r}) = Cardinality(Unwritten) - 1
    BY <1>8, FS_RemoveElement
  <2>2. Cardinality(Unwritten \ {r}) \in Nat
    BY <1>8, FS_Subset, FS_CardinalityType
  <2>3. QED BY <1>8, <2>1, <2>2
<1>10. clock \in Nat /\ MaxTime \in Nat /\ Cardinality(Requests) \in Nat
  BY EnrollAssumption, FS_CardinalityType DEF Typed, FilesTypeOK, ClockSuffices
<1>11. clock < MaxTime
  <2>1. clock + Cardinality(Unwritten) <= Cardinality(Requests)
    BY DEF SeenInv, Counted
  <2>2. Cardinality(Requests) <= MaxTime
    BY DEF ClockSuffices
  <2>3. QED BY <1>8, <1>9, <1>10, <2>1, <2>2
<1>12. clock' = clock + 1 /\ Now = clock + 1
  BY <1>6, <1>11 DEF Now
<1>13. Counted'
  <2>1. clock + Cardinality(Unwritten) <= Cardinality(Requests)
    BY DEF SeenInv, Counted
  <2>2. clock' + Cardinality(Unwritten') <= Cardinality(Requests)
    BY <1>8, <1>9, <1>10, <1>12, <2>1
  <2>3. QED BY <2>2 DEF Counted
<1>14. tmp'[n] # None /\ tmp'[n].time = clock + 1
  <2>1. PICK d : tmp' = [tmp EXCEPT ![n] = [data |-> d, time |-> Now]]
    BY <1>6
  <2>2. tmp'[n] = [data |-> d, time |-> Now]
    BY <1>0, <2>1 DEF Typed, FilesTypeOK
  <2>3. tmp'[n] # None
    <3>1. PICK h \in Host : h = job[r].host
      BY <1>0 DEF Typed, JobsOK, Sound, Writing
    <3>2. PICK e \in Overwritten(tmp[n], h) : tmp' = [tmp EXCEPT ![n] = [data |-> e, time |-> Now]]
      BY <1>6, <3>1
    <3>3. tmp'[n] = [data |-> e, time |-> Now] /\ e \in Host \cup {Torn}
      BY <1>0, <3>2 DEF Typed, FilesTypeOK, Overwritten
    <3>4. Now \in 0..MaxTime
      BY <1>10, <1>11, <1>12
    <3>5. QED BY <3>3, <3>4, ValuesAssumption DEF EntryFile
  <2>4. QED BY <1>12, <2>2, <2>3
<1>15. snapTime' = snapTime /\ snap' = snap /\ loop' = loop
  BY DEF Fill, snapVars
<1>16. Times'
  <2>1. snapTime \in 0..clock /\ \A m \in Nodes : file[m] # None => file[m].time <= clock
    BY DEF SeenInv, Times
  <2>2. \A m \in Nodes : file[m] # None => file[m].time \in Nat
    BY <1>10 DEF Typed, FilesTypeOK, EntryFile
  <2>3. snapTime' \in 0..clock' /\ snapTime' < clock'
    BY <1>10, <1>12, <1>15, <2>1
  <2>4. \A m \in Nodes : file'[m] # None => file'[m].time <= clock'
    BY <1>6, <1>10, <1>12, <2>1, <2>2
  <2>5. ASSUME NEW s \in Requests, job'[s].at = "replace"
        PROVE  /\ tmp'[job'[s].node] # None /\ tmp'[job'[s].node].time = clock'
               /\ snapTime' < clock'
    <3>1. s = r
      BY <1>2, <1>3, <2>5 DEF Busy, Writing
    <3>2. QED BY <1>1, <1>2, <1>12, <1>14, <2>3, <3>1
  <2>6. QED BY <2>3, <2>4, <2>5 DEF Times
<1>17. Seen'
  <2>1. Loading' => Loading
    BY <1>1, <1>2, <1>15 DEF Loading
  <2>2. QED BY <1>6, <1>15, <2>1 DEF SeenInv, Seen
<1>18. QED BY <1>13, <1>16, <1>17 DEF SeenInv

(* What is moved into place is newer than the snapshot. *)
LEMMA ReplaceSeen ==
    ASSUME Typed, Whole, ClockSuffices, SeenInv, NEW r \in Requests, Replace(r)
    PROVE  SeenInv'
<1> DEFINE j == [job[r] EXCEPT !.at = "get", !.before = Data(file[job[r].node])]
<1>0. /\ r \in Writers /\ r # Tool /\ r \notin Commands /\ job[r] \in Job
      /\ job[r].at = "replace"
  BY Requested DEF Replace, At, Typed, JobsOK, ClockSuffices
<1>1. j.at = "get" /\ job' = [job EXCEPT ![r] = j]
  BY <1>0 DEF Replace, Job
<1> HIDE DEF j
<1>2. job'[r] = j /\ \A s \in Requests \ {r} : job'[s] = job[s]
  BY <1>0, <1>1 DEF Typed, JobsOK, Writers
<1>3. loop = r /\ \A s \in Requests \ {r} : job[s].at \notin Busy
  BY <1>0, Alone DEF Busy, Writing
<1>4. PICK n \in Nodes : n = job[r].node
  BY <1>0 DEF Typed, JobsOK, Sound, Writing
<1>5. /\ clock' = clock /\ file'[n] = tmp[n] /\ \A m \in Nodes \ {n} : file'[m] = file[m]
  BY <1>4 DEF Replace, MoveIntoPlace, Typed, FilesTypeOK
<1>6. snapTime' = snapTime /\ snap' = snap /\ loop' = loop
  BY DEF Replace, snapVars
<1>7. tmp[n] # None /\ tmp[n].time = clock /\ snapTime < clock
  BY <1>0, <1>4 DEF SeenInv, Times
<1>8. clock \in Nat /\ snapTime \in Nat
  BY EnrollAssumption DEF Typed, FilesTypeOK, SeenInv, Times
<1>9. \A s \in Requests : job'[s].at \notin {"replace", "stat"}
  BY <1>1, <1>2, <1>3 DEF Busy, Writing
<1>10. Unwritten' \subseteq Unwritten
  BY <1>1, <1>2 DEF Unwritten
<1>11. Counted'
  BY <1>5, <1>8, <1>10, CountedDown DEF SeenInv
<1>12. Times'
  BY <1>5, <1>6, <1>7, <1>8, <1>9 DEF SeenInv, Times
<1>13. ~ Loading'
  BY <1>0, <1>3, <1>6, <1>9 DEF Loading
<1>14. ASSUME NEW m \in Nodes, file'[m] # None, file'[m].time <= snapTime'
       PROVE  snap'[m] = file'[m].data
  <2>1. m # n
    BY <1>5, <1>6, <1>7, <1>8, <1>14
  <2>2. QED BY <1>5, <1>6, <1>14, <2>1 DEF SeenInv, Seen
<1>15. Seen'
  BY <1>13, <1>14 DEF Seen
<1>16. QED BY <1>11, <1>12, <1>15 DEF SeenInv

LEMMA WriterSeen ==
    ASSUME Typed, Whole, ClockSuffices, SeenInv, NEW r \in Requests,
           Open(r) \/ Fill(r) \/ Replace(r) \/ ReplaceFails(r)
    PROVE  SeenInv'
<1>0. r \in Writers /\ r # Tool /\ r \notin Commands /\ job[r] \in Job
  BY Requested DEF Typed, JobsOK, ClockSuffices
<1>1. CASE Open(r)
  <2> DEFINE j == [job[r] EXCEPT !.at = "fill"]
  <2>1. j.at = "fill" /\ job' = [job EXCEPT ![r] = j]
    BY <1>0, <1>1 DEF Open, Goto, Job
  <2> HIDE DEF j
  <2>2. job[r].at = "open" /\ UNCHANGED <<file, clock>> /\ UNCHANGED snapVars /\ loop' = loop
    BY <1>1 DEF Open, At, Truncate
  <2>3. \A s \in Requests \ {r} : job[s].at # "replace"
    BY <2>2, Alone DEF Busy, Writing
  <2>4. loop = r
    BY <2>2, Alone DEF Busy, Writing
  <2>5. Goes /\ (Loading' => Loading)
    BY <1>0, <2>1, <2>2, <2>3, <2>4, OneGoes
  <2>6. QED BY <2>2, <2>5, SeenKept
<1>2. CASE Fill(r)
  BY <1>2, FillSeen
<1>3. CASE Replace(r)
  BY <1>3, ReplaceSeen
<1>4. CASE ReplaceFails(r)
  <2> DEFINE j == [Quiet EXCEPT !.at = "error"]
  <2>1. j.at = "error" /\ job' = [job EXCEPT ![r] = j]
    BY <1>0, <1>4 DEF ReplaceFails, Quiet
  <2> HIDE DEF j
  <2>2. UNCHANGED fileVars /\ UNCHANGED snapVars /\ loop' = None
    BY <1>0, <1>4 DEF ReplaceFails
  <2>3. None # Tool
    BY EnrollAssumption
  <2>4. Goes /\ (Loading' => Loading)
    BY <2>1, <2>2, <2>3, OneGoes DEF fileVars
  <2>5. QED BY <2>2, <2>4, SeenKept
<1>5. QED BY <1>1, <1>2, <1>3, <1>4

LEMMA OtherSeen ==
    ASSUME Typed, Whole, ClockSuffices, SeenInv,
           \/ \E n \in Nodes : Deregister(n) \/ ToolConnects(n) \/ Drop(n) \/ NewHostKey(n)
           \/ ToolReads \/ ToolHasRead \/ Restart \/ UNCHANGED vars
    PROVE  SeenInv'
<1>1. ASSUME NEW n \in Nodes, Deregister(n)
      PROVE  SeenInv'
  <2>1. /\ \A m \in Nodes : file'[m] = file[m] \/ file'[m] = None
        /\ UNCHANGED <<clock, tmp, job, loop>> /\ UNCHANGED snapVars
    BY <1>1 DEF Deregister, Unlink, Typed, FilesTypeOK
  <2>2. Goes /\ (Loading' => Loading)
    BY <2>1 DEF Goes, Loading
  <2>3. QED BY <2>1, <2>2, SeenKept
<1>2. ASSUME NEW n \in Nodes, ToolConnects(n) \/ Drop(n) \/ NewHostKey(n)
      PROVE  SeenInv'
  <2>1. UNCHANGED <<file, clock, tmp, job, loop>> /\ UNCHANGED snapVars
    BY <1>2 DEF ToolConnects, Drop, NewHostKey, fileVars
  <2>2. Goes /\ (Loading' => Loading)
    BY <2>1 DEF Goes, Loading
  <2>3. QED BY <2>1, <2>2, SeenKept
<1>3. CASE ToolReads
  <2>1. UNCHANGED <<file, clock, tmp, job>> /\ snap' = Contents /\ snapTime' = snapTime
    BY <1>3 DEF ToolReads, ReadFiles, fileVars
  <2>2. Goes
    BY <2>1 DEF Goes
  <2>3. QED BY <2>1, <2>2, ReadsSee DEF Whole
<1>4. CASE ToolHasRead
  <2>1. loop = Tool /\ NoteTime /\ UNCHANGED <<file, clock, tmp, job>>
    BY <1>4 DEF ToolHasRead, fileVars
  <2>2. Goes /\ Loading
    BY <2>1 DEF Goes, Loading
  <2>3. \A r \in Requests : job'[r].at # "replace"
    BY <2>1, Requested DEF Whole, WritesAlone, Busy, Writing
  <2>4. QED BY <2>1, <2>2, <2>3, NoteSees
<1>5. CASE Restart
  <2>1. UNCHANGED <<file, clock, tmp>> /\ snap' = Contents /\ snapTime' = Newest
    BY <1>5 DEF Restart
  <2>2. \A r \in Requests : \/ job'[r] = job[r] /\ (At(r, "idle") \/ Answered(r))
                            \/ job'[r].at = "lost"
    BY <1>5, Requested DEF Restart, Quiet, ClockSuffices
  <2>3. \A r \in Requests : job'[r].at # "replace"
    BY <2>2 DEF At, Answered
  <2>4. Goes
    BY <2>1, <2>2, <2>3 DEF Goes
  <2>5. QED BY <2>1, <2>3, <2>4, ReadsSee DEF Whole
<1>6. CASE UNCHANGED vars
  <2>1. UNCHANGED <<file, clock, tmp, job, loop>> /\ UNCHANGED snapVars
    BY <1>6 DEF vars, fileVars
  <2>2. Goes /\ (Loading' => Loading)
    BY <2>1 DEF Goes, Loading
  <2>3. QED BY <2>1, <2>2, SeenKept
<1>7. QED BY <1>1, <1>2, <1>3, <1>4, <1>5, <1>6

(* InventoryWatcher.get: however registrations, tools and restarts interleave, once the
   watcher sees no reason to read again it has every entry there is as it was written last
   (WritesSeen): the read never takes a file for older than it is.  Of the bound of the model
   on the clock this needs a tick for every registration; of the program, that nobody uses
   `vpsmcp node`, as in the run. *)
THEOREM WritesAreSeen == ClockSuffices => (Spec => []WritesSeen)
<1> SUFFICES ASSUME ClockSuffices PROVE Spec => []WritesSeen
  OBVIOUS
<1>1. Init => Typed /\ Whole /\ SeenInv
  BY TypedInit, WholeInit, SeenInit
<1>2. Typed /\ Whole /\ SeenInv /\ [Next]_vars => Typed' /\ Whole' /\ SeenInv'
  <2>0. Commands = {}
    BY DEF ClockSuffices
  <2>1. Typed /\ Whole /\ [Next]_vars => Typed' /\ Whole'
    BY <2>0, TypedStep, RequestWhole, WriterWhole, OtherWhole DEF Next, Writers
  <2>2. Typed /\ Whole /\ SeenInv /\ [Next]_vars => SeenInv'
    BY <2>0, RequestSeen, WriterSeen, OtherSeen DEF Next, Writers
  <2>3. QED BY <2>1, <2>2
<1>3. Typed /\ Whole /\ SeenInv => WritesSeen
  <2> SUFFICES ASSUME Typed, Whole, SeenInv, Current, NEW n \in Nodes, Contents[n] # None
               PROVE  snap[n] = Contents[n]
    BY DEF WritesSeen
  <2>1. file[n] # None
    BY DEF Contents, Data
  <2>2. Contents[n] = file[n].data
    BY <2>1, ContentsWhole DEF Whole
  <2>3. file[n].time <= snapTime
    BY <2>1, NewestFacts DEF Current
  <2>4. QED BY <2>1, <2>2, <2>3 DEF SeenInv, Seen
<1>4. QED BY <1>1, <1>2, <1>3, PTL DEF Spec

------------------------------------------------------------------------------
(* Files with any number of processes (TornOnlyByTwo). *)
Amid(w) == job[w].at \in {"fill", "replace"}

(* A file is open between the truncation and the write, and then that of the job. *)
HandleOf(w) == handle[w] # None => job[w].at = "fill" /\ handle[w].node = job[w].node

(* What a writer that met nobody finds in the temporary file is its own. *)
Untouched(w) ==
    w \notin crossed =>
        /\ job[w].at = "fill" => /\ handle[w] = [node |-> job[w].node, to |-> "tmp"]
                                 /\ Data(tmp[job[w].node]) = Torn
        /\ job[w].at = "replace" => Data(tmp[job[w].node]) # Torn

(* Two that are amid a write of one node have met. *)
Pairs ==
    \A v, w \in Writers :
        v # w /\ Amid(v) /\ Amid(w) /\ job[v].node = job[w].node => v \in crossed

Met == Pairs /\ \A w \in Writers : HandleOf(w) /\ Untouched(w)

LEMMA MetInit == Init => Met
<1> SUFFICES ASSUME Init PROVE Met
  OBVIOUS
<1>1. \A w \in Writers : job[w].at = "idle" /\ handle[w] = None
  BY DEF Init, FilesInit, Quiet
<1>2. QED BY <1>1 DEF Met, Pairs, HandleOf, Untouched, Amid

(* A writer that neither truncates, nor writes, nor moves: it goes on with its write, of which
   another one may have removed the file, or leaves it and closes its handle. *)
Keeps(w) ==
    \/ /\ job'[w] = job[w]
       /\ handle'[w] = handle[w] \/ (handle[w].to = "file" /\ handle'[w] = None)
    \/ job'[w].at \notin {"fill", "replace"} /\ handle'[w] = None

LEMMA MetKept ==
    ASSUME Typed, Met, crossed' = crossed, tmp' = tmp,
           \A n \in Nodes : file'[n] \in {file[n], None},
           \A w \in Writers : Keeps(w)
    PROVE  Met' /\ TornByCrossed
<1>1. ASSUME NEW w \in Writers
      PROVE  HandleOf(w)'
  BY DEF Keeps, Met, HandleOf
<1>2. ASSUME NEW w \in Writers
      PROVE  Untouched(w)'
  <2>1. CASE job'[w].at \notin {"fill", "replace"}
    BY <2>1 DEF Untouched
  <2>2. CASE job'[w] = job[w] /\ handle'[w] = handle[w]
    BY <2>2 DEF Met, Untouched, Data
  <2>3. CASE job'[w] = job[w] /\ handle[w].to = "file"
    <3>1. handle[w] # [node |-> job[w].node, to |-> "tmp"]
      BY <2>3
    <3>2. QED BY <2>3, <3>1 DEF Met, Untouched, Data
  <2>4. QED BY <2>1, <2>2, <2>3 DEF Keeps
<1>3. Pairs'
  <2>1. \A w \in Writers : Amid(w)' => job'[w] = job[w]
    BY DEF Keeps, Amid
  <2>2. QED BY <2>1 DEF Met, Pairs, Amid
<1>4. TornByCrossed
  BY EnrollAssumption DEF TornByCrossed, Data
<1>5. QED BY <1>1, <1>2, <1>3, <1>4 DEF Met

(* The removal of an entry closes handles on it and no other ones. *)
LEMMA UnlinkKeeps ==
    ASSUME Typed, NEW n \in Nodes, Unlink(n)
    PROVE  /\ tmp' = tmp /\ \A m \in Nodes : file'[m] \in {file[m], None}
           /\ \A w \in Writers : \/ handle'[w] = handle[w]
                                 \/ handle[w].to = "file" /\ handle'[w] = None
BY DEF Unlink, OpenOn, Typed, FilesTypeOK

(* One writer goes on, outside of the write. *)
LEMMA OneKeeps ==
    ASSUME Typed, Met, NEW w \in Writers, NEW j, job' = [job EXCEPT ![w] = j],
           j.at \notin {"fill", "replace"}, job[w].at # "fill",
           \A v \in Writers : \/ handle'[v] = handle[v]
                              \/ handle[v].to = "file" /\ handle'[v] = None
    PROVE  \A v \in Writers : Keeps(v)
<1>1. handle[w] = None
  BY DEF Met, HandleOf
<1>2. handle'[w] = None
  BY <1>1
<1>3. job'[w] = j /\ \A v \in Writers \ {w} : job'[v] = job[v]
  BY DEF Typed, JobsOK
<1>4. QED BY <1>2, <1>3 DEF Keeps

LEMMA RequestMet ==
    ASSUME Typed, Met, NEW r \in Requests,
           \/ Register(r) \/ RegisterPending(r)
           \/ GetSnapshot(r) \/ GetReads(r) \/ GetRead(r)
           \/ Acquire(r) \/ Probe(r) \/ RegisterFails(r)
    PROVE  Met' /\ TornByCrossed
<1>0. r \in Writers /\ job[r] \in Job
  BY DEF Writers, Typed, JobsOK
<1>k. ASSUME NEW j, job' = [job EXCEPT ![r] = j], j.at \notin {"fill", "replace"},
             job[r].at # "fill", crossed' = crossed, fileVars' = fileVars
      PROVE  Met' /\ TornByCrossed
  <2>1. \A w \in Writers : Keeps(w)
    BY <1>0, <1>k, OneKeeps DEF fileVars
  <2>2. QED BY <1>k, <2>1, MetKept DEF fileVars
<1>u. ASSUME Undo(r), crossed' = crossed, job[r].at \in Trial
      PROVE  Met' /\ TornByCrossed
  <2> DEFINE j == [Quiet EXCEPT !.at = "failed"]
  <2>1. j.at = "failed" /\ job' = [job EXCEPT ![r] = j]
    BY <1>u DEF Quiet, Undo
  <2> HIDE DEF j
  <2>2. job[r].node \in Nodes /\ job[r].at # "fill"
    BY <1>0, <1>u DEF Typed, JobsOK, Sound, Trial
  <2>3. Unlink(job[r].node)
    BY <1>u DEF Undo
  <2>4. /\ tmp' = tmp /\ \A m \in Nodes : file'[m] \in {file[m], None}
        /\ \A w \in Writers : \/ handle'[w] = handle[w]
                              \/ handle[w].to = "file" /\ handle'[w] = None
    BY <2>2, <2>3, UnlinkKeeps
  <2>5. \A w \in Writers : Keeps(w)
    BY <1>0, <2>1, <2>2, <2>4, OneKeeps
  <2>6. QED BY <1>u, <2>4, <2>5, MetKept
<1>g. ASSUME LookUp(r, snap), crossed' = crossed, job[r].at \in {"get", "stat"}
      PROVE  Met' /\ TornByCrossed
  <2>1. CASE snap[job[r].node] = None
    BY <1>g, <1>u, <2>1 DEF LookUp, Trial
  <2>2. CASE snap[job[r].node] # None
    <3> DEFINE j == [job[r] EXCEPT !.at = "acquire", !.key = snap[job[r].node].key]
    <3>1. j.at = "acquire" /\ job' = [job EXCEPT ![r] = j] /\ fileVars' = fileVars
      BY <1>0, <1>g, <2>2 DEF LookUp, Job
    <3> HIDE DEF j
    <3>2. QED BY <1>g, <1>k, <3>1
  <2>3. QED BY <2>1, <2>2
<1>1. CASE Register(r)
  <2>1. PICK n \in Nodes, k \in Keys :
            job' = [job EXCEPT ![r] = [Quiet EXCEPT !.at = "open", !.node = n,
                                                    !.host = Report(r, k)]]
    BY <1>1 DEF Register
  <2> DEFINE j == [Quiet EXCEPT !.at = "open", !.node = n, !.host = Report(r, k)]
  <2>2. j.at = "open" /\ job' = [job EXCEPT ![r] = j]
    BY <2>1 DEF Quiet
  <2> HIDE DEF j
  <2>3. QED BY <1>1, <1>k, <2>2 DEF Register, At
<1>2. CASE RegisterPending(r)
  <2>1. [job[r] EXCEPT !.at = "pending"].at = "pending"
    BY <1>0 DEF Job
  <2>2. QED BY <1>2, <1>k, <2>1 DEF RegisterPending, At, Goto
<1>3. CASE GetSnapshot(r) \/ GetRead(r)
  BY <1>3, <1>g DEF GetSnapshot, GetRead, At
<1>4. CASE GetReads(r)
  <2>1. [job[r] EXCEPT !.at = "stat"].at = "stat"
    BY <1>0 DEF Job
  <2>2. QED BY <1>4, <1>k, <2>1 DEF GetReads, At, Goto
<1>5. CASE Acquire(r)
  <2> DEFINE j == [job[r] EXCEPT !.at = "probe", !.key = conn'[job[r].node]]
  <2>1. j.at = "probe" /\ job' = [job EXCEPT ![r] = j]
    BY <1>0, <1>5 DEF Acquire, Job
  <2> HIDE DEF j
  <2>2. QED BY <1>5, <1>k, <2>1 DEF Acquire, At
<1>6. CASE Probe(r)
  <2>1. [Quiet EXCEPT !.at = "ok"].at = "ok"
    BY DEF Quiet
  <2>2. QED BY <1>6, <1>k, <2>1 DEF Probe, At
<1>7. CASE RegisterFails(r)
  BY <1>7, <1>u DEF RegisterFails, At, Trial
<1>8. QED BY <1>1, <1>2, <1>3, <1>4, <1>5, <1>6, <1>7

LEMMA OpenMet ==
    ASSUME Typed, Met, NEW w \in Writers, Open(w)
    PROVE  Met' /\ TornByCrossed
<1> DEFINE n == job[w].node
<1> DEFINE j == [job[w] EXCEPT !.at = "fill"]
<1>0. job[w] \in Job /\ n \in Nodes /\ job[w].at = "open"
  BY DEF Open, At, Typed, JobsOK, Sound, Writing
<1>1. job' = [job EXCEPT ![w] = j] /\ j.at = "fill" /\ j.node = n
  BY <1>0 DEF Open, Goto, Job
<1> HIDE DEF j, n
<1>2. /\ job'[w] = j /\ \A v \in Writers \ {w} : job'[v] = job[v]
      /\ \A v \in Writers : job'[v].node = job[v].node
  BY <1>1 DEF Typed, JobsOK, n
<1>3. /\ handle'[w] = [node |-> n, to |-> "tmp"] /\ file' = file
      /\ \A v \in Writers \ {w} : handle'[v] = handle[v]
      /\ tmp'[n] = [data |-> Torn, time |-> clock]
      /\ \A m \in Nodes \ {n} : tmp'[m] = tmp[m]
  BY <1>0 DEF Open, Truncate, Typed, FilesTypeOK, n
<1>4. crossed \ {w} \subseteq crossed' /\ Meets(w) \subseteq crossed'
      /\ (Meets(w) # {} => w \in crossed')
  BY DEF Open
<1>5. Data(tmp'[n]) = Torn
  <2>1. [data |-> Torn, time |-> clock] \in EntryFile
    BY DEF Typed, FilesTypeOK, EntryFile
  <2>2. [data |-> Torn, time |-> clock] # None
    BY <2>1, ValuesAssumption
  <2>3. QED BY <1>3, <2>2 DEF Data
<1>6. HandleOf(w)' /\ Untouched(w)'
  BY <1>1, <1>2, <1>3, <1>5 DEF HandleOf, Untouched, Data
<1>7. ASSUME NEW v \in Writers, v # w
      PROVE  HandleOf(v)' /\ Untouched(v)'
  <2>1. HandleOf(v)'
    BY <1>2, <1>3, <1>7 DEF Met, HandleOf
  <2>2. ASSUME v \notin crossed', Amid(v)
        PROVE  v \notin crossed /\ tmp'[job[v].node] = tmp[job[v].node]
    <3>1. v \notin Meets(w) /\ v \notin crossed
      BY <1>4, <1>7, <2>2
    <3>2. job[v].node # n
      BY <1>7, <2>2, <3>1 DEF Meets, Amid, n
    <3>3. job[v].node \in Nodes
      BY <2>2 DEF Amid, Typed, JobsOK, Sound, Writing
    <3>4. QED BY <1>3, <3>1, <3>2, <3>3
  <2>3. Untouched(v)'
    BY <1>2, <1>3, <1>7, <2>2 DEF Met, Untouched, Amid, Data
  <2>4. QED BY <2>1, <2>3
<1>8. Pairs'
  <2> SUFFICES ASSUME NEW u \in Writers, NEW v \in Writers, u # v, Amid(u)', Amid(v)',
                      job'[u].node = job'[v].node
               PROVE  u \in crossed'
    BY DEF Pairs
  <2>1. CASE u = w
    BY <1>2, <1>4, <2>1 DEF Amid, Meets
  <2>2. CASE v = w
    BY <1>2, <1>4, <2>2 DEF Amid, Meets
  <2>3. CASE u # w /\ v # w
    <3>1. Amid(u) /\ Amid(v) /\ job[u].node = job[v].node
      BY <1>2, <2>3 DEF Amid
    <3>2. u \in crossed
      BY <3>1 DEF Met, Pairs
    <3>3. QED BY <1>4, <2>3, <3>2
  <2>4. QED BY <2>1, <2>2, <2>3
<1>9. TornByCrossed
  BY <1>3 DEF TornByCrossed
<1>10. QED BY <1>6, <1>7, <1>8, <1>9 DEF Met

(* A writer amid its write moves on; those that write another node see nothing of it. *)
LEMMA OthersMet ==
    ASSUME Typed, Met, NEW w \in Writers, Amid(w), crossed' = crossed,
           \A v \in Writers \ {w} : job'[v] = job[v],
           job'[w].node = job[w].node \/ ~Amid(w)',
           \A v \in Writers \ {w} :
               handle[v] = None \/ handle[v].node # job[w].node => handle'[v] = handle[v],
           \A v \in Writers \ {w} :
               handle'[v] # None => handle[v] # None /\ handle'[v].node = handle[v].node,
           \A m \in Nodes \ {job[w].node} : tmp'[m] = tmp[m]
    PROVE  Pairs' /\ \A v \in Writers \ {w} : HandleOf(v)' /\ Untouched(v)'
<1>1. Pairs'
  <2> SUFFICES ASSUME NEW u \in Writers, NEW v \in Writers, u # v, Amid(u)', Amid(v)',
                      job'[u].node = job'[v].node
               PROVE  u \in crossed
    BY DEF Pairs
  <2>1. \A x \in {u, v} : Amid(x) /\ job'[x].node = job[x].node
    BY DEF Amid
  <2>2. QED BY <2>1 DEF Met, Pairs
<1>2. ASSUME NEW v \in Writers, v # w
      PROVE  HandleOf(v)' /\ Untouched(v)'
  <2>0. /\ job'[v] = job[v] /\ HandleOf(v) /\ Untouched(v)
        /\ handle[v] = None \/ handle[v].node # job[w].node => handle'[v] = handle[v]
        /\ handle'[v] # None => handle[v] # None /\ handle'[v].node = handle[v].node
    BY <1>2 DEF Met
  <2>1. HandleOf(v)'
    BY <2>0 DEF HandleOf
  <2>2. CASE v \in crossed \/ ~Amid(v)
    <3>1. v \in crossed' \/ job'[v].at \notin {"fill", "replace"}
      BY <2>0, <2>2 DEF Amid
    <3>2. QED BY <2>1, <3>1 DEF Untouched
  <2>3. CASE v \notin crossed /\ Amid(v)
    <3>1. job[v].node # job[w].node
      BY <1>2, <2>3 DEF Met, Pairs
    <3>2. job[v].node \in Nodes
      BY <2>3 DEF Amid, Typed, JobsOK, Sound, Writing
    <3>3. tmp'[job[v].node] = tmp[job[v].node]
      BY <3>1, <3>2
    <3>4. handle'[v] = handle[v]
      BY <2>0, <3>1 DEF HandleOf
    <3>5. Data(tmp'[job'[v].node]) = Data(tmp[job[v].node])
      BY <2>0, <3>3 DEF Data
    <3>6. QED BY <2>0, <2>1, <2>3, <3>4, <3>5 DEF Untouched
  <2>4. QED BY <2>1, <2>2, <2>3
<1>3. QED BY <1>1, <1>2

LEMMA FillMet ==
    ASSUME Typed, Met, NEW w \in Writers, Fill(w)
    PROVE  Met' /\ TornByCrossed
<1> DEFINE n == job[w].node
<1> DEFINE j == [job[w] EXCEPT !.at = "replace"]
<1> DEFINE h == job[w].host
<1>0. job[w] \in Job /\ n \in Nodes /\ h \in Host /\ job[w].at = "fill" /\ Write(w, h)
  BY DEF Fill, At, Typed, JobsOK, Sound, Writing
<1>1. job' = [job EXCEPT ![w] = j] /\ j.at = "replace" /\ j.node = n /\ crossed' = crossed
  BY <1>0 DEF Fill, Goto, Job
<1> HIDE DEF j, n, h
<1>2. job'[w] = j /\ \A v \in Writers \ {w} : job'[v] = job[v]
  BY <1>1 DEF Typed, JobsOK
<1>3. handle'[w] = None /\ \A v \in Writers \ {w} : handle'[v] = handle[v]
  BY <1>0 DEF Write, Typed, FilesTypeOK
<1>4. handle[w] # None => handle[w].node = n
  BY DEF Met, HandleOf, n
<1>5. CASE w \in crossed
  <2>1. \A m \in Nodes : m # n => tmp'[m] = tmp[m] /\ file'[m] = file[m]
    <3>1. CASE UNCHANGED <<file, tmp>>
      BY <3>1
    <3>2. CASE handle[w] # None
      <4>1. \/ file' = file /\ \E d : tmp' = [tmp EXCEPT ![n] = [data |-> d, time |-> Now]]
            \/ tmp' = tmp /\ \E d : file' = [file EXCEPT ![n] = [data |-> d, time |-> Now]]
        BY <1>0, <1>4, <3>2 DEF Write
      <4>2. QED BY <4>1 DEF Typed, FilesTypeOK
    <3>3. QED BY <1>0, <3>1, <3>2 DEF Write
  <2>2. Pairs' /\ \A v \in Writers \ {w} : HandleOf(v)' /\ Untouched(v)'
    BY <1>0, <1>1, <1>2, <1>3, <2>1, OthersMet DEF Amid, n
  <2>3. HandleOf(w)' /\ Untouched(w)'
    BY <1>1, <1>3, <1>5 DEF HandleOf, Untouched
  <2>4. TornByCrossed
    BY <1>0, <1>1, <1>2, <1>5, <2>1 DEF TornByCrossed, n
  <2>5. QED BY <2>2, <2>3, <2>4 DEF Met
<1>6. CASE w \notin crossed
  <2>1. handle[w] = [node |-> n, to |-> "tmp"] /\ Data(tmp[n]) = Torn
    BY <1>0, <1>6 DEF Met, Untouched, n
  <2>2. handle[w] # None /\ handle[w].node = n /\ handle[w].to = "tmp"
    BY <1>0, <2>1, ValuesAssumption DEF OpenFile
  <2>3. tmp[n].data = Torn
    BY <2>1, EnrollAssumption DEF Data
  <2>4. Overwritten(tmp[n], h) = {h}
    BY <2>3 DEF Overwritten
  <2>5. tmp' = [tmp EXCEPT ![n] = [data |-> h, time |-> Now]] /\ file' = file
    BY <1>0, <2>2, <2>4 DEF Write
  <2>6. Data(tmp'[n]) # Torn /\ \A m \in Nodes \ {n} : tmp'[m] = tmp[m]
    BY <1>0, <2>5, ValuesAssumption, EnrollAssumption DEF Data, Typed, FilesTypeOK
  <2>7. Pairs' /\ \A v \in Writers \ {w} : HandleOf(v)' /\ Untouched(v)'
    BY <1>0, <1>1, <1>2, <1>3, <2>6, OthersMet DEF Amid, n
  <2>8. HandleOf(w)' /\ Untouched(w)'
    BY <1>1, <1>2, <1>3, <2>6 DEF HandleOf, Untouched, Data
  <2>9. TornByCrossed
    BY <2>5 DEF TornByCrossed
  <2>10. QED BY <2>7, <2>8, <2>9 DEF Met
<1>7. QED BY <1>5, <1>6

LEMMA ReplaceMet ==
    ASSUME Typed, Met, NEW w \in Writers, Replace(w)
    PROVE  Met' /\ TornByCrossed
<1> DEFINE n == job[w].node
<1> DEFINE j == IF w \in Commands THEN Quiet
                ELSE [job[w] EXCEPT !.at = "get", !.before = Data(file[job[w].node])]
<1>0. job[w] \in Job /\ n \in Nodes /\ job[w].at = "replace" /\ MoveIntoPlace(n)
  BY DEF Replace, At, Typed, JobsOK, Sound, Writing
<1>1. job' = [job EXCEPT ![w] = j] /\ j.at \in {"idle", "get"} /\ crossed' = crossed
  BY <1>0 DEF Replace, Job, Quiet
<1> HIDE DEF j, n
<1>2. job'[w] = j /\ \A v \in Writers \ {w} : job'[v] = job[v]
  BY <1>1 DEF Typed, JobsOK
<1>3. \A to \in {"tmp", "file"} : [node |-> n, to |-> to] # None
  BY <1>0, ValuesAssumption DEF OpenFile
<1>4. ASSUME NEW v \in Writers
      PROVE  /\ handle[v] = None \/ handle[v].node # n => handle'[v] = handle[v]
             /\ handle'[v] # None => handle[v] # None /\ handle'[v].node = handle[v].node
  <2>1. handle'[v] = IF handle[v] = [node |-> n, to |-> "tmp"] THEN [node |-> n, to |-> "file"]
                     ELSE IF handle[v] = [node |-> n, to |-> "file"] THEN None
                     ELSE handle[v]
    BY <1>0 DEF MoveIntoPlace, OpenOn
  <2>2. CASE handle[v] = [node |-> n, to |-> "tmp"]
    BY <1>3, <2>1, <2>2
  <2>3. CASE handle[v] = [node |-> n, to |-> "file"]
    BY <1>3, <2>1, <2>3
  <2>4. CASE handle'[v] = handle[v]
    BY <2>4
  <2>5. QED BY <2>1, <2>2, <2>3, <2>4
<1>5. /\ \A m \in Nodes \ {n} : tmp'[m] = tmp[m] /\ file'[m] = file[m]
      /\ file'[n] = tmp[n]
  BY <1>0 DEF MoveIntoPlace, Typed, FilesTypeOK
<1>6. Pairs' /\ \A v \in Writers \ {w} : HandleOf(v)' /\ Untouched(v)'
  BY <1>0, <1>1, <1>2, <1>4, <1>5, OthersMet DEF Amid, n
<1>7. HandleOf(w)' /\ Untouched(w)'
  <2>1. handle[w] = None
    BY <1>0 DEF Met, HandleOf
  <2>2. handle'[w] = None
    BY <1>4, <2>1
  <2>3. QED BY <1>1, <1>2, <2>2 DEF HandleOf, Untouched
<1>8. TornByCrossed
  <2>1. Data(tmp[n]) = Torn => w \in crossed
    BY <1>0 DEF Met, Untouched, n
  <2>2. job[w].node = n /\ job'[w] # job[w]
    BY <1>0, <1>1, <1>2 DEF n
  <2>3. QED BY <1>0, <1>5, <2>1, <2>2 DEF TornByCrossed, Data
<1>9. QED BY <1>6, <1>7, <1>8 DEF Met

LEMMA ReplaceFailsMet ==
    ASSUME Typed, Met, NEW w \in Writers, ReplaceFails(w)
    PROVE  Met' /\ TornByCrossed
<1> DEFINE j == IF w \in Commands THEN Quiet ELSE [Quiet EXCEPT !.at = "error"]
<1>1. /\ job' = [job EXCEPT ![w] = j] /\ j.at \in {"idle", "error"}
      /\ job[w].at = "replace" /\ crossed' = crossed /\ fileVars' = fileVars
  BY DEF ReplaceFails, At, Quiet
<1> HIDE DEF j
<1>2. \A v \in Writers : Keeps(v)
  BY <1>1, OneKeeps DEF fileVars
<1>3. QED BY <1>1, <1>2, MetKept DEF fileVars

LEMMA CommandMet ==
    ASSUME Typed, Met, NEW c \in Commands,
           \/ CliEdit(c) \/ CliRemove(c) \/ CliUnlink(c) \/ CliForget(c)
           \/ CliApprove(c) \/ CliTake(c) \/ CliInterrupted(c)
    PROVE  Met' /\ TornByCrossed
<1>0. c \in Writers /\ job[c] \in Job
  BY DEF Writers, Typed, JobsOK
<1>k. ASSUME NEW j, job' = [job EXCEPT ![c] = j], j.at \notin {"fill", "replace"},
             job[c].at # "fill", crossed' = crossed, fileVars' = fileVars
      PROVE  Met' /\ TornByCrossed
  <2>1. \A w \in Writers : Keeps(w)
    BY <1>0, <1>k, OneKeeps DEF fileVars
  <2>2. QED BY <1>k, <2>1, MetKept DEF fileVars
<1>1. CASE CliEdit(c)
  <2>1. PICK n \in Nodes :
            job' = [job EXCEPT ![c] = [Quiet EXCEPT !.at = "open", !.node = n,
                                            !.host = [Contents[n] EXCEPT !.label = "admin"]]]
    BY <1>1 DEF CliEdit
  <2> DEFINE j == [Quiet EXCEPT !.at = "open", !.node = n,
                                !.host = [Contents[n] EXCEPT !.label = "admin"]]
  <2>2. j.at = "open" /\ job' = [job EXCEPT ![c] = j]
    BY <2>1 DEF Quiet
  <2> HIDE DEF j
  <2>3. QED BY <1>1, <1>k, <2>2 DEF CliEdit, At
<1>2. CASE CliRemove(c)
  <2>1. PICK n \in Nodes :
            job' = [job EXCEPT ![c] = [Quiet EXCEPT !.at = "unlink", !.node = n]]
    BY <1>2 DEF CliRemove
  <2> DEFINE j == [Quiet EXCEPT !.at = "unlink", !.node = n]
  <2>2. j.at = "unlink" /\ job' = [job EXCEPT ![c] = j]
    BY <2>1 DEF Quiet
  <2> HIDE DEF j
  <2>3. QED BY <1>2, <1>k, <2>2 DEF CliRemove, At
<1>3. CASE CliUnlink(c)
  <2> DEFINE j == [job[c] EXCEPT !.at = "forget"]
  <2>1. /\ j.at = "forget" /\ job' = [job EXCEPT ![c] = j]
        /\ job[c].at = "unlink" /\ crossed' = crossed
    BY <1>0, <1>3 DEF CliUnlink, Goto, At, Job
  <2> HIDE DEF j
  <2>2. job[c].node \in Nodes
    BY <1>0, <2>1 DEF Typed, JobsOK, Sound
  <2>3. Unlink(job[c].node)
    BY <1>3 DEF CliUnlink
  <2>4. /\ tmp' = tmp /\ \A m \in Nodes : file'[m] \in {file[m], None}
        /\ \A w \in Writers : \/ handle'[w] = handle[w]
                              \/ handle[w].to = "file" /\ handle'[w] = None
    BY <2>2, <2>3, UnlinkKeeps
  <2>5. \A w \in Writers : Keeps(w)
    BY <1>0, <2>1, <2>4, OneKeeps
  <2>6. QED BY <2>1, <2>4, <2>5, MetKept
<1>4. CASE CliForget(c)
  BY <1>4, <1>k DEF CliForget, At, Quiet
<1>5. CASE CliApprove(c)
  <2>1. PICK n \in Nodes :
            job' = [job EXCEPT ![c] = [Quiet EXCEPT !.at = "take", !.node = n,
                                                    !.host = pending[n]]]
    BY <1>5 DEF CliApprove
  <2> DEFINE j == [Quiet EXCEPT !.at = "take", !.node = n, !.host = pending[n]]
  <2>2. j.at = "take" /\ job' = [job EXCEPT ![c] = j]
    BY <2>1 DEF Quiet
  <2> HIDE DEF j
  <2>3. QED BY <1>5, <1>k, <2>2 DEF CliApprove, At
<1>6. CASE CliTake(c)
  <2>1. [job[c] EXCEPT !.at = "open"].at = "open"
    BY <1>0 DEF Job
  <2>2. QED BY <1>6, <1>k, <2>1 DEF CliTake, At, Goto
<1>7. CASE CliInterrupted(c)
  <2>1. /\ job'[c] = Quiet /\ handle'[c] = None
        /\ \A w \in Writers \ {c} : job'[w] = job[w] /\ handle'[w] = handle[w]
    BY <1>0, <1>7 DEF CliInterrupted, Typed, JobsOK, FilesTypeOK
  <2>2. \A w \in Writers : Keeps(w)
    BY <2>1 DEF Keeps, Quiet
  <2>3. QED BY <1>7, <2>2, MetKept DEF CliInterrupted
<1>8. QED BY <1>1, <1>2, <1>3, <1>4, <1>5, <1>6, <1>7

LEMMA OtherMet ==
    ASSUME Typed, Met,
           \/ \E n \in Nodes : Deregister(n) \/ ToolConnects(n) \/ Drop(n) \/ NewHostKey(n)
           \/ ToolReads \/ ToolHasRead \/ Restart \/ UNCHANGED vars
    PROVE  Met' /\ TornByCrossed
<1>k. ASSUME job' = job, crossed' = crossed, fileVars' = fileVars
      PROVE  Met' /\ TornByCrossed
  BY <1>k, MetKept DEF fileVars, Keeps
<1>1. ASSUME NEW n \in Nodes, Deregister(n)
      PROVE  Met' /\ TornByCrossed
  <2>1. /\ tmp' = tmp /\ \A m \in Nodes : file'[m] \in {file[m], None}
        /\ \A w \in Writers : \/ handle'[w] = handle[w]
                              \/ handle[w].to = "file" /\ handle'[w] = None
    BY <1>1, UnlinkKeeps DEF Deregister
  <2>2. job' = job /\ crossed' = crossed
    BY <1>1 DEF Deregister
  <2>3. \A w \in Writers : Keeps(w)
    BY <2>1, <2>2 DEF Keeps
  <2>4. QED BY <2>1, <2>2, <2>3, MetKept
<1>2. ASSUME NEW n \in Nodes, ToolConnects(n) \/ Drop(n) \/ NewHostKey(n)
      PROVE  Met' /\ TornByCrossed
  BY <1>2, <1>k DEF ToolConnects, Drop, NewHostKey
<1>3. CASE ToolReads \/ ToolHasRead \/ UNCHANGED vars
  BY <1>3, <1>k DEF ToolReads, ToolHasRead, vars
<1>4. CASE Restart
  <2>1. ASSUME NEW w \in Writers
        PROVE  Keeps(w)
    <3>1. CASE w \in Commands
      <4>1. w \notin Requests
        BY <3>1, EnrollAssumption
      <4>2. QED BY <1>4, <3>1, <4>1 DEF Restart, Keeps
    <3>2. CASE w \notin Commands
      <4>1. w \in Requests
        BY <3>2 DEF Writers
      <4>2. handle'[w] = None
        BY <1>4, <4>1 DEF Restart
      <4>3. job'[w].at \notin {"fill", "replace"}
        BY <1>4, <3>2 DEF Restart, At, Answered, Quiet
      <4>4. QED BY <4>2, <4>3 DEF Keeps
    <3>3. QED BY <3>1, <3>2
  <2>2. QED BY <1>4, <2>1, MetKept DEF Restart
<1>5. QED BY <1>1, <1>2, <1>3, <1>4

(* Whatever the gateway and any number of processes of `vpsmcp node` do to the entries at once,
   and wherever they are stopped: an entry becomes empty or mixed only by a write that met
   another write of the same node (inventory.py, write_host). *)
THEOREM OnlyTwoTear == Spec => TornOnlyByTwo
<1>1. Init => Typed /\ Met
  BY TypedInit, MetInit
<1>2. Typed /\ Met /\ [Next]_vars => Met' /\ TornByCrossed
  BY RequestMet, OpenMet, FillMet, ReplaceMet, ReplaceFailsMet, CommandMet, OtherMet DEF Next
<1>3. Typed /\ [Next]_vars => Typed'
  BY TypedStep
<1>4. Typed /\ Met /\ [Next]_vars => [TornByCrossed]_vars
  BY <1>2
<1>5. QED BY <1>1, <1>2, <1>3, <1>4, PTL DEF Spec, TornOnlyByTwo
==============================================================================
