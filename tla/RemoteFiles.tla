------------------------------ MODULE RemoteFiles ------------------------------
(***************************************************************************)
(* The file tools (tools/files.py) on one path of one host: write_file with   *)
(* its backup, copy_between_hosts and delete_path.  Every step is a request   *)
(* to the host, so calls overlap, and any of them may be the last one before  *)
(* the connection is lost.                                                   *)
(*                                                                         *)
(* A content is the sequence of the pieces written, each by one call.        *)
(***************************************************************************)
EXTENDS Naturals, Sequences

CONSTANTS
    Writers,     \* the calls that write to the path
    Original,    \* the piece that was there before
    Absent,      \* no file
    MaxFile,     \* max_file_bytes, in pieces
    MaxClock     \* the seconds the backups may fall into

ASSUME FilesAssumption ==
    Original \notin Writers /\ {MaxFile, MaxClock} \subseteq Nat

VARIABLES
    target,    \* what is at the path
    backups,   \* what is at path.bak-<second>
    second,    \* the gateway's clock
    writer,    \* per call: its kind, where it is, the name of its backup
    source,    \* how many pieces the source of a copy has
    shadow,    \* history: what a call overwrote
    past,      \* history: what was at the path since a call looked, until it opens it
    met,       \* history: calls before whose open the path changed under their copy
    shared     \* history: calls whose backup another call's copy has replaced

history      == <<shadow, past, met, shared>>
fileToolVars == <<target, backups, second, writer, source, history>>

Kinds   == {"backup", "plain", "append", "copy"}
Spots   == {"new", "looked", "copying", "ready", "open", "unlinked", "done", "failed"}
NoName  == MaxClock + 1
Writer  == [kind : Kinds, at : Spots, name : 0..NoName, held : 0..MaxFile]
Content == {Absent} \cup Seq(Writers \cup {Original})

FilesTypeOK ==
    /\ target \in Content
    /\ backups \in [0..MaxClock -> Content]
    /\ second \in 0..MaxClock
    /\ writer \in [Writers -> Writer]
    /\ source \in Nat
    /\ shadow \in [Writers -> Content] /\ past \in [Writers -> SUBSET Content]
    /\ met \subseteq Writers /\ shared \subseteq Writers

FilesInit ==
    /\ target \in {<<Original>>, Absent}
    /\ backups = [t \in 0..MaxClock |-> Absent]
    /\ second = 0
    /\ writer \in [Writers -> [kind : Kinds, at : {"new"}, name : {NoName}, held : {0}]]
    /\ source \in 0..MaxFile + 1
    /\ shadow = [w \in Writers |-> Absent] /\ past = [w \in Writers |-> {}]
    /\ met = {} /\ shared = {}

------------------------------------------------------------------------------
Spot(w, spot)   == writer[w].at = spot
Is(w, kind)    == writer[w].kind = kind
MoveTo(w, spot) == writer' = [writer EXCEPT ![w].at = spot]

(* The calls whose copy of the file is not of what they will overwrite any more, and those
   that have yet to open it. *)
Copied  == {w \in Writers : writer[w].at \in {"copying", "ready"}}
Pending == {w \in Writers : writer[w].at \in {"looked", "copying", "ready"}}

(* The path has changed before the calls in W open it. *)
Recorded(W) == past' = [w \in Writers |-> IF w \in W THEN past[w] \cup {target'} ELSE past[w]]

(* write_file looks whether the file is there; append and backup=False need not know. *)
LookForFile(w) ==
    /\ Spot(w, "new") /\ ~ Is(w, "copy")
    /\ MoveTo(w, IF target # Absent /\ Is(w, "backup") THEN "looked" ELSE "ready")
    /\ past' = [past EXCEPT ![w] = {target}]
    /\ UNCHANGED <<target, backups, second, source, shadow, met, shared>>

NameBackup(w) ==
    /\ Spot(w, "looked")
    /\ writer' = [writer EXCEPT ![w].at = "copying", ![w].name = second]
    /\ UNCHANGED <<target, backups, second, source, history>>

(* Fault of CopyFails: the name is kept although nothing was copied. *)
CopyFailsSilently(w) ==
    /\ Spot(w, "copying")
    /\ MoveTo(w, "ready")
    /\ UNCHANGED <<target, backups, second, source, history>>

(* The cp fails, or the file is gone meanwhile: the write goes on without a backup. *)
CopyFails(w) ==
    /\ Spot(w, "copying")
    /\ writer' = [writer EXCEPT ![w].at = "ready", ![w].name = NoName]
    /\ UNCHANGED <<target, backups, second, source, history>>

(* cp -p: who has the same name loses the backup it had.  The answer may be lost. *)
CopyFile(w) ==
    /\ Spot(w, "copying") /\ target # Absent
    /\ backups' = [backups EXCEPT ![writer[w].name] = target]
    /\ met' = met \ {w}
    /\ shared' = (shared \ {w}) \cup {q \in Writers \ {w} : writer[q].name = writer[w].name}
    /\ \/ MoveTo(w, "ready")
       \/ writer' = [writer EXCEPT ![w].at = "ready", ![w].name = NoName]
    /\ UNCHANGED <<target, second, source, shadow, past>>

(* Fault of Relay: the whole source is read, as a stat that understates its size allows. *)
RelayAll(w) ==
    /\ Spot(w, "new") /\ Is(w, "copy")
    /\ writer' = [writer EXCEPT ![w].at = "ready", ![w].held = source]
    /\ UNCHANGED <<target, backups, second, source, history>>

(* read_capped asks for one more than the limit, whatever size the source claims, and
   refuses that. *)
ReadCapped == IF source > MaxFile THEN MaxFile + 1 ELSE source
Relay(w) ==
    /\ Spot(w, "new") /\ Is(w, "copy")
    /\ IF ReadCapped > MaxFile THEN MoveTo(w, "failed")
       ELSE writer' = [writer EXCEPT ![w].at = "ready", ![w].held = ReadCapped]
    /\ UNCHANGED <<target, backups, second, source, history>>

(* open(path, "wb") truncates at once; "ab" does not. *)
OpenFile(w) ==
    /\ Spot(w, "ready")
    /\ MoveTo(w, "open")
    /\ IF Is(w, "append")
       THEN target' = (IF target = Absent THEN <<>> ELSE target) /\ UNCHANGED <<shadow, met>>
       ELSE /\ target' = <<>>
            /\ shadow' = [shadow EXCEPT ![w] = target]
            /\ met' = met \cup (Copied \ {w})
    /\ Recorded(Pending \ {w})
    /\ UNCHANGED <<backups, second, source, shared>>

Written(w) ==
    IF Is(w, "copy") THEN [i \in 1..writer[w].held |-> w] ELSE <<w>>

(* A handle in mode "wb" writes at the beginning, over what another call has written; of a
   file removed since, nobody sees it. *)
WriteFile(w) ==
    /\ Spot(w, "open") \/ Spot(w, "unlinked")
    /\ MoveTo(w, "done")
    /\ target' = IF Spot(w, "unlinked") THEN target
                 ELSE IF Is(w, "append") THEN target \o Written(w)
                 ELSE Written(w) \o SubSeq(target, Len(Written(w)) + 1, Len(target))
    /\ met' = IF Spot(w, "unlinked") THEN met ELSE met \cup (Copied \ {w})
    /\ Recorded(Pending \ {w})
    /\ UNCHANGED <<backups, second, source, shadow, shared>>

(* The connection is lost, or the disk is full. *)
CallFails(w) ==
    /\ ~ Spot(w, "done") /\ ~ Spot(w, "failed")
    /\ MoveTo(w, "failed")
    /\ UNCHANGED <<target, backups, second, source, history>>

(* delete_path: an open handle keeps the file it has. *)
DeletePath ==
    /\ target # Absent /\ target' = Absent
    /\ met' = met \cup Copied /\ Recorded(Pending)
    /\ writer' = [w \in Writers |-> IF Spot(w, "open") THEN [writer[w] EXCEPT !.at = "unlinked"]
                                   ELSE writer[w]]
    /\ UNCHANGED <<backups, second, source, shadow, shared>>

ClockTicks ==
    /\ second < MaxClock /\ second' = second + 1
    /\ UNCHANGED <<target, backups, writer, source, history>>

FilesNext ==
    \/ DeletePath \/ ClockTicks
    \/ \E w \in Writers :
        \/ LookForFile(w) \/ NameBackup(w) \/ CopyFails(w) \/ CopyFile(w)
        \/ Relay(w) \/ OpenFile(w) \/ WriteFile(w) \/ CallFails(w)
FilesSpec == FilesInit /\ [][FilesNext]_fileToolVars

------------------------------------------------------------------------------
(* "Overwrites are backed up by default" (write_file): whatever other calls write, copy,
   append or delete meanwhile, who has overwritten the file and names a backup finds there a
   file that stood at the path between its look and its open, and never one that was left by
   an earlier call or that others were about to replace before it looked; and what it
   overwrote itself, if nobody changed the path between its cp and its open.  Two calls that
   take their names in one second are not promised that: the later cp replaces the backup of
   the earlier one, and may leave the file that was truncated already. *)
BackedUp ==
    \A w \in Writers :
        LET kept == backups[writer[w].name]
        IN  Is(w, "backup") /\ shadow[w] # Absent /\ writer[w].name # NoName /\ w \notin shared
                => /\ kept \in past[w] \ {Absent}
                   /\ w \notin met => kept = shadow[w]
==============================================================================
