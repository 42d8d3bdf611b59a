------------------------------ MODULE Inventory ------------------------------
(***************************************************************************)
(* The inventory (inventory.py): one file per enrolled node in hosts.d,     *)
(* written and removed by the gateway and by `vpsmcp node`, and the         *)
(* gateway's watcher, which keeps what it read last and reads again when    *)
(* the newest mtime is another one.                                         *)
(*                                                                         *)
(* Two processes may write one file at once, and both use the same          *)
(* temporary name: so a write is the truncation of <node>.yaml.tmp, the     *)
(* write through the handle, and the rename.  A handle follows its file     *)
(* when that is renamed, and a rename keeps the mtime.  A load is the read  *)
(* of the files, then the look at their mtimes.                             *)
(***************************************************************************)
EXTENDS Integers, FiniteSets, FiniteSetsExt

CONSTANTS
    Nodes,      \* node_ids
    Requests,   \* POST /enroll/register, each handled once
    Commands,   \* processes of `vpsmcp node`
    MaxTime,    \* bound on the clock: the first MaxTime writes get an mtime of their
                \* own, the others fall into one tick of the file system's clock
    None,
    Torn        \* what a file holds that is empty or half overwritten

Writers == Requests \cup Commands

VARIABLES
    file,       \* hosts.d/<node>.yaml: [data, time], or None
    tmp,        \* hosts.d/<node>.yaml.tmp, likewise
    handle,     \* what a writer has open: [node, to] with to the name it has now, or None
    clock,
    snap,       \* InventoryWatcher._inv.hosts
    snapTime    \* InventoryWatcher._inv.mtime

fileVars == <<file, tmp, handle, clock>>
snapVars == <<snap, snapTime>>

FilesInit ==
    /\ file = [n \in Nodes |-> None]
    /\ tmp = [n \in Nodes |-> None]
    /\ handle = [w \in Writers |-> None]
    /\ clock = 0
    /\ snap = [n \in Nodes |-> None]
    /\ snapTime = 0

------------------------------------------------------------------------------
Data(f) == IF f = None THEN None ELSE f.data

(* Fault of Truncate: the entry is written in place, without a temporary file. *)
TruncateInPlace(w, n) ==
    /\ file' = [file EXCEPT ![n] = [data |-> Torn, time |-> clock]]
    /\ handle' = [handle EXCEPT ![w] = [node |-> n, to |-> "file"]]
    /\ UNCHANGED <<tmp, clock>>

(* Opening for writing creates the file or empties the one that is there. *)
Truncate(w, n) ==
    /\ tmp' = [tmp EXCEPT ![n] = [data |-> Torn, time |-> clock]]
    /\ handle' = [handle EXCEPT ![w] = [node |-> n, to |-> "tmp"]]
    /\ UNCHANGED <<file, clock>>

(* What a file holds after h was written from its start: h, or, when another
   writer had written since the truncation, perhaps h and the tail of that. *)
Overwritten(f, h) == {h} \cup (IF f.data = Torn THEN {} ELSE {Torn})

Now == IF clock < MaxTime THEN clock + 1 ELSE clock

Write(w, h) ==
    /\ handle' = [handle EXCEPT ![w] = None]
    /\ \/ /\ handle[w] = None            \* its file has been removed meanwhile
          /\ UNCHANGED <<file, tmp, clock>>
       \/ /\ handle[w] # None
          /\ clock' = Now
          /\ LET n == handle[w].node
                 Put(f) == \E d \in Overwritten(f[n], h) :
                               f' = [f EXCEPT ![n] = [data |-> d, time |-> Now]]
             IN  \/ handle[w].to = "tmp"  /\ Put(tmp)  /\ UNCHANGED file
                 \/ handle[w].to = "file" /\ Put(file) /\ UNCHANGED tmp

OpenOn(n, to) == {w \in Writers : handle[w] = [node |-> n, to |-> to]}

(* tmp.replace(target): fails when there is no tmp. *)
MoveIntoPlace(n) ==
    /\ tmp[n] # None
    /\ file' = [file EXCEPT ![n] = tmp[n]]
    /\ tmp' = [tmp EXCEPT ![n] = None]
    /\ handle' = [w \in Writers |->
                     IF w \in OpenOn(n, "tmp")       THEN [node |-> n, to |-> "file"]
                     ELSE IF w \in OpenOn(n, "file") THEN None
                     ELSE handle[w]]
    /\ UNCHANGED clock

Unlink(n) ==
    /\ file' = [file EXCEPT ![n] = None]
    /\ handle' = [w \in Writers |-> IF w \in OpenOn(n, "file") THEN None ELSE handle[w]]
    /\ UNCHANGED <<tmp, clock>>

------------------------------------------------------------------------------
(* Fault of Newest: only hosts.yaml is looked at, which never changes here. *)
NewestByHand == 0

(* _mtime *)
Newest == Max({0} \cup {file[n].time : n \in {m \in Nodes : file[m] # None}})

Contents == [n \in Nodes |-> IF Data(file[n]) = Torn THEN None ELSE Data(file[n])]

Current == snapTime = Newest

(* The first half of load_inventory; an empty file lists no host, and one that
   is half overwritten lists none or cannot be read. *)
ReadFiles ==
    /\ ~Current
    /\ snap' = Contents
    /\ UNCHANGED snapTime

Unreadable == ~Current /\ \E n \in Nodes : Data(file[n]) = Torn

(* The second half. *)
NoteTime == snapTime' = Newest /\ UNCHANGED snap
==============================================================================
