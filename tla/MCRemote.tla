------------------------------- MODULE MCRemote -------------------------------
(* The components that run commands and write files on a node, for TLC.  They share no
   state: a behaviour is one of a single component, while the others stand still. *)
EXTENDS ShellSession, CommandRun, RemoteFiles

CONSTANTS r1, r2, r3, w1, w2

VARIABLE part

shellAlone == <<runVars, fileToolVars>>
runAlone   == <<vars, fileToolVars>>
filesAlone == <<vars, runVars>>

\* One writer takes a backup; the other is of any kind.
RemoteInit ==
    /\ part \in {"shell", "run", "files"}
    /\ Init /\ RunInit /\ FilesInit
    /\ writer[w1].kind = "backup" /\ (writer[w2].kind = "copy" \/ source = 0)
    /\ part # "files" => target = Absent /\ writer[w2].kind = "plain"
RemoteNext ==
    /\ UNCHANGED part
    /\ \/ part = "shell" /\ Next /\ UNCHANGED shellAlone
       \/ part = "run" /\ RunNext /\ UNCHANGED runAlone
       \/ part = "files" /\ FilesNext /\ UNCHANGED filesAlone
(* Types, and the bounds of what is buffered: the session's buffer, what a command may
   leave unread and the copy of a file that is relayed. *)
RemoteTypeOK == TypeOK /\ RunTypeOK /\ FilesTypeOK

RemoteSpec ==
    /\ RemoteInit /\ [][RemoteNext]_<<vars, runVars, fileToolVars, part>>
    /\ ShellFair
    /\ part = "run" => RunFair
==============================================================================
