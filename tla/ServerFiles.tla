----------------------------- MODULE ServerFiles -----------------------------
(***************************************************************************)
(* The same operations as the server's own tools carry them out            *)
(* (tools/filesystem.py, called through execute_tool of                    *)
(* tools/registry.py), on the server's files.  In a turn the file tools    *)
(* are delegated to a computer, so these run where execute_tool is called  *)
(* directly.                                                               *)
(*                                                                         *)
(* The store is that of AgentFiles.  What differs: there is no trash and   *)
(* nothing to compare a file with, so a recommended delete destroys        *)
(* whatever is at the path; a folder to move to has to be there; and a     *)
(* path that cannot be resolved ends the call half way, with what it did   *)
(* before.                                                                 *)
(***************************************************************************)
EXTENDS AgentFiles

CallStarts(op, to, items) == Starts(op, to, 0, items)

\* _batch_operation and execute_batch, to one folder or to a folder of its own for
\* each file.
ServerMoveOrCopyStarts ==
  \E op \in {"move", "copy"}, d \in Folders, items \in ListsOf(Unreviewed) :
    CallStarts(op, d, items)

ServerRenameStarts ==
  \E f \in Unreviewed, n \in Names : CallStarts("rename", n, <<f>>)

ServerDeleteStarts ==
  \E items \in ListsOf(Unreviewed) : CallStarts("delete", "none", items)

ServerWriteOrEditStarts ==
  \E op \in {"write", "edit"}, f \in Unreviewed : CallStarts(op, "none", <<f>>)

ServerMovesFile ==
  /\ Handles("move")
  /\ Goes
  /\ file[This] # 0
  /\ file[Destination(This)] = 0
  /\ file' = [file EXCEPT ![Destination(This)] = file[This], ![This] = 0]
  /\ UNCHANGED <<bak, trash, manifest, moved, reviewVars, made, jobs, historyVars>>

ServerCopiesFile == CopyFile

\* with_name: the file stays in its folder.
ServerRenamesFile ==
  /\ Handles("rename")
  /\ Goes
  /\ file[This] # 0
  /\ file[<<This[1], job.to>>] = 0
  /\ file' = [file EXCEPT ![<<This[1], job.to>>] = file[This], ![This] = 0]
  /\ UNCHANGED <<bak, trash, manifest, moved, reviewVars, made, jobs, historyVars>>

ServerDeletesFile ==
  /\ Handles("delete")
  /\ Goes
  /\ file[This] # 0
  /\ file' = [file EXCEPT ![This] = 0]
  /\ destroyed' = destroyed \cup {<<Fingerprint(This), 0>>}
  /\ UNCHANGED <<bak, trash, manifest, moved, reviewVars, made, jobs, discarded, buried,
                 editedAway, orphaned>>

\* write_file refuses a path that is taken.
ServerWritesFile ==
  /\ Handles("write")
  /\ Goes
  /\ file[This] = 0
  /\ Save(This)
  /\ UNCHANGED <<bak, trash, manifest, moved, reviewVars, jobs, historyVars>>

\* _backup_once: the first edit keeps a copy, the later ones keep that copy.
BackupOnce == bak' = IF bak[This] = 0 THEN [bak EXCEPT ![This] = file[This]] ELSE bak

\* An edit that cannot be made has made its copy already.
ServerEditsFile ==
  /\ Handles("edit")
  /\ Goes
  /\ file[This] # 0
  /\ BackupOnce
  /\ \/ /\ Save(This)
        /\ editedAway' = IF bak[This] = 0 THEN editedAway ELSE editedAway \cup {file[This]}
     \/ UNCHANGED <<file, made, editedAway>>
  /\ UNCHANGED <<trash, manifest, moved, reviewVars, jobs, discarded, destroyed, buried,
                 orphaned>>

\* The file is not there, or its place is taken: an error of that file alone.
ServerSkipsFile ==
  /\ todo # <<>>
  /\ \/ file[This] = 0 /\ job.op # "write"
     \/ job.op \in {"move", "copy", "rename"} /\ file[Destination(This)] # 0
     \/ job.op = "write" /\ file[This] # 0
  /\ Goes
  /\ UNCHANGED <<file, bak, trash, manifest, moved, reviewVars, made, jobs, historyVars>>

\* execute_tool returns, and has recorded the call.
CallEnds ==
  /\ job # NoJob /\ todo = <<>>
  /\ job' = NoJob
  /\ UNCHANGED <<file, bak, trash, manifest, todo, moved, reviewVars, made, jobs, historyVars>>

\* _resolve raises outside the guard of the single file, or the server stops.
CallAborts ==
  /\ todo # <<>>
  /\ job' = NoJob
  /\ todo' = <<>>
  /\ UNCHANGED <<file, bak, trash, manifest, moved, reviewVars, made, jobs, historyVars>>

ServerFilesNext ==
  \/ EmployeeStep
  \/ ServerMoveOrCopyStarts \/ ServerRenameStarts
  \/ ServerDeleteStarts \/ ServerWriteOrEditStarts
  \/ ServerMovesFile \/ ServerCopiesFile \/ ServerRenamesFile \/ ServerDeletesFile
  \/ ServerWritesFile \/ ServerEditsFile \/ ServerSkipsFile
  \/ CallEnds \/ CallAborts

ServerFilesSpec == FilesInit /\ [][ServerFilesNext]_filesVars

(***************************************************************************)
(* The inductive invariant: that of AgentFiles, and no call that the       *)
(* server has no tool for.                                                 *)
(***************************************************************************)
NoTrashIsFilled == job.op \notin {"trash", "restore"}

ServerFilesIInv ==
  FilesIInv /\ BooksIInv /\ DuplicatesIInv /\ ListedIInv /\ NoTrashIsFilled
=============================================================================
