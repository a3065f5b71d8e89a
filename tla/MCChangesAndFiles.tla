-------------------------- MODULE MCChangesAndFiles --------------------------
(***************************************************************************)
(* The life of a code change, the files of a computer, those of the        *)
(* server, the ledger of deletes, and the audit log, side by side.  They   *)
(* share no state, so a behaviour is one of one of them: part says which,  *)
(* and the others stay as they begin.                                      *)
(***************************************************************************)
EXTENDS OpsChanges, ServerFiles, TrashLedger, AuditChain

VARIABLE part

\* Every variable of the part at work has its type; the others keep their value.
MCTypeOK ==
  /\ part = "changes" => ChangesTypeOK
  /\ part \in {"files", "server"} => FilesTypeOK
  /\ part = "trash" => TrashTypeOK
  /\ part = "audit" => AuditTypeOK

MCInit ==
  /\ part \in {"changes", "files", "server", "trash", "audit"}
  /\ ChangesInit /\ FilesInit /\ TrashInit /\ AuditInit

MCNext ==
  \/ part = "changes" /\ ChangesNext /\ UNCHANGED <<part, filesVars, trashVars, auditVars>>
  \/ part = "files" /\ FilesNext /\ UNCHANGED <<part, changesVars, trashVars, auditVars>>
  \/ part = "server" /\ ServerFilesNext
       /\ UNCHANGED <<part, changesVars, trashVars, auditVars>>
  \/ part = "trash" /\ TrashNext /\ UNCHANGED <<part, changesVars, filesVars, auditVars>>
  \/ part = "audit" /\ AuditNext /\ UNCHANGED <<part, changesVars, filesVars, trashVars>>

MCSpec ==
  MCInit /\ [][MCNext]_<<part, changesVars, filesVars, trashVars, auditVars>>
=============================================================================
