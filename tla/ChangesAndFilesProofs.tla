------------------------ MODULE ChangesAndFilesProofs ------------------------
(***************************************************************************)
(* Proofs about MCChangesAndFiles: the five parts side by side satisfy     *)
(* their invariants together, for every value of the constants.            *)
(***************************************************************************)
EXTENDS MCChangesAndFiles, OpsChangesProofs, AgentFilesProofs, TrashAndAuditProofs

\* The files are those of a computer or of the server.
TheFilesIInv ==
  /\ FilesIInv /\ BooksIInv /\ DuplicatesIInv /\ ListedIInv
  /\ part = "server" => NoTrashIsFilled

MCIInv ==
  /\ ChangesIInv
  /\ TheFilesIInv
  /\ TrashIInv
  /\ AuditIInv

\* The parts that are not at work keep what holds of them.
LEMMA OthersStay ==
  /\ ChangesIInv /\ UNCHANGED changesVars => ChangesIInv'
  /\ TrashIInv /\ UNCHANGED trashVars => TrashIInv'
  /\ AuditIInv /\ UNCHANGED auditVars => AuditIInv'
BY ChangesIInvStep, TrashIInvStep, AuditIInvStep

LEMMA TheFilesStep ==
  ASSUME TheFilesIInv, UNCHANGED part,
         \/ part = "files" /\ FilesNext
         \/ part = "server" /\ ServerFilesNext
         \/ UNCHANGED filesVars
  PROVE  TheFilesIInv'
<1> USE DEF TheFilesIInv
<1>1. CASE part = "server"
  <2>1. ServerFilesIInv /\ [ServerFilesNext]_filesVars
    BY <1>1 DEF ServerFilesIInv
  <2>2. ServerFilesIInv'
    BY <2>1, ServerFilesStep
  <2>3. QED
    BY <2>2 DEF ServerFilesIInv
<1>2. CASE part # "server"
  <2>1. [FilesNext]_filesVars
    BY <1>2
  <2>2. FilesIInv' /\ BooksIInv' /\ DuplicatesIInv' /\ ListedIInv'
    BY <2>1, FilesStep, BooksStep, MovedStep, DuplicatesStep, ListedStep
       DEF FilesIInv, BooksIInv
  <2>3. QED
    BY <1>2, <2>2
<1>3. QED
  BY <1>1, <1>2

LEMMA MCInitIInv == MCInit => MCIInv
<1> SUFFICES ASSUME MCInit
             PROVE  MCIInv
  OBVIOUS
<1>1. ChangesIInv /\ TrashIInv /\ AuditIInv
  BY ChangesInitIInv, TrashInitIInv, AuditInitIInv DEF MCInit
<1>2. ServerFilesIInv
  BY ServerInitIInv DEF MCInit
<1>3. QED
  BY <1>1, <1>2 DEF MCIInv, TheFilesIInv, ServerFilesIInv

LEMMA MCStep ==
  ASSUME MCIInv, [MCNext]_<<part, changesVars, filesVars, trashVars, auditVars>>
  PROVE  MCIInv'
<1>1. UNCHANGED part /\ TheFilesIInv'
  <2>1. UNCHANGED part
    BY DEF MCNext
  <2>2. \/ part = "files" /\ FilesNext
        \/ part = "server" /\ ServerFilesNext
        \/ UNCHANGED filesVars
    BY DEF MCNext
  <2>3. QED
    BY <2>1, <2>2, TheFilesStep DEF MCIInv
<1>2. ChangesIInv'
  <2>1. [ChangesNext]_changesVars
    BY DEF MCNext
  <2>2. QED
    BY <2>1, ChangesIInvStep DEF MCIInv
<1>3. TrashIInv'
  <2>1. [TrashNext]_trashVars
    BY DEF MCNext
  <2>2. QED
    BY <2>1, TrashIInvStep DEF MCIInv
<1>4. AuditIInv'
  <2>1. [AuditNext]_auditVars
    BY DEF MCNext
  <2>2. QED
    BY <2>1, AuditIInvStep DEF MCIInv
<1>5. QED
  BY <1>1, <1>2, <1>3, <1>4 DEF MCIInv

\* Side by side, the five parts satisfy the inductive invariant of each.
THEOREM PartsInvariant == MCSpec => []MCIInv
BY MCInitIInv, MCStep, PTL DEF MCSpec

\* Whatever the tables of the Operations Center, the files, the ledger of deletes and
\* the audit log go through, their variables keep their types.
THEOREM PartsWellTyped == MCSpec => []MCTypeOK
<1>1. MCIInv => MCTypeOK
  BY FilesTypes
     DEF MCIInv, MCTypeOK, TheFilesIInv, ChangesIInv, FilesIInv, BooksIInv, TrashIInv, AuditIInv
<1>2. QED
  BY <1>1, PartsInvariant, PTL
=============================================================================
