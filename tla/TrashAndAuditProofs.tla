------------------------- MODULE TrashAndAuditProofs -------------------------
(***************************************************************************)
(* Proofs about the two records that the server keeps of what was done:    *)
(* TrashLedger, for any computers, deletes and undo requests, and          *)
(* AuditChain, for any number of sessions, of entries and of entries from  *)
(* before there was a chain.  Of each the inductive invariant; that a      *)
(* closed entry of the ledger has been acted on, and that files are        *)
(* destroyed only on request; and that only a stale read breaks the chain. *)
(* And about Policy, by which they are requested.                          *)
(***************************************************************************)
EXTENDS TrashLedger, AuditChain, SequenceTheorems, TLAPS

(***************************************************************************)
(* The policy: what it asks for, for every table, tool and number of files. *)
(***************************************************************************)

LEMMA FullAutoAsksNobody ==
  ASSUME NEW p \in Policies, NEW tool \in Tools, NEW n \in Nat, p.fullAuto
  PROVE  ActionApprovalKind(p, tool, n) = "AUTO" /\ EffectiveKind(p, tool) = "FULL_AUTO"
BY DEF ActionApprovalKind, EffectiveKind

LEMMA KindsOfRows ==
  ASSUME NEW p \in Policies, NEW tool \in Tools
  PROVE  /\ ConfiguredKind(p, tool) \in PolicyKinds \cup {NoRow}
         /\ BulkThreshold(p, tool) \in Nat
BY DEF Policies, ConfiguredKind, BulkThreshold, DefaultThreshold

\* What the user is shown as automatic runs unasked, and nothing else does, whatever
\* rows the two tables have (effective_kind and action_approval_kind, permissions.py).
THEOREM ShownAsAutoIsAuto ==
  ASSUME NEW p \in Policies, NEW tool \in Tools, NEW n \in Nat
  PROVE  ActionApprovalKind(p, tool, n) = "AUTO" <=>
           EffectiveKind(p, tool) \in {"AUTO", "FULL_AUTO"}
<1>1. CASE p.fullAuto
  BY <1>1, FullAutoAsksNobody
<1>2. CASE ~p.fullAuto /\ ConfiguredKind(p, tool) # NoRow
  <2>1. ActionApprovalKind(p, tool, n) = ConfiguredApproval(p, tool, n)
    BY <1>2 DEF ActionApprovalKind
  <2>2. EffectiveKind(p, tool) = ConfiguredKind(p, tool)
    BY <1>2 DEF EffectiveKind
  <2>3. QED
    BY <1>2, <2>1, <2>2, KindsOfRows DEF ConfiguredApproval, PolicyKinds
<1>3. CASE ~p.fullAuto /\ ConfiguredKind(p, tool) = NoRow
  <2>1. ActionApprovalKind(p, tool, n) = DefaultApproval(tool, n)
    BY <1>3 DEF ActionApprovalKind
  <2>2. DefaultApproval(tool, n) = "AUTO" <=>
          tool \notin SupervisorApprovalActions \cup UserApprovalActions
    BY DEF DefaultApproval, SupervisorApprovalActions
  <2>3. EffectiveKind(p, tool) \in {"AUTO", "FULL_AUTO"} <=>
          tool \notin SupervisorApprovalActions \cup UserApprovalActions
    BY <1>3 DEF EffectiveKind
  <2>4. QED
    BY <2>1, <2>2, <2>3
<1>4. QED
  BY <1>1, <1>2, <1>3

\* More files never need less consent: a threshold that is reached stays reached.
THEOREM MoreFilesNeedNoLess ==
  ASSUME NEW p \in Policies, NEW tool \in Tools, NEW m \in Nat, NEW n \in Nat, m <= n
  PROVE  Strength(ActionApprovalKind(p, tool, m)) <= Strength(ActionApprovalKind(p, tool, n))
<1>1. CASE p.fullAuto
  BY <1>1, FullAutoAsksNobody DEF Strength
<1>2. CASE ~p.fullAuto /\ ConfiguredKind(p, tool) # NoRow
  <2>1. /\ ActionApprovalKind(p, tool, m) = ConfiguredApproval(p, tool, m)
        /\ ActionApprovalKind(p, tool, n) = ConfiguredApproval(p, tool, n)
    BY <1>2 DEF ActionApprovalKind
  <2>2. QED
    BY <1>2, <2>1, KindsOfRows DEF ConfiguredApproval, PolicyKinds, Strength
<1>3. CASE ~p.fullAuto /\ ConfiguredKind(p, tool) = NoRow
  <2>1. /\ ActionApprovalKind(p, tool, m) = DefaultApproval(tool, m)
        /\ ActionApprovalKind(p, tool, n) = DefaultApproval(tool, n)
    BY <1>3 DEF ActionApprovalKind
  <2>2. QED
    BY <2>1 DEF DefaultApproval, DefaultThreshold, Strength
<1>4. QED
  BY <1>1, <1>2, <1>3

(***************************************************************************)
(* Deletes and their undo.                                                 *)
(***************************************************************************)
Stages == {"none", "asked", "queued", "trashed", "restored", "destroyed", "dropped"}

DeletionRows == [stage : Stages, at : Computers \cup {NoComputer},
                 reversible : BOOLEAN, asked : BOOLEAN, auto : BOOLEAN]

LEMMA DeleteIsATool == Delete \in SupervisedDeletes /\ Delete \in Tools
BY TrashAssumption DEF Delete, Tools, SupervisorApprovalActions

\* A row with another stage is a row that differs in nothing else.
LEMMA RowsKeepTheirTerms ==
  /\ \A r \in DeletionRows, s \in Stages :
       LET new == [r EXCEPT !.stage = s] IN
       /\ new \in DeletionRows /\ new.stage = s
       /\ new.reversible = r.reversible /\ new.asked = r.asked /\ new.auto = r.auto
  /\ \A r \in RestoreJobs, s \in JobStages :
       [r EXCEPT !.stage = s] \in RestoreJobs /\ [r EXCEPT !.stage = s].stage = s
BY DEF DeletionRows, RestoreJobs

LEMMA TrashTypeInit == TrashInit => TrashTypeOK
<1> SUFFICES ASSUME TrashInit
             PROVE  TrashTypeOK
  OBVIOUS
<1>1. policy \in Policies
  BY DEF TrashInit, Policies
<1>2. NoDelete \in DeletionRows /\ NoRestore \in RestoreJobs
  BY DEF NoDelete, NoRestore, DeletionRows, RestoreJobs, Stages, JobStages
<1>3. deletion \in [TrashBatches -> DeletionRows] /\ undo \in [TrashBatches -> RestoreJobs]
      /\ chatRestore \in [TrashBatches -> RestoreJobs]
  BY <1>2 DEF TrashInit
<1>4. QED
  BY <1>1, <1>3 DEF TrashInit, TrashTypeOK, DeletionRows, Stages, NoUndo

LEMMA DroppedKeepsType ==
  ASSUME NEW jobs \in [TrashBatches -> RestoreJobs], NEW d \in Computers
  PROVE  /\ Dropped(jobs, d) \in [TrashBatches -> RestoreJobs]
         /\ \A b \in TrashBatches :
              \/ Dropped(jobs, d)[b] = jobs[b]
              \/ jobs[b].stage = "QUEUED" /\ Dropped(jobs, d)[b].stage = "DROPPED"
BY RowsKeepTheirTerms DEF Dropped, JobStages

LEMMA RestoreJobKeepsType ==
  ASSUME TrashTypeOK, NEW b, NEW d \in Computers \cup {NoComputer}
  PROVE  RestoreJob(b, d) \in [TrashBatches -> RestoreJobs]
<1>1. [stage |-> "QUEUED", at |-> d] \in RestoreJobs
  BY DEF RestoreJobs, JobStages
<1>2. QED
  BY <1>1 DEF RestoreJob, TrashTypeOK

LEMMA TrashTypeStep ==
  ASSUME TrashTypeOK, [TrashNext]_trashVars
  PROVE  TrashTypeOK'
<1>1. CASE UNCHANGED trashVars
  BY <1>1 DEF trashVars, TrashTypeOK
<1> USE DEF TrashTypeOK
<1>2. CASE SwitchesFullAuto
  BY <1>2 DEF SwitchesFullAuto, Policies
<1>3. ASSUME NEW kind \in PolicyKinds \cup {NoRow},
             OverridesPolicy(kind) \/ SetsGlobalPolicy(kind)
      PROVE  TrashTypeOK'
  <2>1. CASE OverridesPolicy(kind)
    BY <2>1, DeleteIsATool DEF OverridesPolicy, Policies
  <2>2. CASE SetsGlobalPolicy(kind)
    BY <2>2, DeleteIsATool DEF SetsGlobalPolicy, Policies
  <2>3. QED
    BY <1>3, <2>1, <2>2
<1>4. ASSUME NEW d \in Computers, GoesOffline(d) \/ ComesOnline(d)
      PROVE  TrashTypeOK'
  BY <1>4 DEF GoesOffline, ComesOnline
<1> HIDE DEF TrashTypeOK
<1>5. ASSUME deletion' \in [TrashBatches -> DeletionRows],
             undo' \in [TrashBatches -> RestoreJobs],
             chatRestore' \in [TrashBatches -> RestoreJobs],
             computer' \in [Computers -> {"ONLINE", "OFFLINE", "REVOKED"}],
             waiting' \subseteq TrashBatches,
             entry' \in [TrashBatches -> {"none", "LISTED", "RESTORED"}],
             undoing' \in [UndoRequests -> [batch : TrashBatches \cup {"none"},
                                            at : Computers \cup {NoComputer}]],
             UNCHANGED policy
      PROVE  TrashTypeOK'
  BY <1>5 DEF TrashTypeOK, DeletionRows, Stages
<1>6. /\ deletion \in [TrashBatches -> DeletionRows]
      /\ undo \in [TrashBatches -> RestoreJobs]
      /\ chatRestore \in [TrashBatches -> RestoreJobs]
      /\ computer \in [Computers -> {"ONLINE", "OFFLINE", "REVOKED"}]
      /\ waiting \subseteq TrashBatches
      /\ entry \in [TrashBatches -> {"none", "LISTED", "RESTORED"}]
      /\ undoing \in [UndoRequests -> [batch : TrashBatches \cup {"none"},
                                       at : Computers \cup {NoComputer}]]
  BY DEF TrashTypeOK, DeletionRows, Stages
<1>7. ASSUME NEW d \in Computers, Revoke(d)
      PROVE  TrashTypeOK'
  <2>1. deletion' \in [TrashBatches -> DeletionRows]
    BY <1>6, <1>7, RowsKeepTheirTerms DEF Revoke, Stages
  <2>2. /\ undo' \in [TrashBatches -> RestoreJobs]
        /\ chatRestore' \in [TrashBatches -> RestoreJobs]
    BY <1>6, <1>7, DroppedKeepsType DEF Revoke
  <2>3. QED
    BY <1>5, <1>6, <1>7, <2>1, <2>2 DEF Revoke
<1>8. ASSUME NEW b \in TrashBatches, NEW d \in Computers, NEW count \in Counts,
             TurnDeletes(b, d, count)
      PROVE  TrashTypeOK'
  <2> DEFINE kind == ActionApprovalKind(policy, Delete, count)
             row == [stage |-> IF kind = "AUTO" THEN "queued" ELSE "asked", at |-> d,
                     reversible |-> kind = "AUTO" /\ policy.fullAuto,
                     asked |-> kind # "AUTO", auto |-> policy.user[Delete] = "AUTO"]
  <2>1. row \in DeletionRows
    <3>1. policy.fullAuto \in BOOLEAN
      BY DEF TrashTypeOK, Policies
    <3> HIDE DEF kind
    <3>2. (kind = "AUTO" /\ policy.fullAuto) \in BOOLEAN /\ (kind # "AUTO") \in BOOLEAN
          /\ (policy.user[Delete] = "AUTO") \in BOOLEAN
      BY <3>1, Zenon
    <3>3. (IF kind = "AUTO" THEN "queued" ELSE "asked") \in Stages
      BY DEF Stages
    <3>4. QED
      BY <3>2, <3>3, Zenon DEF DeletionRows
  <2>2. deletion' = [deletion EXCEPT ![b] = row]
    BY <1>8 DEF TurnDeletes
  <2>3. deletion' \in [TrashBatches -> DeletionRows]
    <3> HIDE DEF row
    <3>1. QED
      BY <1>6, <2>1, <2>2
  <2>4. QED
    BY <1>5, <1>6, <1>8, <2>3 DEF TurnDeletes
<1>9. ASSUME NEW b \in TrashBatches, DeleteApproved(b) \/ ComputerDeletes(b)
      PROVE  TrashTypeOK'
  <2>1. PICK s \in Stages : deletion' = [deletion EXCEPT ![b].stage = s]
    BY <1>9 DEF DeleteApproved, ComputerDeletes, Stages
  <2>2. deletion' \in [TrashBatches -> DeletionRows]
    BY <1>6, <2>1, RowsKeepTheirTerms
  <2>3. QED
    BY <1>5, <1>6, <1>9, <2>2 DEF DeleteApproved, ComputerDeletes
<1>10. ASSUME NEW b \in TrashBatches, TurnReceives(b) \/ TurnStopsWaiting(b)
       PROVE  TrashTypeOK'
  BY <1>5, <1>6, <1>10 DEF TurnReceives, TurnStopsWaiting
<1>11. ASSUME NEW b \in TrashBatches, ChatRestores(b)
       PROVE  TrashTypeOK'
  <2>1. [stage |-> "QUEUED", at |-> deletion[b].at] \in RestoreJobs
    BY <1>6 DEF RestoreJobs, JobStages, DeletionRows
  <2>2. chatRestore' \in [TrashBatches -> RestoreJobs]
    BY <1>6, <1>11, <2>1 DEF ChatRestores
  <2>3. QED
    BY <1>5, <1>6, <1>11, <2>2 DEF ChatRestores
<1>12. ASSUME NEW b \in TrashBatches, UndoRuns(b)
       PROVE  TrashTypeOK'
  <2>1. PICK o \in Outcomes(b, undo[b].at) :
          /\ undo' = [undo EXCEPT ![b].stage = o.job]
          /\ deletion' = [deletion EXCEPT ![b].stage = o.files]
    BY <1>12 DEF UndoRuns
  <2>2. o.job \in JobStages /\ o.files \in Stages
    BY <1>6 DEF Outcomes, JobStages, Stages, DeletionRows
  <2>3. deletion' \in [TrashBatches -> DeletionRows] /\ undo' \in [TrashBatches -> RestoreJobs]
    BY <1>6, <2>1, <2>2, RowsKeepTheirTerms
  <2>4. QED
    BY <1>5, <1>6, <1>12, <2>3 DEF UndoRuns
<1>13. ASSUME NEW b \in TrashBatches, ChatRestoreRuns(b)
       PROVE  TrashTypeOK'
  <2>1. PICK o \in Outcomes(b, chatRestore[b].at) :
          /\ chatRestore' = [chatRestore EXCEPT ![b].stage = o.job]
          /\ deletion' = [deletion EXCEPT ![b].stage = o.files]
          /\ \/ UNCHANGED entry
             \/ /\ o.job = "SUCCEEDED" /\ entry[b] = "LISTED"
                /\ entry' = [entry EXCEPT ![b] = "RESTORED"]
    BY <1>13 DEF ChatRestoreRuns
  <2>2. o.job \in JobStages /\ o.files \in Stages
    BY <1>6 DEF Outcomes, JobStages, Stages, DeletionRows
  <2>3. /\ deletion' \in [TrashBatches -> DeletionRows]
        /\ chatRestore' \in [TrashBatches -> RestoreJobs]
    BY <1>6, <2>1, <2>2, RowsKeepTheirTerms
  <2>4. QED
    BY <1>5, <1>6, <1>13, <2>1, <2>3 DEF ChatRestoreRuns
<1>14. ASSUME NEW b \in TrashBatches, UndoGivenUp(b)
       PROVE  TrashTypeOK'
  <2>1. undo' \in [TrashBatches -> RestoreJobs]
    BY <1>6, <1>14, RowsKeepTheirTerms DEF UndoGivenUp, JobStages
  <2>2. QED
    BY <1>5, <1>6, <1>14, <2>1 DEF UndoGivenUp
<1>15. ASSUME NEW r \in UndoRequests, NEW b \in TrashBatches, UndoRequested(r, b)
       PROVE  TrashTypeOK'
  BY <1>5, <1>6, <1>15 DEF UndoRequested, OnlineFor, Online
<1>16. ASSUME NEW r \in UndoRequests, UndoEntered(r)
       PROVE  TrashTypeOK'
  <2>1. undoing[r].at \in Computers \cup {NoComputer}
    BY <1>6
  <2>2. undo' \in [TrashBatches -> RestoreJobs]
    BY <1>16, <2>1, RestoreJobKeepsType DEF UndoEntered
  <2>3. QED
    BY <1>5, <1>6, <1>16, <2>2 DEF UndoEntered, NoUndo
<1>17. ASSUME NEW r \in UndoRequests, UndoAborts(r)
       PROVE  TrashTypeOK'
  BY <1>5, <1>6, <1>17 DEF UndoAborts, NoUndo
<1>18. QED
  BY <1>1, <1>2, <1>3, <1>4, <1>7, <1>8, <1>9, <1>10, <1>11, <1>12, <1>13, <1>14, <1>15,
     <1>16, <1>17 DEF TrashNext
-----------------------------------------------------------------------------
\* What a step may do to the files, the jobs and the entries.
LEMMA DeletionMoves ==
  ASSUME TrashTypeOK, [TrashNext]_trashVars, NEW b \in TrashBatches
  PROVE  \/ deletion'[b] = deletion[b]
         \/ \E d \in Computers, count \in Counts : TurnDeletes(b, d, count)
         \/ /\ deletion[b].stage # "none"
            /\ deletion'[b].reversible = deletion[b].reversible
            /\ deletion'[b].asked = deletion[b].asked
            /\ deletion'[b].auto = deletion[b].auto
            /\ deletion'[b].stage = "destroyed" =>
                 ~deletion[b].reversible \/ deletion[b].stage = "destroyed"
            /\ deletion[b].stage # "restored"
<1> DEFINE Moves(x) ==
             /\ deletion[x].stage # "none"
             /\ deletion'[x].reversible = deletion[x].reversible
             /\ deletion'[x].asked = deletion[x].asked
             /\ deletion'[x].auto = deletion[x].auto
             /\ deletion'[x].stage = "destroyed" =>
                  ~deletion[x].reversible \/ deletion[x].stage = "destroyed"
             /\ deletion[x].stage # "restored"
<1>1. deletion \in [TrashBatches -> DeletionRows]
  BY DEF TrashTypeOK, DeletionRows, Stages
<1>2. ASSUME NEW x \in TrashBatches, NEW s \in Stages,
             deletion' = [deletion EXCEPT ![x].stage = s]
      PROVE  /\ deletion'[x].stage = s /\ deletion'[x].reversible = deletion[x].reversible
             /\ deletion'[x].asked = deletion[x].asked /\ deletion'[x].auto = deletion[x].auto
             /\ \A y \in TrashBatches \ {x} : deletion'[y] = deletion[y]
  BY <1>1, <1>2, RowsKeepTheirTerms
<1>3. ASSUME NEW d \in Computers, Revoke(d)
      PROVE  deletion'[b] = deletion[b] \/ Moves(b)
  BY <1>1, <1>3, RowsKeepTheirTerms DEF Revoke, Stages
<1>4. ASSUME NEW x \in TrashBatches, NEW d \in Computers, NEW count \in Counts,
             TurnDeletes(x, d, count)
      PROVE  deletion'[b] = deletion[b] \/ TurnDeletes(b, d, count)
  <2>1. CASE x = b
    BY <1>4, <2>1
  <2>2. CASE x # b
    BY <1>1, <1>4, <2>2 DEF TurnDeletes
  <2>3. QED
    BY <2>1, <2>2
<1>5. ASSUME NEW x \in TrashBatches, DeleteApproved(x) \/ ComputerDeletes(x)
      PROVE  deletion'[b] = deletion[b] \/ Moves(b)
  <2>1. PICK s \in Stages : /\ deletion' = [deletion EXCEPT ![x].stage = s]
                            /\ s = "destroyed" => ~deletion[x].reversible
    BY <1>5 DEF DeleteApproved, ComputerDeletes, Stages
  <2>2. deletion[x].stage \in {"asked", "queued"}
    BY <1>5 DEF DeleteApproved, ComputerDeletes
  <2>3. QED
    BY <1>2, <2>1, <2>2
<1>6. ASSUME NEW x \in TrashBatches, UndoRuns(x) \/ ChatRestoreRuns(x)
      PROVE  deletion'[b] = deletion[b] \/ Moves(b)
  <2>1. PICK o \in Outcomes(x, undo[x].at) \cup Outcomes(x, chatRestore[x].at) :
          deletion' = [deletion EXCEPT ![x].stage = o.files]
    BY <1>6 DEF UndoRuns, ChatRestoreRuns
  <2>2. \/ deletion[x].stage = "trashed" /\ o.files \in {"trashed", "restored"}
        \/ o.files = deletion[x].stage
    BY <2>1 DEF Outcomes
  <2>3. deletion[x] \in DeletionRows /\ o.files \in Stages
    BY <1>1, <2>2 DEF Stages, DeletionRows
  <2>4. CASE o.files = deletion[x].stage
    <3>1. [deletion[x] EXCEPT !.stage = deletion[x].stage] = deletion[x]
      BY <2>3 DEF DeletionRows
    <3>2. QED
      BY <1>1, <2>1, <2>4, <3>1
  <2>5. CASE deletion[x].stage = "trashed" /\ o.files \in {"trashed", "restored"}
    BY <1>2, <2>1, <2>3, <2>5
  <2>6. QED
    BY <2>2, <2>4, <2>5
<1>7. \/ UNCHANGED deletion
      \/ \E d \in Computers : Revoke(d)
      \/ \E x \in TrashBatches, d \in Computers, count \in Counts : TurnDeletes(x, d, count)
      \/ \E x \in TrashBatches : DeleteApproved(x) \/ ComputerDeletes(x)
      \/ \E x \in TrashBatches : UndoRuns(x) \/ ChatRestoreRuns(x)
  BY DEF TrashNext, SwitchesFullAuto, OverridesPolicy, SetsGlobalPolicy, GoesOffline, ComesOnline,
         TurnReceives, TurnStopsWaiting, ChatRestores, UndoGivenUp, UndoRequested,
         UndoEntered, UndoAborts, trashVars
<1>8. QED
  BY <1>3, <1>4, <1>5, <1>6, <1>7

\* A job that was made is never unmade, and one that restored has restored.
LEMMA JobsOnlyGrow ==
  ASSUME TrashTypeOK, [TrashNext]_trashVars, NEW b \in TrashBatches
  PROVE  /\ undo[b].stage # "none" => undo'[b].stage # "none"
         /\ chatRestore[b].stage = "SUCCEEDED" => chatRestore'[b].stage = "SUCCEEDED"
<1> USE DEF TrashTypeOK
<1>1. ASSUME NEW d \in Computers, Revoke(d)
      PROVE  /\ undo[b].stage # "none" => undo'[b].stage # "none"
             /\ chatRestore[b].stage = "SUCCEEDED" => chatRestore'[b].stage = "SUCCEEDED"
  <2>1. undo' = Dropped(undo, d) /\ chatRestore' = Dropped(chatRestore, d)
    BY <1>1 DEF Revoke
  <2>2. \/ undo'[b] = undo[b]
        \/ undo'[b].stage = "DROPPED"
    BY <2>1, DroppedKeepsType
  <2>3. \/ chatRestore'[b] = chatRestore[b]
        \/ chatRestore[b].stage = "QUEUED"
    BY <2>1, DroppedKeepsType
  <2>4. QED
    BY <2>2, <2>3
<1>2. ASSUME NEW r \in UndoRequests, UndoEntered(r)
      PROVE  /\ undo[b].stage # "none" => undo'[b].stage # "none"
             /\ UNCHANGED chatRestore
  BY <1>2 DEF UndoEntered, RestoreJob
<1>3. ASSUME NEW x \in TrashBatches, UndoRuns(x) \/ UndoGivenUp(x)
      PROVE  /\ undo[b].stage # "none" => undo'[b].stage # "none"
             /\ UNCHANGED chatRestore
  <2>1. PICK s \in JobStages \ {"none"} : undo' = [undo EXCEPT ![x].stage = s]
    <3>1. CASE UndoRuns(x)
      <4>1. PICK o \in Outcomes(x, undo[x].at) : undo' = [undo EXCEPT ![x].stage = o.job]
        BY <3>1 DEF UndoRuns
      <4>2. o.job \in JobStages \ {"none"}
        BY DEF Outcomes, JobStages
      <4>3. QED
        BY <4>1, <4>2
    <3>2. CASE UndoGivenUp(x)
      BY <3>2 DEF UndoGivenUp, JobStages
    <3>3. QED
      BY <1>3, <3>1, <3>2
  <2>2. undo'[x].stage = s /\ \A y \in TrashBatches \ {x} : undo'[y] = undo[y]
    BY <2>1, RowsKeepTheirTerms
  <2>3. QED
    BY <1>3, <2>2 DEF UndoRuns, UndoGivenUp
<1>4. ASSUME NEW x \in TrashBatches, ChatRestores(x) \/ ChatRestoreRuns(x)
      PROVE  /\ chatRestore[b].stage = "SUCCEEDED" => chatRestore'[b].stage = "SUCCEEDED"
             /\ UNCHANGED undo
  BY <1>4 DEF ChatRestores, ChatRestoreRuns
<1>5. \/ UNCHANGED <<undo, chatRestore>>
      \/ \E d \in Computers : Revoke(d)
      \/ \E r \in UndoRequests : UndoEntered(r)
      \/ \E x \in TrashBatches : UndoRuns(x) \/ UndoGivenUp(x)
      \/ \E x \in TrashBatches : ChatRestores(x) \/ ChatRestoreRuns(x)
  BY DEF TrashNext, SwitchesFullAuto, OverridesPolicy, SetsGlobalPolicy, GoesOffline, ComesOnline, TurnDeletes,
         DeleteApproved, ComputerDeletes, TurnReceives, TurnStopsWaiting, UndoRequested,
         UndoAborts, trashVars
<1>6. QED
  BY <1>1, <1>2, <1>3, <1>4, <1>5

LEMMA ClosedStep ==
  ASSUME TrashTypeOK, ClosedIsUndone, [TrashNext]_trashVars
  PROVE  ClosedIsUndone'
<1> SUFFICES ASSUME NEW b \in TrashBatches, entry'[b] = "RESTORED"
             PROVE  \/ deletion'[b].stage = "restored"
                    \/ undo'[b].stage # "none"
                    \/ chatRestore'[b].stage = "SUCCEEDED"
  BY DEF ClosedIsUndone
<1>1. CASE entry[b] = "RESTORED"
  <2>1. deletion[b].stage = "restored" => deletion'[b].stage = "restored"
    BY DeletionMoves DEF TurnDeletes, NoDelete
  <2>2. QED
    BY <1>1, <2>1, JobsOnlyGrow DEF ClosedIsUndone
<1>2. CASE entry[b] # "RESTORED"
  <2>1. \/ \E x \in TrashBatches : ChatRestoreRuns(x) \/ TurnReceives(x)
        \/ \E r \in UndoRequests : UndoEntered(r)
    BY <1>2 DEF TrashNext, SwitchesFullAuto, OverridesPolicy, SetsGlobalPolicy, GoesOffline, ComesOnline, Revoke,
                TurnDeletes, DeleteApproved, ComputerDeletes, TurnStopsWaiting, ChatRestores,
                UndoRuns, UndoGivenUp, UndoRequested, UndoAborts, trashVars
  <2>2. ASSUME NEW x \in TrashBatches, TurnReceives(x)
        PROVE  FALSE
    BY <1>2, <2>2 DEF TurnReceives, TrashTypeOK
  <2>3. ASSUME NEW x \in TrashBatches, ChatRestoreRuns(x)
        PROVE  chatRestore'[b].stage = "SUCCEEDED"
    <3>1. PICK o \in Outcomes(x, chatRestore[x].at) :
            /\ chatRestore' = [chatRestore EXCEPT ![x].stage = o.job]
            /\ \/ UNCHANGED entry
               \/ /\ o.job = "SUCCEEDED"
                  /\ entry' = [entry EXCEPT ![x] = "RESTORED"]
      BY <2>3 DEF ChatRestoreRuns
    <3>2. x = b /\ o.job = "SUCCEEDED"
      BY <1>2, <3>1 DEF TrashTypeOK
    <3>3. QED
      BY <3>1, <3>2, RowsKeepTheirTerms DEF TrashTypeOK, JobStages
  <2>4. ASSUME NEW r \in UndoRequests, UndoEntered(r)
        PROVE  undo'[b].stage # "none"
    <3>1. undoing[r].batch = b
      BY <1>2, <2>4 DEF UndoEntered, TrashTypeOK
    <3>2. QED
      BY <2>4, <3>1 DEF UndoEntered, RestoreJob, TrashTypeOK
  <2>5. QED
    BY <2>1, <2>2, <2>3, <2>4
<1>3. QED
  BY <1>1, <1>2

\* Unless the built-in policy or the user says so, a delete asks for consent.
LEMMA DeleteAsks ==
  ASSUME TrashTypeOK, DeletesHaveTerms, NEW count \in Counts,
         ActionApprovalKind(policy, Delete, count) = "AUTO", ~policy.fullAuto
  PROVE  policy.user[Delete] = "AUTO"
<1>1. DefaultApproval(Delete, count) # "AUTO"
  BY DeleteIsATool, PolicyAssumption DEF DefaultApproval
<1>2. ConfiguredKind(policy, Delete) = "AUTO" => policy.user[Delete] = "AUTO"
  BY DEF ConfiguredKind, DeletesHaveTerms
<1>3. CASE ConfiguredKind(policy, Delete) = NoRow
  BY <1>1, <1>3 DEF ActionApprovalKind
<1>4. CASE ConfiguredKind(policy, Delete) # NoRow
  <2>1. ConfiguredApproval(policy, Delete, count) = "AUTO"
    BY <1>4 DEF ActionApprovalKind
  <2>2. ConfiguredKind(policy, Delete) = "AUTO"
    BY <2>1 DEF ConfiguredApproval
  <2>3. QED
    BY <1>2, <1>4, <2>2
<1>5. QED
  BY <1>3, <1>4

LEMMA TermsStep ==
  ASSUME TrashTypeOK, DeletesHaveTerms, [TrashNext]_trashVars
  PROVE  DeletesHaveTerms'
<1>1. policy'.global[Delete] # "AUTO"
  BY DeleteIsATool DEF DeletesHaveTerms, TrashNext, SwitchesFullAuto, OverridesPolicy, SetsGlobalPolicy, GoesOffline, ComesOnline, Revoke,
         TurnDeletes, DeleteApproved, ComputerDeletes, TurnReceives, TurnStopsWaiting,
         ChatRestores, UndoRuns, ChatRestoreRuns, UndoGivenUp, UndoRequested, UndoEntered,
         UndoAborts, trashVars, TrashTypeOK, Policies
<1>2. ASSUME NEW b \in TrashBatches, NEW d \in Computers, NEW count \in Counts,
             TurnDeletes(b, d, count)
      PROVE  /\ deletion'[b].reversible \/ deletion'[b].asked \/ deletion'[b].auto
             /\ deletion'[b].stage # "destroyed"
  <2> DEFINE kind == ActionApprovalKind(policy, Delete, count)
  <2>1. deletion'[b] = [stage |-> IF kind = "AUTO" THEN "queued" ELSE "asked", at |-> d,
                        reversible |-> kind = "AUTO" /\ policy.fullAuto,
                        asked |-> kind # "AUTO", auto |-> policy.user[Delete] = "AUTO"]
    BY <1>2 DEF TurnDeletes, TrashTypeOK
  <2>2. kind # "AUTO" \/ policy.fullAuto \/ policy.user[Delete] = "AUTO"
    BY DeleteAsks
  <2> HIDE DEF kind
  <2>3. /\ deletion'[b].reversible = (kind = "AUTO" /\ policy.fullAuto)
        /\ deletion'[b].asked = (kind # "AUTO")
        /\ deletion'[b].auto = (policy.user[Delete] = "AUTO")
        /\ deletion'[b].stage # "destroyed"
    BY <2>1
  <2>4. QED
    BY <2>2, <2>3, Zenon
<1>3. ASSUME NEW b \in TrashBatches
      PROVE  /\ deletion'[b].stage # "none" =>
                  deletion'[b].reversible \/ deletion'[b].asked \/ deletion'[b].auto
             /\ deletion'[b].stage = "destroyed" => ~deletion'[b].reversible
  BY <1>2, DeletionMoves, Zenon DEF DeletesHaveTerms
<1>4. QED
  BY <1>1, <1>3 DEF DeletesHaveTerms

LEMMA DestroyedFollows == DeletesHaveTerms => DestroyedOnRequest
BY Zenon DEF DeletesHaveTerms, DestroyedOnRequest

LEMMA TrashInitIInv == TrashInit => TrashIInv
<1> SUFFICES ASSUME TrashInit
             PROVE  TrashIInv
  OBVIOUS
<1>1. policy.global[Delete] # "AUTO"
  BY DeleteIsATool DEF TrashInit, NoRow
<1>2. \A b \in TrashBatches : deletion[b].stage = "none" /\ entry[b] = "none"
  BY DEF TrashInit, NoDelete
<1>3. QED
  BY <1>1, <1>2, TrashTypeInit, DestroyedFollows DEF TrashIInv, DeletesHaveTerms, ClosedIsUndone

LEMMA TrashIInvStep ==
  ASSUME TrashIInv, [TrashNext]_trashVars
  PROVE  TrashIInv'
<1>1. TrashTypeOK' /\ ClosedIsUndone' /\ DeletesHaveTerms'
  BY TrashTypeStep, ClosedStep, TermsStep DEF TrashIInv
<1>2. DestroyedOnRequest'
  BY <1>1, Zenon DEF DeletesHaveTerms, DestroyedOnRequest
<1>3. QED
  BY <1>1, <1>2 DEF TrashIInv

\* The ledger of deletes satisfies its inductive invariant, whatever requests, turns
\* and computers do, and in whatever order.
THEOREM TrashInvariant == TrashSpec => []TrashIInv
BY TrashInitIInv, TrashIInvStep, PTL DEF TrashSpec

\* An entry that trash.py shows as restored is back, or a job to bring it back was
\* made: two undo requests at once, or one and the chat, never close it for nothing.
THEOREM ClosedEntriesAreUndone == TrashSpec => []ClosedIsUndone
<1>1. TrashIInv => ClosedIsUndone
  BY DEF TrashIInv
<1>2. QED
  BY <1>1, TrashInvariant, PTL

\* Whatever is switched between the decision and the delete, core.py has files
\* destroyed for good only on an approved card or under the user's own setting.
THEOREM DeletesAreConsented == TrashSpec => []DestroyedOnRequest
<1>1. TrashIInv => DestroyedOnRequest
  BY DEF TrashIInv
<1>2. QED
  BY <1>1, TrashInvariant, PTL
-----------------------------------------------------------------------------
\* The audit log.
USE AuditAssumption

AuditRows == [number : 1 .. MaxEntries, prev : Unchained .. MaxEntries, fresh : BOOLEAN]

LEMMA BeforeIsANumber ==
  ASSUME AuditTypeOK, NEW i \in 1 .. (Len(log) + 1)
  PROVE  Before(i) \in 0 .. MaxEntries
<1>1. log \in Seq(AuditRows)
  BY DEF AuditTypeOK, AuditRows
<1>2. CASE i = 1
  BY <1>2 DEF Before
<1>3. CASE i # 1
  <2>1. log[i - 1] \in AuditRows
    BY <1>1, <1>3
  <2>2. QED
    BY <1>3, <2>1 DEF Before, AuditRows
<1>4. QED
  BY <1>2, <1>3

LEMMA AuditInitIInv == AuditInit => AuditIInv
<1> SUFFICES ASSUME AuditInit
             PROVE  AuditIInv
  OBVIOUS
<1> USE DEF AuditInit
<1>1. log \in Seq(AuditRows) /\ Len(log) = LegacyEntries
      /\ \A i \in DOMAIN log : log[i].prev = Unchained
  <2>1. \A i \in 1 .. LegacyEntries :
          [number |-> i, prev |-> Unchained, fresh |-> TRUE] \in AuditRows
    BY DEF AuditRows, Unchained
  <2>2. log \in [1 .. LegacyEntries -> AuditRows]
    BY <2>1
  <2>3. LegacyEntries \in Nat
    OBVIOUS
  <2>4. log \in Seq(AuditRows)
    BY <2>2, <2>3, SeqDef
  <2>5. Len(log) = LegacyEntries
    BY <2>3, <2>4, LenProperties
  <2>6. QED
    BY <2>1, <2>4, <2>5
<1>2. AuditTypeOK
  <2>1. log \in Seq([number : 1 .. MaxEntries, prev : Unchained .. MaxEntries, fresh : BOOLEAN])
    BY <1>1 DEF AuditRows
  <2>2. committed \in 0 .. Len(log) /\ numbered \in 0 .. MaxEntries
    BY <1>1
  <2>3. seen \in [Sessions -> Nothing .. MaxEntries] /\ fresh \in [Sessions -> BOOLEAN]
    BY DEF Nothing
  <2>4. QED
    BY <2>1, <2>2, <2>3 DEF AuditTypeOK
<1>3. ChainIsReady /\ FreshIsLast /\ BrokenOnlyByStaleReads
  BY <1>1 DEF ChainIsReady, FreshIsLast, BrokenOnlyByStaleReads
<1>4. QED
  BY <1>2, <1>3 DEF AuditIInv

LEMMA BackfillStep ==
  ASSUME AuditIInv, Backfill
  PROVE  AuditIInv'
<1> USE DEF AuditIInv
<1>1. log \in Seq(AuditRows)
  BY DEF AuditTypeOK, AuditRows
<1>2. \A i \in DOMAIN log : log[i].prev = Unchained
  BY DEF ChainIsReady, Backfill
<1>3. log' = [i \in DOMAIN log |-> [log[i] EXCEPT !.prev = Before(i)]]
  BY <1>2 DEF Backfill
<1>4. \A i \in DOMAIN log : Before(i) \in 0 .. MaxEntries
  BY <1>1, BeforeIsANumber
<1>5. \A i \in DOMAIN log : /\ [log[i] EXCEPT !.prev = Before(i)] \in AuditRows
                            /\ [log[i] EXCEPT !.prev = Before(i)].prev = Before(i)
                            /\ [log[i] EXCEPT !.prev = Before(i)].number = log[i].number
  <2> SUFFICES ASSUME NEW i \in DOMAIN log
               PROVE  /\ [log[i] EXCEPT !.prev = Before(i)] \in AuditRows
                      /\ [log[i] EXCEPT !.prev = Before(i)].prev = Before(i)
                      /\ [log[i] EXCEPT !.prev = Before(i)].number = log[i].number
    OBVIOUS
  <2>1. log[i] \in AuditRows /\ Before(i) \in Unchained .. MaxEntries
    BY <1>1, <1>4 DEF Unchained
  <2>2. QED
    BY <2>1 DEF AuditRows
<1>6. log' \in Seq(AuditRows) /\ Len(log') = Len(log) /\ DOMAIN log' = DOMAIN log
  <2>1. Len(log) \in Nat /\ DOMAIN log = 1 .. Len(log)
    BY <1>1
  <2>2. log' \in [1 .. Len(log) -> AuditRows]
    BY <1>3, <1>5, <2>1
  <2>3. log' \in Seq(AuditRows)
    BY <2>1, <2>2, SeqDef
  <2>4. DOMAIN log' = 1 .. Len(log)
    BY <2>2
  <2>5. QED
    BY <2>1, <2>3, <2>4, LenProperties
<1>7. \A i \in DOMAIN log : log'[i].prev = Before(i) /\ log'[i].number = log[i].number
  BY <1>3, <1>5
<1>8. \A i \in DOMAIN log : Before(i)' = Before(i)
  BY <1>1, <1>6, <1>7 DEF Before
<1>9. AuditTypeOK'
  BY <1>6 DEF AuditTypeOK, Backfill, AuditRows
<1>10. ChainIsReady' /\ FreshIsLast'
  BY <1>6 DEF ChainIsReady, FreshIsLast, Backfill
<1>11. BrokenOnlyByStaleReads'
  BY <1>6, <1>7, <1>8 DEF BrokenOnlyByStaleReads, BrokenAt
<1>12. QED
  BY <1>9, <1>10, <1>11

LEMMA AuditReadStep ==
  ASSUME AuditIInv, NEW s \in Sessions, ReadsLast(s)
  PROVE  AuditIInv'
<1> USE DEF AuditIInv
<1>1. LastSeenBy(s) \in 0 .. MaxEntries
  <2> DEFINE n == IF writer = s THEN Len(log) ELSE committed
  <2>1. n \in 0 .. Len(log) /\ Len(log) \in Nat
    BY DEF AuditTypeOK
  <2>2. LastSeenBy(s) = Before(n + 1)
    BY <2>1 DEF LastSeenBy, Before
  <2>3. QED
    BY <2>1, <2>2, BeforeIsANumber
<1>2. writer = s => LastSeenBy(s) = Before(Len(log) + 1)
  BY DEF LastSeenBy, Before, AuditTypeOK
<1>3. AuditTypeOK'
  BY <1>1 DEF ReadsLast, AuditTypeOK, Nothing
<1>4. FreshIsLast'
  <2> SUFFICES ASSUME NEW t \in Sessions, fresh'[t], seen'[t] # Nothing
               PROVE  writer' = t /\ seen'[t] = Before(Len(log) + 1)'
    BY DEF FreshIsLast
  <2>1. CASE t = s
    BY <1>2, <2>1 DEF ReadsLast, Before, AuditTypeOK
  <2>2. CASE t # s
    BY <2>2 DEF ReadsLast, Before, AuditTypeOK, FreshIsLast
  <2>3. QED
    BY <2>1, <2>2
<1>5. ChainIsReady' /\ BrokenOnlyByStaleReads'
  BY DEF ReadsLast, ChainIsReady, BrokenOnlyByStaleReads, BrokenAt, Before
<1>6. QED
  BY <1>3, <1>4, <1>5

LEMMA AuditInsertStep ==
  ASSUME AuditIInv, NEW s \in Sessions, Inserts(s)
  PROVE  AuditIInv'
<1> USE DEF AuditIInv
<1> DEFINE new == [number |-> numbered + 1, prev |-> seen[s], fresh |-> fresh[s]]
<1>1. log \in Seq(AuditRows) /\ new \in AuditRows /\ log' = Append(log, new)
  BY DEF AuditTypeOK, AuditRows, Inserts, Nothing, Unchained
<1>2. new.prev = seen[s] /\ new.fresh = fresh[s]
  OBVIOUS
<1> HIDE DEF new
<1>3. /\ log' \in Seq(AuditRows) /\ Len(log') = Len(log) + 1 /\ log'[Len(log) + 1] = new
      /\ \A i \in 1 .. Len(log) : log'[i] = log[i]
  BY <1>1
<1>4. \A i \in 1 .. (Len(log) + 1) : Before(i)' = Before(i)
  BY <1>1, <1>3 DEF Before
<1>5. started
  BY DEF Inserts, ChainIsReady
<1>6. AuditTypeOK'
  BY <1>1, <1>3 DEF AuditTypeOK, AuditRows, Inserts, Nothing
<1>7. FreshIsLast'
  BY DEF FreshIsLast, Inserts, AuditTypeOK
<1>8. ChainIsReady'
  BY <1>5 DEF ChainIsReady, Inserts
<1>9. BrokenOnlyByStaleReads'
  <2> SUFFICES ASSUME NEW i \in DOMAIN log', log'[i].fresh
               PROVE  log'[i].prev = Before(i)'
    BY DEF BrokenOnlyByStaleReads, BrokenAt
  <2>1. i \in 1 .. (Len(log) + 1)
    BY <1>1, <1>3
  <2>2. CASE i = Len(log) + 1
    <3>1. fresh[s] /\ seen[s] # Nothing
      BY <1>2, <1>3, <2>2 DEF Inserts
    <3>2. seen[s] = Before(i)
      BY <2>2, <3>1 DEF FreshIsLast
    <3>3. QED
      BY <1>2, <1>3, <1>4, <2>1, <2>2, <3>2
  <2>3. CASE i # Len(log) + 1
    <3>1. i \in DOMAIN log /\ log'[i] = log[i]
      BY <1>1, <1>3, <2>1, <2>3
    <3>2. log[i].prev = Before(i)
      BY <1>5, <3>1 DEF BrokenOnlyByStaleReads, BrokenAt
    <3>3. QED
      BY <1>4, <2>1, <3>1, <3>2
  <2>4. QED
    BY <2>2, <2>3
<1>10. QED
  BY <1>6, <1>7, <1>8, <1>9

LEMMA AuditRollbackStep ==
  ASSUME AuditIInv, NEW s \in Sessions, Rollback(s)
  PROVE  AuditIInv'
<1> USE DEF AuditIInv
<1>1. log \in Seq(AuditRows) /\ committed \in 0 .. Len(log) /\ started
  BY DEF AuditTypeOK, AuditRows, Rollback, ChainIsReady
<1>2. /\ log' \in Seq(AuditRows) /\ Len(log') \in committed .. Len(log)
      /\ writer = s => Len(log') = committed
      /\ writer # s => log' = log
      /\ \A i \in 1 .. Len(log') : log'[i] = log[i]
  <2>1. CASE writer = s
    <3>1. log' = SubSeq(log, 1, committed)
      BY <2>1 DEF Rollback
    <3>2. Len(log') = committed /\ \A i \in 1 .. committed : log'[i] = log[i]
      BY <1>1, <3>1
    <3>3. log' \in Seq(AuditRows)
      BY <1>1, <3>1
    <3>4. QED
      BY <1>1, <2>1, <3>2, <3>3
  <2>2. CASE writer # s
    BY <1>1, <2>2 DEF Rollback
  <2>3. QED
    BY <2>1, <2>2
<1>3. \A i \in 1 .. (Len(log') + 1) : Before(i)' = Before(i)
  BY <1>1, <1>2 DEF Before
<1>4. AuditTypeOK'
  BY <1>1, <1>2 DEF AuditTypeOK, AuditRows, Rollback, Nothing
<1>5. FreshIsLast'
  <2> SUFFICES ASSUME NEW t \in Sessions, fresh'[t], seen'[t] # Nothing
               PROVE  writer' = t /\ seen'[t] = Before(Len(log) + 1)'
    BY DEF FreshIsLast
  <2>1. t # s /\ fresh[t] /\ seen[t] # Nothing
    BY DEF Rollback, AuditTypeOK
  <2>2. writer = t /\ seen[t] = Before(Len(log) + 1)
    BY <2>1 DEF FreshIsLast
  <2>3. log' = log
    BY <1>2, <2>1, <2>2
  <2>4. QED
    BY <2>1, <2>2, <2>3 DEF Rollback, Before, AuditTypeOK
<1>6. ChainIsReady'
  BY <1>1, <1>2 DEF ChainIsReady, Rollback
<1>7. BrokenOnlyByStaleReads'
  BY <1>1, <1>2, <1>3 DEF BrokenOnlyByStaleReads, BrokenAt
<1>8. QED
  BY <1>4, <1>5, <1>6, <1>7

LEMMA AuditCommitStep ==
  ASSUME AuditIInv, NEW s \in Sessions, Writes(s) \/ Commit(s)
  PROVE  AuditIInv'
<1> USE DEF AuditIInv
<1>1. UNCHANGED <<log, seen, fresh, numbered, started>> /\ started
  BY DEF Writes, Commit, ChainIsReady
<1>2. AuditTypeOK'
  BY DEF AuditTypeOK, Writes, Commit
<1>3. FreshIsLast'
  <2> SUFFICES ASSUME NEW t \in Sessions, fresh'[t], seen'[t] # Nothing
               PROVE  writer' = t /\ seen'[t] = Before(Len(log) + 1)'
    BY DEF FreshIsLast
  <2>1. writer = t /\ seen[t] = Before(Len(log) + 1)
    BY <1>1 DEF FreshIsLast
  <2>2. t # s
    BY <1>1, <2>1 DEF Writes, Commit
  <2>3. FALSE
    BY <2>1, <2>2 DEF Writes, Commit
  <2>4. QED
    BY <2>3
<1>4. ChainIsReady' /\ BrokenOnlyByStaleReads'
  BY <1>1 DEF ChainIsReady, BrokenOnlyByStaleReads, BrokenAt, Before, Writes, Commit
<1>5. QED
  BY <1>2, <1>3, <1>4

LEMMA AuditIInvStep ==
  ASSUME AuditIInv, [AuditNext]_auditVars
  PROVE  AuditIInv'
<1>1. CASE UNCHANGED auditVars
  BY <1>1 DEF auditVars, AuditIInv, AuditTypeOK, ChainIsReady, FreshIsLast,
              BrokenOnlyByStaleReads, BrokenAt, Before
<1>2. QED
  BY <1>1, BackfillStep, AuditReadStep, AuditInsertStep, AuditRollbackStep, AuditCommitStep
     DEF AuditNext

\* However the transactions overlap, and whichever of them are undone, the audit log
\* satisfies its inductive invariant.
THEOREM AuditInvariant == AuditSpec => []AuditIInv
BY AuditInitIInv, AuditIInvStep, PTL DEF AuditSpec

\* verify_audit_chain (audit.py) finds the chain broken at no entry whose session held
\* the write lock when record_audit read the last hash.
THEOREM ChainBreaksOnlyOnStaleReads == AuditSpec => []BrokenOnlyByStaleReads
<1>1. AuditIInv => BrokenOnlyByStaleReads
  BY DEF AuditIInv
<1>2. QED
  BY <1>1, AuditInvariant, PTL
=============================================================================
