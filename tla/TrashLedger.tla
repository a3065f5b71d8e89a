----------------------------- MODULE TrashLedger -----------------------------
(***************************************************************************)
(* Deletes and their undo, seen from the server (trash.py, core.py,        *)
(* user_routes.py, and the registration and revocation of computers in     *)
(* auth_routes.py).                                                        *)
(*                                                                         *)
(* Under FULL_AUTO a delete moves the files to the trash of the computer.  *)
(* The turn that waited for it enters the batch in the ledger.  The user   *)
(* asks for an undo, from the list or in the chat, and a job restores the  *)
(* files.  The ledger is closed when the job is made, not when it is done. *)
(*                                                                         *)
(* A job is delivered or given up as DeviceJobs has it: one step here.     *)
(***************************************************************************)
EXTENDS Policy, FiniteSets

CONSTANTS Computers,        \* computers of one user
          TrashBatches,     \* deletes
          UndoRequests      \* requests that may be at work at once

VARIABLES policy,      \* the user's policy
          computer,    \* by computer: is it online, or removed
          deletion,    \* by batch: how far its delete is, where, and on what terms
          waiting,     \* the batches whose turn waits for the job
          entry,       \* by batch: its row in trash_entries
          undo,        \* by batch: the job with the key restore:<batch>
          chatRestore, \* by batch: the job of a restore asked for in the chat
          undoing      \* by request: the batch it has found open, and the computer

trashVars == <<policy, computer, deletion, waiting, entry, undo, chatRestore, undoing>>

CONSTANT NoComputer

ASSUME TrashAssumption ==
  /\ IsFiniteSet(Computers) /\ IsFiniteSet(TrashBatches) /\ IsFiniteSet(UndoRequests)
  /\ NoComputer \notin Computers
  /\ SupervisedDeletes # {}

Delete == CHOOSE t \in SupervisedDeletes : TRUE

JobStages == {"none", "QUEUED", "SUCCEEDED", "FAILED", "DROPPED"}

NoDelete == [stage |-> "none", at |-> NoComputer, reversible |-> FALSE, asked |-> FALSE,
             auto |-> FALSE]

NoRestore == [stage |-> "none", at |-> NoComputer]

NoUndo == [batch |-> "none", at |-> NoComputer]

RestoreJobs == [stage : JobStages, at : Computers \cup {NoComputer}]

TrashTypeOK ==
  /\ policy \in Policies
  /\ computer \in [Computers -> {"ONLINE", "OFFLINE", "REVOKED"}]
  /\ deletion \in [TrashBatches ->
                     [stage : {"none", "asked", "queued", "trashed", "restored", "destroyed", "dropped"},
                      at : Computers \cup {NoComputer},
                      reversible : BOOLEAN, asked : BOOLEAN, auto : BOOLEAN]]
  /\ waiting \subseteq TrashBatches
  /\ entry \in [TrashBatches -> {"none", "LISTED", "RESTORED"}]
  /\ undo \in [TrashBatches -> RestoreJobs]
  /\ chatRestore \in [TrashBatches -> RestoreJobs]
  /\ undoing \in [UndoRequests -> [batch : TrashBatches \cup {"none"},
                                   at : Computers \cup {NoComputer}]]

TrashInit ==
  /\ policy = [fullAuto |-> FALSE, user |-> [t \in Tools |-> NoRow],
               global |-> [t \in Tools |-> NoRow], threshold |-> [t \in Tools |-> 0]]
  /\ computer = [d \in Computers |-> "ONLINE"]
  /\ deletion = [b \in TrashBatches |-> NoDelete]
  /\ waiting = {}
  /\ entry = [b \in TrashBatches |-> "none"]
  /\ undo = [b \in TrashBatches |-> NoRestore]
  /\ chatRestore = [b \in TrashBatches |-> NoRestore]
  /\ undoing = [r \in UndoRequests |-> NoUndo]

(***************************************************************************)
(* The settings of the user and of the supervisor.                         *)
(***************************************************************************)
SwitchesFullAuto ==
  /\ policy' = [policy EXCEPT !.fullAuto = ~policy.fullAuto]
  /\ UNCHANGED <<computer, deletion, waiting, entry, undo, chatRestore, undoing>>

OverridesPolicy(kind) ==
  /\ policy.user[Delete] # kind
  /\ policy' = [policy EXCEPT !.user[Delete] = kind]
  /\ UNCHANGED <<computer, deletion, waiting, entry, undo, chatRestore, undoing>>

\* The supervisor's row for all users.  Deleting unasked is refused there.  The
\* threshold that comes with it only says which of the two is asked.
SetsGlobalPolicy(kind) ==
  /\ kind # "AUTO"
  /\ policy.global[Delete] # kind
  /\ policy' = [policy EXCEPT !.global[Delete] = kind]
  /\ UNCHANGED <<computer, deletion, waiting, entry, undo, chatRestore, undoing>>

(***************************************************************************)
(* The computers.                                                          *)
(***************************************************************************)
GoesOffline(d) ==
  /\ computer[d] = "ONLINE"
  /\ computer' = [computer EXCEPT ![d] = "OFFLINE"]
  /\ UNCHANGED <<policy, deletion, waiting, entry, undo, chatRestore, undoing>>

\* A heartbeat, or a registration under the name it has already.
ComesOnline(d) ==
  /\ computer[d] = "OFFLINE"
  /\ computer' = [computer EXCEPT ![d] = "ONLINE"]
  /\ UNCHANGED <<policy, deletion, waiting, entry, undo, chatRestore, undoing>>

Listed(d) == {b \in TrashBatches : entry[b] # "none" /\ deletion[b].at = d}

Dropped(jobs, d) ==
  [b \in TrashBatches |->
     IF jobs[b].at = d /\ jobs[b].stage = "QUEUED" THEN [jobs[b] EXCEPT !.stage = "DROPPED"]
     ELSE jobs[b]]

\* Its jobs go with the computer.  One that the ledger names cannot go: the row is
\* neither deleted nor cleared, and the database refuses.
Revoke(d) ==
  /\ computer[d] # "REVOKED"
  /\ Listed(d) = {}
  /\ computer' = [computer EXCEPT ![d] = "REVOKED"]
  /\ deletion' = [b \in TrashBatches |->
                    IF deletion[b].at = d /\ deletion[b].stage = "queued"
                    THEN [deletion[b] EXCEPT !.stage = "dropped"] ELSE deletion[b]]
  /\ undo' = Dropped(undo, d)
  /\ chatRestore' = Dropped(chatRestore, d)
  /\ UNCHANGED <<policy, waiting, entry, undoing>>

(***************************************************************************)
(* A delete.                                                               *)
(***************************************************************************)
Counts == {1, DefaultThreshold + 1}

\* The turn asks, or has the computer do it at once and waits.
TurnDeletes(b, d, count) ==
  LET kind == ActionApprovalKind(policy, Delete, count) IN
  /\ deletion[b] = NoDelete
  /\ computer[d] # "REVOKED"
  /\ kind = "AUTO" => computer[d] = "ONLINE"
  /\ deletion' = [deletion EXCEPT ![b] =
                    [stage |-> IF kind = "AUTO" THEN "queued" ELSE "asked", at |-> d,
                     reversible |-> kind = "AUTO" /\ policy.fullAuto,
                     asked |-> kind # "AUTO", auto |-> policy.user[Delete] = "AUTO"]]
  /\ waiting' = IF kind = "AUTO" THEN waiting \cup {b} ELSE waiting
  /\ UNCHANGED <<policy, computer, entry, undo, chatRestore, undoing>>

\* The job of an approved card is as the card had it.
DeleteApproved(b) ==
  /\ deletion[b].stage = "asked"
  /\ computer[deletion[b].at] = "ONLINE"
  /\ deletion' = [deletion EXCEPT ![b].stage = "queued"]
  /\ UNCHANGED <<policy, computer, waiting, entry, undo, chatRestore, undoing>>

ComputerDeletes(b) ==
  /\ deletion[b].stage = "queued"
  /\ computer[deletion[b].at] = "ONLINE"
  /\ deletion' = [deletion EXCEPT ![b].stage =
                    IF deletion[b].reversible THEN "trashed" ELSE "destroyed"]
  /\ UNCHANGED <<policy, computer, waiting, entry, undo, chatRestore, undoing>>

\* record_trash_entry, for the turn that is still there.
TurnReceives(b) ==
  /\ b \in waiting
  /\ deletion[b].stage \in {"trashed", "destroyed", "restored"}
  /\ computer[deletion[b].at] # "REVOKED"
  /\ waiting' = waiting \ {b}
  /\ entry' = IF deletion[b].reversible THEN [entry EXCEPT ![b] = "LISTED"] ELSE entry
  /\ UNCHANGED <<policy, computer, deletion, undo, chatRestore, undoing>>

\* The wait is over, the worker was stopped, or the job went with its computer.
TurnStopsWaiting(b) ==
  /\ b \in waiting
  /\ waiting' = waiting \ {b}
  /\ UNCHANGED <<policy, computer, deletion, entry, undo, chatRestore, undoing>>

(***************************************************************************)
(* The undo.  What a request has read is used after another has written.   *)
(***************************************************************************)
Online == {d \in Computers : computer[d] = "ONLINE"}

\* find_online_device: that one, or else any other of the user's.
OnlineFor(d) == IF d \in Online THEN {d} ELSE Online

UndoRequested(r, b) ==
  /\ undoing[r] = NoUndo
  /\ entry[b] = "LISTED"
  /\ \E d \in OnlineFor(deletion[b].at) :
       undoing' = [undoing EXCEPT ![r] = [batch |-> b, at |-> d]]
  /\ UNCHANGED <<policy, computer, deletion, waiting, entry, undo, chatRestore>>

RestoreJobIfOnline(b, d) ==
  IF undo[b].stage \in {"none", "DROPPED"} /\ computer[d] = "ONLINE"
  THEN [undo EXCEPT ![b] = [stage |-> "QUEUED", at |-> d]] ELSE undo

\* A second request gets the job that the first has made.
RestoreJob(b, d) ==
  IF undo[b].stage \in {"none", "DROPPED"}
  THEN [undo EXCEPT ![b] = [stage |-> "QUEUED", at |-> d]] ELSE undo

UndoEntered(r) ==
  LET b == undoing[r].batch
      d == undoing[r].at IN
  /\ undoing[r] # NoUndo
  /\ computer[d] # "REVOKED"
  /\ undo' = RestoreJob(b, d)
  /\ entry' = [entry EXCEPT ![b] = "RESTORED"]
  /\ undoing' = [undoing EXCEPT ![r] = NoUndo]
  /\ UNCHANGED <<policy, computer, deletion, waiting, chatRestore>>

\* The computer was removed in between, or the server stops.
UndoAborts(r) ==
  /\ undoing[r] # NoUndo
  /\ undoing' = [undoing EXCEPT ![r] = NoUndo]
  /\ UNCHANGED <<policy, computer, deletion, waiting, entry, undo, chatRestore>>

\* In the chat the batch is one that the computer's own list shows.
ChatRestores(b) ==
  /\ deletion[b].stage = "trashed"
  /\ computer[deletion[b].at] = "ONLINE"
  /\ chatRestore[b].stage = "none"
  /\ chatRestore' = [chatRestore EXCEPT ![b] = [stage |-> "QUEUED", at |-> deletion[b].at]]
  /\ UNCHANGED <<policy, computer, deletion, waiting, entry, undo, undoing>>

\* restore_trash: files that are in the way are left in the trash, and it is still
\* OK.  What another computer is asked for it does not have.
Outcomes(b, d) ==
  IF deletion[b].at = d /\ deletion[b].stage = "trashed"
  THEN {[job |-> "SUCCEEDED", files |-> "restored"], [job |-> "SUCCEEDED", files |-> "trashed"],
        [job |-> "FAILED", files |-> "trashed"]}
  ELSE {[job |-> "FAILED", files |-> deletion[b].stage]}

UndoRuns(b) ==
  /\ undo[b].stage = "QUEUED"
  /\ computer[undo[b].at] = "ONLINE"
  /\ \E o \in Outcomes(b, undo[b].at) :
       /\ undo' = [undo EXCEPT ![b].stage = o.job]
       /\ deletion' = [deletion EXCEPT ![b].stage = o.files]
  /\ UNCHANGED <<policy, computer, waiting, entry, chatRestore, undoing>>

\* mark_trash_restored, for the turn that is still there.
ChatRestoreRuns(b) ==
  /\ chatRestore[b].stage = "QUEUED"
  /\ computer[chatRestore[b].at] = "ONLINE"
  /\ \E o \in Outcomes(b, chatRestore[b].at) :
       /\ chatRestore' = [chatRestore EXCEPT ![b].stage = o.job]
       /\ deletion' = [deletion EXCEPT ![b].stage = o.files]
       /\ \/ UNCHANGED entry
          \/ /\ o.job = "SUCCEEDED" /\ entry[b] = "LISTED"
             /\ entry' = [entry EXCEPT ![b] = "RESTORED"]
  /\ UNCHANGED <<policy, computer, waiting, undo, undoing>>

\* A job that its computer has given back too often.
UndoGivenUp(b) ==
  /\ undo[b].stage = "QUEUED"
  /\ undo' = [undo EXCEPT ![b].stage = "FAILED"]
  /\ UNCHANGED <<policy, computer, deletion, waiting, entry, chatRestore, undoing>>

TrashNext ==
  \/ SwitchesFullAuto
  \/ \E kind \in PolicyKinds \cup {NoRow} : OverridesPolicy(kind)
  \/ \E kind \in PolicyKinds : SetsGlobalPolicy(kind)
  \/ \E d \in Computers : GoesOffline(d) \/ ComesOnline(d) \/ Revoke(d)
  \/ \E b \in TrashBatches, d \in Computers, count \in Counts : TurnDeletes(b, d, count)
  \/ \E b \in TrashBatches :
       \/ DeleteApproved(b) \/ ComputerDeletes(b) \/ TurnReceives(b) \/ TurnStopsWaiting(b)
       \/ ChatRestores(b) \/ UndoRuns(b) \/ ChatRestoreRuns(b) \/ UndoGivenUp(b)
  \/ \E r \in UndoRequests, b \in TrashBatches : UndoRequested(r, b)
  \/ \E r \in UndoRequests : UndoEntered(r) \/ UndoAborts(r)

TrashSpec == TrashInit /\ [][TrashNext]_trashVars

(***************************************************************************)
(* Properties.                                                             *)
(***************************************************************************)
\* A batch whose row is closed is back, or a job to bring it back is on its way or
\* has had its turn: two requests at once, or a request and the chat, never close
\* the row of a batch for which nothing is done.
ClosedIsUndone ==
  \A b \in TrashBatches : entry[b] = "RESTORED" =>
    \/ deletion[b].stage = "restored"
    \/ undo[b].stage # "none"
    \/ chatRestore[b].stage = "SUCCEEDED"

\* Files are destroyed for good only after a card was approved or where the user
\* has set deleting to run unasked, whatever was switched in the meantime.
DestroyedOnRequest ==
  \A b \in TrashBatches : deletion[b].stage = "destroyed" =>
    deletion[b].asked \/ deletion[b].auto

(***************************************************************************)
(* The inductive invariant.                                                *)
(***************************************************************************)

\* A delete that is on its way, or done, can be undone or was asked for.
DeletesHaveTerms ==
  /\ policy.global[Delete] # "AUTO"
  /\ \A b \in TrashBatches : deletion[b].stage # "none" =>
       deletion[b].reversible \/ deletion[b].asked \/ deletion[b].auto
  /\ \A b \in TrashBatches : deletion[b].stage = "destroyed" => ~deletion[b].reversible

TrashIInv == TrashTypeOK /\ DeletesHaveTerms /\ ClosedIsUndone /\ DestroyedOnRequest
=============================================================================
