---------------------------- MODULE TaskApproval ----------------------------
(***************************************************************************)
(* One employee's tasks: the conversation worker's turn (agent/core.py,     *)
(* worker.py), the approval cards it asks for (approval.py), the device jobs *)
(* both lead to (agent_jobs.py, api/agent_routes.py), the employee who       *)
(* answers and cancels (api/user_routes.py), and the periodic sweep.         *)
(*                                                                          *)
(* A request handler is one transaction, hence one action; the turn is cut  *)
(* where it commits.  The claims and leases of device jobs are the subject of *)
(* DeviceJobs, the loss and recovery of turns that of ConversationWorker.    *)
(***************************************************************************)
EXTENDS Naturals

CONSTANTS Tasks,
          Cards,      \* approval rows a turn may ask for
          Calls,      \* device tool calls a turn may delegate without an approval
          Devices,
          None,       \* no device, no call
          OwnerOf     \* the task of a card or a call

\* A card and a call have one device job each, named by the card or the call: an approved
\* action's idempotency key is its card.
Jobs == Cards \cup Calls

ASSUME CardsAreNotCalls == Cards \cap Calls = {}
ASSUME NoneIsNone == None \notin Devices \cup Calls
ASSUME OwnerOfIsFunction == OwnerOf \in [Jobs -> Tasks]

VARIABLES
  tstatus,    \* tasks.status, NEW before the INSERT
  approval,   \* tasks.approval_status
  cancel,     \* tasks.cancel_requested
  target,     \* tasks.device_id, the device the employee selected
  conv,       \* conversation_jobs.status
  turn,       \* where the worker's turn is
  call,       \* the delegated call the turn waits for
  asked,      \* the turn's tool events include a WAITING_*_APPROVAL
  bad,        \* the turn's tool events include a BLOCKED or an ERROR
  card,       \* approvals.status; LAPSED is PENDING with expires_at in the past
  job,        \* agent_jobs.status and the reported sub-status: OK and PARTIAL are SUCCEEDED
  jobDev,     \* agent_jobs.device_id
  handed,     \* jobs an agent program was given at least once (attempt_count > 0)
  done,       \* jobs a program reported as carried out, whatever the row says by then
  online      \* the devices whose status is ONLINE

taskVars == <<tstatus, approval, cancel, target>>
turnVars == <<conv, turn, call, asked, bad>>
jobVars == <<job, jobDev, handed, done>>
vars == <<tstatus, approval, cancel, target, conv, turn, call, asked, bad, card, job,
          jobDev, handed, done, online>>

Terminal == {"COMPLETED", "FAILED", "CANCELLED"}
TaskStatuses == {"NEW", "PLANNING", "RUNNING", "WAITING_APPROVAL"} \cup Terminal
JobStates == {"NONE", "PENDING", "CLAIMED", "OK", "PARTIAL", "FAILED"}
Outcomes == {"OK", "PARTIAL", "FAILED"}

TypeOK ==
  /\ tstatus \in [Tasks -> TaskStatuses]
  /\ approval \in [Tasks -> {"NULL", "PENDING", "APPROVED", "REJECTED"}]
  /\ cancel \in [Tasks -> BOOLEAN]
  /\ target \in [Tasks -> Devices \cup {None}]
  /\ conv \in [Tasks -> {"NONE", "PENDING", "CLAIMED", "SUCCEEDED", "FAILED"}]
  /\ turn \in [Tasks -> {"NONE", "START", "CHECK", "MODEL", "TOOL", "ENDED"}]
  /\ call \in [Tasks -> Calls \cup {None}]
  /\ asked \in [Tasks -> BOOLEAN]
  /\ bad \in [Tasks -> BOOLEAN]
  /\ card \in [Cards -> {"ABSENT", "PENDING", "LAPSED", "APPROVED", "REJECTED"}]
  /\ job \in [Jobs -> JobStates]
  /\ jobDev \in [Jobs -> Devices \cup {None}]
  /\ handed \subseteq Jobs /\ done \subseteq handed
  /\ online \subseteq Devices

Init ==
  /\ tstatus = [t \in Tasks |-> "NEW"]
  /\ approval = [t \in Tasks |-> "NULL"]
  /\ cancel = [t \in Tasks |-> FALSE]
  /\ target = [t \in Tasks |-> None]
  /\ conv = [t \in Tasks |-> "NONE"]
  /\ turn = [t \in Tasks |-> "NONE"]
  /\ call = [t \in Tasks |-> None]
  /\ asked = [t \in Tasks |-> FALSE]
  /\ bad = [t \in Tasks |-> FALSE]
  /\ card = [c \in Cards |-> "ABSENT"]
  /\ job = [x \in Jobs |-> "NONE"]
  /\ jobDev = [x \in Jobs |-> None]
  /\ handed = {} /\ done = {}
  /\ online \in SUBSET Devices

CardsOf(t) == {c \in Cards : OwnerOf[c] = t}
Asked(t) == {c \in CardsOf(t) : card[c] # "ABSENT"}
JobsOf(t) == {x \in Jobs : OwnerOf[x] = t /\ job[x] # "NONE"}
Open(x) == job[x] \in {"PENDING", "CLAIMED"}
Undecided(c) == card[c] \in {"PENDING", "LAPSED"}
-----------------------------------------------------------------------------
(***************************************************************************)
(* The turn of the worker.                                                  *)
(***************************************************************************)

\* POST /conversations/{id}/messages.  Without a device named in the request the only online
\* device is taken, none when there is none; several online devices need a choice.
PostMessage(t) ==
  /\ tstatus[t] = "NEW"
  /\ \E d \in IF online = {} THEN {None} ELSE online : target' = [target EXCEPT ![t] = d]
  /\ tstatus' = [tstatus EXCEPT ![t] = "PLANNING"]
  /\ conv' = [conv EXCEPT ![t] = "PENDING"]
  /\ UNCHANGED <<approval, cancel, turn, call, asked, bad, card, jobVars, online>>

\* The UPDATE that begins _claim_and_run.
ClaimTurn(t) ==
  /\ conv[t] = "PENDING"
  /\ conv' = [conv EXCEPT ![t] = "CLAIMED"]
  /\ turn' = [turn EXCEPT ![t] = "START"]
  /\ UNCHANGED <<taskVars, call, asked, bad, card, jobVars, online>>

BeginTurn(t) ==
  /\ turn[t] = "START"
  /\ tstatus' = [tstatus EXCEPT ![t] = "RUNNING"]
  /\ turn' = [turn EXCEPT ![t] = "CHECK"]
  /\ UNCHANGED <<approval, cancel, target, conv, call, asked, bad, card, jobVars, online>>

\* The head of an iteration: the cancel flag is read in the transaction that holds what the
\* iteration before it wrote, here the task status s.
NextIteration(t, s) ==
  /\ tstatus' = [tstatus EXCEPT ![t] = IF cancel[t] THEN "CANCELLED" ELSE s]
  /\ turn' = [turn EXCEPT ![t] = IF cancel[t] THEN "ENDED" ELSE "MODEL"]

FirstIteration(t) ==
  /\ turn[t] = "CHECK"
  /\ NextIteration(t, tstatus[t])
  /\ UNCHANGED <<approval, cancel, target, conv, call, asked, bad, card, jobVars, online>>

\* create_approval for the cards in C: new rows, and the task is parked whatever its status.
\* A lapsed card that asks for the same operation as a new one is rejected to make room for it.
Ask(t, C) ==
  /\ \A c \in C : OwnerOf[c] = t /\ card[c] = "ABSENT"
  /\ \E Twins \in SUBSET {c \in CardsOf(t) : C # {} /\ card[c] = "LAPSED"} :
       card' = [c \in Cards |-> IF c \in C THEN "PENDING"
                               ELSE IF c \in Twins THEN "REJECTED" ELSE card[c]]
  /\ approval' = [approval EXCEPT ![t] = IF C = {} THEN @ ELSE "PENDING"]
  /\ asked' = [asked EXCEPT ![t] = @ \/ C # {}]
Parked(t, C) == IF C = {} THEN tstatus[t] ELSE "WAITING_APPROVAL"

\* find_reusable_approval: the same operation asked for again finds its pending card.
Reusable(t) == \E c \in CardsOf(t) : card[c] = "PENDING"

\* The model's message asks for tools that need an approval.
AskApproval(t) ==
  /\ turn[t] = "MODEL"
  /\ \E C \in SUBSET Cards : /\ C # {} \/ Reusable(t)
                             /\ Ask(t, C) /\ NextIteration(t, Parked(t, C))
  /\ UNCHANGED <<cancel, target, conv, call, bad, jobVars, online>>

\* A tool runs at once on the device, possibly after some that need an approval in the same
\* message: the commit before enqueue_job makes their cards visible.
Delegate(t) ==
  /\ turn[t] = "MODEL"
  /\ target[t] \in online
  /\ \E C \in SUBSET Cards : /\ Ask(t, C)
                             /\ tstatus' = [tstatus EXCEPT ![t] = Parked(t, C)]
  /\ \E x \in Calls : /\ OwnerOf[x] = t /\ job[x] = "NONE"
                      /\ job' = [job EXCEPT ![x] = "PENDING"]
                      /\ jobDev' = [jobDev EXCEPT ![x] = target[t]]
                      /\ call' = [call EXCEPT ![t] = x]
  /\ turn' = [turn EXCEPT ![t] = "TOOL"]
  /\ UNCHANGED <<cancel, target, conv, bad, handed, done, online>>

\* After a tool the message may hold another one, or the iteration is over.
AfterTool(t) == \/ /\ turn' = [turn EXCEPT ![t] = "MODEL"]
                   /\ UNCHANGED tstatus
                \/ NextIteration(t, tstatus[t])

\* The delegated job is decided: its outcome goes to the model, as an OK event either way.
CallReturns(t) ==
  /\ turn[t] = "TOOL" /\ ~Open(call[t])
  /\ AfterTool(t)
  /\ call' = [call EXCEPT ![t] = None]
  /\ UNCHANGED <<approval, cancel, target, conv, asked, bad, card, jobVars, online>>

\* The wait budget is exhausted: ToolExecutionBlocked.
CallGivesUp(t) ==
  /\ turn[t] = "TOOL" /\ Open(call[t])
  /\ AfterTool(t)
  /\ call' = [call EXCEPT ![t] = None]
  /\ bad' = [bad EXCEPT ![t] = TRUE]
  /\ UNCHANGED <<approval, cancel, target, conv, asked, card, jobVars, online>>

\* A tool call that is refused or fails on the server: a path outside the workspace, the
\* emergency pause, an offline device.
ToolBlocked(t) ==
  /\ turn[t] = "MODEL"
  /\ AfterTool(t)
  /\ bad' = [bad EXCEPT ![t] = TRUE]
  /\ UNCHANGED <<approval, cancel, target, conv, call, asked, card, jobVars, online>>

\* approvals_decided: while the model was finishing, every card was decided.
DecidedMeanwhile(t) == asked[t] /\ \A c \in Asked(t) : ~Undecided(c)

\* The model answers without a tool call (or reaches the iteration limit): the outcome of
\* the turn.
Answer(t) ==
  /\ turn[t] = "MODEL"
  /\ tstatus' = [tstatus EXCEPT ![t] =
                   IF DecidedMeanwhile(t) THEN @
                   ELSE IF asked[t] THEN "WAITING_APPROVAL"
                   ELSE IF bad[t] THEN "FAILED"
                   ELSE "COMPLETED"]
  /\ turn' = [turn EXCEPT ![t] = "ENDED"]
  /\ UNCHANGED <<approval, cancel, target, conv, call, asked, bad, card, jobVars, online>>

\* The provider raises.
TurnRaises(t) ==
  /\ turn[t] = "MODEL"
  /\ tstatus' = [tstatus EXCEPT ![t] = "FAILED"]
  /\ turn' = [turn EXCEPT ![t] = "ENDED"]
  /\ UNCHANGED <<approval, cancel, target, conv, call, asked, bad, card, jobVars, online>>

\* The end of _claim_and_run: the conversation job is closed by what the task shows now.
CloseTurn(t) ==
  /\ turn[t] = "ENDED"
  /\ conv' = [conv EXCEPT ![t] =
                IF tstatus[t] \in {"COMPLETED", "WAITING_APPROVAL", "CANCELLED"}
                THEN "SUCCEEDED" ELSE "FAILED"]
  /\ turn' = [turn EXCEPT ![t] = "NONE"]
  /\ UNCHANGED <<taskVars, call, asked, bad, card, jobVars, online>>
-----------------------------------------------------------------------------
(***************************************************************************)
(* The employee.                                                            *)
(***************************************************************************)

\* find_online_device: the selected device, or else another one that is online.
RunsOn(t) == IF target[t] \in online THEN {target[t]} ELSE online

\* Faulty variants, each the way a slip in the code would read, stand before the definition
\* they replace when a property is tried on them.
AnswerableAfterRejection(c) == card[c] \in {"PENDING", "REJECTED"}

\* respond_approval, up to its guarded UPDATE; an expired card is refused, and so is a
\* decided one.
Answerable(c) == card[c] = "PENDING"

\* Approved: _execute_approved_action queues the job, or fails the task when no device is
\* online or enqueue_job refuses a path outside the folders of the device it found.
Approve(c) ==
  LET t == OwnerOf[c]
  IN  /\ Answerable(c)
      /\ card' = [card EXCEPT ![c] = "APPROVED"]
      /\ approval' = [approval EXCEPT ![t] = "APPROVED"]
      /\ \/ /\ RunsOn(t) # {}
            /\ tstatus' = [tstatus EXCEPT ![t] = "RUNNING"]
            /\ job' = [job EXCEPT ![c] = "PENDING"]
            /\ \E d \in RunsOn(t) : jobDev' = [jobDev EXCEPT ![c] = d]
            /\ UNCHANGED <<handed, done>>
         \/ /\ tstatus' = [tstatus EXCEPT ![t] = "FAILED"]
            /\ UNCHANGED jobVars
      /\ UNCHANGED <<cancel, target, turnVars, online>>

Reject(c) ==
  LET t == OwnerOf[c]
  IN  /\ Answerable(c)
      /\ card' = [card EXCEPT ![c] = "REJECTED"]
      /\ approval' = [approval EXCEPT ![t] = "REJECTED"]
      /\ tstatus' = [tstatus EXCEPT ![t] = "CANCELLED"]
      /\ UNCHANGED <<cancel, target, turnVars, jobVars, online>>

\* POST /tasks/{id}/cancel.
Cancel(t) ==
  /\ tstatus[t] \notin Terminal \cup {"NEW"}
  /\ \A x \in JobsOf(t) : job[x] # "CLAIMED"
  /\ cancel' = [cancel EXCEPT ![t] = TRUE]
  /\ job' = [x \in Jobs |-> IF x \in JobsOf(t) /\ job[x] = "PENDING" THEN "FAILED" ELSE job[x]]
  /\ card' = [c \in Cards |-> IF c \in CardsOf(t) /\ Undecided(c) THEN "REJECTED" ELSE card[c]]
  /\ tstatus' = [tstatus EXCEPT ![t] = IF @ = "WAITING_APPROVAL" THEN "CANCELLED" ELSE @]
  /\ UNCHANGED <<approval, target, turnVars, jobDev, handed, done, online>>
-----------------------------------------------------------------------------
(***************************************************************************)
(* The devices.                                                             *)
(***************************************************************************)
SeesDevice(d) == online' = online \cup {d}

\* A poll: the device is ONLINE by it.
ClaimJob(x) ==
  /\ job[x] = "PENDING"
  /\ job' = [job EXCEPT ![x] = "CLAIMED"]
  /\ handed' = handed \cup {x}
  /\ SeesDevice(jobDev[x])
  /\ UNCHANGED <<taskVars, turnVars, card, jobDev, done>>

LeaseExpires(x) ==
  /\ job[x] = "CLAIMED"
  /\ job' = [job EXCEPT ![x] = "PENDING"]
  /\ UNCHANGED <<taskVars, turnVars, card, jobDev, handed, done, online>>

OwnedByNobody(t) == FALSE

\* A worker's claim on the conversation says that the worker will settle the task.
StillOwned(t) == conv[t] = "CLAIMED"

\* The word of the job's row used for the task's.
SettledAsTheJob(t, outcome) ==
  IF tstatus[t] \notin {"RUNNING", "WAITING_APPROVAL", "PLANNING"} THEN tstatus[t]
  ELSE IF StillOwned(t) THEN "RUNNING"
  ELSE IF outcome = "FAILED" THEN "FAILED" ELSE "SUCCEEDED"

\* What POST /result makes of the task's status, by the outcome in the request.
Settled(t, outcome) ==
  IF tstatus[t] \notin {"RUNNING", "WAITING_APPROVAL", "PLANNING"} THEN tstatus[t]
  ELSE IF outcome = "OK"
       THEN IF StillOwned(t) /\ approval[t] # "APPROVED" THEN "RUNNING" ELSE "COMPLETED"
       ELSE IF StillOwned(t) THEN "RUNNING" ELSE "FAILED"

\* POST /result for the decided or the claimed job x: by a program that holds the claim, ...
Reported(x, outcome) ==
  /\ tstatus' = [tstatus EXCEPT ![OwnerOf[x]] = Settled(OwnerOf[x], outcome)]
  /\ done' = IF outcome = "FAILED" THEN done ELSE done \cup {x}
  /\ SeesDevice(jobDev[x])
  /\ UNCHANGED <<approval, cancel, target, turnVars, card, jobDev, handed>>

ReportJob(x, outcome) ==
  /\ job[x] = "CLAIMED"
  /\ job' = [job EXCEPT ![x] = outcome]
  /\ Reported(x, outcome)

\* ... or late: by a program that lost the answer to its first report, that was superseded, or
\* whose job was given up and cancelled.  finish_job keeps the row, the handler settles the
\* task by the outcome in the request all the same.
ReportAgain(x, outcome) ==
  /\ x \in handed /\ job[x] \in Outcomes
  /\ UNCHANGED job
  /\ Reported(x, outcome)

Heartbeat(d) == /\ d \notin online
                /\ SeesDevice(d)
                /\ UNCHANGED <<taskVars, turnVars, card, jobVars>>

\* mark_stale_devices_offline, in the monitor's tick.
GoesStale(d) == /\ d \in online
                /\ online' = online \ {d}
                /\ UNCHANGED <<taskVars, turnVars, card, jobVars>>
-----------------------------------------------------------------------------
(***************************************************************************)
(* Time.                                                                    *)
(***************************************************************************)

\* Thirty minutes pass.
Lapse(c) == /\ card[c] = "PENDING"
            /\ card' = [card EXCEPT ![c] = "LAPSED"]
            /\ UNCHANGED <<taskVars, turnVars, jobVars, online>>

VerdictByAssumption(t) ==
  LET Approved == \E c \in Asked(t) : card[c] = "APPROVED"
  IN  IF ~Approved THEN "CANCELLED"
      ELSE IF \E x \in JobsOf(t) : Open(x) THEN tstatus[t]
      ELSE IF \A x \in JobsOf(t) : job[x] # "FAILED" THEN "COMPLETED"
      ELSE "FAILED"

\* reconcile_task_approval for a task with no pending card left.
Verdict(t) ==
  LET Approved == \E c \in Asked(t) : card[c] = "APPROVED"
  IN  IF ~Approved THEN "CANCELLED"
      ELSE IF \E x \in JobsOf(t) : Open(x) THEN tstatus[t]
      ELSE IF JobsOf(t) # {} /\ \A x \in JobsOf(t) : job[x] # "FAILED" THEN "COMPLETED"
      ELSE "FAILED"

ReconcilableIfRejected(t) ==
  tstatus[t] = "WAITING_APPROVAL" /\ \A c \in Asked(t) : card[c] \in {"LAPSED", "REJECTED"}

\* The task is parked and every card of it is decided or lapsed.
Reconcilable(t) == tstatus[t] = "WAITING_APPROVAL" /\ \A c \in Asked(t) : card[c] # "PENDING"

\* expire_stale_approvals and the reconciliation of the tasks in S.
Reconcile(S) ==
  LET Closed == {t \in S : Reconcilable(t) /\ Verdict(t) # tstatus[t]}
  IN  /\ card' = [c \in Cards |-> IF card[c] = "LAPSED" THEN "REJECTED" ELSE card[c]]
      /\ tstatus' = [t \in Tasks |-> IF t \in Closed THEN Verdict(t) ELSE tstatus[t]]
      /\ approval' = [t \in Tasks |->
                        IF t \notin Closed \/ Asked(t) = {} THEN approval[t]
                        ELSE IF Verdict(t) = "CANCELLED" THEN "REJECTED" ELSE "APPROVED"]
      /\ UNCHANGED <<cancel, target, turnVars, jobVars, online>>

\* sweep_zombie_tasks, in the monitor's tick.
Sweep == (\E t \in Tasks : Reconcilable(t) \/ \E c \in CardsOf(t) : card[c] = "LAPSED")
         /\ Reconcile(Tasks)

\* GET /approvals: only the tasks whose cards it has just expired are reconciled.
ListApprovals == LET Expiring == {t \in Tasks : \E c \in CardsOf(t) : card[c] = "LAPSED"}
                 IN  Expiring # {} /\ Reconcile(Expiring)
-----------------------------------------------------------------------------
TurnStep(t) == \/ ClaimTurn(t) \/ BeginTurn(t) \/ FirstIteration(t) \/ AskApproval(t)
               \/ Delegate(t) \/ CallReturns(t) \/ CallGivesUp(t) \/ ToolBlocked(t)
               \/ Answer(t) \/ TurnRaises(t) \/ CloseTurn(t)

JobStep(x) == \/ ClaimJob(x) \/ LeaseExpires(x)
              \/ \E o \in Outcomes : ReportJob(x, o) \/ ReportAgain(x, o)

Next == \/ \E t \in Tasks : PostMessage(t) \/ TurnStep(t) \/ Cancel(t)
        \/ \E c \in Cards : Approve(c) \/ Reject(c) \/ Lapse(c)
        \/ \E x \in Jobs : JobStep(x)
        \/ \E d \in Devices : Heartbeat(d) \/ GoesStale(d)
        \/ Sweep \/ ListApprovals

Spec == Init /\ [][Next]_vars

\* Cards lapse and the monitor ticks.  Agents poll, and a job that is claimed again and again
\* is decided in the end (QueuedJobIsDecided of DeviceJobs).
Fairness == /\ WF_vars(Sweep)
            /\ \A c \in Cards : WF_vars(Lapse(c))
            /\ \A x \in Jobs : /\ WF_vars(ClaimJob(x))
                               /\ SF_vars(\E o \in Outcomes : ReportJob(x, o))

FairSpec == Spec /\ Fairness
-----------------------------------------------------------------------------
(***************************************************************************)
(* Properties.                                                              *)
(***************************************************************************)

\* The cards keep the promise of ApprovalContract, whatever the worker, the sweep, a
\* cancellation and late or repeated device results do to the task around them.
Contract == INSTANCE ApprovalContract WITH
  decision <- [c \in Cards |-> IF Undecided(c) THEN "PENDING" ELSE card[c]],
  launched <- {c \in Cards : job[c] # "NONE"},
  done <- done \cap Cards

ImplementsContract == Contract!Spec

\* A task that shows COMPLETED after an approval has a device job that was carried out: no
\* path, be it the worker's outcome, a device result or the sweep's reconciliation, takes a
\* missing result for a success (approval.py:440).
CompletedHasEvidence ==
  \A t \in Tasks :
    tstatus[t] = "COMPLETED" /\ approval[t] = "APPROVED" =>
      JobsOf(t) \cap done # {}

\* While a turn is under way and no card of it was approved, device results do not close the
\* task: the worker owns the outcome (agent_routes.py:116, 150).
TurnOwnsOutcome ==
  \A t \in Tasks :
    turn[t] \in {"CHECK", "MODEL", "TOOL"} /\ (\A c \in Asked(t) : card[c] # "APPROVED") =>
      tstatus[t] \notin {"COMPLETED", "FAILED"}

\* A task does not stay parked on an approval for ever (approval.py:356, 477).
ParkedIsResolved ==
  \A t \in Tasks : tstatus[t] = "WAITING_APPROVAL" ~> tstatus[t] # "WAITING_APPROVAL"

\* approval.py:265: "Mutations must run on the employee's selected Desktop Agent."
RunsOnSelectedDevice ==
  \A c \in Cards : LET t == OwnerOf[c]
                   IN  job[c] # "NONE" /\ target[t] # None => jobDev[c] = target[t]

\* approval.py:281: after an approval the task is kept RUNNING because "completion is reported
\* asynchronously by /api/agent/result", and worker.py:430: "the approval path already set the
\* final status"; so a task without a turn, an open card or an open job is not RUNNING.
NobodyLeftRunning ==
  \A t \in Tasks :
    /\ conv[t] \in {"SUCCEEDED", "FAILED"}
    /\ \A c \in Asked(t) : ~Undecided(c)
    /\ \A x \in JobsOf(t) : ~Open(x)
    => tstatus[t] # "RUNNING"

\* approval.py:440, for each approved card: a task shows COMPLETED only when the operations
\* that were approved are carried out, and "a missing result is not a success".
CompletedMeansCarriedOut ==
  \A c \in Cards :
    card[c] = "APPROVED" /\ tstatus[OwnerOf[c]] = "COMPLETED" => c \in done
-----------------------------------------------------------------------------
(***************************************************************************)
(* What the two invariants rest on; TaskApprovalProofs proves IInv.         *)
(***************************************************************************)

\* A turn is a worker's, by its claim on the conversation of a task that was posted.
OwnedTurn ==
  \A t \in Tasks : /\ turn[t] # "NONE" => conv[t] = "CLAIMED"
                   /\ tstatus[t] = "NEW" => conv[t] = "NONE"

\* What the turn and the task remember of the cards is true of the cards.
CardsAreRemembered ==
  /\ \A c \in Cards : card[c] # "ABSENT" => asked[OwnerOf[c]]
  /\ \A t \in Tasks : approval[t] = "APPROVED" => \E c \in CardsOf(t) : card[c] = "APPROVED"

\* A job that was handed out has a row and a device; a success in the row was reported.
JobsAreTraced ==
  \A x \in Jobs : /\ job[x] # "NONE" => jobDev[x] \in Devices
                  /\ x \in handed => job[x] # "NONE"
                  /\ job[x] = "CLAIMED" => x \in handed
                  /\ job[x] \in {"OK", "PARTIAL"} => x \in done

IInv == /\ TypeOK /\ OwnedTurn /\ CardsAreRemembered /\ JobsAreTraced
        /\ CompletedHasEvidence /\ TurnOwnsOutcome
=============================================================================
