------------------------- MODULE ConversationWorker -------------------------
(***************************************************************************)
(* How a conversation job finds somebody to run it, once: worker.py,        *)
(* queue_backend.py, the recovery at start-up and the periodic sweep of      *)
(* main.py.  Runners are daemon threads of the API process and separate     *)
(* queue worker processes; hints travel through a Redis list.  What a turn  *)
(* does is the subject of TaskApproval.                                     *)
(***************************************************************************)
EXTENDS Naturals

CONSTANTS Tasks,
          Threads,      \* threads of the API process
          Workers,      \* queue worker processes
          Standalone,   \* those of them started as python -m rapiin.worker
          NoTask,       \* what an idle runner has
          MaxRequeues,  \* MAX_CONVERSATION_REQUEUES
          MaxFaults     \* bound: crashes, dropped connections, overlong turns

Runners == Threads \cup Workers

ASSUME ThreadsAreNotWorkers == Threads \cap Workers = {}
ASSUME StandaloneAreWorkers == Standalone \subseteq Workers
ASSUME NoTaskIsNone == NoTask \notin Tasks
ASSUME BoundsAreNat == MaxRequeues \in Nat /\ MaxFaults \in Nat

VARIABLES
  tstatus,     \* tasks.status: OVER is COMPLETED, WAITING_APPROVAL or CANCELLED
  conv,        \* conversation_jobs.status, NONE before the INSERT
  attempts,    \* conversation_jobs.attempt_count
  lease,       \* conversation_jobs.lease_expires_at: NULL, in the future, in the past
  hints,       \* how often a task is in the Redis list
  apiUp,       \* the API process runs
  spawning,    \* tasks whose request thread is about to insert the job
  dispatching, \* tasks that a thread of the API process is about to hand out
  where,       \* where each runner is in _claim_and_run
  has,         \* the task of a runner
  tries,       \* the attempt_count its claim returned
  verdict,     \* what a runner is about to write: SUCCEEDED, FAILED or PENDING (requeue)
  outlived,    \* tasks whose lease lapsed while a separate worker was on them
  faults

jobVars == <<conv, attempts, lease>>
runnerVars == <<where, has, tries, verdict>>
vars == <<tstatus, conv, attempts, lease, hints, apiUp, spawning, dispatching, where, has,
          tries, verdict, outlived, faults>>

Decided == {"SUCCEEDED", "FAILED"}

TypeOK ==
  /\ tstatus \in [Tasks -> {"NEW", "PLANNING", "RUNNING", "OVER", "FAILED"}]
  /\ conv \in [Tasks -> {"NONE", "PENDING", "CLAIMED"} \cup Decided]
  /\ attempts \in [Tasks -> Nat]
  /\ lease \in [Tasks -> {"NULL", "LIVE", "LAPSED"}]
  /\ hints \in [Tasks -> Nat]
  /\ apiUp \in BOOLEAN
  /\ spawning \subseteq Tasks
  /\ dispatching \subseteq Tasks
  /\ where \in [Runners -> {"IDLE", "HINTED", "CLAIMED", "TURN", "ENDED", "WRITE"}]
  /\ has \in [Runners -> Tasks \cup {NoTask}]
  /\ tries \in [Runners -> Nat]
  /\ verdict \in [Runners -> {"NONE", "PENDING"} \cup Decided]
  /\ outlived \subseteq Tasks
  /\ faults \in Nat

Init ==
  /\ tstatus = [t \in Tasks |-> "NEW"]
  /\ conv = [t \in Tasks |-> "NONE"]
  /\ attempts = [t \in Tasks |-> 0]
  /\ lease = [t \in Tasks |-> "NULL"]
  /\ hints = [t \in Tasks |-> 0]
  /\ apiUp = TRUE
  /\ spawning = {} /\ dispatching = {}
  /\ where = [r \in Runners |-> "IDLE"]
  /\ has = [r \in Runners |-> NoTask]
  /\ tries = [r \in Runners |-> 0]
  /\ verdict = [r \in Runners |-> "NONE"]
  /\ outlived = {}
  /\ faults = 0

Fault == faults < MaxFaults /\ faults' = faults + 1

\* The runners on a task: _RUNNING_TASKS of their process holds it from the claim to the end.
On(t) == {r \in Runners : has[r] = t /\ where[r] \notin {"IDLE", "HINTED"}}
-----------------------------------------------------------------------------
(***************************************************************************)
(* The API process.                                                         *)
(***************************************************************************)

\* The request commits the message and the task before the job exists.
PostMessage(t) ==
  /\ apiUp /\ tstatus[t] = "NEW"
  /\ tstatus' = [tstatus EXCEPT ![t] = "PLANNING"]
  /\ spawning' = spawning \cup {t}
  /\ UNCHANGED <<jobVars, hints, apiUp, dispatching, runnerVars, outlived, faults>>

\* spawn_conversation_task, up to its commit.
Spawn(t) ==
  /\ t \in spawning
  /\ spawning' = spawning \ {t}
  /\ conv' = [conv EXCEPT ![t] = IF @ = "NONE" THEN "PENDING" ELSE @]
  /\ dispatching' = dispatching \cup {t}
  /\ UNCHANGED <<tstatus, attempts, lease, hints, apiUp, runnerVars, outlived, faults>>

Hands(r, t) == /\ where[r] = "IDLE"
               /\ where' = [where EXCEPT ![r] = "HINTED"]
               /\ has' = [has EXCEPT ![r] = t]

\* enqueue_conversation_task, or a thread when Redis is not configured (then there are no
\* separate workers either) or cannot be reached.
Dispatch(t) ==
  /\ t \in dispatching
  /\ dispatching' = dispatching \ {t}
  /\ \/ /\ Workers # {}
        /\ hints' = [hints EXCEPT ![t] = @ + 1]
        /\ UNCHANGED runnerVars
     \/ /\ \E r \in Threads : Hands(r, t)
        /\ UNCHANGED <<hints, tries, verdict>>
  /\ UNCHANGED <<tstatus, jobVars, apiUp, spawning, outlived, faults>>

\* Faulty variants, each the way a slip in the code would read, stand before the definition
\* they replace when a property is tried on them.
ExpiredWithoutLease(t) == conv[t] = "CLAIMED" /\ lease[t] = "NULL"
Expired(t) == conv[t] = "CLAIMED" /\ lease[t] = "LAPSED"

NotRunningAnywhere(t) == TRUE
\* The sweep reads the registry of its own process only.
NotRunningHere(t) == On(t) \cap Threads = {}

ReclaimableByLease(t) == lease[t] # "LIVE" /\ conv[t] # "NONE" /\ NotRunningHere(t)
Reclaimable(t) == Expired(t) /\ NotRunningHere(t)

\* requeue_stale_conversation_jobs, for one task: _reclaim_claim commits, the dispatch follows.
Reclaim(t) ==
  /\ apiUp /\ Reclaimable(t)
  /\ conv' = [conv EXCEPT ![t] = "PENDING"]
  /\ lease' = [lease EXCEPT ![t] = "NULL"]
  /\ dispatching' = dispatching \cup {t}
  /\ UNCHANGED <<tstatus, attempts, hints, apiUp, spawning, runnerVars, outlived, faults>>

\* The process dies, with its threads and what they were about to do.
ApiCrash ==
  /\ apiUp /\ Fault
  /\ apiUp' = FALSE
  /\ spawning' = {} /\ dispatching' = {}
  /\ where' = [r \in Runners |-> IF r \in Threads THEN "IDLE" ELSE where[r]]
  /\ has' = [r \in Runners |-> IF r \in Threads THEN NoTask ELSE has[r]]
  /\ tries' = [r \in Runners |-> IF r \in Threads THEN 0 ELSE tries[r]]
  /\ verdict' = [r \in Runners |-> IF r \in Threads THEN "NONE" ELSE verdict[r]]
  /\ UNCHANGED <<tstatus, jobVars, hints, outlived>>

\* lifespan: recover_conversation_jobs reclaims the expired jobs and hands out every pending one.
ApiStart ==
  /\ ~apiUp
  /\ apiUp' = TRUE
  /\ conv' = [t \in Tasks |-> IF Expired(t) THEN "PENDING" ELSE conv[t]]
  /\ lease' = [t \in Tasks |-> IF Expired(t) THEN "NULL" ELSE lease[t]]
  /\ dispatching' = {t \in Tasks : conv'[t] = "PENDING"}
  /\ UNCHANGED <<tstatus, attempts, hints, spawning, runnerVars, outlived, faults>>
-----------------------------------------------------------------------------
(***************************************************************************)
(* _claim_and_run.                                                          *)
(***************************************************************************)

\* run_queue_worker: BRPOP removes the hint.  The API process may run one of these itself, in
\* the embedded queue thread.
TakeHint(r) ==
  /\ r \in Threads => apiUp
  /\ \E t \in Tasks : /\ hints[t] > 0
                      /\ hints' = [hints EXCEPT ![t] = @ - 1]
                      /\ Hands(r, t)
  /\ UNCHANGED <<tstatus, jobVars, apiUp, spawning, dispatching, tries, verdict, outlived, faults>>

Leaves(r) == /\ where' = [where EXCEPT ![r] = "IDLE"]
             /\ has' = [has EXCEPT ![r] = NoTask]
             /\ tries' = [tries EXCEPT ![r] = 0]
             /\ verdict' = [verdict EXCEPT ![r] = "NONE"]

\* The claiming UPDATE finds the job pending, or the runner leaves.
Claim(r) ==
  /\ where[r] = "HINTED"
  /\ \/ /\ conv[has[r]] = "PENDING"
        /\ conv' = [conv EXCEPT ![has[r]] = "CLAIMED"]
        /\ attempts' = [attempts EXCEPT ![has[r]] = @ + 1]
        /\ lease' = [lease EXCEPT ![has[r]] = "LIVE"]
        /\ where' = [where EXCEPT ![r] = "CLAIMED"]
        /\ tries' = [tries EXCEPT ![r] = attempts'[has[r]]]
        /\ UNCHANGED <<has, verdict>>
     \/ /\ conv[has[r]] # "PENDING"
        /\ Leaves(r)
        /\ UNCHANGED jobVars
  /\ UNCHANGED <<tstatus, hints, apiUp, spawning, dispatching, outlived, faults>>

\* _run_task marks the task RUNNING, then runs the turn.
BeginTurn(r) ==
  /\ where[r] = "CLAIMED" /\ r \notin Standalone
  /\ tstatus' = [tstatus EXCEPT ![has[r]] = "RUNNING"]
  /\ where' = [where EXCEPT ![r] = "TURN"]
  /\ UNCHANGED <<jobVars, hints, apiUp, spawning, dispatching, has, tries, verdict, outlived, faults>>

\* The outcome of the turn.  RUNNING is left standing when every card it asked for was decided
\* meanwhile (TaskApproval has the details).
EndTurn(r) ==
  /\ where[r] = "TURN"
  /\ \E s \in {"OVER", "FAILED", "RUNNING"} : tstatus' = [tstatus EXCEPT ![has[r]] = s]
  /\ where' = [where EXCEPT ![r] = "ENDED"]
  /\ UNCHANGED <<jobVars, hints, apiUp, spawning, dispatching, has, tries, verdict, outlived, faults>>

Writes(r, v) == /\ where' = [where EXCEPT ![r] = "WRITE"]
                /\ verdict' = [verdict EXCEPT ![r] = v]

\* The turn loses the database: REQUEUE, until the attempts are used up.
InterruptTurn(r) ==
  /\ where[r] = "TURN" /\ Fault
  /\ IF tries[r] >= MaxRequeues
     THEN /\ tstatus' = [tstatus EXCEPT ![has[r]] = "FAILED"]
          /\ Writes(r, "FAILED")
     ELSE /\ UNCHANGED tstatus
          /\ Writes(r, "PENDING")
  /\ UNCHANGED <<jobVars, hints, apiUp, spawning, dispatching, has, tries, outlived>>

\* Any other exception that leaves _run_task: the job fails, the task keeps its status.
BreakTurn(r) ==
  /\ where[r] = "TURN" /\ Fault
  /\ Writes(r, "FAILED")
  /\ UNCHANGED <<tstatus, jobVars, hints, apiUp, spawning, dispatching, has, tries, outlived>>

\* python -m rapiin.worker enters its loop above the definition of _run_task: the call is a
\* NameError, handled like any other exception.
TurnIsMissing(r) ==
  /\ where[r] = "CLAIMED" /\ r \in Standalone
  /\ Writes(r, "FAILED")
  /\ UNCHANGED <<tstatus, jobVars, hints, apiUp, spawning, dispatching, has, tries, outlived, faults>>

TheOutcomeItself(s) == IF s = "OVER" THEN "DONE" ELSE "FAILED"
AlwaysSucceeded(s) == "SUCCEEDED"
VerdictOn(s) == IF s = "OVER" THEN "SUCCEEDED" ELSE "FAILED"

\* _task_status is read; when that keeps failing the job is requeued.
ReadStatus(r) ==
  /\ where[r] = "ENDED"
  /\ \/ Writes(r, VerdictOn(tstatus[has[r]])) /\ UNCHANGED faults
     \/ Writes(r, "PENDING") /\ Fault
  /\ UNCHANGED <<tstatus, jobVars, hints, apiUp, spawning, dispatching, has, tries, outlived>>

\* _finish_conversation_job or _requeue_conversation_job: guarded by CLAIMED, not by whose
\* claim it is; a write that keeps failing is swallowed.
WriteVerdict(r) ==
  /\ where[r] = "WRITE"
  /\ \/ /\ conv[has[r]] = "CLAIMED"
        /\ conv' = [conv EXCEPT ![has[r]] = verdict[r]]
        /\ lease' = [lease EXCEPT ![has[r]] = "NULL"]
        /\ UNCHANGED <<attempts, faults>>
     \/ /\ conv[has[r]] # "CLAIMED"
        /\ UNCHANGED <<jobVars, faults>>
     \/ Fault /\ UNCHANGED jobVars
  /\ Leaves(r)
  /\ UNCHANGED <<tstatus, hints, apiUp, spawning, dispatching, outlived>>

\* A queue worker is killed and started again: its hint or its claim is left behind.
WorkerCrash(w) ==
  /\ where[w] # "IDLE" /\ Fault
  /\ Leaves(w)
  /\ UNCHANGED <<tstatus, jobVars, hints, apiUp, spawning, dispatching, outlived>>

\* Thirty minutes pass: a fault when a runner is still on the task.
LeaseLapses(t) ==
  /\ conv[t] = "CLAIMED" /\ lease[t] = "LIVE"
  /\ lease' = [lease EXCEPT ![t] = "LAPSED"]
  /\ IF On(t) = {} THEN UNCHANGED faults ELSE Fault
  /\ outlived' = IF On(t) \cap Workers = {} THEN outlived ELSE outlived \cup {t}
  /\ UNCHANGED <<tstatus, conv, attempts, hints, apiUp, spawning, dispatching, runnerVars>>
-----------------------------------------------------------------------------
RunnerStep(r) == \/ Claim(r) \/ BeginTurn(r) \/ TurnIsMissing(r) \/ EndTurn(r)
                 \/ ReadStatus(r) \/ WriteVerdict(r)

Next == \/ \E t \in Tasks : \/ PostMessage(t) \/ Spawn(t) \/ Dispatch(t) \/ Reclaim(t)
                            \/ LeaseLapses(t)
        \/ \E r \in Runners : TakeHint(r) \/ RunnerStep(r) \/ InterruptTurn(r) \/ BreakTurn(r)
        \/ \E w \in Workers : WorkerCrash(w)
        \/ ApiCrash \/ ApiStart

Spec == Init /\ [][Next]_vars

\* Threads and workers get on, the monitor ticks, leases end, a process that died is restarted.
\* Nobody restarts a process that runs.
Fairness ==
  /\ \A t \in Tasks : /\ WF_vars(Spawn(t)) /\ WF_vars(Dispatch(t)) /\ WF_vars(Reclaim(t))
                      /\ WF_vars(LeaseLapses(t))
  /\ \A r \in Runners : WF_vars(RunnerStep(r))
  /\ \A w \in Workers : WF_vars(TakeHint(w))
  /\ WF_vars(ApiStart)

FairSpec == Spec /\ Fairness
-----------------------------------------------------------------------------
(***************************************************************************)
(* Properties.                                                              *)
(***************************************************************************)

\* No two runners are in the same turn, whatever hints, restarts and lapsed leases did ("an
\* active job is never flipped back to PENDING (which would double-run it)", worker.py:247), as
\* long as no separate worker outlives its lease.
OneRunnerPerTask ==
  \A t \in Tasks \ outlived : \A r, s \in On(t) : r = s

\* A conversation job that is closed is never claimed, requeued or closed otherwise again: its
\* turn is not replayed (test_worker_recovery.py).
ClosedJobStaysClosed ==
  [][\A t \in Tasks : conv[t] \in Decided => conv'[t] = conv[t]]_conv

\* A job closed as SUCCEEDED belongs to a task whose turn came to an end, unless a separate
\* worker outlived its lease.
SucceededTaskIsOver ==
  \A t \in Tasks : conv[t] = "SUCCEEDED" /\ t \notin outlived => tstatus[t] = "OVER"

\* No claim is kept for ever by a runner that is gone: the sweep gives the job back or
\* a runner closes it.
ClaimIsReleased == \A t \in Tasks : conv[t] = "CLAIMED" ~> conv[t] # "CLAIMED"

\* worker.py:245: "a dropped connection cannot strand a task until the next server restart", and
\* worker.py:390: "Let the recovery sweep requeue it": a pending job is taken up.
PendingIsTakenUp == \A t \in Tasks : conv[t] = "PENDING" ~> conv[t] # "PENDING"

\* worker.py:320, the "entry point for a standalone queue worker process", and worker.py:157,
\* "_run_task normally records its errors": when nothing is dropped or killed, a conversation job
\* is not closed as FAILED before its task was even started.
FailedTaskWasStarted == \A t \in Tasks : conv[t] = "FAILED" => tstatus[t] # "PLANNING"
-----------------------------------------------------------------------------
(***************************************************************************)
(* What the invariants rest on; ConversationWorkerProofs proves IInv.       *)
(***************************************************************************)

\* A runner that is not idle has a task, and what it is about to write is known.
RunnersHaveTasks ==
  \A r \in Runners : /\ where[r] # "IDLE" => has[r] \in Tasks
                     /\ where[r] = "WRITE" => verdict[r] # "NONE"

\* A process that is down has no thread and owes nothing.
DownIsIdle == ~apiUp => /\ spawning = {} /\ dispatching = {}
                        /\ \A r \in Threads : where[r] = "IDLE"

\* A runner on a task is covered by a claim, which lapses under threads of the API process only.
RunnerHoldsClaim ==
  \A t \in Tasks \ outlived :
    \A r \in On(t) : /\ conv[t] = "CLAIMED"
                     /\ lease[t] = "LAPSED" => r \in Threads

\* A success that is about to be written is that of a task that is over.
SuccessIsOver ==
  \A r \in Runners :
    where[r] = "WRITE" /\ verdict[r] = "SUCCEEDED" /\ has[r] \notin outlived =>
      tstatus[has[r]] = "OVER"

IInv == /\ TypeOK /\ RunnersHaveTasks /\ DownIsIdle /\ RunnerHoldsClaim /\ SuccessIsOver
        /\ OneRunnerPerTask /\ SucceededTaskIsOver

\* The runners keep the promise of TurnContract, whatever becomes of hints, leases and processes.
Turns == INSTANCE TurnContract WITH
  outcome <- [t \in Tasks |-> CASE conv[t] = "NONE" -> "ABSENT"
                                [] conv[t] \in {"PENDING", "CLAIMED"} -> "OPEN"
                                [] OTHER -> conv[t]],
  who <- [t \in Tasks |-> On(t)],
  over <- {t \in Tasks : tstatus[t] = "OVER"},
  overlong <- outlived

ImplementsTurns == Turns!Spec
=============================================================================
