----------------------------- MODULE DeviceJobs -----------------------------
(***************************************************************************)
(* The device job queue: the agent_jobs table (server/rapiin/agent_jobs.py),*)
(* the three endpoints of api/agent_routes.py that work on it, the server   *)
(* thread that delegates a tool and waits (agent/core.py), the user's       *)
(* cancellation, and the Desktop Agent's loop (agent/rapiin_agent/cli.py)   *)
(* with crashes, lost or late requests and answers, and lapsing leases.     *)
(*                                                                          *)
(* Every request handler is one database transaction, hence one action.     *)
(* Job ids are the naturals 1..NumJobs because a claim takes the oldest id. *)
(* Time is not counted: a lease is LIVE until an action makes it LAPSED.    *)
(***************************************************************************)
EXTENDS Naturals

CONSTANTS Agents,      \* running copies of the agent program
          Devices,     \* registered devices
          NoDevice,    \* the device of a job that does not exist yet
          Tasks,       \* tasks the jobs belong to
          NumJobs,     \* bound: jobs ever enqueued
          MaxFaults,   \* bound: crashes, losses, premature timeouts and freezes
          DeviceOf,    \* the device each agent program is paired with
          TaskOf       \* the task each job belongs to

Jobs == 1..NumJobs
NoJob == 0

ASSUME NumJobsIsNat == NumJobs \in Nat
ASSUME MaxFaultsIsNat == MaxFaults \in Nat
ASSUME NoDeviceIsNone == NoDevice \notin Devices
ASSUME DeviceOfIsFunction == DeviceOf \in [Agents -> Devices]
ASSUME TaskOfIsFunction == TaskOf \in [Jobs -> Tasks]

VARIABLES
  status,     \* agent_jobs.status, ABSENT before the INSERT
  device,     \* agent_jobs.device_id
  lease,      \* agent_jobs.lease_expires_at: NULL, in the future, or in the past
  attempts,   \* agent_jobs.attempt_count
  caller,     \* the server thread that delegated the job: NONE for an approved action
  frozen,     \* operations_frozen(): the emergency pause
  pc,         \* where each agent program is
  job,        \* the job an agent program holds
  att,        \* the attempt_count of the claim it holds (the program does not know it)
  reports,    \* /api/agent/result requests on their way to the server
  runs,       \* for each job, the attempts whose tool call completed on the device
  faults      \* faults so far

server == <<status, device, lease, attempts>>
agent == <<pc, job, att>>
vars == <<status, device, lease, attempts, caller, frozen, pc, job, att,
          reports, runs, faults>>

Statuses == {"ABSENT", "PENDING", "CLAIMED", "SUCCEEDED", "FAILED"}
Decided == {"SUCCEEDED", "FAILED"}
Steps == {"IDLE", "RUN", "DONE", "RAISED", "AWAIT_DONE", "AWAIT_RAISED"}
Reports == [job : Jobs, att : Nat, from : Agents, outcome : Decided]

TypeOK ==
  /\ status \in [Jobs -> Statuses]
  /\ device \in [Jobs -> Devices \cup {NoDevice}]
  /\ lease \in [Jobs -> {"NULL", "LIVE", "LAPSED"}]
  /\ attempts \in [Jobs -> Nat]
  /\ caller \in [Jobs -> {"NONE", "WAITING", "OK", "ERROR", "GAVE_UP"}]
  /\ frozen \in BOOLEAN
  /\ pc \in [Agents -> Steps]
  /\ job \in [Agents -> Jobs \cup {NoJob}]
  /\ att \in [Agents -> Nat]
  /\ reports \subseteq Reports
  /\ runs \in [Jobs -> SUBSET Nat]
  /\ faults \in Nat

Init ==
  /\ status = [j \in Jobs |-> "ABSENT"]
  /\ device = [j \in Jobs |-> NoDevice]
  /\ lease = [j \in Jobs |-> "NULL"]
  /\ attempts = [j \in Jobs |-> 0]
  /\ caller = [j \in Jobs |-> "NONE"]
  /\ frozen = FALSE
  /\ pc = [a \in Agents |-> "IDLE"]
  /\ job = [a \in Agents |-> NoJob]
  /\ att = [a \in Agents |-> 0]
  /\ reports = {}
  /\ runs = [j \in Jobs |-> {}]
  /\ faults = 0

\* A step of the environment that is worth counting.
Fault == /\ faults < MaxFaults
         /\ faults' = faults + 1
-----------------------------------------------------------------------------
(***************************************************************************)
(* The server.                                                              *)
(***************************************************************************)

\* enqueue_job: the next row id, status PENDING.  An approved action has no
\* waiting caller; a tool the conversation worker delegates has one, which polls the row
\* (agent/core.py, _try_delegate_to_device).
Enqueue(j) ==
  /\ status[j] = "ABSENT"
  /\ \A i \in Jobs : i < j => status[i] # "ABSENT"
  /\ status' = [status EXCEPT ![j] = "PENDING"]
  /\ \E d \in Devices : device' = [device EXCEPT ![j] = d]
  /\ \E c \in {"NONE", "WAITING"} : caller' = [caller EXCEPT ![j] = c]
  /\ UNCHANGED <<lease, attempts, frozen, agent, reports, runs, faults>>

\* Faulty variants, each the way a slip in the code would read, stand before the definition
\* they replace when a property is tried on them.
ExpiredWithoutLease(j) == status[j] = "CLAIMED" /\ lease[j] = "NULL"

\* requeue_expired_jobs, for the jobs in S: what the status and the lease become.
Expired(j) == status[j] = "CLAIMED" /\ lease[j] = "LAPSED"

RequeuedUnderAnotherName(S) ==
  [j \in Jobs |-> IF j \in S /\ Expired(j) THEN "QUEUED" ELSE status[j]]
RequeuedStatus(S) == [j \in Jobs |-> IF j \in S /\ Expired(j) THEN "PENDING" ELSE status[j]]
RequeuedLease(S) == [j \in Jobs |-> IF j \in S /\ Expired(j) THEN "NULL" ELSE lease[j]]

\* The device monitor's tick requeues the expired jobs of every device.
MonitorTick ==
  /\ \E j \in Jobs : Expired(j)
  /\ status' = RequeuedStatus(Jobs)
  /\ lease' = RequeuedLease(Jobs)
  /\ UNCHANGED <<device, attempts, caller, frozen, agent, reports, runs, faults>>

JobsOn(d) == {j \in Jobs : device[j] = d}

ClaimableAgain(d, j) == j \in JobsOn(d) /\ status[j] \in {"PENDING", "FAILED"}

\* Job j is the one a poll of device d hands out: after the device's expired jobs are
\* requeued, the oldest pending one.
Claimable(d, j) ==
  LET st == RequeuedStatus(JobsOn(d))
  IN  /\ j \in JobsOn(d) /\ st[j] = "PENDING"
      /\ \A i \in JobsOn(d) : i < j => st[i] # "PENDING"

ClaimWithoutCounting(d, j) ==
  /\ ~frozen
  /\ Claimable(d, j)
  /\ status' = [RequeuedStatus(JobsOn(d)) EXCEPT ![j] = "CLAIMED"]
  /\ lease' = [RequeuedLease(JobsOn(d)) EXCEPT ![j] = "LIVE"]
  /\ UNCHANGED <<device, attempts>>

\* claim_next_job, as called by POST /poll when the operations are not frozen.
ClaimNext(d, j) ==
  /\ ~frozen
  /\ Claimable(d, j)
  /\ status' = [RequeuedStatus(JobsOn(d)) EXCEPT ![j] = "CLAIMED"]
  /\ lease' = [RequeuedLease(JobsOn(d)) EXCEPT ![j] = "LIVE"]
  /\ attempts' = [attempts EXCEPT ![j] = @ + 1]
  /\ UNCHANGED device

FinishableTwice(m) == status[m.job] # "PENDING" /\ device[m.job] = DeviceOf[m.from]

\* finish_job: a decided job keeps its outcome (the redelivery is acknowledged), a job that
\* is not claimed is refused.
Finishable(m) == status[m.job] = "CLAIMED" /\ device[m.job] = DeviceOf[m.from]
Acknowledged(m) == /\ status[m.job] \in Decided \cup {"CLAIMED"}
                   /\ device[m.job] = DeviceOf[m.from]

FinishJob(m) ==
  /\ status' = IF Finishable(m) THEN [status EXCEPT ![m.job] = m.outcome] ELSE status
  /\ lease' = IF Finishable(m) THEN [lease EXCEPT ![m.job] = "NULL"] ELSE lease
  /\ UNCHANGED <<device, attempts>>

\* POST /tasks/{id}/cancel, as far as the job table goes: refused while a job of the task is
\* claimed, otherwise the pending ones are closed as FAILED.
PendingOf(t) == {j \in Jobs : TaskOf[j] = t /\ status[j] = "PENDING"}

CancelTask(t) ==
  /\ PendingOf(t) # {}
  /\ \A j \in Jobs : TaskOf[j] = t => status[j] # "CLAIMED"
  /\ status' = [j \in Jobs |-> IF j \in PendingOf(t) THEN "FAILED" ELSE status[j]]
  /\ UNCHANGED <<device, lease, attempts, caller, frozen, agent, reports, runs, faults>>

\* The delegating thread reads the row once a second: it takes the outcome it finds, or its
\* wait budget runs out and it tells the model that nothing was run.
CallerReads(j) ==
  /\ caller[j] = "WAITING"
  /\ status[j] \in Decided
  /\ caller' = [caller EXCEPT ![j] = IF status[j] = "SUCCEEDED" THEN "OK" ELSE "ERROR"]
  /\ UNCHANGED <<server, frozen, agent, reports, runs, faults>>

CallerGivesUp(j) ==
  /\ caller[j] = "WAITING"
  /\ caller' = [caller EXCEPT ![j] = "GAVE_UP"]
  /\ UNCHANGED <<server, frozen, agent, reports, runs, faults>>

\* set_freeze: the emergency pause, switched on and off by a supervisor.
Freeze == /\ ~frozen /\ Fault
          /\ frozen' = TRUE
          /\ UNCHANGED <<server, caller, agent, reports, runs>>

Unfreeze == /\ frozen
            /\ frozen' = FALSE
            /\ UNCHANGED <<server, caller, agent, reports, runs, faults>>
-----------------------------------------------------------------------------
(***************************************************************************)
(* The Desktop Agent: cmd_run polls, _handle_job runs the tool and reports, *)
(* a second thread renews the lease meanwhile.                              *)
(***************************************************************************)
GoesTo(a, step) ==
  /\ pc' = [pc EXCEPT ![a] = step]
  /\ job' = [job EXCEPT ![a] = IF step = "IDLE" THEN NoJob ELSE @]
  /\ att' = [att EXCEPT ![a] = IF step = "IDLE" THEN 0 ELSE @]

\* A poll whose answer arrives.
Poll(a) ==
  /\ pc[a] = "IDLE"
  /\ \E j \in Jobs : /\ ClaimNext(DeviceOf[a], j)
                     /\ pc' = [pc EXCEPT ![a] = "RUN"]
                     /\ job' = [job EXCEPT ![a] = j]
                     /\ att' = [att EXCEPT ![a] = attempts'[j]]
  /\ UNCHANGED <<caller, frozen, reports, runs, faults>>

\* A poll the server answers after the agent stopped listening (the HTTP timeout, a lost
\* answer): the claim stands, no program knows of it.
PollUnheard(a) ==
  /\ Fault
  /\ \E j \in Jobs : ClaimNext(DeviceOf[a], j)
  /\ UNCHANGED <<caller, frozen, agent, reports, runs>>

\* run_tool returns.
ToolReturns(a) ==
  /\ pc[a] = "RUN"
  /\ runs' = [runs EXCEPT ![job[a]] = @ \cup {att[a]}]
  /\ GoesTo(a, "DONE")
  /\ UNCHANGED <<server, caller, frozen, reports, faults>>

\* run_tool raises: nothing is counted as done.
ToolRaises(a) ==
  /\ pc[a] = "RUN"
  /\ GoesTo(a, "RAISED")
  /\ UNCHANGED <<server, caller, frozen, reports, runs, faults>>

Report(a, o) == [job |-> job[a], att |-> att[a], from |-> a, outcome |-> o]

\* The report the agent is waiting to see answered.
Awaited(a) == Report(a, IF pc[a] = "AWAIT_DONE" THEN "SUCCEEDED" ELSE "FAILED")
Awaiting(a) == pc[a] \in {"AWAIT_DONE", "AWAIT_RAISED"}

SendReport(a) ==
  \/ /\ pc[a] = "DONE"
     /\ reports' = reports \cup {Report(a, "SUCCEEDED")}
     /\ GoesTo(a, "AWAIT_DONE")
     /\ UNCHANGED <<server, caller, frozen, runs, faults>>
  \/ /\ pc[a] = "RAISED"
     /\ reports' = reports \cup {Report(a, "FAILED")}
     /\ GoesTo(a, "AWAIT_RAISED")
     /\ UNCHANGED <<server, caller, frozen, runs, faults>>

RetriesTheTool(a, acknowledged) == IF acknowledged THEN "IDLE" ELSE "RUN"

\* Where api.report leaves the agent: back in the poll loop when it is acknowledged.  An
\* error in the first report is caught by the handler meant for the tool, which reports
\* FAILED; an error in that one escapes to the poll loop.
AfterReport(a, acknowledged) ==
  IF acknowledged \/ pc[a] = "AWAIT_RAISED" THEN "IDLE" ELSE "RAISED"

\* POST /result, and its answer if it gets through.
ReceiveReport(m) ==
  /\ m \in reports
  /\ reports' = reports \ {m}
  /\ FinishJob(m)
  /\ \/ /\ Awaiting(m.from) /\ Awaited(m.from) = m
        /\ GoesTo(m.from, AfterReport(m.from, Acknowledged(m)))
        /\ UNCHANGED faults
     \/ /\ Awaiting(m.from) /\ Awaited(m.from) = m
        /\ Fault
        /\ UNCHANGED agent
     \/ /\ ~(Awaiting(m.from) /\ Awaited(m.from) = m)
        /\ UNCHANGED <<agent, faults>>
  /\ UNCHANGED <<caller, frozen, runs>>

LoseReport(m) == /\ m \in reports /\ Fault
                 /\ reports' = reports \ {m}
                 /\ UNCHANGED <<server, caller, frozen, agent, runs>>

\* The HTTP timeout.  It is a fault only when the request is still on its way.
ReportTimesOut(a) ==
  /\ Awaiting(a)
  /\ IF Awaited(a) \in reports THEN Fault ELSE UNCHANGED faults
  /\ GoesTo(a, AfterReport(a, FALSE))
  /\ UNCHANGED <<server, caller, frozen, reports, runs>>

\* POST /lease/renew by the renewing thread.  It names the job, not the claim: it also
\* extends a claim another program of the same device holds by now.
RenewLease(a) ==
  /\ pc[a] # "IDLE"
  /\ status[job[a]] = "CLAIMED" /\ device[job[a]] = DeviceOf[a]
  /\ lease[job[a]] # "LIVE"
  /\ lease' = [lease EXCEPT ![job[a]] = "LIVE"]
  /\ UNCHANGED <<status, device, attempts, caller, frozen, agent, reports, runs, faults>>

\* The lease deadline passes.  It takes failing renewals (a fault) when a program holds the job.
LeaseLapses(j) ==
  /\ status[j] = "CLAIMED" /\ lease[j] = "LIVE"
  /\ lease' = [lease EXCEPT ![j] = "LAPSED"]
  /\ IF \E a \in Agents : pc[a] # "IDLE" /\ job[a] = j THEN Fault ELSE UNCHANGED faults
  /\ UNCHANGED <<status, device, attempts, caller, frozen, agent, reports, runs>>

\* The program is killed, or the computer restarts, and the program polls again.
Crash(a) == /\ pc[a] # "IDLE" /\ Fault
            /\ GoesTo(a, "IDLE")
            /\ UNCHANGED <<server, caller, frozen, reports, runs>>
-----------------------------------------------------------------------------
AgentStep(a) == \/ Poll(a) \/ ToolReturns(a) \/ ToolRaises(a) \/ SendReport(a)
                \/ RenewLease(a) \/ ReportTimesOut(a)

Environment(a) == PollUnheard(a) \/ Crash(a)

Next == \/ \E j \in Jobs : Enqueue(j) \/ CallerReads(j) \/ CallerGivesUp(j) \/ LeaseLapses(j)
        \/ \E t \in Tasks : CancelTask(t)
        \/ MonitorTick \/ Freeze \/ Unfreeze
        \/ \E a \in Agents : AgentStep(a) \/ Environment(a)
        \/ \E m \in reports : ReceiveReport(m) \/ LoseReport(m)

Spec == Init /\ [][Next]_vars

\* Agents keep polling and their tools end, requests reach the server or time out, deadlines
\* pass, the monitor loop ticks and an emergency pause is lifted again.
Fairness ==
  /\ \A a \in Agents : /\ WF_vars(Poll(a))
                       /\ WF_vars(ToolReturns(a) \/ ToolRaises(a))
                       /\ WF_vars(SendReport(a))
                       /\ WF_vars(ReportTimesOut(a))
  /\ WF_vars(\E m \in reports : ReceiveReport(m))
  /\ \A j \in Jobs : WF_vars(LeaseLapses(j))
  /\ WF_vars(MonitorTick)
  /\ WF_vars(Unfreeze)

FairSpec == Spec /\ Fairness
-----------------------------------------------------------------------------
(***************************************************************************)
(* Properties.                                                              *)
(***************************************************************************)

\* A claim is handed to one program and its tool completes at most once: no program is about
\* to run an attempt that already completed, and no two programs hold the same attempt, so a
\* file operation repeats only through a new claim, i.e. after its lease lapsed.
EachClaimRunsOnce ==
  \A a \in Agents :
    pc[a] # "IDLE" =>
      /\ pc[a] = "RUN" => att[a] \notin runs[job[a]]
      /\ \A b \in Agents \ {a} : ~(pc[b] # "IDLE" /\ job[b] = job[a] /\ att[b] = att[a])

\* No completed tool call without a claim of its own: what ran on the device never exceeds
\* what the attempt counter of the row admits.
RunsAreClaims == \A j \in Jobs : runs[j] \subseteq 1..attempts[j]

\* A tool result the waiting conversation takes as success is the recorded outcome of the
\* job, and the tool did complete on the device: neither a late report, a lapsed lease nor a
\* cancellation turns the row into something else afterwards.
CallerSeesTruth ==
  \A j \in Jobs :
    /\ caller[j] = "OK" => status[j] = "SUCCEEDED" /\ runs[j] # {}
    /\ caller[j] = "ERROR" => status[j] = "FAILED"

\* Every queued job is decided in the end, whatever was lost or crashed on the way
\* (requeue_expired_jobs: "Recover jobs abandoned by a crashed/restarted agent").
QueuedJobIsDecided == \A j \in Jobs : status[j] = "PENDING" ~> status[j] \in Decided

\* The inductive strengthening of the three invariants: what a program holds is a claim the
\* row has counted (HoldersClaimed), the program's place agrees with what completed
\* (PlaceIsTrue), a success is on its way to the row or recorded there only after a run
\* (SuccessIsTrue), and nothing happened yet to a job that does not exist (AbsentIsUntouched).
HoldersClaimed ==
  \A a \in Agents : pc[a] # "IDLE" => job[a] \in Jobs /\ att[a] \in 1..attempts[job[a]]

PlaceIsTrue ==
  \A a \in Agents : pc[a] \in {"DONE", "AWAIT_DONE"} => att[a] \in runs[job[a]]

SuccessIsTrue ==
  /\ \A m \in reports : m.outcome = "SUCCEEDED" => runs[m.job] # {}
  /\ \A j \in Jobs : status[j] = "SUCCEEDED" => runs[j] # {}

AbsentIsUntouched ==
  \A j \in Jobs : status[j] = "ABSENT" => attempts[j] = 0 /\ caller[j] = "NONE"

IInv == /\ TypeOK /\ HoldersClaimed /\ EachClaimRunsOnce /\ PlaceIsTrue
        /\ RunsAreClaims /\ SuccessIsTrue /\ AbsentIsUntouched /\ CallerSeesTruth

\* The queue keeps the promise of JobLedger.
Ledger == INSTANCE JobLedger WITH
  outcome <- [j \in Jobs |-> IF status[j] \in {"PENDING", "CLAIMED"} THEN "OPEN" ELSE status[j]],
  ran <- [j \in Jobs |-> runs[j] # {}]

ImplementsLedger == Ledger!Spec

\* What agent/core.py:288 tells the user when the wait budget is exhausted ("no file change
\* was run"): a call the worker gave up on has not run on the device, and never will.
GivenUpCallNeverRuns == \A j \in Jobs : caller[j] = "GAVE_UP" => runs[j] = {}
=============================================================================
