-------------------------- MODULE DeviceJobsProofs --------------------------
(***************************************************************************)
(* Proofs about DeviceJobs, for any number of jobs, tasks, agent programs,  *)
(* devices and faults: the inductive invariant IInv, the safety properties  *)
(* that follow from it, and the implementation of JobLedger.                *)
(***************************************************************************)
EXTENDS DeviceJobs, TLAPS

\* What a poll does to the table: the job it claims was waiting or had lapsed, its attempt is
\* counted, and any other job keeps its status or goes back from CLAIMED to PENDING.
LEMMA ClaimShape ==
  ASSUME TypeOK, NEW d, NEW j \in Jobs, ClaimNext(d, j)
  PROVE  /\ status[j] \in {"PENDING", "CLAIMED"} /\ status'[j] = "CLAIMED"
         /\ status' \in [Jobs -> Statuses]
         /\ lease' \in [Jobs -> {"NULL", "LIVE", "LAPSED"}]
         /\ attempts' = [attempts EXCEPT ![j] = @ + 1]
         /\ \A i \in Jobs \ {j} : \/ status'[i] = status[i]
                                  \/ status[i] = "CLAIMED" /\ status'[i] = "PENDING"
<1>1. status[j] \in {"PENDING", "CLAIMED"}
  BY DEF ClaimNext, Claimable, RequeuedStatus, Expired, JobsOn
<1>2. status' \in [Jobs -> Statuses] /\ lease' \in [Jobs -> {"NULL", "LIVE", "LAPSED"}]
  BY DEF ClaimNext, RequeuedStatus, RequeuedLease, TypeOK, Statuses
<1>3. QED
  BY <1>1, <1>2 DEF ClaimNext, RequeuedStatus, Expired, TypeOK

\* The type invariant, one step per action; HoldersClaimed says that a report names a job.
LEMMA TypeStep ==
  ASSUME TypeOK, HoldersClaimed, [Next]_vars
  PROVE  TypeOK'
<1> USE DEF TypeOK, Statuses, Steps, Decided
<1>1. ASSUME NEW j \in Jobs, Enqueue(j)
      PROVE  TypeOK'
  BY <1>1 DEF Enqueue, agent
<1>2. ASSUME NEW j \in Jobs, CallerReads(j) \/ CallerGivesUp(j)
      PROVE  TypeOK'
  BY <1>2 DEF CallerReads, CallerGivesUp, server, agent
<1>3. ASSUME NEW j \in Jobs, LeaseLapses(j)
      PROVE  TypeOK'
  BY <1>3 DEF LeaseLapses, Fault, agent
<1>4. ASSUME NEW t \in Tasks, CancelTask(t)
      PROVE  TypeOK'
  BY <1>4 DEF CancelTask, agent
<1>5. CASE MonitorTick
  BY <1>5 DEF MonitorTick, RequeuedStatus, RequeuedLease, agent
<1>6. CASE Freeze \/ Unfreeze
  <2>1. frozen' \in BOOLEAN /\ UNCHANGED <<server, caller, agent, reports, runs>>
    BY <1>6, Zenon DEF Freeze, Unfreeze
  <2>2. faults' \in Nat
    BY <1>6 DEF Freeze, Unfreeze, Fault
  <2>3. QED
    BY <2>1, <2>2 DEF server, agent
<1>7. ASSUME NEW a \in Agents, Poll(a)
      PROVE  TypeOK'
  <2>1. PICK j \in Jobs : /\ ClaimNext(DeviceOf[a], j)
                          /\ pc' = [pc EXCEPT ![a] = "RUN"]
                          /\ job' = [job EXCEPT ![a] = j]
                          /\ att' = [att EXCEPT ![a] = attempts'[j]]
    BY <1>7 DEF Poll
  <2>2. attempts' \in [Jobs -> Nat] /\ attempts'[j] \in Nat
    BY <2>1, ClaimShape
  <2>3. device' = device
    BY <2>1 DEF ClaimNext
  <2>4. QED
    BY <1>7, <2>1, <2>2, <2>3, ClaimShape DEF Poll
<1>8. ASSUME NEW a \in Agents, PollUnheard(a)
      PROVE  TypeOK'
  <2>1. PICK j \in Jobs : ClaimNext(DeviceOf[a], j)
    BY <1>8 DEF PollUnheard
  <2>2. attempts' \in [Jobs -> Nat] /\ device' = device
    BY <2>1, ClaimShape DEF ClaimNext
  <2>3. QED
    BY <1>8, <2>1, <2>2, ClaimShape DEF PollUnheard, Fault, agent
<1>9. ASSUME NEW a \in Agents, ToolReturns(a) \/ ToolRaises(a)
      PROVE  TypeOK'
  BY <1>9 DEF ToolReturns, ToolRaises, GoesTo, server
<1>10. ASSUME NEW a \in Agents, SendReport(a)
       PROVE  TypeOK'
  <2>1. job[a] \in Jobs
    BY <1>10 DEF SendReport, HoldersClaimed
  <2>2. reports' \subseteq Reports
    BY <1>10, <2>1 DEF SendReport, Report, Reports
  <2>3. QED
    BY <1>10, <2>2 DEF SendReport, GoesTo, server
<1>11. ASSUME NEW a \in Agents, RenewLease(a)
       PROVE  TypeOK'
  BY <1>11 DEF RenewLease, agent
<1>12. ASSUME NEW a \in Agents, ReportTimesOut(a)
       PROVE  TypeOK'
  BY <1>12 DEF ReportTimesOut, AfterReport, GoesTo, Fault, server
<1>13. ASSUME NEW a \in Agents, Crash(a)
       PROVE  TypeOK'
  BY <1>13 DEF Crash, GoesTo, Fault, server
<1>14. ASSUME NEW m \in reports, ReceiveReport(m)
       PROVE  TypeOK'
  <2>1. m.job \in Jobs /\ m.from \in Agents /\ m.outcome \in Decided
    BY DEF Reports
  <2>2. status' \in [Jobs -> Statuses] /\ lease' \in [Jobs -> {"NULL", "LIVE", "LAPSED"}]
    BY <1>14, <2>1 DEF ReceiveReport, FinishJob
  <2>3. pc' \in [Agents -> Steps] /\ job' \in [Agents -> Jobs \cup {NoJob}] /\ att' \in [Agents -> Nat]
    BY <1>14, <2>1 DEF ReceiveReport, AfterReport, GoesTo, agent
  <2>4. QED
    BY <1>14, <2>2, <2>3 DEF ReceiveReport, FinishJob, Fault
<1>15. ASSUME NEW m \in reports, LoseReport(m)
       PROVE  TypeOK'
  BY <1>15 DEF LoseReport, Fault, server, agent
<1>16. CASE UNCHANGED vars
  BY <1>16 DEF vars
<1>17. QED
  BY <1>1, <1>2, <1>3, <1>4, <1>5, <1>6, <1>7, <1>8, <1>9, <1>10, <1>11, <1>12,
     <1>13, <1>14, <1>15, <1>16 DEF Next, AgentStep, Environment
-----------------------------------------------------------------------------
\* The invariants about what the programs hold and what completed, as one group.
HeldOK == HoldersClaimed /\ EachClaimRunsOnce /\ PlaceIsTrue /\ RunsAreClaims

LEMMA HeldUndisturbed ==
  ASSUME HeldOK, UNCHANGED <<pc, job, att, attempts, runs>>
  PROVE  HeldOK'
BY DEF HeldOK, HoldersClaimed, EachClaimRunsOnce, PlaceIsTrue, RunsAreClaims

\* A program that moves on keeps or drops its claim; the tool is not run again by that.
LEMMA HeldMovesOn ==
  ASSUME TypeOK, HeldOK, NEW a \in Agents, NEW step \in Steps, pc[a] # "IDLE",
         step # "RUN", step \in {"DONE", "AWAIT_DONE"} => att[a] \in runs[job[a]],
         GoesTo(a, step), UNCHANGED <<attempts, runs>>
  PROVE  HeldOK'
<1> USE DEF TypeOK, HeldOK, GoesTo
<1>1. HoldersClaimed'
  BY DEF HoldersClaimed
<1>2. EachClaimRunsOnce'
  BY DEF EachClaimRunsOnce
<1>3. PlaceIsTrue'
  BY DEF PlaceIsTrue
<1>4. RunsAreClaims'
  BY DEF RunsAreClaims
<1>5. QED
  BY <1>1, <1>2, <1>3, <1>4

\* Counting an attempt disturbs no claim that is already held.
LEMMA HeldThroughClaim ==
  ASSUME TypeOK, HeldOK, NEW j \in Jobs, attempts' = [attempts EXCEPT ![j] = @ + 1],
         UNCHANGED <<pc, job, att, runs>>
  PROVE  HeldOK'
<1> USE DEF TypeOK, HeldOK
<1>1. HoldersClaimed'
  BY DEF HoldersClaimed
<1>2. EachClaimRunsOnce' /\ PlaceIsTrue'
  BY DEF EachClaimRunsOnce, PlaceIsTrue
<1>3. RunsAreClaims'
  BY DEF RunsAreClaims
<1>4. QED
  BY <1>1, <1>2, <1>3

\* The claim a poll hands out is new: nobody holds it and it has not run.
LEMMA HeldByPoll ==
  ASSUME TypeOK, HeldOK, NEW a \in Agents, Poll(a)
  PROVE  HeldOK'
<1>1. PICK j \in Jobs : /\ ClaimNext(DeviceOf[a], j)
                        /\ pc' = [pc EXCEPT ![a] = "RUN"]
                        /\ job' = [job EXCEPT ![a] = j]
                        /\ att' = [att EXCEPT ![a] = attempts'[j]]
  BY DEF Poll
<1>2. attempts' = [attempts EXCEPT ![j] = @ + 1] /\ attempts[j] \in Nat
  BY <1>1, ClaimShape DEF TypeOK
<1>3. att' = [att EXCEPT ![a] = attempts[j] + 1] /\ runs' = runs
  BY <1>1, <1>2 DEF Poll, TypeOK
<1>4. attempts[j] + 1 \notin runs[j]
  BY <1>2 DEF HeldOK, RunsAreClaims
<1>5. \A b \in Agents : pc[b] # "IDLE" /\ job[b] = j => att[b] # attempts[j] + 1
  BY <1>2 DEF HeldOK, HoldersClaimed
<1> USE DEF TypeOK, HeldOK
<1>6. HoldersClaimed'
  BY <1>1, <1>2, <1>3 DEF HoldersClaimed
<1>7. EachClaimRunsOnce'
  BY <1>1, <1>3, <1>4, <1>5 DEF EachClaimRunsOnce
<1>8. PlaceIsTrue'
  BY <1>1, <1>3 DEF PlaceIsTrue
<1>9. RunsAreClaims'
  BY <1>2, <1>3 DEF RunsAreClaims
<1>10. QED
  BY <1>6, <1>7, <1>8, <1>9

LEMMA HeldByToolReturns ==
  ASSUME TypeOK, HeldOK, NEW a \in Agents, ToolReturns(a)
  PROVE  HeldOK'
<1>1. job[a] \in Jobs /\ att[a] \in 1..attempts[job[a]]
  BY DEF ToolReturns, HeldOK, HoldersClaimed
<1> USE DEF TypeOK, HeldOK, ToolReturns, GoesTo, server
<1>2. HoldersClaimed'
  BY DEF HoldersClaimed
<1>3. EachClaimRunsOnce'
  BY <1>1 DEF EachClaimRunsOnce
<1>4. PlaceIsTrue'
  BY <1>1 DEF PlaceIsTrue
<1>5. RunsAreClaims'
  BY <1>1 DEF RunsAreClaims
<1>6. QED
  BY <1>2, <1>3, <1>4, <1>5

LEMMA HeldStep ==
  ASSUME TypeOK, HeldOK, [Next]_vars
  PROVE  HeldOK'
<1>1. ASSUME NEW j \in Jobs, Enqueue(j) \/ CallerReads(j) \/ CallerGivesUp(j) \/ LeaseLapses(j)
      PROVE  HeldOK'
  BY <1>1, HeldUndisturbed DEF Enqueue, CallerReads, CallerGivesUp, LeaseLapses, server, agent
<1>2. ASSUME NEW t \in Tasks, CancelTask(t)
      PROVE  HeldOK'
  BY <1>2, HeldUndisturbed DEF CancelTask, agent
<1>3. CASE MonitorTick \/ Freeze \/ Unfreeze
  BY <1>3, HeldUndisturbed DEF MonitorTick, Freeze, Unfreeze, server, agent
<1>4. ASSUME NEW a \in Agents, Poll(a)
      PROVE  HeldOK'
  BY <1>4, HeldByPoll
<1>5. ASSUME NEW a \in Agents, PollUnheard(a)
      PROVE  HeldOK'
  BY <1>5, ClaimShape, HeldThroughClaim DEF PollUnheard, agent
<1>6. ASSUME NEW a \in Agents, ToolReturns(a)
      PROVE  HeldOK'
  BY <1>6, HeldByToolReturns
<1>7. ASSUME NEW a \in Agents, ToolRaises(a)
      PROVE  HeldOK'
  BY <1>7, HeldMovesOn DEF ToolRaises, server, Steps
<1>8. ASSUME NEW a \in Agents, SendReport(a)
      PROVE  HeldOK'
  BY <1>8, HeldMovesOn DEF SendReport, server, Steps, HeldOK, PlaceIsTrue
<1>9. ASSUME NEW a \in Agents, RenewLease(a)
      PROVE  HeldOK'
  BY <1>9, HeldUndisturbed DEF RenewLease, agent
<1>10. ASSUME NEW a \in Agents, ReportTimesOut(a)
       PROVE  HeldOK'
  BY <1>10, HeldMovesOn DEF ReportTimesOut, AfterReport, Awaiting, server, Steps
<1>11. ASSUME NEW a \in Agents, Crash(a)
       PROVE  HeldOK'
  BY <1>11, HeldMovesOn DEF Crash, server, Steps
<1>12. ASSUME NEW m \in reports, ReceiveReport(m)
       PROVE  HeldOK'
  <2>1. UNCHANGED <<attempts, runs>> /\ m.from \in Agents
    BY <1>12 DEF ReceiveReport, FinishJob, TypeOK, Reports
  <2>2. CASE UNCHANGED agent
    BY <2>1, <2>2, HeldUndisturbed DEF agent
  <2>3. CASE Awaiting(m.from) /\ GoesTo(m.from, AfterReport(m.from, Acknowledged(m)))
    BY <2>1, <2>3, HeldMovesOn DEF AfterReport, Awaiting, Steps
  <2>4. QED
    BY <1>12, <2>2, <2>3 DEF ReceiveReport
<1>13. ASSUME NEW m \in reports, LoseReport(m)
       PROVE  HeldOK'
  BY <1>13, HeldUndisturbed DEF LoseReport, server, agent
<1>14. CASE UNCHANGED vars
  BY <1>14, HeldUndisturbed DEF vars
<1>15. QED
  BY <1>1, <1>2, <1>3, <1>4, <1>5, <1>6, <1>7, <1>8, <1>9, <1>10, <1>11, <1>12,
     <1>13, <1>14 DEF Next, AgentStep, Environment
-----------------------------------------------------------------------------
\* The invariants about the rows, the reports and the waiting callers, as one group.
RowOK == SuccessIsTrue /\ AbsentIsUntouched /\ CallerSeesTruth

\* Runs only grow; a step that leaves the decided and the absent rows alone, and the
\* callers, keeps the group.
LEMMA RowUndisturbed ==
  ASSUME TypeOK, RowOK, runs' = runs, reports' \subseteq reports, caller' = caller,
         \A j \in Jobs : \/ status'[j] = status[j]
                         \/ status[j] \in {"PENDING", "CLAIMED"} /\ status'[j] \in {"PENDING", "CLAIMED"},
         \A j \in Jobs : status[j] = "ABSENT" => attempts'[j] = attempts[j]
  PROVE  RowOK'
BY DEF TypeOK, RowOK, SuccessIsTrue, AbsentIsUntouched, CallerSeesTruth

LEMMA RowStep ==
  ASSUME TypeOK, HeldOK, RowOK, [Next]_vars
  PROVE  RowOK'
<1>1. ASSUME NEW j \in Jobs, Enqueue(j)
      PROVE  RowOK'
  BY <1>1 DEF Enqueue, TypeOK, RowOK, SuccessIsTrue, AbsentIsUntouched, CallerSeesTruth
<1>2. ASSUME NEW j \in Jobs, CallerReads(j) \/ CallerGivesUp(j)
      PROVE  RowOK'
  BY <1>2 DEF CallerReads, CallerGivesUp, server, Decided, TypeOK, RowOK, SuccessIsTrue,
              AbsentIsUntouched, CallerSeesTruth
<1>3. ASSUME NEW j \in Jobs, LeaseLapses(j)
      PROVE  RowOK'
  BY <1>3, RowUndisturbed DEF LeaseLapses
<1>4. ASSUME NEW t \in Tasks, CancelTask(t)
      PROVE  RowOK'
  BY <1>4 DEF CancelTask, PendingOf, TypeOK, RowOK, SuccessIsTrue, AbsentIsUntouched,
              CallerSeesTruth
<1>5. CASE MonitorTick
  BY <1>5, RowUndisturbed DEF MonitorTick, RequeuedStatus, Expired
<1>6. CASE Freeze \/ Unfreeze
  BY <1>6, RowUndisturbed DEF Freeze, Unfreeze, server
<1>7. ASSUME NEW d, NEW j \in Jobs, ClaimNext(d, j), UNCHANGED <<caller, reports, runs>>
      PROVE  RowOK'
  <2>1. \A i \in Jobs : status[i] = "ABSENT" => attempts'[i] = attempts[i]
    BY <1>7, ClaimShape DEF TypeOK
  <2>2. \A i \in Jobs : \/ status'[i] = status[i]
                        \/ status[i] \in {"PENDING", "CLAIMED"} /\ status'[i] \in {"PENDING", "CLAIMED"}
    BY <1>7, ClaimShape
  <2>3. QED
    BY <1>7, <2>1, <2>2, RowUndisturbed
<1>8. ASSUME NEW a \in Agents, Poll(a) \/ PollUnheard(a)
      PROVE  RowOK'
  BY <1>7, <1>8 DEF Poll, PollUnheard
<1>9. ASSUME NEW a \in Agents, ToolReturns(a)
      PROVE  RowOK'
  BY <1>9 DEF ToolReturns, server, TypeOK, RowOK, SuccessIsTrue, AbsentIsUntouched,
              CallerSeesTruth
<1>10. ASSUME NEW a \in Agents, ToolRaises(a) \/ RenewLease(a) \/ ReportTimesOut(a) \/ Crash(a)
       PROVE  RowOK'
  BY <1>10, RowUndisturbed DEF ToolRaises, RenewLease, ReportTimesOut, Crash, server
<1>11. ASSUME NEW a \in Agents, SendReport(a)
       PROVE  RowOK'
  <2>1. pc[a] = "DONE" => runs[job[a]] # {}
    BY DEF HeldOK, PlaceIsTrue
  <2>2. SuccessIsTrue'
    BY <1>11, <2>1 DEF SendReport, Report, server, RowOK, SuccessIsTrue
  <2>3. QED
    BY <1>11, <2>2 DEF SendReport, server, RowOK, AbsentIsUntouched, CallerSeesTruth
<1>12. ASSUME NEW m \in reports, ReceiveReport(m)
       PROVE  RowOK'
  <2>1. m.job \in Jobs /\ m.outcome \in Decided
    BY DEF TypeOK, Reports
  <2>2. m.outcome = "SUCCEEDED" => runs[m.job] # {}
    BY DEF RowOK, SuccessIsTrue
  <2> USE DEF ReceiveReport, FinishJob, Finishable, Decided, TypeOK, RowOK
  <2>3. SuccessIsTrue'
    BY <1>12, <2>1, <2>2 DEF SuccessIsTrue
  <2>4. AbsentIsUntouched'
    BY <1>12, <2>1 DEF AbsentIsUntouched
  <2>5. CallerSeesTruth'
    BY <1>12, <2>1 DEF CallerSeesTruth
  <2>6. QED
    BY <2>3, <2>4, <2>5
<1>13. ASSUME NEW m \in reports, LoseReport(m)
       PROVE  RowOK'
  BY <1>13, RowUndisturbed DEF LoseReport, server
<1>14. CASE UNCHANGED vars
  BY <1>14, RowUndisturbed DEF vars
<1>15. QED
  BY <1>1, <1>2, <1>3, <1>4, <1>5, <1>6, <1>8, <1>9, <1>10, <1>11, <1>12,
     <1>13, <1>14 DEF Next, AgentStep, Environment
-----------------------------------------------------------------------------
\* The invariant the properties follow from: what each program holds is a counted claim,
\* its place agrees with what completed on the device, and rows, reports in flight and waiting
\* callers agree with both (every handler of api/agent_routes.py, the agent's loop in cli.py).
THEOREM InvariantHolds == Spec => []IInv
<1>1. Init => IInv
  <2> SUFFICES ASSUME Init PROVE IInv
    OBVIOUS
  <2>1. TypeOK
    BY DEF Init, TypeOK, Statuses, Steps
  <2>2. HoldersClaimed /\ EachClaimRunsOnce /\ PlaceIsTrue /\ RunsAreClaims
    BY DEF Init, HoldersClaimed, EachClaimRunsOnce, PlaceIsTrue, RunsAreClaims
  <2>3. SuccessIsTrue /\ AbsentIsUntouched /\ CallerSeesTruth
    BY DEF Init, SuccessIsTrue, AbsentIsUntouched, CallerSeesTruth
  <2>4. QED
    BY <2>1, <2>2, <2>3 DEF IInv
<1>2. IInv /\ [Next]_vars => IInv'
  BY TypeStep, HeldStep, RowStep DEF IInv, HeldOK, RowOK
<1>3. QED
  BY <1>1, <1>2, PTL DEF Spec

\* Every reachable state of the table, the agent programs and the reports is well typed.
THEOREM TypeCorrect == Spec => []TypeOK
<1>1. IInv => TypeOK
  BY DEF IInv
<1>2. QED
  BY <1>1, InvariantHolds, PTL

\* No claim is held by two programs and none completes its tool twice (claim_next_job,
\* _handle_job): a repeated file operation always has a claim, and an attempt, of its own.
THEOREM ClaimsRunOnce == Spec => []EachClaimRunsOnce
<1>1. IInv => EachClaimRunsOnce
  BY DEF IInv
<1>2. QED
  BY <1>1, InvariantHolds, PTL

\* What completed on the device is accounted for by the attempts counted in the row.
THEOREM RunsAreCounted == Spec => []RunsAreClaims
<1>1. IInv => RunsAreClaims
  BY DEF IInv
<1>2. QED
  BY <1>1, InvariantHolds, PTL

\* The outcome a waiting conversation was given stays the outcome of the job, and a success
\* means the tool completed (finish_job, _try_delegate_to_device).
THEOREM CallersSeeTruth == Spec => []CallerSeesTruth
<1>1. IInv => CallerSeesTruth
  BY DEF IInv
<1>2. QED
  BY <1>1, InvariantHolds, PTL
-----------------------------------------------------------------------------
\* The values the implementation substitutes for the variables of JobLedger.
Outcome == [j \in Jobs |-> IF status[j] \in {"PENDING", "CLAIMED"} THEN "OPEN" ELSE status[j]]
Ran == [j \in Jobs |-> runs[j] # {}]

LEMMA LedgerStutters ==
  ASSUME runs' = runs,
         \A j \in Jobs : \/ status'[j] = status[j]
                         \/ status[j] \in {"PENDING", "CLAIMED"} /\ status'[j] \in {"PENDING", "CLAIMED"}
  PROVE  UNCHANGED Ledger!vars
BY DEF Ledger!vars

LEMMA LedgerStep ==
  ASSUME IInv, [Next]_vars
  PROVE  [Ledger!Next]_(Ledger!vars)
<1> USE DEF IInv
<1>1. ASSUME NEW j \in Jobs, Enqueue(j)
      PROVE  Ledger!Open(j)
  BY <1>1 DEF Enqueue, TypeOK, Ledger!Open
<1>2. ASSUME NEW j \in Jobs, CallerReads(j) \/ CallerGivesUp(j) \/ LeaseLapses(j)
      PROVE  UNCHANGED Ledger!vars
  BY <1>2, LedgerStutters DEF CallerReads, CallerGivesUp, LeaseLapses, server
<1>3. ASSUME NEW t \in Tasks, CancelTask(t)
      PROVE  \E S \in SUBSET Jobs : Ledger!Withdraw(S)
  <2>1. PICK S \in SUBSET Jobs : S = PendingOf(t)
    BY DEF PendingOf
  <2>2. Ledger!Withdraw(S)
    BY <1>3, <2>1 DEF CancelTask, PendingOf, TypeOK, Ledger!Withdraw
  <2>3. QED
    BY <2>2
<1>4. CASE MonitorTick \/ Freeze \/ Unfreeze
  BY <1>4, LedgerStutters DEF MonitorTick, RequeuedStatus, Expired, Freeze, Unfreeze, server
<1>5. ASSUME NEW a \in Agents, Poll(a) \/ PollUnheard(a)
      PROVE  UNCHANGED Ledger!vars
  <2>1. PICK j \in Jobs : ClaimNext(DeviceOf[a], j)
    BY <1>5 DEF Poll, PollUnheard
  <2>2. \A i \in Jobs : \/ status'[i] = status[i]
                        \/ status[i] \in {"PENDING", "CLAIMED"} /\ status'[i] \in {"PENDING", "CLAIMED"}
    BY <2>1, ClaimShape
  <2>3. QED
    BY <1>5, <2>2, LedgerStutters DEF Poll, PollUnheard
<1>6. ASSUME NEW a \in Agents, ToolReturns(a)
      PROVE  \E j \in Jobs : Ledger!Run(j)
  <2>1. PICK j \in Jobs : j = job[a]
    BY <1>6 DEF ToolReturns, HoldersClaimed
  <2>2. status[j] # "ABSENT"
    BY <1>6, <2>1 DEF ToolReturns, HoldersClaimed, AbsentIsUntouched, TypeOK
  <2>3. Ran' = [Ran EXCEPT ![j] = TRUE]
    BY <1>6, <2>1 DEF ToolReturns, TypeOK, Ran
  <2>4. Ledger!Run(j)
    BY <1>6, <2>2, <2>3 DEF ToolReturns, server, TypeOK, Ran, Ledger!Run
  <2>5. QED
    BY <2>4
<1>7. ASSUME NEW a \in Agents,
             \/ ToolRaises(a) \/ SendReport(a) \/ RenewLease(a) \/ ReportTimesOut(a) \/ Crash(a)
      PROVE  UNCHANGED Ledger!vars
  BY <1>7, LedgerStutters DEF ToolRaises, SendReport, RenewLease, ReportTimesOut, Crash, server
<1>8. ASSUME NEW m \in reports, ReceiveReport(m)
      PROVE  [Ledger!Decide(m.job)]_(Ledger!vars)
  <2>1. m.job \in Jobs /\ m.outcome \in Decided
    BY DEF TypeOK, Reports
  <2>2. CASE Finishable(m)
    <3>1. Outcome[m.job] = "OPEN" /\ Outcome' = [Outcome EXCEPT ![m.job] = m.outcome]
      BY <1>8, <2>1, <2>2 DEF ReceiveReport, FinishJob, Finishable, TypeOK, Outcome, Decided
    <3>2. m.outcome = "SUCCEEDED" => Ran[m.job]
      BY <2>1 DEF SuccessIsTrue, Ran
    <3>3. QED
      BY <1>8, <2>1, <3>1, <3>2 DEF ReceiveReport, Outcome, Ran, Decided, Ledger!Decide, Ledger!Decided
  <2>3. CASE ~Finishable(m)
    BY <1>8, <2>3, LedgerStutters DEF ReceiveReport, FinishJob
  <2>4. QED
    BY <2>2, <2>3
<1>9. ASSUME NEW m \in reports, LoseReport(m)
      PROVE  UNCHANGED Ledger!vars
  BY <1>9, LedgerStutters DEF LoseReport, server
<1>10. CASE UNCHANGED vars
  BY <1>10, LedgerStutters DEF vars
<1>11. ASSUME NEW m \in reports, ReceiveReport(m)
       PROVE  [Ledger!Next]_(Ledger!vars)
  BY <1>8, <1>11 DEF Ledger!Next, TypeOK, Reports
<1>12. QED
  BY <1>1, <1>2, <1>3, <1>4, <1>5, <1>6, <1>7, <1>9, <1>10, <1>11
  DEF Next, AgentStep, Environment, Ledger!Next

\* The job queue keeps the promise of JobLedger: a job is decided once and for good, and
\* SUCCEEDED only after its tool completed, whatever claims, leases and lost messages do.
THEOREM QueueImplementsLedger == Spec => ImplementsLedger
<1>1. Init => Ledger!Init
  BY DEF Init, Ledger!Init
<1>2. IInv /\ [Next]_vars => [Ledger!Next]_(Ledger!vars)
  BY LedgerStep
<1>3. QED
  BY <1>1, <1>2, InvariantHolds, PTL DEF Spec, ImplementsLedger, Ledger!Spec
=============================================================================
