--------------------------- MODULE OpsChangesProofs ---------------------------
(***************************************************************************)
(* Proofs about OpsChanges, for any number of incidents, approvals,        *)
(* changes, deployments, checks and revisions: the inductive invariant     *)
(* ChangesIInv, the five properties that rest on it, and that OpsChanges   *)
(* implements ChangeContract.                                              *)
(***************************************************************************)
EXTENDS OpsChanges, TLAPS

USE ChangesAssumption

\* A row with one field written anew is a row.
LEMMA RowsStayRows ==
  /\ \A r \in ApprovalRows :
       /\ [r EXCEPT !.lapsed = TRUE] \in ApprovalRows
       /\ \A s \in Decisions \cup {"EXPIRED"} : [r EXCEPT !.status = s] \in ApprovalRows
  /\ \A r \in ChangeRows :
       /\ \A s \in {"RUNNING", "READY_FOR_REVIEW", "CANCELLED"} :
            [r EXCEPT !.status = s] \in ChangeRows
       /\ \A v \in Revisions \cup {0} : [r EXCEPT !.commit = v] \in ChangeRows
  /\ \A r \in CheckRows, s \in {"PASSED", "FAILED"} : [r EXCEPT !.status = s] \in CheckRows
  /\ \A r \in DeploymentRows, s \in {"VERIFYING", "SUCCEEDED", "FAILED", "ROLLED_BACK"} :
       [r EXCEPT !.status = s] \in DeploymentRows
BY DEF ApprovalRows, ChangeRows, CheckRows, DeploymentRows

LEMMA IncidentType ==
  ASSUME ChangesTypeOK, IncidentStep
  PROVE  ChangesTypeOK'
<1> USE DEF ChangesTypeOK, approvalVars, changeVars, treeVars, checkVars, deploymentVars
<1>1. ASSUME NEW i \in Incidents, IngestSignal(i)
      PROVE  ChangesTypeOK'
  BY <1>1 DEF IngestSignal, Active
<1>2. CASE AutoResolve
  BY <1>2 DEF AutoResolve
<1>3. ASSUME NEW i \in Incidents, NEW s \in Active \cup {"RESOLVED"}, SetStatus(i, s)
      PROVE  ChangesTypeOK'
  BY <1>3 DEF SetStatus, Active
<1>4. CASE EmergencyPause
  BY <1>4 DEF EmergencyPause
<1>5. QED
  BY <1>1, <1>2, <1>3, <1>4 DEF IncidentStep

LEMMA ApprovalType ==
  ASSUME ChangesTypeOK, ApprovalStep
  PROVE  ChangesTypeOK'
<1> USE DEF ChangesTypeOK, changeVars, treeVars, checkVars, deploymentVars
<1>1. ASSUME NEW i \in Incidents, NEW k \in Kinds, CreateProposal(i, k)
      PROVE  ChangesTypeOK'
  BY <1>1 DEF CreateProposal, Active, ApprovalRows
<1>2. ASSUME NEW a \in Approvals, Lapse(a)
      PROVE  ChangesTypeOK'
  BY <1>2, RowsStayRows DEF Lapse
<1>3. ASSUME NEW a \in Approvals, NEW decision \in Decisions, ReadApproval(a, decision)
      PROVE  ChangesTypeOK'
  BY <1>3 DEF ReadApproval
<1>4. ASSUME NEW a \in Approvals, NEW decision \in Decisions, RespondApproval(a, decision)
      PROVE  ChangesTypeOK'
  <2>1. StatusAfter(a, decision) \in Active \cup {"REJECTED"}
    BY DEF StatusAfter, Active
  <2>2. granted' \subseteq Approvals
    BY <1>4 DEF RespondApproval
  <2>3. approval' \in [Approvals -> ApprovalRows]
    BY <1>4, RowsStayRows DEF RespondApproval
  <2>4. QED
    BY <1>4, <2>1, <2>2, <2>3 DEF RespondApproval
<1>5. CASE SweepReads
  BY <1>5 DEF SweepReads
<1>6. CASE ExpirePendingApprovals
  <2>1. approval' \in [Approvals -> ApprovalRows]
    BY <1>6, RowsStayRows DEF ExpirePendingApprovals
  <2>2. QED
    BY <1>6, <2>1 DEF ExpirePendingApprovals, Active
<1>7. QED
  BY <1>1, <1>2, <1>3, <1>4, <1>5, <1>6 DEF ApprovalStep, ApprovalRequest

\* Checks are run, and pull requests made, for a change that has an incident.
LEMMA ChangeHasIncident ==
  ASSUME ChangesTypeOK, ChangesHaveBranches, NEW c \in Changes,
         \/ change[c].status # "NONE"
         \/ \E n \in Checks : check[c][n] # NoCheck
  PROVE  change[c].incident \in Incidents /\ change[c].status # "NONE"
<1>1. change[c].status # "NONE"
  BY DEF ChangesHaveBranches
<1>2. QED
  BY <1>1 DEF ChangesHaveBranches, ChangesTypeOK

\* What the steps of a check write is a row for each check.
LEMMA ChecksStayChecks ==
  ASSUME ChangesTypeOK, NEW c \in Changes, change[c].incident \in Incidents
  PROVE  /\ Interrupted(check[c]) \in [Checks -> CheckRows]
         /\ \A rows \in [Checks -> CheckRows], n \in Checks :
              CheckStarts(rows, c, n) \in [Checks -> CheckRows]
         /\ \A n \in Checks, s \in {"PASSED", "FAILED"} :
              [check[c] EXCEPT ![n].status = s] \in [Checks -> CheckRows]
<1>1. check[c] \in [Checks -> CheckRows]
  BY DEF ChangesTypeOK
<1>2. Interrupted(check[c]) \in [Checks -> CheckRows]
  BY <1>1, RowsStayRows DEF Interrupted
<1>3. tree[change[c].incident] \in Revisions \cup {0}
  BY DEF ChangesTypeOK
<1>4. QED
  BY <1>1, <1>2, <1>3, RowsStayRows DEF CheckStarts, CheckRows

LEMMA ChangeType ==
  ASSUME ChangesTypeOK, ChangesHaveBranches, ChangeStep
  PROVE  ChangesTypeOK'
<1> USE DEF ChangesTypeOK, approvalVars, treeVars, deploymentVars
<1>b. Base \in Revisions
  BY DEF Base, Revisions
<1>1. ASSUME NEW i \in Incidents, NEW a \in Approvals, ProvisionWorktree(i, a)
      PROVE  ChangesTypeOK'
  <2>1. branch' \subseteq Incidents /\ tree' \in [Incidents -> Revisions \cup {0}]
        /\ head' \in [Incidents -> Revisions]
    BY <1>1, <1>b DEF ProvisionWorktree, WorktreeAdd
  <2>2. change' \in [Changes -> ChangeRows]
    BY <1>1 DEF ProvisionWorktree, ChangeRows
  <2>3. QED
    BY <1>1, <2>1, <2>2 DEF ProvisionWorktree, checkVars
<1>2. ASSUME NEW c \in Changes, RunCoder(c)
      PROVE  ChangesTypeOK'
  <2>1. change' \in [Changes -> ChangeRows]
    BY <1>2, RowsStayRows DEF RunCoder
  <2>2. coder[c] + 1 \in 0 .. MaxCoders
    BY <1>2 DEF RunCoder
  <2>3. coder' = [coder EXCEPT ![c] = coder[c] + 1]
    BY <1>2 DEF RunCoder
  <2>4. QED
    BY <1>2, <2>1, <2>2, <2>3 DEF RunCoder, checkVars
<1>3. ASSUME NEW c \in Changes, CoderCompletes(c) \/ CoderFails(c)
      PROVE  ChangesTypeOK'
  <2>1. change' \in [Changes -> ChangeRows]
    <3>1. CASE CoderCompletes(c)
      BY <3>1, RowsStayRows DEF CoderCompletes
    <3>2. CASE CoderFails(c)
      BY <3>2 DEF CoderFails
    <3>3. QED
      BY <1>3, <3>1, <3>2
  <2>2. coder[c] - 1 \in 0 .. MaxCoders
    BY <1>3 DEF CoderCompletes, CoderFails
  <2>3. coder' = [coder EXCEPT ![c] = coder[c] - 1]
    BY <1>3 DEF CoderCompletes, CoderFails
  <2>4. QED
    BY <1>3, <2>1, <2>2, <2>3 DEF CoderCompletes, CoderFails, checkVars
<1>4. ASSUME NEW c \in Changes, CoderEdits(c)
      PROVE  ChangesTypeOK'
  <2> DEFINE i == change[c].incident
  <2>1. tree[i] + 1 \in Revisions
    BY <1>4 DEF CoderEdits, Revisions, Base
  <2>2. tree' = [tree EXCEPT ![i] = tree[i] + 1]
    BY <1>4 DEF CoderEdits
  <2>3. tree' \in [Incidents -> Revisions \cup {0}]
    BY <2>1, <2>2
  <2>4. CheckWasRunIn(i) => i \in Incidents
    BY DEF CheckWasRunIn, ChangesHaveBranches
  <2>5. reworked' \subseteq Incidents
    BY <1>4, <2>4 DEF CoderEdits
  <2>6. QED
    BY <1>4, <2>3, <2>5 DEF CoderEdits, checkVars
<1>5. ASSUME NEW c \in Changes, CancelCodeChange(c)
      PROVE  ChangesTypeOK'
  BY <1>5, RowsStayRows DEF CancelCodeChange, checkVars
<1>6. ASSUME NEW c \in Changes, CleanupCodeWorktree(c)
      PROVE  ChangesTypeOK'
  BY <1>6 DEF CleanupCodeWorktree, checkVars
<1>7. ASSUME NEW c \in Changes, RunChecks(c) \/ CheckPasses(c) \/ CheckFails(c)
      PROVE  ChangesTypeOK'
  <2>1. RunChecks(c) \/ CheckPasses(c) => change[c].incident \in Incidents
    <3>1. CASE RunChecks(c)
      BY <3>1, ChangeHasIncident DEF RunChecks
    <3>2. CASE CheckPasses(c)
      <4>1. checking[c] \in Checks /\ check[c][checking[c]].of # 0
        BY <3>2 DEF CheckPasses
      <4>2. check[c][checking[c]] # NoCheck
        BY <4>1 DEF NoCheck
      <4>3. QED
        BY <4>1, <4>2, ChangeHasIncident
    <3>3. QED
      BY <3>1, <3>2
  <2>2. check' \in [Changes -> [Checks -> CheckRows]]
    <3>1. CASE RunChecks(c)
      <4>1. 1 \in Checks
        BY DEF Checks
      <4>2. check' = [check EXCEPT ![c] = CheckStarts(Interrupted(check[c]), c, 1)]
        BY <3>1 DEF RunChecks
      <4>3. QED
        BY <2>1, <3>1, <4>1, <4>2, ChecksStayChecks
    <3>2. CASE CheckPasses(c)
      <4> DEFINE n == checking[c]
                 rows == [check[c] EXCEPT ![n].status = "PASSED"]
      <4>1. n \in Checks /\ rows \in [Checks -> CheckRows]
        BY <2>1, <3>2, ChecksStayChecks DEF CheckPasses
      <4>2. n < Required => n + 1 \in Checks
        BY <4>1 DEF Checks
      <4>3. \/ check' = [check EXCEPT ![c] = rows]
            \/ n < Required /\ check' = [check EXCEPT ![c] = CheckStarts(rows, c, n + 1)]
        BY <3>2 DEF CheckPasses
      <4> HIDE DEF rows
      <4>4. n < Required => CheckStarts(rows, c, n + 1) \in [Checks -> CheckRows]
        BY <2>1, <3>2, <4>1, <4>2, ChecksStayChecks
      <4> HIDE DEF n
      <4>5. QED
        BY <4>1, <4>3, <4>4
    <3>3. CASE CheckFails(c)
      <4>1. checking[c] \in Checks /\ check[c] \in [Checks -> CheckRows]
        BY <3>3 DEF CheckFails
      <4>2. [check[c] EXCEPT ![checking[c]].status = "FAILED"] \in [Checks -> CheckRows]
        BY <4>1, RowsStayRows
      <4>3. QED
        BY <3>3, <4>2 DEF CheckFails
    <3>4. QED
      BY <1>7, <3>1, <3>2, <3>3
  <2>3. checking' \in [Changes -> Checks \cup {0}]
    <3>1. CASE RunChecks(c)
      BY <3>1 DEF RunChecks, Checks
    <3>2. CASE CheckPasses(c)
      <4>1. checking[c] \in Checks
        BY <3>2 DEF CheckPasses
      <4>2. checking[c] < Required => checking[c] + 1 \in Checks
        BY <4>1 DEF Checks
      <4>3. \E n \in Checks \cup {0} : checking' = [checking EXCEPT ![c] = n]
        BY <3>2, <4>2 DEF CheckPasses
      <4>4. QED
        BY <4>3
    <3>3. CASE CheckFails(c)
      BY <3>3 DEF CheckFails
    <3>4. QED
      BY <1>7, <3>1, <3>2, <3>3
  <2>4. passed' \subseteq Changes \X Checks \X Revisions
    BY <1>7 DEF RunChecks, CheckPasses, CheckFails, CheckRows
  <2>5. QED
    BY <1>7, <2>2, <2>3, <2>4 DEF RunChecks, CheckPasses, CheckFails, changeVars
<1>8. ASSUME NEW c \in Changes, CreatePullRequest(c)
      PROVE  ChangesTypeOK'
  <2>1. tree[change[c].incident] \in Revisions
    BY <1>8, ChangeHasIncident DEF CreatePullRequest
  <2>2. change' \in [Changes -> ChangeRows]
    <3>1. \/ UNCHANGED change
          \/ change' = [change EXCEPT ![c].commit = tree[change[c].incident]]
      BY <1>8 DEF CreatePullRequest
    <3>2. change[c] \in ChangeRows
      OBVIOUS
    <3>3. [change[c] EXCEPT !.commit = tree[change[c].incident]] \in ChangeRows
      BY <2>1, <3>2, RowsStayRows
    <3>4. QED
      BY <3>1, <3>3
  <2>3. head' \in [Incidents -> Revisions]
    BY <1>8, <2>1 DEF CreatePullRequest
  <2>4. QED
    BY <1>8, <2>2, <2>3 DEF CreatePullRequest, checkVars
<1>9. QED
  BY <1>1, <1>2, <1>3, <1>4, <1>5, <1>6, <1>7, <1>8 DEF ChangeStep

LEMMA LastGoodType ==
  ASSUME ChangesTypeOK, LatestIsKnown
  PROVE  LastGood \in Revisions \cup {0}
BY DEF ChangesTypeOK, LatestIsKnown, LastGood, Succeeded, DeploymentRows

LEMMA DeploymentType ==
  ASSUME ChangesTypeOK, LatestIsKnown, DeploymentStep
  PROVE  ChangesTypeOK'
<1> USE DEF ChangesTypeOK, approvalVars, changeVars, treeVars, checkVars
<1>1. ASSUME NEW c \in Changes, NEW a \in Approvals, Deploy(c, a)
      PROVE  ChangesTypeOK'
  <2>1. change[c].commit \in Revisions \cup {0}
    BY DEF ChangeRows
  <2>2. deployment' \in [Deployments -> DeploymentRows]
    BY <1>1, <2>1, LastGoodType DEF Deploy, DeploymentRows
  <2>3. overlapped' \in BOOLEAN
    BY <1>1 DEF Deploy
  <2>4. QED
    BY <1>1, <2>2, <2>3 DEF Deploy
<1>2. ASSUME NEW d \in Deployments, DeployCommandSucceeds(d)
      PROVE  ChangesTypeOK'
  <2>1. deployment' \in [Deployments -> DeploymentRows]
    <3>1. [deployment[d] EXCEPT !.status = "VERIFYING"] \in DeploymentRows
      BY RowsStayRows
    <3>2. \/ UNCHANGED deployment
          \/ deployment' = [deployment EXCEPT ![d].status = "VERIFYING"]
      BY <1>2 DEF DeployCommandSucceeds
    <3>3. QED
      BY <3>1, <3>2
  <2>2. live' \in Revisions \cup {0}
    BY <1>2 DEF DeployCommandSucceeds, DeploymentRows
  <2>3. QED
    BY <1>2, <2>1, <2>2 DEF DeployCommandSucceeds
<1>3. ASSUME NEW d \in Deployments, HealthCheckPasses(d)
      PROVE  ChangesTypeOK'
  BY <1>3, RowsStayRows DEF HealthCheckPasses
<1>4. ASSUME NEW d \in Deployments, RollBack(d)
      PROVE  ChangesTypeOK'
  <2>1. deployment' \in [Deployments -> DeploymentRows]
    <3>1. /\ [deployment[d] EXCEPT !.status = "ROLLED_BACK"] \in DeploymentRows
          /\ [deployment[d] EXCEPT !.status = "FAILED"] \in DeploymentRows
      BY RowsStayRows
    <3>2. \/ deployment' = [deployment EXCEPT ![d].status = "ROLLED_BACK"]
          \/ deployment' = [deployment EXCEPT ![d].status = "FAILED"]
      BY <1>4 DEF RollBack
    <3>3. QED
      BY <3>1, <3>2
  <2>2. live' \in Revisions \cup {0}
    BY <1>4 DEF RollBack, DeploymentRows
  <2>3. QED
    BY <1>4, <2>1, <2>2 DEF RollBack
<1>5. QED
  BY <1>1, <1>2, <1>3, <1>4 DEF DeploymentStep

LEMMA ChangesTypeStep ==
  ASSUME ChangesTypeOK, ChangesHaveBranches, LatestIsKnown, [ChangesNext]_changesVars
  PROVE  ChangesTypeOK'
<1>1. CASE UNCHANGED changesVars
  BY <1>1 DEF ChangesTypeOK, changesVars, approvalVars, changeVars, treeVars, checkVars,
              deploymentVars
<1>2. QED
  BY <1>1, IncidentType, ApprovalType, ChangeType, DeploymentType DEF ChangesNext
-----------------------------------------------------------------------------
\* Approvals: a row keeps what it is about and a yes is remembered.
AboutOf(a) == <<approval[a].incident, approval[a].kind>>

LEMMA ApprovalsOnlyGrow ==
  ASSUME ChangesTypeOK, ApprovalsAreTrue, [ChangesNext]_changesVars
  PROVE  /\ granted \subseteq granted'
         /\ \A a \in Approvals : approval[a].status # "NONE" =>
              approval'[a].status # "NONE" /\ AboutOf(a)' = AboutOf(a)
<1> USE DEF AboutOf
<1>1. ASSUME NEW i \in Incidents, NEW k \in Kinds, CreateProposal(i, k)
      PROVE  /\ granted \subseteq granted'
             /\ \A a \in Approvals : approval[a].status # "NONE" =>
                  approval'[a].status # "NONE" /\ AboutOf(a)' = AboutOf(a)
  BY <1>1 DEF CreateProposal, IsNext, ChangesTypeOK
<1>2. ASSUME NEW b \in Approvals, Lapse(b)
      PROVE  /\ granted \subseteq granted'
             /\ \A a \in Approvals : approval[a].status # "NONE" =>
                  approval'[a].status # "NONE" /\ AboutOf(a)' = AboutOf(a)
  BY <1>2 DEF Lapse, ChangesTypeOK, ApprovalRows
<1>3. ASSUME NEW b \in Approvals, NEW decision \in Decisions, RespondApproval(b, decision)
      PROVE  /\ granted \subseteq granted'
             /\ \A a \in Approvals : approval[a].status # "NONE" =>
                  approval'[a].status # "NONE" /\ AboutOf(a)' = AboutOf(a)
  BY <1>3 DEF RespondApproval, ChangesTypeOK, ApprovalRows, Decisions
<1>4. CASE ExpirePendingApprovals
  BY <1>4 DEF ExpirePendingApprovals, ChangesTypeOK, ApprovalRows
<1>5. CASE UNCHANGED <<approval, granted>>
  BY <1>5
<1>6. QED
  BY <1>1, <1>2, <1>3, <1>4, <1>5
     DEF ChangesNext, IncidentStep, ApprovalStep, ChangeStep, DeploymentStep, ApprovalRequest,
         IngestSignal, AutoResolve, SetStatus, EmergencyPause, ReadApproval, SweepReads,
         ProvisionWorktree, RunCoder, CoderEdits, CoderCompletes, CoderFails, CancelCodeChange,
         CleanupCodeWorktree, RunChecks, CheckPasses, CheckFails, CreatePullRequest, Deploy,
         DeployCommandSucceeds, HealthCheckPasses, RollBack, approvalVars, changesVars

LEMMA ApprovalsStep ==
  ASSUME ChangesTypeOK, ApprovalsAreTrue, [ChangesNext]_changesVars
  PROVE  ApprovalsAreTrue'
<1> USE DEF ApprovalsAreTrue, ChangesTypeOK
<1>1. ASSUME NEW i \in Incidents, NEW k \in Kinds, CreateProposal(i, k)
      PROVE  ApprovalsAreTrue'
  BY <1>1 DEF CreateProposal, IsNext
<1>2. ASSUME NEW b \in Approvals, Lapse(b)
      PROVE  ApprovalsAreTrue'
  BY <1>2 DEF Lapse, ApprovalRows
<1>3. ASSUME NEW b \in Approvals, NEW decision \in Decisions, ReadApproval(b, decision)
      PROVE  ApprovalsAreTrue'
  BY <1>3 DEF ReadApproval
<1>4. ASSUME NEW b \in Approvals, NEW decision \in Decisions, RespondApproval(b, decision)
      PROVE  ApprovalsAreTrue'
  <2>1. approval[b].status # "NONE"
    BY <1>4 DEF RespondApproval
  <2>2. approval' = [approval EXCEPT ![b].status = decision]
    BY <1>4 DEF RespondApproval
  <2>3. granted' = IF decision = "APPROVED" THEN granted \cup {b} ELSE granted
    BY <1>4 DEF RespondApproval
  <2>4. answering' \subseteq answering /\ UNCHANGED expiring
    BY <1>4 DEF RespondApproval
  <2>5. QED
    BY <2>1, <2>2, <2>3, <2>4 DEF ApprovalRows, Decisions
<1>5. CASE SweepReads
  BY <1>5 DEF SweepReads
<1>6. CASE ExpirePendingApprovals
  BY <1>6 DEF ExpirePendingApprovals, ApprovalRows
<1>7. CASE UNCHANGED approvalVars
  BY <1>7 DEF approvalVars
<1>8. QED
  BY <1>1, <1>2, <1>3, <1>4, <1>5, <1>6, <1>7
     DEF ChangesNext, IncidentStep, ApprovalStep, ChangeStep, DeploymentStep, ApprovalRequest,
         IngestSignal, AutoResolve, SetStatus, EmergencyPause,
         ProvisionWorktree, RunCoder, CoderEdits, CoderCompletes, CoderFails, CancelCodeChange,
         CleanupCodeWorktree, RunChecks, CheckPasses, CheckFails, CreatePullRequest, Deploy,
         DeployCommandSucceeds, HealthCheckPasses, RollBack, changesVars

\* An incident that awaits a decision.
LEMMA AwaitingStep ==
  ASSUME ChangesTypeOK, ApprovalsAreTrue, AwaitingHasPending, [ChangesNext]_changesVars
  PROVE  AwaitingHasPending'
<1> USE DEF AwaitingHasPending, ChangesTypeOK, Awaiting
<1>1. ASSUME NEW i \in Incidents, IngestSignal(i)
      PROVE  AwaitingHasPending'
  BY <1>1 DEF IngestSignal, approvalVars
<1>2. CASE AutoResolve
  BY <1>2 DEF AutoResolve, approvalVars
<1>3. ASSUME NEW i \in Incidents, NEW s \in Active \cup {"RESOLVED"}, SetStatus(i, s)
      PROVE  AwaitingHasPending'
  BY <1>3 DEF SetStatus, approvalVars
<1>4. ASSUME NEW i \in Incidents, NEW k \in Kinds, CreateProposal(i, k)
      PROVE  AwaitingHasPending'
  BY <1>4 DEF CreateProposal, IsNext
<1>5. ASSUME NEW b \in Approvals, Lapse(b)
      PROVE  AwaitingHasPending'
  BY <1>5 DEF Lapse, ApprovalRows
<1>6. ASSUME NEW b \in Approvals, NEW decision \in Decisions, RespondApproval(b, decision)
      PROVE  AwaitingHasPending'
  <2>1. StatusAfter(b, decision) \notin Awaiting
    BY DEF StatusAfter
  <2>2. SUFFICES ASSUME NEW i \in Incidents, incident'[i] \in Awaiting
                 PROVE  \E a \in Approvals : approval'[a].incident = i
                                               /\ approval'[a].status = "PENDING"
    OBVIOUS
  <2>3. i # approval[b].incident /\ incident[i] \in Awaiting
    BY <1>6, <2>1, <2>2 DEF RespondApproval
  <2>4. PICK a \in Approvals : approval[a].incident = i /\ approval[a].status = "PENDING"
    BY <2>3
  <2>5. approval'[a] = approval[a]
    BY <1>6, <2>3, <2>4 DEF RespondApproval
  <2>6. QED
    BY <2>4, <2>5
<1>7. CASE ExpirePendingApprovals
  <2>1. SUFFICES ASSUME NEW i \in Incidents, incident'[i] \in Awaiting
                 PROVE  \E a \in Approvals : approval'[a].incident = i
                                               /\ approval'[a].status = "PENDING"
    OBVIOUS
  <2>2. ~NoLongerAwaiting(i) /\ incident[i] \in Awaiting
    BY <1>7, <2>1 DEF ExpirePendingApprovals
  <2>3. PICK a \in Approvals : approval[a].incident = i /\ approval[a].status = "PENDING"
    BY <2>2
  <2>4. a \notin expiring
    BY <2>2, <2>3 DEF NoLongerAwaiting
  <2>5. approval'[a] = approval[a]
    BY <1>7, <2>4 DEF ExpirePendingApprovals
  <2>6. QED
    BY <2>3, <2>5
<1>8. CASE UNCHANGED <<incident, approval>>
  BY <1>8
<1>9. QED
  BY <1>1, <1>2, <1>3, <1>4, <1>5, <1>6, <1>7, <1>8
     DEF ChangesNext, IncidentStep, ApprovalStep, ChangeStep, DeploymentStep, ApprovalRequest,
         EmergencyPause, ReadApproval, SweepReads, ProvisionWorktree, RunCoder, CoderEdits,
         CoderCompletes, CoderFails, CancelCodeChange, CleanupCodeWorktree, RunChecks,
         CheckPasses, CheckFails, CreatePullRequest, Deploy, DeployCommandSucceeds,
         HealthCheckPasses, RollBack, approvalVars, changesVars
-----------------------------------------------------------------------------
\* Changes: a row keeps its incident and its approval, and the histories grow.
OriginOf(c) == <<change[c].incident, change[c].approval>>

LEMMA PullRequestKeeps ==
  ASSUME ChangesTypeOK, NEW c \in Changes, CreatePullRequest(c), NEW x \in Changes
  PROVE  /\ change'[x].status = change[x].status
         /\ change'[x].incident = change[x].incident
         /\ change'[x].approval = change[x].approval
<1>1. CASE UNCHANGED change
  BY <1>1
<1>2. CASE change' = [change EXCEPT ![c].commit = tree[change[c].incident]]
  <2>1. change[x] \in ChangeRows
    BY DEF ChangesTypeOK
  <2>2. change'[x] = IF x = c THEN [change[c] EXCEPT !.commit = tree[change[c].incident]]
                     ELSE change[x]
    BY <1>2 DEF ChangesTypeOK
  <2>3. QED
    BY <2>1, <2>2 DEF ChangeRows
<1>3. QED
  BY <1>1, <1>2 DEF CreatePullRequest

LEMMA ChangesOnlyGrow ==
  ASSUME ChangesTypeOK, [ChangesNext]_changesVars
  PROVE  /\ branch \subseteq branch' /\ reworked \subseteq reworked' /\ passed \subseteq passed'
         /\ \A c \in Changes : change[c].status # "NONE" =>
              change'[c].status # "NONE" /\ OriginOf(c)' = OriginOf(c)
<1> DEFINE Grows == /\ branch \subseteq branch' /\ reworked \subseteq reworked'
                    /\ passed \subseteq passed'
                    /\ \A c \in Changes : change[c].status # "NONE" =>
                         change'[c].status # "NONE" /\ OriginOf(c)' = OriginOf(c)
<1> USE DEF OriginOf
<1>1. ASSUME NEW i \in Incidents, NEW a \in Approvals, ProvisionWorktree(i, a)
      PROVE  Grows
  BY <1>1 DEF ProvisionWorktree, WorktreeAdd, IsNext, ChangesTypeOK, checkVars
<1>2. ASSUME NEW c \in Changes, RunCoder(c)
      PROVE  Grows
  BY <1>2 DEF RunCoder, ChangesTypeOK, ChangeRows, treeVars, checkVars
<1>3. ASSUME NEW c \in Changes, CoderCompletes(c)
      PROVE  Grows
  BY <1>3 DEF CoderCompletes, ChangesTypeOK, ChangeRows, treeVars, checkVars
<1>4. ASSUME NEW c \in Changes, CancelCodeChange(c)
      PROVE  Grows
  BY <1>4 DEF CancelCodeChange, ChangesTypeOK, ChangeRows, treeVars, checkVars
<1>5. ASSUME NEW c \in Changes, CoderEdits(c) \/ CoderFails(c) \/ CleanupCodeWorktree(c)
      PROVE  Grows
  BY <1>5 DEF CoderEdits, CoderFails, CleanupCodeWorktree, treeVars, checkVars
<1>6. ASSUME NEW c \in Changes, RunChecks(c) \/ CheckPasses(c) \/ CheckFails(c)
      PROVE  Grows
  BY <1>6 DEF RunChecks, CheckPasses, CheckFails, changeVars
<1>7. ASSUME NEW c \in Changes, CreatePullRequest(c)
      PROVE  Grows
  <2>1. UNCHANGED <<branch, reworked, passed>>
    BY <1>7 DEF CreatePullRequest, checkVars
  <2>2. QED
    BY <1>7, <2>1, PullRequestKeeps
<1>8. CASE UNCHANGED <<changeVars, checkVars>>
  BY <1>8 DEF changeVars, checkVars
<1>9. QED
  BY <1>1, <1>2, <1>3, <1>4, <1>5, <1>6, <1>7, <1>8
     DEF ChangesNext, IncidentStep, ApprovalStep, ChangeStep, DeploymentStep, ApprovalRequest,
         IngestSignal, AutoResolve, SetStatus, EmergencyPause, CreateProposal, Lapse,
         ReadApproval, RespondApproval, SweepReads, ExpirePendingApprovals, Deploy,
         DeployCommandSucceeds, HealthCheckPasses, RollBack, changesVars

LEMMA BranchesStep ==
  ASSUME ChangesTypeOK, ChangesHaveBranches, [ChangesNext]_changesVars
  PROVE  ChangesHaveBranches'
<1> USE DEF ChangesHaveBranches, ChangesTypeOK
<1>1. ASSUME NEW i \in Incidents, NEW a \in Approvals, ProvisionWorktree(i, a)
      PROVE  ChangesHaveBranches'
  <2>1. i \in branch' /\ branch \subseteq branch'
    BY <1>1 DEF ProvisionWorktree, WorktreeAdd
  <2>2. \A j \in Incidents : tree'[j] # 0 => j \in branch'
    BY <1>1 DEF ProvisionWorktree, WorktreeAdd
  <2>3. UNCHANGED <<coder, checkVars>>
    BY <1>1 DEF ProvisionWorktree
  <2>4. \A c \in Changes : \/ change'[c] = change[c]
                           \/ change'[c].status = "PROVISIONED" /\ change'[c].incident = i
    BY <1>1 DEF ProvisionWorktree
  <2>5. QED
    BY <2>1, <2>2, <2>3, <2>4 DEF checkVars
<1>2. ASSUME NEW c \in Changes, change[c].status # "NONE",
             UNCHANGED <<treeVars, checkVars>>,
             \A x \in Changes \ {c} : change'[x] = change[x] /\ coder'[x] = coder[x],
             change'[c].status # "NONE", change'[c].incident = change[c].incident
      PROVE  ChangesHaveBranches'
  BY <1>2 DEF treeVars, checkVars
<1>3. ASSUME NEW c \in Changes, RunCoder(c) \/ CoderCompletes(c) \/ CoderFails(c)
      PROVE  ChangesHaveBranches'
  <2>1. change[c].status # "NONE"
    BY <1>3 DEF RunCoder, CoderCompletes, CoderFails
  <2>2. UNCHANGED <<treeVars, checkVars>>
    BY <1>3 DEF RunCoder, CoderCompletes, CoderFails
  <2>3. \A x \in Changes \ {c} : change'[x] = change[x] /\ coder'[x] = coder[x]
    BY <1>3 DEF RunCoder, CoderCompletes, CoderFails
  <2>4. change'[c].status # "NONE" /\ change'[c].incident = change[c].incident
    BY <1>3, <2>1 DEF RunCoder, CoderCompletes, CoderFails, ChangeRows
  <2>5. QED
    BY <1>2, <2>1, <2>2, <2>3, <2>4
<1>4. ASSUME NEW c \in Changes, CancelCodeChange(c)
      PROVE  ChangesHaveBranches'
  BY <1>4 DEF CancelCodeChange, ChangeRows, treeVars, checkVars
<1>5. ASSUME NEW c \in Changes, CoderEdits(c) \/ CleanupCodeWorktree(c)
      PROVE  ChangesHaveBranches'
  <2>1. UNCHANGED <<change, coder, checkVars, branch>>
    BY <1>5 DEF CoderEdits, CleanupCodeWorktree
  <2>2. tree[change[c].incident] # 0
    BY <1>5 DEF CoderEdits, CleanupCodeWorktree
  <2>3. \A j \in Incidents : j # change[c].incident => tree'[j] = tree[j]
    BY <1>5 DEF CoderEdits, CleanupCodeWorktree
  <2>4. QED
    BY <2>1, <2>2, <2>3 DEF checkVars
<1>6. ASSUME NEW c \in Changes, RunChecks(c) \/ CheckPasses(c) \/ CheckFails(c)
      PROVE  ChangesHaveBranches'
  <2>1. change[c].status # "NONE"
    BY <1>6 DEF RunChecks, CheckPasses, CheckFails
  <2>2. \A x \in Changes \ {c} : check'[x] = check[x] /\ checking'[x] = checking[x]
    BY <1>6 DEF RunChecks, CheckPasses, CheckFails
  <2>3. UNCHANGED changeVars
    BY <1>6 DEF RunChecks, CheckPasses, CheckFails
  <2>4. QED
    BY <2>1, <2>2, <2>3 DEF changeVars
<1>7. ASSUME NEW c \in Changes, CreatePullRequest(c)
      PROVE  ChangesHaveBranches'
  <2>1. \/ UNCHANGED change
        \/ change' = [change EXCEPT ![c].commit = tree[change[c].incident]]
    BY <1>7 DEF CreatePullRequest
  <2>2. /\ \A x \in Changes \ {c} : change'[x] = change[x]
        /\ change'[c].status = change[c].status /\ change'[c].incident = change[c].incident
    BY <2>1 DEF ChangeRows
  <2>3. change[c].status # "NONE" /\ UNCHANGED <<branch, tree, coder, checkVars>>
    BY <1>7 DEF CreatePullRequest
  <2>4. QED
    BY <2>2, <2>3 DEF checkVars
<1>8. CASE UNCHANGED <<changeVars, checkVars>>
  BY <1>8 DEF changeVars, checkVars
<1>9. QED
  BY <1>1, <1>2, <1>3, <1>4, <1>5, <1>6, <1>7, <1>8
     DEF ChangesNext, IncidentStep, ApprovalStep, ChangeStep, DeploymentStep, ApprovalRequest,
         IngestSignal, AutoResolve, SetStatus, EmergencyPause, CreateProposal, Lapse,
         ReadApproval, RespondApproval, SweepReads, ExpirePendingApprovals, Deploy,
         DeployCommandSucceeds, HealthCheckPasses, RollBack, changesVars

\* A row that is new is one that ProvisionWorktree has made.
LEMMA NewChange ==
  ASSUME ChangesTypeOK, ChangesHaveBranches, [ChangesNext]_changesVars,
         NEW c \in Changes, change[c].status = "NONE", change'[c].status # "NONE"
  PROVE  \E i \in Incidents, a \in Approvals :
           /\ ProvisionWorktree(i, a)
           /\ change'[c] = [incident |-> i, approval |-> a, status |-> "PROVISIONED", commit |-> 0]
<1> USE DEF ChangesTypeOK
<1>1. ASSUME NEW i \in Incidents, NEW a \in Approvals, ProvisionWorktree(i, a)
      PROVE  change'[c] = [incident |-> i, approval |-> a, status |-> "PROVISIONED", commit |-> 0]
  BY <1>1 DEF ProvisionWorktree
<1>2. ASSUME NEW x \in Changes, change[x].status # "NONE",
             \A y \in Changes \ {x} : change'[y] = change[y]
      PROVE  FALSE
  BY <1>2
<1>3. ASSUME NEW x \in Changes, RunCoder(x) \/ CoderCompletes(x) \/ CancelCodeChange(x)
                                            \/ CreatePullRequest(x)
      PROVE  FALSE
  <2>1. change[x].status # "NONE"
    BY <1>3 DEF RunCoder, CoderCompletes, CancelCodeChange, CreatePullRequest, ChangesHaveBranches
  <2>2. \A y \in Changes \ {x} : change'[y] = change[y]
    BY <1>3 DEF RunCoder, CoderCompletes, CancelCodeChange, CreatePullRequest
  <2>3. QED
    BY <1>2, <2>1, <2>2
<1>4. change' # change
  OBVIOUS
<1>5. QED
  BY <1>1, <1>3, <1>4
     DEF ChangesNext, IncidentStep, ApprovalStep, ChangeStep, DeploymentStep, ApprovalRequest,
         IngestSignal, AutoResolve, SetStatus, EmergencyPause, CreateProposal, Lapse,
         ReadApproval, RespondApproval, SweepReads, ExpirePendingApprovals, CoderEdits,
         CoderFails, CleanupCodeWorktree, RunChecks, CheckPasses, CheckFails, Deploy,
         DeployCommandSucceeds, HealthCheckPasses, RollBack, changeVars, changesVars

\* A commit is recorded by CreatePullRequest only.
LEMMA NewCommit ==
  ASSUME ChangesTypeOK, ChangesHaveBranches, [ChangesNext]_changesVars,
         NEW c \in Changes, change'[c].commit # change[c].commit
  PROVE  \/ change'[c].commit = 0
         \/ CreatePullRequest(c) /\ change'[c].commit = tree[change[c].incident]
<1> USE DEF ChangesTypeOK
<1>1. ASSUME NEW i \in Incidents, NEW a \in Approvals, ProvisionWorktree(i, a)
      PROVE  change'[c].commit = 0
  BY <1>1, SMTT(30) DEF ProvisionWorktree
<1>2. ASSUME NEW x \in Changes, RunCoder(x) \/ CoderCompletes(x) \/ CancelCodeChange(x)
      PROVE  FALSE
  <2>1. \E s \in {"RUNNING", "READY_FOR_REVIEW", "CANCELLED"} :
          change' = [change EXCEPT ![x].status = s]
    BY <1>2 DEF RunCoder, CoderCompletes, CancelCodeChange
  <2>2. QED
    BY <2>1 DEF ChangeRows
<1>3. ASSUME NEW x \in Changes, CreatePullRequest(x)
      PROVE  x = c /\ change'[c].commit = tree[change[c].incident]
  <2>1. change' = [change EXCEPT ![x].commit = tree[change[x].incident]]
    BY <1>3 DEF CreatePullRequest
  <2>2. QED
    BY <2>1 DEF ChangeRows
<1>4. change' # change
  OBVIOUS
<1>5. QED
  BY <1>1, <1>2, <1>3, <1>4
     DEF ChangesNext, IncidentStep, ApprovalStep, ChangeStep, DeploymentStep, ApprovalRequest,
         IngestSignal, AutoResolve, SetStatus, EmergencyPause, CreateProposal, Lapse,
         ReadApproval, RespondApproval, SweepReads, ExpirePendingApprovals, CoderEdits,
         CoderFails, CleanupCodeWorktree, RunChecks, CheckPasses, CheckFails, Deploy,
         DeployCommandSucceeds, HealthCheckPasses, RollBack, changeVars, changesVars

LEMMA OneChangeStep ==
  ASSUME ChangesTypeOK, ChangesTypeOK', ChangesHaveBranches, OneChangePerIncident,
         [ChangesNext]_changesVars
  PROVE  OneChangePerIncident'
<1> SUFFICES ASSUME NEW c \in Changes, NEW d \in Changes, change'[c].status # "NONE",
                    change'[c].incident = change'[d].incident
             PROVE  c = d
  BY DEF OneChangePerIncident
<1>1. change'[d].status # "NONE"
  <2>1. ChangesHaveBranches'
    BY BranchesStep
  <2>2. change'[c].incident \in Incidents
    BY <2>1 DEF ChangesHaveBranches, ChangesTypeOK
  <2>3. change'[d].status = "NONE" => change'[d].incident = 0
    BY <2>1 DEF ChangesHaveBranches, NoChange
  <2>4. QED
    BY <2>2, <2>3
<1>2. CASE change[c].status # "NONE" /\ change[d].status # "NONE"
  BY <1>2, ChangesOnlyGrow DEF OriginOf, OneChangePerIncident
<1>3. ASSUME NEW x \in Changes, NEW y \in Changes, change[x].status = "NONE",
             change'[x].status # "NONE", change'[y].status # "NONE",
             change'[x].incident = change'[y].incident
      PROVE  x = y
  <2>1. PICK i \in Incidents, a \in Approvals :
          /\ ProvisionWorktree(i, a)
          /\ change'[x] = [incident |-> i, approval |-> a, status |-> "PROVISIONED",
                           commit |-> 0]
    BY <1>3, NewChange
  <2>2. i \notin branch
    BY <2>1 DEF ProvisionWorktree, WorktreeAdd
  <2>3. change[y].status = "NONE"
    BY <1>3, <2>1, <2>2, ChangesOnlyGrow DEF OriginOf, ChangesHaveBranches
  <2>4. \E z \in Changes : \A w \in Changes : w # z => change'[w] = change[w]
    BY <2>1 DEF ProvisionWorktree, ChangesTypeOK
  <2>5. QED
    BY <1>3, <2>3, <2>4
<1>4. QED
  BY <1>1, <1>2, <1>3

\* The check that runs has a row, and keeps it while the row stays.
LEMMA CheckAtWork ==
  ASSUME ChecksAreCurrent, NEW x \in Changes, NEW n \in Checks, checking[x] = n,
         check'[x] = check[x]
  PROVE  check'[x][n].status = "RUNNING"
<1>1. check[x][n].status = "RUNNING"
  BY DEF ChecksAreCurrent
<1>2. QED
  BY <1>1

LEMMA ChecksStep ==
  ASSUME ChangesTypeOK, ChangesHaveBranches, ChecksAreCurrent, [ChangesNext]_changesVars
  PROVE  ChecksAreCurrent'
<1> USE DEF ChecksAreCurrent, ChangesTypeOK
<1>1. ASSUME NEW i \in Incidents, NEW a \in Approvals, ProvisionWorktree(i, a)
      PROVE  ChecksAreCurrent'
  <2>1. UNCHANGED <<checkVars, reworked>>
    BY <1>1 DEF ProvisionWorktree
  <2>2. i \notin branch /\ \A j \in Incidents : j # i => tree'[j] = tree[j]
    BY <1>1 DEF ProvisionWorktree, WorktreeAdd
  <2>3. ASSUME NEW c \in Changes, NEW n \in Checks, check[c][n] # NoCheck
        PROVE  change[c].incident \in branch /\ change'[c] = change[c]
    <3>1. change[c].status # "NONE"
      BY <2>3 DEF ChangesHaveBranches
    <3>2. QED
      BY <1>1, <3>1 DEF ProvisionWorktree, IsNext, ChangesHaveBranches
  <2>4. QED
    BY <2>1, <2>2, <2>3 DEF NoCheck, checkVars
<1>2. ASSUME NEW c \in Changes, CoderEdits(c)
      PROVE  ChecksAreCurrent'
  <2>1. UNCHANGED <<check, passed, checking, change>>
    BY <1>2 DEF CoderEdits, checkVars
  <2>2. \A j \in Incidents : j # change[c].incident => tree'[j] = tree[j]
    BY <1>2 DEF CoderEdits
  <2>3. ASSUME NEW x \in Changes, NEW n \in Checks, check[x][n] # NoCheck
        PROVE  \/ change[x].incident # change[c].incident
               \/ change[x].incident \in reworked'
    BY <1>2, <2>3 DEF CoderEdits, CheckWasRunIn
  <2>4. reworked \subseteq reworked'
    BY <1>2 DEF CoderEdits
  <2>5. ASSUME NEW x \in Changes, NEW n \in Checks, check[x][n] # NoCheck
        PROVE  change[x].incident \in Incidents
    BY <2>5 DEF ChangesHaveBranches
  <2>6. QED
    BY <2>1, <2>2, <2>3, <2>4, <2>5
<1>3. ASSUME NEW c \in Changes, CleanupCodeWorktree(c)
      PROVE  ChecksAreCurrent'
  <2>1. UNCHANGED <<check, passed, checking, change, reworked>>
    BY <1>3 DEF CleanupCodeWorktree, checkVars
  <2>2. \A j \in Incidents : tree'[j] = tree[j] \/ tree'[j] = 0
    BY <1>3 DEF CleanupCodeWorktree
  <2>3. \A x \in Changes, n \in Checks : check[x][n] # NoCheck => change[x].incident \in Incidents
    BY DEF ChangesHaveBranches
  <2>4. QED
    BY <2>1, <2>2, <2>3
<1>4. ASSUME NEW c \in Changes, RunCoder(c) \/ CoderCompletes(c) \/ CoderFails(c)
                                            \/ CancelCodeChange(c) \/ CreatePullRequest(c)
      PROVE  ChecksAreCurrent'
  <2>1. UNCHANGED <<check, passed, checking, tree, reworked>>
    BY <1>4 DEF RunCoder, CoderCompletes, CoderFails, CancelCodeChange, CreatePullRequest,
                checkVars, treeVars
  <2>2. ASSUME NEW x \in Changes
        PROVE  change'[x].incident = change[x].incident
    <3>1. CASE CreatePullRequest(c)
      BY <3>1, PullRequestKeeps
    <3>2. QED
      BY <1>4, <3>1 DEF RunCoder, CoderCompletes, CoderFails, CancelCodeChange, ChangeRows
  <2>3. QED
    BY <2>1, <2>2
<1>5. ASSUME NEW c \in Changes, RunChecks(c)
      PROVE  ChecksAreCurrent'
  <2>1. UNCHANGED <<passed, change, tree, reworked>>
    BY <1>5 DEF RunChecks, changeVars
  <2>2. \A x \in Changes \ {c} : check'[x] = check[x]
    BY <1>5 DEF RunChecks
  <2>3. check'[c] = CheckStarts(Interrupted(check[c]), c, 1)
    BY <1>5 DEF RunChecks
  <2>4. \A n \in Checks :
          \/ check'[c][n] = [status |-> "RUNNING", of |-> tree[change[c].incident]]
          \/ check'[c][n] = check[c][n]
          \/ check[c][n].status = "RUNNING" /\ check'[c][n].of = check[c][n].of
               /\ check'[c][n].status = "FAILED"
    BY <2>3 DEF CheckStarts, Interrupted, CheckRows
  <2>5. /\ checking'[c] = 1 /\ check'[c][1].status = "RUNNING"
        /\ \A x \in Changes \ {c} : checking'[x] = checking[x]
    BY <1>5, <2>3 DEF RunChecks, CheckStarts, Interrupted, Checks
  <2>6. ASSUME NEW x \in Changes, NEW n \in Checks
        PROVE  /\ (check'[x][n] # NoCheck /\ change[x].incident \notin reworked
                     /\ tree[change[x].incident] # 0)
                    => check'[x][n].of = tree[change[x].incident]
               /\ check'[x][n].status = "PASSED" => <<x, n, check'[x][n].of>> \in passed
    <3> DEFINE running == [status |-> "RUNNING", of |-> tree[change[c].incident]]
    <3>1. CASE x = c /\ check'[c][n] = running
      BY <3>1
    <3>2. CASE x = c /\ check'[c][n] = check[c][n]
      BY <3>2
    <3>3. CASE /\ x = c /\ check[c][n].status = "RUNNING"
               /\ check'[c][n].of = check[c][n].of /\ check'[c][n].status = "FAILED"
      <4>1. check[c][n] # NoCheck
        BY <3>3 DEF NoCheck
      <4>2. QED
        BY <3>3, <4>1
    <3>4. CASE x # c
      BY <2>2, <3>4
    <3>5. QED
      BY <2>4, <3>1, <3>2, <3>3, <3>4
  <2>7. ASSUME NEW x \in Changes, NEW n \in Checks, checking'[x] = n
        PROVE  check'[x][n].status = "RUNNING"
    <3>1. CASE x = c
      BY <2>5, <2>7, <3>1
    <3>2. CASE x # c
      <4>1. checking[x] = n /\ check'[x] = check[x]
        BY <2>2, <2>5, <2>7, <3>2
      <4>2. QED
        BY <4>1, CheckAtWork
    <3>3. QED
      BY <3>1, <3>2
  <2>8. QED
    BY <2>1, <2>6, <2>7
<1>6. ASSUME NEW c \in Changes, CheckPasses(c)
      PROVE  ChecksAreCurrent'
  <2> DEFINE m == checking[c]
  <2>1. UNCHANGED <<change, tree, reworked>> /\ passed' = passed \cup {<<c, m, check[c][m].of>>}
    BY <1>6 DEF CheckPasses, changeVars
  <2>2. \A x \in Changes \ {c} : check'[x] = check[x]
    BY <1>6 DEF CheckPasses
  <2>3. m \in Checks /\ check[c][m].of # 0
    BY <1>6 DEF CheckPasses
  <2>4. \A n \in Checks :
          \/ n = m /\ check'[c][n].of = check[c][m].of /\ check'[c][n].status = "PASSED"
          \/ check'[c][n] = [status |-> "RUNNING", of |-> tree[change[c].incident]]
          \/ check'[c][n] = check[c][n]
    <3> DEFINE rows == [check[c] EXCEPT ![m].status = "PASSED"]
    <3>1. \A n \in Checks :
            \/ n = m /\ rows[n].of = check[c][m].of /\ rows[n].status = "PASSED"
            \/ n # m /\ rows[n] = check[c][n]
      BY <2>3 DEF CheckRows
    <3>2. \/ check'[c] = rows
          \/ check'[c] = [rows EXCEPT ![m + 1] =
                            [status |-> "RUNNING", of |-> tree[change[c].incident]]]
      BY <1>6 DEF CheckPasses, CheckStarts
    <3>3. m + 1 # m /\ DOMAIN rows = Checks
      BY <2>3 DEF Checks
    <3> HIDE DEF rows
    <3>4. CASE check'[c] = rows
      BY <3>1, <3>4
    <3>5. CASE check'[c] = [rows EXCEPT ![m + 1] =
                              [status |-> "RUNNING", of |-> tree[change[c].incident]]]
      <4>1. \A n \in Checks : n # m + 1 => check'[c][n] = rows[n]
        BY <3>5
      <4>2. m + 1 \in Checks => check'[c][m + 1] =
                                  [status |-> "RUNNING", of |-> tree[change[c].incident]]
        BY <3>3, <3>5
      <4>3. QED
        BY <3>1, <4>1, <4>2
    <3>6. QED
      BY <3>2, <3>4, <3>5
  <2>5. check[c][m] # NoCheck
    BY <2>3 DEF NoCheck
  <2>6. /\ \A x \in Changes \ {c} : checking'[x] = checking[x]
        /\ \A n \in Checks : checking'[c] = n => check'[c][n].status = "RUNNING"
    <3>1. CASE m < Required
      <4>1. m + 1 \in Checks
        BY <2>3, <3>1 DEF Checks
      <4>2. checking' = [checking EXCEPT ![c] = m + 1]
        BY <1>6, <3>1 DEF CheckPasses
      <4>3. check'[c] = [[check[c] EXCEPT ![m].status = "PASSED"] EXCEPT ![m + 1] =
                           [status |-> "RUNNING", of |-> tree[change[c].incident]]]
        BY <1>6, <3>1 DEF CheckPasses, CheckStarts
      <4>4. QED
        BY <4>1, <4>2, <4>3
    <3>2. CASE ~(m < Required)
      BY <1>6, <3>2 DEF CheckPasses, Checks
    <3>3. QED
      BY <3>1, <3>2
  <2>7. QED
    BY <2>1, <2>2, <2>3, <2>4, <2>5, <2>6 DEF NoCheck
<1>7. ASSUME NEW c \in Changes, CheckFails(c), change[c].status # "NONE"
      PROVE  ChecksAreCurrent'
  <2>1. UNCHANGED <<passed, change, tree, reworked>>
    BY <1>7 DEF CheckFails, changeVars
  <2>2. \A x \in Changes \ {c} : check'[x] = check[x]
    BY <1>7 DEF CheckFails
  <2>3. PICK m \in Checks : check' = [check EXCEPT ![c][m].status = "FAILED"] /\ m = checking[c]
    BY <1>7 DEF CheckFails
  <2>4. \A n \in Checks \ {m} : check'[c][n] = check[c][n]
    BY <2>3
  <2>5. check'[c][m].of = check[c][m].of /\ check'[c][m].status = "FAILED"
    BY <2>3 DEF CheckRows
  <2>6. check[c][m].status = "RUNNING"
    BY <2>3
  <2>7. /\ \A x \in Changes \ {c} : checking'[x] = checking[x]
        /\ checking'[c] = 0
    BY <1>7 DEF CheckFails
  <2>8. check[c][m] # NoCheck /\ 0 \notin Checks
    BY <2>6 DEF NoCheck, Checks
  <2>9. ASSUME NEW x \in Changes, NEW n \in Checks
        PROVE  /\ (check'[x][n] # NoCheck /\ change[x].incident \notin reworked
                     /\ tree[change[x].incident] # 0)
                    => check'[x][n].of = tree[change[x].incident]
               /\ check'[x][n].status = "PASSED" => <<x, n, check'[x][n].of>> \in passed
    BY <2>2, <2>4, <2>5, <2>8
  <2>10. ASSUME NEW x \in Changes, NEW n \in Checks, checking'[x] = n
         PROVE  check'[x][n].status = "RUNNING"
    <3>1. x # c
      BY <2>7, <2>8, <2>10
    <3>2. checking[x] = n /\ check'[x] = check[x]
      BY <2>2, <2>7, <2>10, <3>1
    <3>3. QED
      BY <3>2, CheckAtWork
  <2>11. QED
    BY <2>1, <2>9, <2>10
<1>8. CASE UNCHANGED <<changeVars, checkVars>>
  BY <1>8 DEF changeVars, checkVars
<1>9. \A c \in Changes : CheckFails(c) => change[c].status # "NONE"
  BY DEF CheckFails, ChangesHaveBranches
<1>10. QED
  BY <1>1, <1>2, <1>3, <1>4, <1>5, <1>6, <1>7, <1>8, <1>9
     DEF ChangesNext, IncidentStep, ApprovalStep, ChangeStep, DeploymentStep, ApprovalRequest,
         IngestSignal, AutoResolve, SetStatus, EmergencyPause, CreateProposal, Lapse,
         ReadApproval, RespondApproval, SweepReads, ExpirePendingApprovals, Deploy,
         DeployCommandSucceeds, HealthCheckPasses, RollBack, changesVars

LEMMA CommitStep ==
  ASSUME ChangesTypeOK, ChangesHaveBranches, ChecksAreCurrent, CommitWasChecked,
         [ChangesNext]_changesVars
  PROVE  CommitWasChecked'
<1> SUFFICES ASSUME NEW c \in Changes, change'[c].commit # 0
             PROVE  \/ change'[c].incident \in reworked'
                    \/ \A n \in Checks : <<c, n, change'[c].commit>> \in passed'
  BY DEF CommitWasChecked
<1>1. CASE change'[c].commit = change[c].commit
  <2>1. change[c].status # "NONE"
    BY <1>1 DEF ChangesHaveBranches, NoChange
  <2>2. change'[c].incident = change[c].incident
    BY <2>1, ChangesOnlyGrow DEF OriginOf
  <2>3. QED
    BY <1>1, <2>2, ChangesOnlyGrow DEF CommitWasChecked
<1>2. CASE change'[c].commit # change[c].commit
  <2>1. CreatePullRequest(c) /\ change'[c].commit = tree[change[c].incident]
    BY <1>2, NewCommit
  <2>2. change[c].status # "NONE" /\ tree[change[c].incident] # 0
        /\ \A n \in Checks : check[c][n].status = "PASSED"
    BY <2>1 DEF CreatePullRequest, LatestChecksPassed
  <2>3. change'[c].incident = change[c].incident
    BY <2>2, ChangesOnlyGrow DEF OriginOf
  <2>4. ASSUME change[c].incident \notin reworked, NEW n \in Checks
        PROVE  <<c, n, tree[change[c].incident]>> \in passed
    <3>1. check[c][n] # NoCheck
      BY <2>2 DEF NoCheck
    <3>2. QED
      BY <2>2, <2>4, <3>1 DEF ChecksAreCurrent
  <2>5. QED
    BY <2>1, <2>3, <2>4, ChangesOnlyGrow
<1>3. QED
  BY <1>1, <1>2
-----------------------------------------------------------------------------
\* Deployments: what a row was made from stays, and only Deploy makes one.
MadeFrom(d) == <<deployment[d].change, deployment[d].approval, deployment[d].artifact,
                 deployment[d].previous>>

NewRow(c, a) == [change |-> c, approval |-> a, artifact |-> change[c].commit,
                 previous |-> LastGood, status |-> "DEPLOYING"]

LEMMA DeploymentCases ==
  ASSUME ChangesTypeOK, [ChangesNext]_changesVars
  PROVE  \/ UNCHANGED deploymentVars
         \/ \E c \in Changes, a \in Approvals : Deploy(c, a)
         \/ \E d \in Deployments : DeployCommandSucceeds(d) \/ HealthCheckPasses(d) \/ RollBack(d)
BY ZenonT(60) DEF ChangesNext, IncidentStep, ApprovalStep, ChangeStep, DeploymentStep, ApprovalRequest,
       IngestSignal, AutoResolve, SetStatus, EmergencyPause, CreateProposal, Lapse,
       ReadApproval, RespondApproval, SweepReads, ExpirePendingApprovals, ProvisionWorktree,
       RunCoder, CoderEdits, CoderCompletes, CoderFails, CancelCodeChange,
       CleanupCodeWorktree, RunChecks, CheckPasses, CheckFails, CreatePullRequest,
       deploymentVars, changesVars

\* A step of a deployment under way only writes its status.
LEMMA OnlyStatusMoves ==
  ASSUME ChangesTypeOK, NEW d \in Deployments,
         DeployCommandSucceeds(d) \/ HealthCheckPasses(d) \/ RollBack(d)
  PROVE  /\ deployment[d].status \in {"DEPLOYING", "VERIFYING"}
         /\ deployment'[d].status \in {"DEPLOYING", "VERIFYING", "SUCCEEDED", "FAILED",
                                       "ROLLED_BACK"}
         /\ MadeFrom(d)' = MadeFrom(d)
         /\ \A e \in Deployments \ {d} : deployment'[e] = deployment[e]
<1>1. deployment[d].status \in {"DEPLOYING", "VERIFYING"}
  BY DEF DeployCommandSucceeds, HealthCheckPasses, RollBack
<1>2. CASE UNCHANGED deployment
  BY <1>1, <1>2 DEF MadeFrom
<1>3. ASSUME NEW s \in {"VERIFYING", "SUCCEEDED", "FAILED", "ROLLED_BACK"},
             deployment' = [deployment EXCEPT ![d].status = s]
      PROVE  /\ deployment'[d].status = s
             /\ MadeFrom(d)' = MadeFrom(d)
             /\ \A e \in Deployments \ {d} : deployment'[e] = deployment[e]
  BY <1>3 DEF MadeFrom, ChangesTypeOK, DeploymentRows
<1>4. \/ UNCHANGED deployment
      \/ \E s \in {"VERIFYING", "SUCCEEDED", "FAILED", "ROLLED_BACK"} :
           deployment' = [deployment EXCEPT ![d].status = s]
  BY DEF DeployCommandSucceeds, HealthCheckPasses, RollBack
<1>5. QED
  BY <1>1, <1>2, <1>3, <1>4

LEMMA DeploymentsOnlyGrow ==
  ASSUME ChangesTypeOK, [ChangesNext]_changesVars, NEW d \in Deployments,
         deployment[d].status # "NONE"
  PROVE  deployment'[d].status # "NONE" /\ MadeFrom(d)' = MadeFrom(d)
<1>1. CASE UNCHANGED deploymentVars
  BY <1>1 DEF deploymentVars, MadeFrom
<1>2. ASSUME NEW c \in Changes, NEW a \in Approvals, Deploy(c, a)
      PROVE  deployment'[d] = deployment[d]
  BY <1>2 DEF Deploy, IsNext, ChangesTypeOK
<1>3. ASSUME NEW e \in Deployments,
             DeployCommandSucceeds(e) \/ HealthCheckPasses(e) \/ RollBack(e)
      PROVE  deployment'[d].status # "NONE" /\ MadeFrom(d)' = MadeFrom(d)
  <2>1. CASE d = e
    BY <1>3, <2>1, OnlyStatusMoves
  <2>2. CASE d # e
    BY <1>3, <2>2, OnlyStatusMoves DEF MadeFrom
  <2>3. QED
    BY <2>1, <2>2
<1>4. QED
  BY <1>1, <1>2, <1>3, DeploymentCases DEF MadeFrom

LEMMA NewDeployment ==
  ASSUME ChangesTypeOK, [ChangesNext]_changesVars, NEW d \in Deployments,
         deployment[d].status = "NONE", deployment'[d].status # "NONE"
  PROVE  \E c \in Changes, a \in Approvals :
           /\ Deploy(c, a) /\ IsNext(d, deployment)
           /\ deployment' = [deployment EXCEPT ![d] = NewRow(c, a)]
<1>1. ASSUME NEW e \in Deployments,
             DeployCommandSucceeds(e) \/ HealthCheckPasses(e) \/ RollBack(e)
      PROVE  FALSE
  <2>1. d # e
    BY <1>1, OnlyStatusMoves
  <2>2. QED
    BY <1>1, <2>1, OnlyStatusMoves
<1>2. PICK c \in Changes, a \in Approvals : Deploy(c, a)
  BY <1>1, DeploymentCases DEF deploymentVars
<1>3. PICK e \in Deployments : IsNext(e, deployment)
                                 /\ deployment' = [deployment EXCEPT ![e] = NewRow(c, a)]
  BY <1>2 DEF Deploy, NewRow
<1>4. d = e
  BY <1>3
<1>5. QED
  BY <1>2, <1>3, <1>4

LEMMA DeploymentsStep ==
  ASSUME ChangesTypeOK, DeploymentsHaveChanges, [ChangesNext]_changesVars
  PROVE  DeploymentsHaveChanges'
<1>1. ASSUME NEW d \in Deployments, deployment'[d].status # "NONE"
      PROVE  deployment'[d].change \in Changes /\ change'[deployment'[d].change].status # "NONE"
  <2>1. CASE deployment[d].status # "NONE"
    <3>1. deployment'[d].change = deployment[d].change
      BY <2>1, DeploymentsOnlyGrow DEF MadeFrom
    <3>2. deployment[d].change \in Changes /\ change[deployment[d].change].status # "NONE"
      BY <2>1 DEF DeploymentsHaveChanges
    <3>3. QED
      BY <3>1, <3>2, ChangesOnlyGrow
  <2>2. CASE deployment[d].status = "NONE"
    <3>1. PICK c \in Changes, a \in Approvals :
            Deploy(c, a) /\ deployment' = [deployment EXCEPT ![d] = NewRow(c, a)]
      BY <1>1, <2>2, NewDeployment
    <3>2. deployment'[d].change = c /\ change[c].status # "NONE"
      BY <3>1 DEF Deploy, NewRow, ChangesTypeOK
    <3>3. QED
      BY <3>2, ChangesOnlyGrow
  <2>3. QED
    BY <2>1, <2>2
<1>2. ASSUME NEW d \in Deployments, NEW e \in Deployments,
             deployment'[d].status # "NONE", e < d
      PROVE  deployment'[e].status # "NONE"
  <2>1. deployment[e].status # "NONE"
    <3>1. CASE deployment[d].status # "NONE"
      BY <1>2, <3>1 DEF DeploymentsHaveChanges
    <3>2. CASE deployment[d].status = "NONE"
      BY <1>2, <3>2, NewDeployment DEF IsNext, ChangesTypeOK
    <3>3. QED
      BY <3>1, <3>2
  <2>2. QED
    BY <2>1, DeploymentsOnlyGrow
<1>3. QED
  BY <1>1, <1>2 DEF DeploymentsHaveChanges

LEMMA WorkStep ==
  ASSUME ChangesTypeOK, ApprovalsAreTrue, ChangesHaveBranches, DeploymentsHaveChanges,
         WorkIsApproved, [ChangesNext]_changesVars
  PROVE  WorkIsApproved'
<1>1. ASSUME NEW a \in granted, a \in Approvals
      PROVE  a \in granted' /\ AboutOf(a)' = AboutOf(a)
  BY <1>1, ApprovalsOnlyGrow DEF ApprovalsAreTrue
<1>2. ASSUME NEW i \in Incidents, NEW a \in Approvals, NEW k \in Kinds, Approved(a, i, k)
      PROVE  a \in granted /\ approval[a].kind = k /\ approval[a].incident = i
  BY <1>2 DEF Approved, ApprovalsAreTrue
<1>3. ASSUME NEW c \in Changes, change'[c].status # "NONE"
      PROVE  LET a == change'[c].approval IN
             /\ a \in granted'
             /\ approval'[a].kind = "CODE_FIX"
             /\ approval'[a].incident = change'[c].incident
  <2>1. CASE change[c].status # "NONE"
    <3> DEFINE a == change[c].approval
    <3>1. a \in granted /\ approval[a].kind = "CODE_FIX" /\ approval[a].incident = change[c].incident
      BY <2>1 DEF WorkIsApproved
    <3>2. a \in Approvals
      BY <3>1 DEF ChangesTypeOK
    <3>3. OriginOf(c)' = OriginOf(c)
      BY <2>1, ChangesOnlyGrow
    <3>4. QED
      BY <1>1, <3>1, <3>2, <3>3 DEF OriginOf, AboutOf
  <2>2. CASE change[c].status = "NONE"
    <3>1. PICK i \in Incidents, a \in Approvals :
            /\ ProvisionWorktree(i, a)
            /\ change'[c] = [incident |-> i, approval |-> a, status |-> "PROVISIONED",
                             commit |-> 0]
      BY <1>3, <2>2, NewChange
    <3>2. a \in granted /\ approval[a].kind = "CODE_FIX" /\ approval[a].incident = i
      BY <1>2, <3>1 DEF ProvisionWorktree, Kinds
    <3>3. QED
      BY <1>1, <3>1, <3>2 DEF AboutOf
  <2>3. QED
    BY <2>1, <2>2
<1>4. ASSUME NEW d \in Deployments, deployment'[d].status # "NONE"
      PROVE  LET a == deployment'[d].approval IN
             /\ a \in granted'
             /\ approval'[a].kind = "DEPLOYMENT"
             /\ approval'[a].incident = change'[deployment'[d].change].incident
  <2>1. CASE deployment[d].status # "NONE"
    <3> DEFINE a == deployment[d].approval
               c == deployment[d].change
    <3>1. /\ a \in granted /\ approval[a].kind = "DEPLOYMENT"
          /\ approval[a].incident = change[c].incident
      BY <2>1 DEF WorkIsApproved
    <3>2. a \in Approvals
      BY <3>1 DEF ChangesTypeOK
    <3>3. c \in Changes /\ change'[c].incident = change[c].incident
      BY <2>1, ChangesOnlyGrow DEF DeploymentsHaveChanges, OriginOf
    <3>4. deployment'[d].approval = a /\ deployment'[d].change = c
      BY <2>1, DeploymentsOnlyGrow DEF MadeFrom
    <3>5. QED
      BY <1>1, <3>1, <3>2, <3>3, <3>4 DEF AboutOf
  <2>2. CASE deployment[d].status = "NONE"
    <3>1. PICK c \in Changes, a \in Approvals :
            Deploy(c, a) /\ deployment' = [deployment EXCEPT ![d] = NewRow(c, a)]
      BY <1>4, <2>2, NewDeployment
    <3>2. deployment'[d].approval = a /\ deployment'[d].change = c
      BY <3>1 DEF NewRow, ChangesTypeOK
    <3>3. change[c].incident \in Incidents /\ change'[c].incident = change[c].incident
      BY <3>1, ChangesOnlyGrow DEF Deploy, OriginOf, ChangesHaveBranches, ChangesTypeOK
    <3>4. /\ a \in granted /\ approval[a].kind = "DEPLOYMENT"
          /\ approval[a].incident = change[c].incident
      BY <1>2, <3>1, <3>3 DEF Deploy, Kinds
    <3>5. QED
      BY <1>1, <3>2, <3>3, <3>4 DEF AboutOf
  <2>3. QED
    BY <2>1, <2>2
<1>5. QED
  BY <1>3, <1>4 DEF WorkIsApproved

LEMMA ArtifactStep ==
  ASSUME ChangesTypeOK, CommitWasChecked, DeploymentsHaveChanges, ArtifactWasChecked,
         [ChangesNext]_changesVars
  PROVE  ArtifactWasChecked'
<1> SUFFICES ASSUME NEW d \in Deployments, deployment'[d].status # "NONE"
             PROVE  \/ change'[deployment'[d].change].incident \in reworked'
                    \/ \A n \in Checks :
                         <<deployment'[d].change, n, deployment'[d].artifact>> \in passed'
  BY DEF ArtifactWasChecked
<1>1. CASE deployment[d].status # "NONE"
  <2>1. /\ deployment'[d].change = deployment[d].change
        /\ deployment'[d].artifact = deployment[d].artifact
    BY <1>1, DeploymentsOnlyGrow DEF MadeFrom
  <2>2. change'[deployment[d].change].incident = change[deployment[d].change].incident
    BY <1>1, ChangesOnlyGrow DEF DeploymentsHaveChanges, OriginOf
  <2>3. QED
    BY <1>1, <2>1, <2>2, ChangesOnlyGrow DEF ArtifactWasChecked
<1>2. CASE deployment[d].status = "NONE"
  <2>1. PICK c \in Changes, a \in Approvals :
          Deploy(c, a) /\ deployment' = [deployment EXCEPT ![d] = NewRow(c, a)]
    BY <1>2, NewDeployment
  <2>2. deployment'[d].change = c /\ deployment'[d].artifact = change[c].commit
    BY <2>1 DEF NewRow, ChangesTypeOK
  <2>3. change[c].commit # 0 /\ change'[c].incident = change[c].incident
    BY <2>1, ChangesOnlyGrow DEF Deploy, OriginOf
  <2>4. QED
    BY <2>2, <2>3, ChangesOnlyGrow DEF CommitWasChecked
<1>3. QED
  BY <1>1, <1>2
-----------------------------------------------------------------------------
\* The last good artifact and what production runs.
LEMMA LatestStep ==
  ASSUME ChangesTypeOK, DeploymentsHaveChanges, LatestIsKnown, [ChangesNext]_changesVars
  PROVE  LatestIsKnown'
<1>1. CASE UNCHANGED deploymentVars
  BY <1>1 DEF LatestIsKnown, Succeeded, InFlight, deploymentVars
<1>2. ASSUME NEW c \in Changes, NEW a \in Approvals, Deploy(c, a)
      PROVE  LatestIsKnown'
  <2>1. PICK d \in Deployments :
          IsNext(d, deployment) /\ deployment' = [deployment EXCEPT ![d] = NewRow(c, a)]
    BY <1>2 DEF Deploy, NewRow
  <2>2. /\ deployment'[d].status = "DEPLOYING" /\ deployment[d].status = "NONE"
        /\ \A e \in Deployments \ {d} : deployment'[e] = deployment[e]
    BY <2>1 DEF NewRow, IsNext, ChangesTypeOK
  <2>3. Succeeded' = Succeeded
    BY <2>2 DEF Succeeded
  <2>4. ~overlapped' => InFlight' = {d}
    <3>1. ~overlapped' => InFlight = {}
      BY <1>2, Zenon DEF Deploy
    <3>2. QED
      BY <2>2, <3>1 DEF InFlight
  <2>5. ASSUME NEW e \in Deployments, deployment'[e].status # "NONE"
        PROVE  e <= d
    <3>1. CASE e = d
      BY <3>1 DEF Deployments
    <3>2. CASE e # d
      <4>1. deployment[e].status # "NONE"
        BY <2>2, <2>5, <3>2
      <4>2. ~(d < e)
        BY <2>2, <4>1 DEF DeploymentsHaveChanges
      <4>3. QED
        BY <4>2 DEF Deployments
    <3>3. QED
      BY <3>1, <3>2
  <2>6. QED
    BY <2>3, <2>4, <2>5 DEF LatestIsKnown
<1>3. ASSUME NEW d \in Deployments,
             DeployCommandSucceeds(d) \/ HealthCheckPasses(d) \/ RollBack(d)
      PROVE  LatestIsKnown'
  <2>1. UNCHANGED overlapped
    BY <1>3 DEF DeployCommandSucceeds, HealthCheckPasses, RollBack
  <2>2. /\ d \in InFlight
        /\ \A e \in Deployments \ {d} : deployment'[e] = deployment[e]
    BY <1>3, OnlyStatusMoves DEF InFlight
  <2>3. InFlight' \subseteq InFlight
    BY <2>2 DEF InFlight
  <2>4. \A e \in Deployments : deployment'[e].status # "NONE" => deployment[e].status # "NONE"
    BY <2>2 DEF InFlight
  <2>5. Succeeded' = Succeeded \/ Succeeded' = Succeeded \cup {d}
    BY <2>2 DEF Succeeded, InFlight
  <2>6. Succeeded' = {} \/ \E m \in Succeeded' : \A e \in Succeeded' : e <= m
    <3>1. CASE Succeeded' = Succeeded
      BY <3>1 DEF LatestIsKnown
    <3>2. CASE Succeeded' = Succeeded \cup {d}
      <4>1. CASE Succeeded = {}
        BY <3>2, <4>1 DEF Deployments
      <4>2. ASSUME NEW m \in Succeeded, \A e \in Succeeded : e <= m
            PROVE  \E x \in Succeeded' : \A e \in Succeeded' : e <= x
        <5>1. m \in Nat /\ d \in Nat /\ Succeeded \subseteq Nat
          BY DEF Succeeded, Deployments
        <5>2. CASE m <= d
          <6>1. \A e \in Succeeded' : e <= d
            BY <3>2, <4>2, <5>1, <5>2
          <6>2. QED
            BY <3>2, <6>1
        <5>3. CASE d <= m
          BY <3>2, <4>2, <5>1, <5>3
        <5>4. QED
          BY <5>1, <5>2, <5>3
      <4>3. QED
        BY <4>1, <4>2 DEF LatestIsKnown
    <3>3. QED
      BY <2>5, <3>1, <3>2
  <2>7. QED
    BY <2>1, <2>3, <2>4, <2>6 DEF LatestIsKnown
<1>4. QED
  BY <1>1, <1>2, <1>3, DeploymentCases

LEMMA LastGoodStays ==
  ASSUME LatestIsKnown, Succeeded' = Succeeded,
         \A d \in Succeeded : deployment'[d].artifact = deployment[d].artifact
  PROVE  LastGood' = LastGood
<1>1. CASE Succeeded = {}
  BY <1>1 DEF LastGood
<1>2. CASE Succeeded # {}
  <2> DEFINE last == CHOOSE d \in Succeeded : \A e \in Succeeded : e <= d
  <2>1. last \in Succeeded
    BY <1>2 DEF LatestIsKnown
  <2>2. last' = last
    OBVIOUS
  <2>3. LastGood = deployment[last].artifact /\ LastGood' = deployment'[last'].artifact
    BY <1>2 DEF LastGood
  <2>4. QED
    BY <2>1, <2>2, <2>3
<1>3. QED
  BY <1>1, <1>2

LEMMA LiveStep ==
  ASSUME ChangesTypeOK, LatestIsKnown, LiveIsKnown, [ChangesNext]_changesVars
  PROVE  LiveIsKnown'
<1> SUFFICES ASSUME ~overlapped', \A d \in Deployments : deployment'[d].status # "FAILED"
             PROVE  /\ InFlight' = {} => live' = LastGood'
                    /\ \A d \in InFlight' :
                         /\ deployment'[d].previous = LastGood'
                         /\ deployment'[d].status = "VERIFYING" => live' = deployment'[d].artifact
  BY DEF LiveIsKnown
<1>1. CASE UNCHANGED deploymentVars
  <2>1. UNCHANGED <<Succeeded, InFlight, deployment, live, overlapped>>
    BY <1>1 DEF Succeeded, InFlight, deploymentVars
  <2>2. LastGood' = LastGood
    BY <2>1, LastGoodStays
  <2>3. QED
    BY <2>1, <2>2 DEF LiveIsKnown
<1>2. ASSUME NEW c \in Changes, NEW a \in Approvals, Deploy(c, a)
      PROVE  /\ InFlight' # {}
             /\ \A d \in InFlight' : /\ deployment'[d].previous = LastGood'
                                     /\ deployment'[d].status = "DEPLOYING"
  <2>1. PICK d \in Deployments :
          IsNext(d, deployment) /\ deployment' = [deployment EXCEPT ![d] = NewRow(c, a)]
    BY <1>2 DEF Deploy, NewRow
  <2>2. /\ deployment'[d].status = "DEPLOYING" /\ deployment[d].status = "NONE"
        /\ deployment'[d].previous = LastGood
        /\ \A e \in Deployments \ {d} : deployment'[e] = deployment[e]
    BY <2>1 DEF NewRow, IsNext, ChangesTypeOK
  <2>3. InFlight = {}
    BY <1>2, Zenon DEF Deploy
  <2>4. InFlight' = {d}
    BY <2>2, <2>3 DEF InFlight
  <2>5. LastGood' = LastGood
    <3>1. Succeeded' = Succeeded
      BY <2>2 DEF Succeeded
    <3>2. \A e \in Succeeded : deployment'[e].artifact = deployment[e].artifact
      BY <2>2 DEF Succeeded
    <3>3. QED
      BY <3>1, <3>2, LastGoodStays
  <2>6. QED
    BY <2>2, <2>4, <2>5
<1>3. ASSUME NEW d \in Deployments,
             DeployCommandSucceeds(d) \/ HealthCheckPasses(d) \/ RollBack(d)
      PROVE  /\ InFlight' = {} => live' = LastGood'
             /\ \A e \in InFlight' :
                  /\ deployment'[e].previous = LastGood'
                  /\ deployment'[e].status = "VERIFYING" => live' = deployment'[e].artifact
  <2>1. ~overlapped
    BY <1>3 DEF DeployCommandSucceeds, HealthCheckPasses, RollBack
  <2>2. /\ d \in InFlight
        /\ MadeFrom(d)' = MadeFrom(d)
        /\ \A e \in Deployments \ {d} : deployment'[e] = deployment[e]
    BY <1>3, OnlyStatusMoves DEF InFlight
  <2>3. \A e \in Deployments : deployment[e].status # "FAILED"
    BY <2>2 DEF InFlight
  <2>4. InFlight = {d}
    <3>1. ASSUME NEW e \in InFlight
          PROVE  e <= d /\ d <= e
      BY <2>1, <2>2 DEF LatestIsKnown, InFlight
    <3>2. \A e \in InFlight : e = d
      BY <3>1 DEF InFlight, Deployments
    <3>3. QED
      BY <2>2, <3>2
  <2>5. /\ deployment[d].previous = LastGood
        /\ deployment[d].status = "VERIFYING" => live = deployment[d].artifact
    BY <2>1, <2>2, <2>3 DEF LiveIsKnown
  <2>6. \A e \in Deployments : MadeFrom(e)' = MadeFrom(e)
    BY <2>2 DEF MadeFrom
  <2>7. ASSUME deployment'[d].status # "SUCCEEDED"
        PROVE  LastGood' = LastGood
    <3>1. Succeeded' = Succeeded
      BY <2>2, <2>7 DEF Succeeded, InFlight
    <3>2. \A e \in Succeeded : deployment'[e].artifact = deployment[e].artifact
      BY <2>6 DEF MadeFrom, Succeeded
    <3>3. QED
      BY <3>1, <3>2, LastGoodStays
  <2>8. CASE DeployCommandSucceeds(d)
    <3>1. deployment'[d].status \in {"DEPLOYING", "VERIFYING"}
      BY <2>8 DEF DeployCommandSucceeds, ChangesTypeOK, DeploymentRows
    <3>2. InFlight' = {d}
      BY <2>2, <2>4, <3>1 DEF InFlight
    <3>3. live' = deployment[d].artifact
      BY <2>8 DEF DeployCommandSucceeds
    <3>4. QED
      BY <2>2, <2>5, <2>7, <3>1, <3>2, <3>3 DEF MadeFrom
  <2>9. CASE HealthCheckPasses(d)
    <3>1. deployment'[d].status = "SUCCEEDED" /\ UNCHANGED live
          /\ deployment[d].status = "VERIFYING"
      BY <2>9 DEF HealthCheckPasses, ChangesTypeOK, DeploymentRows
    <3>2. InFlight' = {}
      BY <2>2, <2>4, <3>1 DEF InFlight
    <3>3. Succeeded' = Succeeded \cup {d}
      BY <2>2, <3>1 DEF Succeeded
    <3>4. \A e \in Succeeded' : e <= d
      <4>1. \A e \in Succeeded : e <= d
        BY <2>1, <2>2 DEF LatestIsKnown, Succeeded
      <4>2. QED
        BY <3>3, <4>1 DEF Deployments
    <3>5. LastGood' = deployment'[d].artifact
      <4> DEFINE last == CHOOSE x \in Succeeded' : \A e \in Succeeded' : e <= x
      <4>1. last \in Succeeded' /\ \A e \in Succeeded' : e <= last
        BY <3>3, <3>4
      <4>2. last <= d /\ d <= last /\ last \in Nat /\ d \in Nat
        BY <3>3, <3>4, <4>1 DEF Succeeded, Deployments
      <4>3. last = d
        BY <4>2
      <4>4. LastGood' = deployment'[last].artifact
        BY <3>3 DEF LastGood
      <4>5. QED
        BY <4>3, <4>4
    <3>6. QED
      BY <2>2, <2>5, <3>1, <3>2, <3>5 DEF MadeFrom
  <2>10. CASE RollBack(d)
    <3>1. deployment'[d].status = "ROLLED_BACK" /\ live' = deployment[d].previous
      BY <2>10 DEF RollBack, ChangesTypeOK, DeploymentRows
    <3>2. InFlight' = {}
      BY <2>2, <2>4, <3>1 DEF InFlight
    <3>3. QED
      BY <2>5, <2>7, <3>1, <3>2
  <2>11. QED
    BY <1>3, <2>8, <2>9, <2>10
<1>4. QED
  BY <1>1, <1>2, <1>3, DeploymentCases
-----------------------------------------------------------------------------
\* The last good artifact is that of a deployment that succeeded.
LEMMA LastGoodIsHealthy ==
  ASSUME LatestIsKnown
  PROVE  LastGood = 0 \/ \E e \in Succeeded : LastGood = deployment[e].artifact
BY DEF LatestIsKnown, LastGood

\* A deployment that succeeded is settled, with its artifact.
LEMMA HealthyStays ==
  ASSUME ChangesTypeOK, [ChangesNext]_changesVars, NEW e \in Succeeded
  PROVE  e \in Succeeded' /\ MadeFrom(e)' = MadeFrom(e)
<1> USE DEF Succeeded
<1>1. CASE UNCHANGED deploymentVars
  BY <1>1 DEF deploymentVars, MadeFrom
<1>2. ASSUME NEW c \in Changes, NEW a \in Approvals, Deploy(c, a)
      PROVE  deployment'[e] = deployment[e]
  BY <1>2 DEF Deploy, IsNext, ChangesTypeOK
<1>3. ASSUME NEW d \in Deployments,
             DeployCommandSucceeds(d) \/ HealthCheckPasses(d) \/ RollBack(d)
      PROVE  deployment'[e] = deployment[e]
  BY <1>3, OnlyStatusMoves
<1>4. QED
  BY <1>1, <1>2, <1>3, DeploymentCases DEF MadeFrom

LEMMA PreviousStep ==
  ASSUME ChangesTypeOK, LatestIsKnown, PreviousWasHealthy, [ChangesNext]_changesVars
  PROVE  PreviousWasHealthy'
<1> SUFFICES ASSUME NEW d \in Deployments, deployment'[d].previous # 0
             PROVE  \E e \in Succeeded' : deployment'[e].artifact = deployment'[d].previous
  BY DEF PreviousWasHealthy
<1>1. \E e \in Succeeded : deployment[e].artifact = deployment'[d].previous
  <2>1. CASE deployment'[d].previous = deployment[d].previous
    BY <2>1 DEF PreviousWasHealthy
  <2>2. ASSUME NEW c \in Changes, NEW a \in Approvals, Deploy(c, a)
        PROVE  \/ deployment'[d].previous = deployment[d].previous
               \/ deployment'[d].previous = LastGood
    BY <2>2 DEF Deploy, ChangesTypeOK
  <2>3. ASSUME NEW e \in Deployments,
               DeployCommandSucceeds(e) \/ HealthCheckPasses(e) \/ RollBack(e)
        PROVE  deployment'[d].previous = deployment[d].previous
    BY <2>3, OnlyStatusMoves DEF MadeFrom
  <2>4. QED
    BY <2>1, <2>2, <2>3, DeploymentCases, LastGoodIsHealthy DEF deploymentVars
<1>2. QED
  BY <1>1, HealthyStays DEF MadeFrom
-----------------------------------------------------------------------------
LEMMA ChangesInitIInv == ChangesInit => ChangesIInv
<1> SUFFICES ASSUME ChangesInit
             PROVE  ChangesIInv
  OBVIOUS
<1> USE DEF ChangesInit
<1>1. ChangesTypeOK
  <2>1. /\ NoApproval \in ApprovalRows /\ NoChange \in ChangeRows
        /\ NoCheck \in CheckRows /\ NoDeployment \in DeploymentRows
    BY DEF ApprovalRows, ChangeRows, CheckRows, DeploymentRows, NoApproval, NoChange,
           NoCheck, NoDeployment
  <2>2. Base \in Revisions
    BY DEF Base, Revisions
  <2>3. /\ approval \in [Approvals -> ApprovalRows] /\ change \in [Changes -> ChangeRows]
        /\ deployment \in [Deployments -> DeploymentRows]
    BY <2>1
  <2>4. check \in [Changes -> [Checks -> CheckRows]]
    BY <2>1
  <2>5. /\ incident \in [Incidents -> Active \cup {"NONE", "RESOLVED", "REJECTED"}]
        /\ tree \in [Incidents -> Revisions \cup {0}]
        /\ head \in [Incidents -> Revisions]
        /\ coder \in [Changes -> 0 .. MaxCoders]
        /\ checking \in [Changes -> Checks \cup {0}]
    BY <2>2
  <2>6. QED
    BY <2>3, <2>4, <2>5 DEF ChangesTypeOK
<1>2. /\ AwaitingHasPending /\ WorkIsApproved /\ OneChangePerIncident
      /\ ArtifactWasChecked /\ ApprovalsAreTrue
  BY DEF AwaitingHasPending, Awaiting, WorkIsApproved, OneChangePerIncident,
         ArtifactWasChecked, ApprovalsAreTrue, NoApproval, NoChange, NoDeployment
<1>3. ChangesHaveBranches /\ CommitWasChecked /\ DeploymentsHaveChanges
  BY DEF ChangesHaveBranches, CommitWasChecked, DeploymentsHaveChanges, NoChange, NoDeployment
<1>4. ChecksAreCurrent
  BY DEF ChecksAreCurrent, NoCheck, Checks
<1>5. Succeeded = {} /\ InFlight = {}
  BY DEF Succeeded, InFlight, NoDeployment
<1>6. LatestIsKnown /\ LiveIsKnown /\ PreviousWasHealthy
  BY <1>5 DEF LatestIsKnown, LiveIsKnown, LastGood, PreviousWasHealthy, NoDeployment
<1>7. QED
  BY <1>1, <1>2, <1>3, <1>4, <1>6 DEF ChangesIInv

LEMMA ChangesIInvStep == ChangesIInv /\ [ChangesNext]_changesVars => ChangesIInv'
<1> SUFFICES ASSUME ChangesIInv, [ChangesNext]_changesVars
             PROVE  ChangesIInv'
  OBVIOUS
<1> USE DEF ChangesIInv
<1>1. ChangesTypeOK' /\ ApprovalsAreTrue' /\ ChangesHaveBranches'
  BY ChangesTypeStep, ApprovalsStep, BranchesStep
<1>2. AwaitingHasPending' /\ WorkIsApproved' /\ OneChangePerIncident' /\ ArtifactWasChecked'
  BY <1>1, AwaitingStep, WorkStep, OneChangeStep, ArtifactStep
<1>3. /\ ChecksAreCurrent' /\ CommitWasChecked' /\ DeploymentsHaveChanges'
      /\ LatestIsKnown' /\ LiveIsKnown' /\ PreviousWasHealthy'
  BY ChecksStep, CommitStep, DeploymentsStep, LatestStep, LiveStep, PreviousStep
<1>4. QED
  BY <1>1, <1>2, <1>3

\* Whatever the supervisor, the agents and the commands do, and wherever a process
\* dies, the tables of the Operations Center satisfy the inductive invariant.
THEOREM ChangesInvariant == ChangesSpec => []ChangesIInv
BY ChangesInitIInv, ChangesIInvStep, PTL DEF ChangesSpec

\* No interleaving of answers, sweeps and proposals (ops_incidents.py) leaves an
\* incident waiting for a decision that nobody can give.
THEOREM NobodyWaitsInVain == ChangesSpec => []AwaitingHasPending
<1>1. ChangesIInv => AwaitingHasPending
  BY DEF ChangesIInv
<1>2. QED
  BY <1>1, ChangesInvariant, PTL

\* Every worktree and every deployment (ops_workflows.py) rests on an approval of its
\* kind and its incident that was answered with yes.
THEOREM WorkHasApproval == ChangesSpec => []WorkIsApproved
<1>1. ChangesIInv => WorkIsApproved
  BY DEF ChangesIInv
<1>2. QED
  BY <1>1, ChangesInvariant, PTL

\* However many fixes are approved for an incident, its worktree belongs to one change.
THEOREM ChangesDoNotShare == ChangesSpec => []OneChangePerIncident
<1>1. ChangesIInv => OneChangePerIncident
  BY DEF ChangesIInv
<1>2. QED
  BY <1>1, ChangesInvariant, PTL

\* What deploy_change hands to the command has passed every required check, except
\* after a coder has worked on once checks were run.
THEOREM ArtifactsAreChecked == ChangesSpec => []ArtifactWasChecked
<1>1. ChangesIInv => ArtifactWasChecked
  BY DEF ChangesIInv
<1>2. QED
  BY <1>1, ChangesInvariant, PTL

\* When no deployment is under way, none overlapped another and no rollback failed,
\* production runs the artifact of the last deployment that succeeded.
THEOREM LiveIsLastGood == ChangesSpec => []SettledIsLive
<1>1. ChangesIInv => SettledIsLive
  BY DEF ChangesIInv, LiveIsKnown, SettledIsLive
<1>2. QED
  BY <1>1, ChangesInvariant, PTL
-----------------------------------------------------------------------------
(***************************************************************************)
(* OpsChanges implements ChangeContract.                                   *)
(***************************************************************************)

\* The values OpsChanges substitutes for the variables of ChangeContract.
Asked == [a \in Approvals |-> <<approval[a].incident, approval[a].kind>>]
Origin == [c \in Changes |-> <<change[c].incident, change[c].approval>>]
TheCommit == [c \in Changes |-> change[c].commit]
Launched == [d \in Deployments |->
               <<deployment[d].change, deployment[d].approval, deployment[d].artifact>>]
EndOf(s) == CASE s = "NONE" -> "NONE"
              [] s \in {"DEPLOYING", "VERIFYING"} -> "OPEN"
              [] s = "SUCCEEDED" -> "GOOD"
              [] OTHER -> "BAD"
Ended == [d \in Deployments |-> EndOf(deployment[d].status)]

\* The contract sees what approvals ask and grant, what changes are begun on and commit, and
\* what deployments launch and come to.
LEMMA WorkStutters ==
  ASSUME Asked' = Asked, UNCHANGED <<granted, live>>, Origin' = Origin, TheCommit' = TheCommit,
         Launched' = Launched, Ended' = Ended
  PROVE  UNCHANGED Work!vars
BY DEF Work!vars, Asked, Origin, TheCommit, Launched, Ended, EndOf

\* An incident's step leaves the contract's state alone; of the approvals' steps a proposal and a
\* yes are seen.
LEMMA ApprovalWork ==
  ASSUME ChangesTypeOK, ApprovalsAreTrue, ApprovalStep
  PROVE  UNCHANGED Work!vars \/ Work!Next
<1> USE DEF ChangesTypeOK
<1>1. /\ Origin' = Origin /\ TheCommit' = TheCommit /\ Launched' = Launched /\ Ended' = Ended
      /\ UNCHANGED live
  BY DEF ApprovalStep, CreateProposal, Lapse, ApprovalRequest, ReadApproval, RespondApproval,
         SweepReads, ExpirePendingApprovals, changeVars, deploymentVars, Origin, TheCommit,
         Launched, Ended, EndOf
<1>2. ASSUME NEW i \in Incidents, NEW k \in Kinds, CreateProposal(i, k)
      PROVE  Work!Next
  <2>1. PICK a \in Approvals :
          /\ IsNext(a, approval)
          /\ approval' = [approval EXCEPT ![a] = [incident |-> i, kind |-> k,
                                                  status |-> "PENDING", lapsed |-> FALSE]]
    BY <1>2 DEF CreateProposal
  <2>2. Asked[a] = Work!Unasked
    BY <2>1 DEF IsNext, ApprovalsAreTrue, NoApproval, Asked, Work!Unasked
  <2>3. Asked' = [Asked EXCEPT ![a] = <<i, k>>] /\ UNCHANGED granted
    BY <1>2, <2>1 DEF CreateProposal, Asked
  <2>4. Work!Ask(a, i, k)
    BY <1>1, <2>2, <2>3 DEF Work!Ask, Asked, Origin, TheCommit, Launched, Ended, EndOf
  <2>5. QED
    BY <2>4 DEF Work!Next, Kinds
<1>3. ASSUME NEW b \in Approvals, NEW decision \in Decisions, RespondApproval(b, decision)
      PROVE  UNCHANGED Work!vars \/ Work!Next
  <2>1. approval[b].status # "NONE" /\ approval' = [approval EXCEPT ![b].status = decision]
    BY <1>3 DEF RespondApproval, ApprovalsAreTrue
  <2>2. Asked' = Asked
    BY <2>1 DEF Asked, ApprovalRows
  <2>3. CASE decision = "APPROVED"
    <3>1. granted' = granted \cup {b}
      BY <1>3, <2>3 DEF RespondApproval
    <3>2. Asked[b] # Work!Unasked
      BY <2>1, ChangesAssumption DEF ApprovalsAreTrue, Asked, Work!Unasked
    <3>3. Work!Grant(b)
      BY <1>1, <2>2, <3>1, <3>2 DEF Work!Grant, Asked, Origin, TheCommit, Launched, Ended, EndOf
    <3>4. QED
      BY <3>3 DEF Work!Next
  <2>4. CASE decision # "APPROVED"
    BY <1>1, <1>3, <2>2, <2>4, WorkStutters DEF RespondApproval
  <2>5. QED
    BY <2>3, <2>4
<1>4. ASSUME UNCHANGED granted,
             \/ \E b \in Approvals : Lapse(b) \/ \E d \in Decisions : ReadApproval(b, d)
             \/ SweepReads \/ ExpirePendingApprovals
      PROVE  UNCHANGED Work!vars
  <2>1. \A a \in Approvals : approval'[a].incident = approval[a].incident
                             /\ approval'[a].kind = approval[a].kind
    <3>1. CASE \E b \in Approvals : Lapse(b)
      BY <3>1 DEF Lapse, ApprovalRows
    <3>2. CASE UNCHANGED approval
      BY <3>2
    <3>3. CASE ExpirePendingApprovals
      BY <3>3 DEF ExpirePendingApprovals, ApprovalRows
    <3>4. QED
      BY <1>4, <3>1, <3>2, <3>3 DEF ReadApproval, SweepReads
  <2>2. Asked' = Asked
    BY <2>1 DEF Asked
  <2>3. QED
    BY <1>1, <1>4, <2>2, WorkStutters
<1>5. QED
  BY <1>2, <1>3, <1>4
     DEF ApprovalStep, ApprovalRequest, Lapse, ReadApproval, SweepReads, ExpirePendingApprovals

\* Of the steps on code changes, a worktree with its row and a commit are seen.
LEMMA ChangeWork ==
  ASSUME ChangesTypeOK, ApprovalsAreTrue, ChangesHaveBranches, ChangeStep
  PROVE  UNCHANGED Work!vars \/ Work!Next
<1> USE DEF ChangesTypeOK
<1>1. Asked' = Asked /\ Launched' = Launched /\ Ended' = Ended /\ UNCHANGED <<granted, live>>
  <2>1. UNCHANGED <<approvalVars, deploymentVars>>
    BY DEF ChangeStep, ProvisionWorktree, RunCoder, CoderEdits, CoderCompletes, CoderFails,
           CancelCodeChange, CleanupCodeWorktree, RunChecks, CheckPasses, CheckFails,
           CreatePullRequest
  <2>2. QED
    BY <2>1 DEF approvalVars, deploymentVars, Asked, Launched, Ended, EndOf
<1>2. ASSUME \A c \in Changes : /\ change'[c].incident = change[c].incident
                                /\ change'[c].approval = change[c].approval
                                /\ change'[c].commit = change[c].commit
      PROVE  UNCHANGED Work!vars
  BY <1>1, <1>2, WorkStutters DEF Origin, TheCommit
<1>3. ASSUME NEW i \in Incidents, NEW a \in Approvals, ProvisionWorktree(i, a)
      PROVE  UNCHANGED Work!vars \/ Work!Next
  <2>1. CASE UNCHANGED change
    BY <1>2, <2>1
  <2>2. ASSUME NEW c \in Changes, IsNext(c, change),
               change' = [change EXCEPT ![c] = [incident |-> i, approval |-> a,
                                                status |-> "PROVISIONED", commit |-> 0]]
        PROVE  Work!Next
    <3>1. a \in granted /\ Asked[a] = <<i, "CODE_FIX">> /\ i \notin branch
      BY <1>3 DEF ProvisionWorktree, Approved, WorktreeAdd, ApprovalsAreTrue, Asked
    <3>2. \A x \in Changes : Origin[x][1] # i
      BY <3>1, ChangesAssumption DEF ChangesHaveBranches, NoChange, Origin
    <3>3. change[c] = NoChange
      BY <2>2 DEF IsNext, ChangesHaveBranches
    <3> DEFINE new == [incident |-> i, approval |-> a, status |-> "PROVISIONED", commit |-> 0]
    <3>a. \A x \in Changes : change'[x] = IF x = c THEN new ELSE change[x]
      BY <2>2
    <3>b. new.incident = i /\ new.approval = a /\ new.commit = 0
      OBVIOUS
    <3>c. Origin[c] = Work!NotBegun /\ change[c].commit = 0
      BY <3>3 DEF NoChange, Origin, Work!NotBegun
    <3> HIDE DEF new
    <3>4. Origin' = [Origin EXCEPT ![c] = <<i, a>>]
      BY <3>a, <3>b DEF Origin
    <3>5. TheCommit' = TheCommit
      BY <3>a, <3>b, <3>c DEF TheCommit
    <3>6. Work!Begin(c, i, a)
      BY <1>1, <3>1, <3>2, <3>c, <3>4, <3>5
         DEF Work!Begin, Asked, Origin, TheCommit, Launched, Ended, EndOf
    <3>7. QED
      BY <3>6 DEF Work!Next
  <2>3. QED
    BY <1>3, <2>1, <2>2 DEF ProvisionWorktree
<1>4. ASSUME NEW c \in Changes, CreatePullRequest(c)
      PROVE  UNCHANGED Work!vars \/ Work!Next
  <2>1. CASE UNCHANGED change
    BY <1>2, <2>1
  <2>2. CASE change[c].commit = 0 /\ change' = [change EXCEPT ![c].commit = tree[change[c].incident]]
    <3>1. change[c].incident \in Incidents /\ tree[change[c].incident] # 0
      BY <1>4, ChangeHasIncident DEF CreatePullRequest
    <3>2. PICK r \in Revisions : r = tree[change[c].incident]
      BY <3>1
    <3>3. Origin' = Origin
      BY <1>4, PullRequestKeeps DEF Origin
    <3>4. TheCommit[c] = 0 /\ TheCommit' = [TheCommit EXCEPT ![c] = r]
      <4>1. \A x \in Changes : change'[x].commit = IF x = c THEN r ELSE change[x].commit
        BY <2>2, <3>2 DEF ChangeRows
      <4>2. QED
        BY <2>2, <4>1 DEF TheCommit
    <3>5. Origin[c] # Work!NotBegun
      BY <3>1, ChangesAssumption DEF Origin, Work!NotBegun
    <3>6. Work!Commit(c, r)
      BY <1>1, <3>3, <3>4, <3>5 DEF Work!Commit, Asked, Origin, TheCommit, Launched, Ended, EndOf
    <3>7. QED
      BY <3>6 DEF Work!Next
  <2>3. QED
    BY <1>4, <2>1, <2>2 DEF CreatePullRequest
<1>5. ASSUME NEW c \in Changes, RunCoder(c) \/ CoderCompletes(c) \/ CancelCodeChange(c)
      PROVE  UNCHANGED Work!vars
  <2>1. \E s \in {"RUNNING", "READY_FOR_REVIEW", "CANCELLED"} :
          change' = [change EXCEPT ![c].status = s]
    BY <1>5 DEF RunCoder, CoderCompletes, CancelCodeChange
  <2>2. QED
    BY <1>2, <2>1 DEF ChangeRows
<1>6. ASSUME NEW c \in Changes, CoderEdits(c) \/ CoderFails(c) \/ CleanupCodeWorktree(c)
                                  \/ RunChecks(c) \/ CheckPasses(c) \/ CheckFails(c)
      PROVE  UNCHANGED Work!vars
  <2>1. UNCHANGED change
    BY <1>6 DEF CoderEdits, CoderFails, CleanupCodeWorktree, RunChecks, CheckPasses, CheckFails,
                changeVars
  <2>2. QED
    BY <1>2, <2>1
<1>7. QED
  BY <1>3, <1>4, <1>5, <1>6 DEF ChangeStep

\* A deployment under way that stays so, or is settled, launches what it launched.
LEMMA EndedMoves ==
  ASSUME ChangesTypeOK, NEW d \in Deployments, deployment[d].status # "NONE",
         NEW s \in {"VERIFYING", "SUCCEEDED", "FAILED", "ROLLED_BACK"},
         deployment' = [deployment EXCEPT ![d].status = s]
  PROVE  Launched' = Launched /\ Ended' = [Ended EXCEPT ![d] = EndOf(s)]
<1>1. \A e \in Deployments : /\ deployment'[e].change = deployment[e].change
                            /\ deployment'[e].approval = deployment[e].approval
                            /\ deployment'[e].artifact = deployment[e].artifact
                            /\ deployment'[e].status = IF e = d THEN s ELSE deployment[e].status
  BY DEF ChangesTypeOK, DeploymentRows
<1>2. Launched' = Launched
  BY <1>1 DEF Launched
<1>3. \A e \in Deployments : EndOf(deployment'[e].status) =
                              IF e = d THEN EndOf(s) ELSE EndOf(deployment[e].status)
  BY <1>1
<1>4. Ended' = [e \in Deployments |-> EndOf(deployment'[e].status)]
  BY DEF Ended, EndOf
<1>5. Ended' = [Ended EXCEPT ![d] = EndOf(s)]
  BY <1>3, <1>4 DEF Ended
<1>6. QED
  BY <1>2, <1>5

\* A deployment is launched, takes effect, is found healthy or goes back.
LEMMA DeploymentWork ==
  ASSUME ChangesTypeOK, ApprovalsAreTrue, ChangesHaveBranches, PreviousWasHealthy, DeploymentStep
  PROVE  UNCHANGED Work!vars \/ Work!Next
<1> USE DEF ChangesTypeOK
<1>1. Asked' = Asked /\ Origin' = Origin /\ TheCommit' = TheCommit /\ UNCHANGED granted
  <2>1. UNCHANGED <<approvalVars, changeVars>>
    BY DEF DeploymentStep, Deploy, DeployCommandSucceeds, HealthCheckPasses, RollBack
  <2>2. QED
    BY <2>1 DEF approvalVars, changeVars, Asked, Origin, TheCommit
<1>2. ASSUME NEW c \in Changes, NEW a \in Approvals, Deploy(c, a)
      PROVE  Work!Next
  <2>1. PICK d \in Deployments : deployment[d].status = "NONE"
                                 /\ deployment' = [deployment EXCEPT ![d] = NewRow(c, a)]
    BY <1>2 DEF Deploy, IsNext, NewRow
  <2>2. /\ change[c].incident \in Incidents /\ change[c].commit # 0
        /\ a \in granted /\ Asked[a] = <<change[c].incident, "DEPLOYMENT">>
    BY <1>2, ChangeHasIncident DEF Deploy, Approved, ApprovalsAreTrue, Asked
  <2>3. /\ Origin[c] # Work!NotBegun /\ Origin[c][1] = change[c].incident
        /\ TheCommit[c] # 0 /\ TheCommit[c] = change[c].commit
    BY <2>2, ChangesAssumption DEF Origin, Work!NotBegun, TheCommit
  <2>4. /\ \A e \in Deployments : deployment'[e] = IF e = d THEN NewRow(c, a) ELSE deployment[e]
        /\ NewRow(c, a).change = c /\ NewRow(c, a).approval = a
        /\ NewRow(c, a).artifact = change[c].commit /\ NewRow(c, a).status = "DEPLOYING"
    BY <2>1 DEF NewRow
  <2>5. Launched' = [Launched EXCEPT ![d] = <<c, a, TheCommit[c]>>]
    BY <2>3, <2>4 DEF Launched
  <2>6. Ended[d] = "NONE" /\ Ended' = [Ended EXCEPT ![d] = "OPEN"]
    BY <2>1, <2>4 DEF Ended, EndOf
  <2>7. UNCHANGED live
    BY <1>2 DEF Deploy
  <2>8. Work!Launch(d, c, a)
    BY <1>1, <2>2, <2>3, <2>5, <2>6, <2>7
       DEF Work!Launch, Asked, Origin, TheCommit, Launched, Ended, EndOf
  <2>9. QED
    BY <2>8 DEF Work!Next
<1>3. ASSUME NEW d \in Deployments,
             DeployCommandSucceeds(d) \/ HealthCheckPasses(d) \/ RollBack(d)
      PROVE  Work!Next
  <2>1. deployment[d].status \in {"DEPLOYING", "VERIFYING"} /\ Ended[d] = "OPEN"
    BY <1>3 DEF DeployCommandSucceeds, HealthCheckPasses, RollBack, Ended, EndOf
  <2>2. Launched[d][3] = deployment[d].artifact
    BY DEF Launched
  <2>3. CASE DeployCommandSucceeds(d)
    <3>1. Launched' = Launched /\ Ended' = Ended
      <4>1. CASE UNCHANGED deployment
        BY <4>1 DEF Launched, Ended, EndOf
      <4>2. CASE deployment' = [deployment EXCEPT ![d].status = "VERIFYING"]
        <5>1. Launched' = Launched /\ Ended' = [Ended EXCEPT ![d] = "OPEN"]
          BY <2>1, <4>2, EndedMoves DEF EndOf
        <5>2. QED
          BY <2>1, <5>1 DEF Ended
      <4>3. QED
        BY <2>3, <4>1, <4>2 DEF DeployCommandSucceeds
    <3>2. live' = Launched[d][3]
      BY <2>2, <2>3 DEF DeployCommandSucceeds
    <3>3. Work!TakeEffect(d)
      BY <1>1, <2>1, <3>1, <3>2
         DEF Work!TakeEffect, Work!Artifact, Asked, Origin, TheCommit, Launched, Ended, EndOf
    <3>4. QED
      BY <3>3 DEF Work!Next
  <2>4. CASE HealthCheckPasses(d)
    <3>1. deployment' = [deployment EXCEPT ![d].status = "SUCCEEDED"] /\ UNCHANGED live
      BY <2>4 DEF HealthCheckPasses
    <3>2. Launched' = Launched /\ Ended' = [Ended EXCEPT ![d] = "GOOD"]
      BY <2>1, <3>1, EndedMoves DEF EndOf
    <3>3. Work!FindHealthy(d)
      BY <1>1, <2>1, <3>1, <3>2
         DEF Work!FindHealthy, Asked, Origin, TheCommit, Launched, Ended, EndOf
    <3>4. QED
      BY <3>3 DEF Work!Next
  <2>5. CASE RollBack(d)
    <3>1. PICK s \in {"FAILED", "ROLLED_BACK"} : deployment' = [deployment EXCEPT ![d].status = s]
      BY <2>5 DEF RollBack
    <3>2. Launched' = Launched /\ Ended' = [Ended EXCEPT ![d] = "BAD"]
      BY <2>1, <3>1, EndedMoves DEF EndOf
    <3>3. live' \in {live, Launched[d][3], deployment[d].previous}
      BY <2>2, <2>5 DEF RollBack
    <3>4. deployment[d].previous \in {0} \cup {Launched[e][3] : e \in {x \in Deployments : Ended[x] = "GOOD"}}
      <4>1. CASE deployment[d].previous = 0
        BY <4>1
      <4>2. CASE deployment[d].previous # 0
        <5>1. PICK e \in Deployments : /\ deployment[e].status = "SUCCEEDED"
                                       /\ deployment[e].artifact = deployment[d].previous
          BY <4>2 DEF PreviousWasHealthy, Succeeded
        <5>2. Ended[e] = "GOOD" /\ Launched[e][3] = deployment[d].previous
          BY <5>1 DEF Ended, EndOf, Launched
        <5>3. QED
          BY <5>2
      <4>3. QED
        BY <4>1, <4>2
    <3>5. Work!GoBack(d)
      BY <1>1, <2>1, <3>2, <3>3, <3>4
         DEF Work!GoBack, Work!Healthy, Work!Artifact, Asked, Origin, TheCommit, Launched, Ended, EndOf
    <3>6. QED
      BY <3>5 DEF Work!Next
  <2>6. QED
    BY <1>3, <2>3, <2>4, <2>5
<1>4. QED
  BY <1>2, <1>3 DEF DeploymentStep

LEMMA WorkContractStep ==
  ASSUME ChangesIInv, [ChangesNext]_changesVars
  PROVE  [Work!Next]_(Work!vars)
<1> USE DEF ChangesIInv
<1>1. CASE IncidentStep \/ UNCHANGED changesVars
  <2>1. UNCHANGED <<approvalVars, changeVars, deploymentVars>>
    BY <1>1 DEF IncidentStep, IngestSignal, AutoResolve, SetStatus, EmergencyPause, changesVars
  <2>2. /\ Asked' = Asked /\ Origin' = Origin /\ TheCommit' = TheCommit /\ Launched' = Launched
        /\ Ended' = Ended /\ UNCHANGED <<granted, live>>
    BY <2>1 DEF approvalVars, changeVars, deploymentVars, Asked, Origin, TheCommit, Launched, Ended, EndOf
  <2>3. QED
    BY <2>2, WorkStutters
<1>2. QED
  BY <1>1, ApprovalWork, ChangeWork, DeploymentWork DEF ChangesNext

\* Requests, coder, checks, sweep and deployments keep the promise of ChangeContract: a
\* change is begun and launched on a yes of its own kind, once, and production goes
\* back only to what had been found healthy.
THEOREM ChangesKeepContract == ChangesSpec => ImplementsChangeContract
<1>1. ChangesInit => Work!Init
  <2> SUFFICES ASSUME ChangesInit PROVE Work!Init
    OBVIOUS
  <2>1. /\ Asked = [a \in Approvals |-> Work!Unasked]
        /\ Origin = [c \in Changes |-> Work!NotBegun] /\ TheCommit = [c \in Changes |-> 0]
    BY DEF ChangesInit, NoApproval, NoChange, Asked, Origin, TheCommit, Work!Unasked,
           Work!NotBegun
  <2>2. /\ Launched = [d \in Deployments |-> Work!NotLaunched]
        /\ Ended = [d \in Deployments |-> "NONE"]
    BY DEF ChangesInit, NoDeployment, Launched, Ended, EndOf, Work!NotLaunched
  <2>3. QED
    BY <2>1, <2>2 DEF ChangesInit, Work!Init, Asked, Origin, TheCommit, Launched, Ended, EndOf
<1>2. ChangesIInv /\ [ChangesNext]_changesVars => [Work!Next]_(Work!vars)
  BY WorkContractStep
<1>3. QED
  BY <1>1, <1>2, ChangesInvariant, PTL DEF ChangesSpec, ImplementsChangeContract, Work!Spec
=============================================================================
