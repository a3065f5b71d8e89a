------------------------------ MODULE OpsChanges ------------------------------
(***************************************************************************)
(* The incidents of the Operations Center and what may be done about them: *)
(* proposals and their approvals (ops_incidents.py), the worktree, the     *)
(* coder, the checks, the pull request and the deployments that act on an  *)
(* approval (ops_workflows.py), and the requests that start them           *)
(* (api/ops_routes.py).                                                    *)
(*                                                                         *)
(* The code between two commits of a request is one action.  Two are split *)
(* where the code reads a row, and writes it without looking again: the    *)
(* answer to an approval and the sweep of lapsed ones.  The coder, the     *)
(* checks and the deployment commands run between commits.  A process that *)
(* dies there takes no further step.                                       *)
(*                                                                         *)
(* Identifiers count up as those of the tables do.  0 stands for no row,   *)
(* no worktree and no commit.  A revision is the content of a worktree;    *)
(* Base is the commit it was created from.                                 *)
(***************************************************************************)
EXTENDS Naturals, FiniteSets

CONSTANTS Incidents,        \* rows of ops_incidents with one fingerprint
          MaxApprovals,     \* rows of ops_approvals
          MaxChanges,       \* rows of ops_code_changes
          MaxDeployments,   \* rows of ops_deployments
          MaxRevision,      \* revisions the coder makes
          Required,         \* the checks a change must pass, in their order
          MaxAnswers,       \* answers under way at one time
          MaxCoders         \* coders at work on one change

Base == 1

ASSUME ChangesAssumption ==
  /\ MaxApprovals \in Nat
  /\ MaxChanges \in Nat
  /\ MaxDeployments \in Nat
  /\ MaxRevision \in Nat \ {0}
  /\ Required \in Nat \ {0}
  /\ MaxAnswers \in Nat
  /\ MaxCoders \in Nat \ {0}
  /\ 0 \notin Incidents

Approvals   == 1 .. MaxApprovals
Changes     == 1 .. MaxChanges
Deployments == 1 .. MaxDeployments
Revisions   == Base .. MaxRevision
Checks      == 1 .. Required
Kinds       == {"CODE_FIX", "DEPLOYMENT"}
Decisions   == {"APPROVED", "REJECTED"}

VARIABLES incident,     \* ops_incidents.status
          frozen,       \* the policy operations.freeze
          approval,     \* rows of ops_approvals
          answering,    \* answers that have read their approval as pending
          expiring,     \* the rows the sweep has read as pending and lapsed
          change,       \* rows of ops_code_changes
          branch,       \* incidents whose branch exists
          tree,         \* the content of the incident's worktree
          head,         \* the content its branch has committed
          coder,        \* the coders at work on a change
          check,        \* the latest ops_check_runs row of each name
          checking,     \* the check that is running
          deployment,   \* rows of ops_deployments
          live,         \* what production runs
          granted,      \* history: approvals that were answered with APPROVED
          passed,       \* history: the content a check has passed
          reworked,     \* history: worktrees edited after a check was run
          overlapped    \* history: a deployment was started during another

approvalVars   == <<approval, answering, expiring, granted>>
treeVars       == <<branch, tree, head>>
changeVars     == <<change, branch, tree, head, coder, reworked>>
checkVars      == <<check, checking, passed>>
deploymentVars == <<deployment, live, overlapped>>
changesVars    == <<incident, frozen, approvalVars, changeVars, checkVars,
                    deploymentVars>>

Active == {"OPEN", "INVESTIGATING", "AWAITING_APPROVAL", "APPROVED_FOR_FIX",
           "FIXING", "VERIFYING", "AWAITING_DEPLOY_APPROVAL", "DEPLOYING"}

Awaiting == {"AWAITING_APPROVAL", "AWAITING_DEPLOY_APPROVAL"}

NoApproval == [incident |-> 0, kind |-> "NONE", status |-> "NONE", lapsed |-> FALSE]

NoChange == [incident |-> 0, approval |-> 0, status |-> "NONE", commit |-> 0]

NoDeployment == [change |-> 0, approval |-> 0, artifact |-> 0, previous |-> 0,
                 status |-> "NONE"]

NoCheck == [status |-> "NONE", of |-> 0]

ApprovalRows == [incident : Incidents \cup {0}, kind : Kinds \cup {"NONE"},
                 status : Decisions \cup {"NONE", "PENDING", "EXPIRED"},
                 lapsed : BOOLEAN]

ChangeRows == [incident : Incidents \cup {0}, approval : Approvals \cup {0},
               status : {"NONE", "PROVISIONED", "RUNNING", "READY_FOR_REVIEW", "CANCELLED"},
               commit : Revisions \cup {0}]

CheckRows == [status : {"NONE", "RUNNING", "PASSED", "FAILED"}, of : Revisions \cup {0}]

DeploymentRows == [change : Changes \cup {0}, approval : Approvals \cup {0},
                   artifact : Revisions \cup {0}, previous : Revisions \cup {0},
                   status : {"NONE", "DEPLOYING", "VERIFYING", "SUCCEEDED", "FAILED",
                             "ROLLED_BACK"}]

ChangesTypeOK ==
  /\ incident \in [Incidents -> Active \cup {"NONE", "RESOLVED", "REJECTED"}]
  /\ frozen \in BOOLEAN
  /\ approval \in [Approvals -> ApprovalRows]
  /\ answering \subseteq Approvals \X Decisions
  /\ expiring \subseteq Approvals
  /\ change \in [Changes -> ChangeRows]
  /\ branch \subseteq Incidents
  /\ tree \in [Incidents -> Revisions \cup {0}]
  /\ head \in [Incidents -> Revisions]
  /\ coder \in [Changes -> 0 .. MaxCoders]
  /\ check \in [Changes -> [Checks -> CheckRows]]
  /\ checking \in [Changes -> Checks \cup {0}]
  /\ deployment \in [Deployments -> DeploymentRows]
  /\ live \in Revisions \cup {0}
  /\ granted \subseteq Approvals
  /\ passed \subseteq Changes \X Checks \X Revisions
  /\ reworked \subseteq Incidents
  /\ overlapped \in BOOLEAN

ChangesInit ==
  /\ incident = [i \in Incidents |-> "NONE"]
  /\ frozen = FALSE
  /\ approval = [a \in Approvals |-> NoApproval]
  /\ answering = {}
  /\ expiring = {}
  /\ change = [c \in Changes |-> NoChange]
  /\ branch = {}
  /\ tree = [i \in Incidents |-> 0]
  /\ head = [i \in Incidents |-> Base]
  /\ coder = [c \in Changes |-> 0]
  /\ check = [c \in Changes |-> [n \in Checks |-> NoCheck]]
  /\ checking = [c \in Changes |-> 0]
  /\ deployment = [d \in Deployments |-> NoDeployment]
  /\ live = 0
  /\ granted = {}
  /\ passed = {}
  /\ reworked = {}
  /\ overlapped = FALSE

\* The row that the next INSERT makes.
IsNext(id, table) ==
  /\ table[id].status = "NONE"
  /\ \A other \in DOMAIN table : other < id => table[other].status # "NONE"

(***************************************************************************)
(* Incidents.  A signal whose fingerprint an active incident has only      *)
(* counts up; otherwise it opens a new one.                                *)
(***************************************************************************)
IngestSignal(i) ==
  /\ \A j \in Incidents : incident[j] \notin Active
  /\ incident[i] = "NONE"
  /\ incident' = [incident EXCEPT ![i] = "OPEN"]
  /\ UNCHANGED <<frozen, approvalVars, changeVars, checkVars, deploymentVars>>

AutoResolve ==
  /\ \E i \in Incidents : incident[i] \in Active
  /\ incident' = [i \in Incidents |-> IF incident[i] \in Active THEN "RESOLVED"
                                                                ELSE incident[i]]
  /\ UNCHANGED <<frozen, approvalVars, changeVars, checkVars, deploymentVars>>

SetStatus(i, s) ==
  /\ incident[i] # "NONE"
  /\ s \in {"INVESTIGATING", "VERIFYING", "RESOLVED", "OPEN"}
  /\ incident' = [incident EXCEPT ![i] = s]
  /\ UNCHANGED <<frozen, approvalVars, changeVars, checkVars, deploymentVars>>

EmergencyPause ==
  /\ frozen' = ~frozen
  /\ UNCHANGED <<incident, approvalVars, changeVars, checkVars, deploymentVars>>

(***************************************************************************)
(* Approvals.  A proposal is accepted whatever the incident's status is;   *)
(* one for an investigation has no approval and changes nothing here, nor  *)
(* does one that repeats an idempotency key.                               *)
(***************************************************************************)
CreateProposal(i, k) ==
  /\ incident[i] # "NONE"
  /\ \E a \in Approvals :
       /\ IsNext(a, approval)
       /\ approval' = [approval EXCEPT ![a] = [incident |-> i, kind |-> k,
                                               status |-> "PENDING", lapsed |-> FALSE]]
  /\ incident' = [incident EXCEPT ![i] = IF k = "CODE_FIX" THEN "AWAITING_APPROVAL"
                                         ELSE "AWAITING_DEPLOY_APPROVAL"]
  /\ UNCHANGED <<frozen, answering, expiring, granted, changeVars, checkVars,
                 deploymentVars>>

\* expires_at passes, half an hour or a quarter after the proposal.
Lapse(a) ==
  /\ approval[a].status \in {"PENDING", "APPROVED"}
  /\ ~approval[a].lapsed
  /\ approval' = [approval EXCEPT ![a].lapsed = TRUE]
  /\ UNCHANGED <<incident, frozen, answering, expiring, granted, changeVars,
                 checkVars, deploymentVars>>

\* An answer to a lapsed approval marks it EXPIRED and raises, so that the
\* request rolls the mark back: it is left to the sweep.
ReadApproval(a, decision) ==
  /\ approval[a].status = "PENDING"
  /\ ~approval[a].lapsed
  /\ Cardinality(answering) < MaxAnswers
  /\ answering' = answering \cup {<<a, decision>>}
  /\ UNCHANGED <<incident, frozen, approval, expiring, granted, changeVars,
                 checkVars, deploymentVars>>

StatusInOtherWords(a, decision) ==
  IF decision = "REJECTED" THEN "REJECTED"
  ELSE IF approval[a].kind = "CODE_FIX" THEN "APPROVED_FOR_FIX" ELSE "APPROVED_FOR_DEPLOYMENT"

StatusAfter(a, decision) ==
  IF decision = "REJECTED" THEN "REJECTED"
  ELSE IF approval[a].kind = "CODE_FIX" THEN "APPROVED_FOR_FIX" ELSE "DEPLOYING"

\* The UPDATE names the row and not the status that was read.
RespondApproval(a, decision) ==
  /\ <<a, decision>> \in answering
  /\ answering' = answering \ {<<a, decision>>}
  /\ approval' = [approval EXCEPT ![a].status = decision]
  /\ incident' = [incident EXCEPT ![approval[a].incident] = StatusAfter(a, decision)]
  /\ granted' = IF decision = "APPROVED" THEN granted \cup {a} ELSE granted
  /\ UNCHANGED <<frozen, expiring, changeVars, checkVars, deploymentVars>>

\* The supervisor answers; an approval needs the password once more.
ApprovalRequest(a, decision) ==
  \/ ReadApproval(a, decision)
  \/ RespondApproval(a, decision)

SweepReads ==
  /\ expiring = {}
  /\ expiring' = {a \in Approvals : approval[a].status = "PENDING" /\ approval[a].lapsed}
  /\ expiring' # {}
  /\ UNCHANGED <<incident, frozen, approval, answering, granted, changeVars,
                 checkVars, deploymentVars>>

ExpiredQuietly(i) == FALSE

NoLongerAwaiting(i) ==
  /\ incident[i] \in Awaiting
  /\ \E a \in expiring : approval[a].incident = i

ExpirePendingApprovals ==
  /\ expiring # {}
  /\ approval' = [a \in Approvals |->
                    IF a \in expiring THEN [approval[a] EXCEPT !.status = "EXPIRED"]
                                      ELSE approval[a]]
  /\ incident' = [i \in Incidents |-> IF NoLongerAwaiting(i) THEN "INVESTIGATING"
                                                             ELSE incident[i]]
  /\ expiring' = {}
  /\ UNCHANGED <<frozen, answering, granted, changeVars, checkVars, deploymentVars>>

ApprovedOfAnyKind(a, i, k) ==
  approval[a].incident = i /\ approval[a].status = "APPROVED" /\ ~approval[a].lapsed

\* What the actions below ask for: an approval of this kind, for this incident,
\* answered and not lapsed.
Approved(a, i, k) ==
  /\ approval[a].incident = i
  /\ approval[a].kind = k
  /\ approval[a].status = "APPROVED"
  /\ ~approval[a].lapsed

(***************************************************************************)
(* Code changes.  The worktree and its branch are named after the          *)
(* incident, and git refuses to create a branch that exists.               *)
(***************************************************************************)
WorktreeAddOverBranch(i) ==
  /\ tree[i] = 0
  /\ branch' = branch \cup {i}
  /\ tree' = [tree EXCEPT ![i] = Base]
  /\ head' = [head EXCEPT ![i] = Base]

WorktreeAdd(i) ==
  /\ i \notin branch
  /\ tree[i] = 0
  /\ branch' = branch \cup {i}
  /\ tree' = [tree EXCEPT ![i] = Base]
  /\ head' = [head EXCEPT ![i] = Base]

\* A repeated request for the same approval finds its row and changes nothing.
ProvisionWorktree(i, a) ==
  /\ ~frozen
  /\ Approved(a, i, "CODE_FIX")
  /\ \A c \in Changes : change[c].approval # a
  /\ WorktreeAdd(i)
  /\ \/ \E c \in Changes :
          /\ IsNext(c, change)
          /\ change' = [change EXCEPT ![c] = [incident |-> i, approval |-> a,
                                              status |-> "PROVISIONED", commit |-> 0]]
     \/ UNCHANGED change   \* the process dies before the row is committed
  /\ UNCHANGED <<incident, frozen, approvalVars, coder, reworked, checkVars,
                 deploymentVars>>

RunCoder(c) ==
  LET i == change[c].incident IN
  /\ change[c].status # "NONE"
  /\ Approved(change[c].approval, i, "CODE_FIX")
  /\ ~frozen
  /\ tree[i] # 0
  /\ coder[c] < MaxCoders
  /\ change' = [change EXCEPT ![c].status = "RUNNING"]
  /\ coder' = [coder EXCEPT ![c] = @ + 1]
  /\ UNCHANGED <<incident, frozen, approvalVars, treeVars, reworked, checkVars,
                 deploymentVars>>

CheckWasRunIn(i) ==
  \E c \in Changes : change[c].incident = i /\ \E n \in Checks : check[c][n] # NoCheck

CoderEdits(c) ==
  LET i == change[c].incident IN
  /\ coder[c] > 0
  /\ tree[i] \in 1 .. (MaxRevision - 1)
  /\ tree' = [tree EXCEPT ![i] = @ + 1]
  /\ reworked' = IF CheckWasRunIn(i) THEN reworked \cup {i} ELSE reworked
  /\ UNCHANGED <<incident, frozen, approvalVars, change, branch, head, coder,
                 checkVars, deploymentVars>>

CoderCompletes(c) ==
  /\ coder[c] > 0
  /\ coder' = [coder EXCEPT ![c] = @ - 1]
  /\ change' = [change EXCEPT ![c].status = "READY_FOR_REVIEW"]
  /\ UNCHANGED <<incident, frozen, approvalVars, treeVars, reworked, checkVars,
                 deploymentVars>>

\* The coder fails, times out or dies with its request.  The status FAILED is
\* written and then rolled back, because the exception is raised again.
CoderFails(c) ==
  /\ coder[c] > 0
  /\ coder' = [coder EXCEPT ![c] = @ - 1]
  /\ UNCHANGED <<incident, frozen, approvalVars, change, treeVars, reworked,
                 checkVars, deploymentVars>>

CancelCodeChange(c) ==
  /\ change[c].status \notin {"NONE", "RUNNING", "CANCELLED"}
  /\ change[c].commit = 0
  /\ change' = [change EXCEPT ![c].status = "CANCELLED"]
  /\ UNCHANGED <<incident, frozen, approvalVars, treeVars, coder, reworked,
                 checkVars, deploymentVars>>

CleanupCodeWorktree(c) ==
  LET i == change[c].incident IN
  /\ change[c].status = "CANCELLED"
  /\ tree[i] # 0
  /\ tree[i] = head[i]      \* git status --porcelain is empty
  /\ tree' = [tree EXCEPT ![i] = 0]
  /\ UNCHANGED <<incident, frozen, approvalVars, change, branch, head, coder,
                 reworked, checkVars, deploymentVars>>

(***************************************************************************)
(* Checks: one row per run, in order, up to the first that fails.  Rows an *)
(* interrupted run has left RUNNING are closed when the next one starts.   *)
(***************************************************************************)
CheckStarts(rows, c, n) ==
  [rows EXCEPT ![n] = [status |-> "RUNNING", of |-> tree[change[c].incident]]]

Interrupted(rows) ==
  [n \in Checks |-> IF rows[n].status = "RUNNING"
                    THEN [rows[n] EXCEPT !.status = "FAILED"] ELSE rows[n]]

RunChecks(c) ==
  /\ change[c].status # "NONE"
  /\ check' = [check EXCEPT ![c] = CheckStarts(Interrupted(@), c, 1)]
  /\ checking' = [checking EXCEPT ![c] = 1]
  /\ UNCHANGED <<incident, frozen, approvalVars, changeVars, passed, deploymentVars>>

CheckPasses(c) ==
  LET n == checking[c]
      rows == [check[c] EXCEPT ![n].status = "PASSED"] IN
  /\ n # 0
  /\ check[c][n].of # 0
  /\ passed' = passed \cup {<<c, n, check[c][n].of>>}
  /\ IF n < Required
     THEN /\ check' = [check EXCEPT ![c] = CheckStarts(rows, c, n + 1)]
          /\ checking' = [checking EXCEPT ![c] = n + 1]
     ELSE /\ check' = [check EXCEPT ![c] = rows]
          /\ checking' = [checking EXCEPT ![c] = 0]
  /\ UNCHANGED <<incident, frozen, approvalVars, changeVars, deploymentVars>>

\* A check also fails when the worktree is gone or the command cannot be run.
CheckFails(c) ==
  LET n == checking[c] IN
  /\ n # 0
  /\ check' = [check EXCEPT ![c][n].status = "FAILED"]
  /\ checking' = [checking EXCEPT ![c] = 0]
  /\ UNCHANGED <<incident, frozen, approvalVars, changeVars, passed, deploymentVars>>

NoCheckFailed(c) == \A n \in Checks : check[c][n].status # "FAILED"

LatestChecksPassed(c) == \A n \in Checks : check[c][n].status = "PASSED"

\* Everything in the worktree is committed and pushed.  When the push or the
\* request for a pull request fails, the local commit stays and the row does not
\* learn of it; that is always so for a branch that has a pull request already.
CreatePullRequest(c) ==
  LET i == change[c].incident IN
  /\ change[c].status # "NONE"
  /\ LatestChecksPassed(c)
  /\ tree[i] # 0
  /\ head' = [head EXCEPT ![i] = tree[i]]
  /\ \/ /\ change[c].commit = 0
        /\ change' = [change EXCEPT ![c].commit = tree[i]]
     \/ UNCHANGED change
  /\ UNCHANGED <<incident, frozen, approvalVars, branch, tree, coder, reworked,
                 checkVars, deploymentVars>>

(***************************************************************************)
(* Deployments.                                                            *)
(***************************************************************************)
InFlight == {d \in Deployments : deployment[d].status \in {"DEPLOYING", "VERIFYING"}}

Succeeded == {d \in Deployments : deployment[d].status = "SUCCEEDED"}

\* The artifact of the last deployment that succeeded; 0 when there is none.
LastGood ==
  IF Succeeded = {} THEN 0
  ELSE deployment[CHOOSE d \in Succeeded : \A e \in Succeeded : e <= d].artifact

Deploy(c, a) ==
  /\ ~frozen
  /\ change[c].status # "NONE"
  /\ Approved(a, change[c].incident, "DEPLOYMENT")
  /\ change[c].commit # 0
  /\ LatestChecksPassed(c)
  /\ \E d \in Deployments :
       /\ IsNext(d, deployment)
       /\ deployment' = [deployment EXCEPT ![d] =
                           [change |-> c, approval |-> a, artifact |-> change[c].commit,
                            previous |-> LastGood, status |-> "DEPLOYING"]]
  /\ overlapped' = (overlapped \/ InFlight # {})
  /\ UNCHANGED <<incident, frozen, approvalVars, changeVars, checkVars, live>>

\* The command may have done its work and still be taken for failed.
DeployCommandSucceeds(d) ==
  /\ deployment[d].status = "DEPLOYING"
  /\ \/ deployment' = [deployment EXCEPT ![d].status = "VERIFYING"]
     \/ UNCHANGED deployment
  /\ live' = deployment[d].artifact
  /\ UNCHANGED <<incident, frozen, approvalVars, changeVars, checkVars, overlapped>>

HealthCheckPasses(d) ==
  /\ deployment[d].status = "VERIFYING"
  /\ deployment' = [deployment EXCEPT ![d].status = "SUCCEEDED"]
  /\ UNCHANGED <<incident, frozen, approvalVars, changeVars, checkVars, live, overlapped>>

RollBackOnPaper(d) ==
  /\ deployment[d].status \in {"DEPLOYING", "VERIFYING"}
  /\ deployment' = [deployment EXCEPT ![d].status = "ROLLED_BACK"]
  /\ UNCHANGED <<incident, frozen, approvalVars, changeVars, checkVars, live, overlapped>>

\* The command or the health check fails.  The rollback command is external and is
\* told nothing: that it goes back to the artifact recorded when the deployment
\* started is assumed.  If it fails too, production runs any of the three.
RollBack(d) ==
  /\ deployment[d].status \in {"DEPLOYING", "VERIFYING"}
  /\ \/ /\ deployment' = [deployment EXCEPT ![d].status = "ROLLED_BACK"]
        /\ live' = deployment[d].previous
     \/ /\ deployment' = [deployment EXCEPT ![d].status = "FAILED"]
        /\ live' \in {live, deployment[d].artifact, deployment[d].previous}
  /\ UNCHANGED <<incident, frozen, approvalVars, changeVars, checkVars, overlapped>>

IncidentStep ==
  \/ \E i \in Incidents : IngestSignal(i)
  \/ AutoResolve
  \/ \E i \in Incidents, s \in Active \cup {"RESOLVED"} : SetStatus(i, s)
  \/ EmergencyPause

ApprovalStep ==
  \/ \E i \in Incidents, k \in Kinds : CreateProposal(i, k)
  \/ \E a \in Approvals : Lapse(a)
  \/ \E a \in Approvals, decision \in Decisions : ApprovalRequest(a, decision)
  \/ SweepReads
  \/ ExpirePendingApprovals

ChangeStep ==
  \/ \E i \in Incidents, a \in Approvals : ProvisionWorktree(i, a)
  \/ \E c \in Changes :
       \/ RunCoder(c)
       \/ CoderEdits(c)
       \/ CoderCompletes(c)
       \/ CoderFails(c)
       \/ CancelCodeChange(c)
       \/ CleanupCodeWorktree(c)
       \/ RunChecks(c)
       \/ CheckPasses(c)
       \/ CheckFails(c)
       \/ CreatePullRequest(c)

DeploymentStep ==
  \/ \E c \in Changes, a \in Approvals : Deploy(c, a)
  \/ \E d \in Deployments :
       \/ DeployCommandSucceeds(d)
       \/ HealthCheckPasses(d)
       \/ RollBack(d)

ChangesNext == IncidentStep \/ ApprovalStep \/ ChangeStep \/ DeploymentStep

ChangesSpec == ChangesInit /\ [][ChangesNext]_changesVars

(***************************************************************************)
(* Properties.                                                             *)
(***************************************************************************)

\* An incident that is shown as waiting for the supervisor has an approval that can
\* still be answered or swept: however answers, sweeps and further proposals
\* interleave, none leaves it waiting for a decision nobody can give.
AwaitingHasPending ==
  \A i \in Incidents : incident[i] \in Awaiting =>
    \E a \in Approvals : approval[a].incident = i /\ approval[a].status = "PENDING"

\* Every worktree was created, and every deployment was started, on an approval of
\* its own kind, for its own incident, to which the supervisor said yes.
WorkIsApproved ==
  /\ \A c \in Changes : change[c].status # "NONE" =>
       LET a == change[c].approval IN
       /\ a \in granted
       /\ approval[a].kind = "CODE_FIX"
       /\ approval[a].incident = change[c].incident
  /\ \A d \in Deployments : deployment[d].status # "NONE" =>
       LET a == deployment[d].approval IN
       /\ a \in granted
       /\ approval[a].kind = "DEPLOYMENT"
       /\ approval[a].incident = change[deployment[d].change].incident

\* Two approvals to fix one incident never put two changes into its worktree,
\* though only the name of the branch keeps them apart.
OneChangePerIncident ==
  \A c, d \in Changes :
    (change[c].status # "NONE" /\ change[c].incident = change[d].incident) => c = d

\* The very content that is deployed has passed every required check, unless the
\* coder has edited the worktree after a check was run: nothing asks for new checks
\* then, and the pull request commits whatever the worktree holds.
ArtifactWasChecked ==
  \A d \in Deployments : deployment[d].status # "NONE" =>
    \/ change[deployment[d].change].incident \in reworked
    \/ \A n \in Checks : <<deployment[d].change, n, deployment[d].artifact>> \in passed

\* Once every deployment has ended, production runs the artifact of the last that
\* succeeded, provided that no rollback failed and no two deployments overlapped.
SettledIsLive ==
  (InFlight = {} /\ ~overlapped /\ \A d \in Deployments : deployment[d].status # "FAILED")
    => live = LastGood

(***************************************************************************)
(* The inductive invariant.                                                *)
(***************************************************************************)

\* Whoever is answering or sweeping has a row, and a row that says yes was answered.
ApprovalsAreTrue ==
  /\ \A a \in Approvals : approval[a].status = "APPROVED" => a \in granted
  /\ \A a \in granted \cup expiring : approval[a].status # "NONE"
  /\ \A answer \in answering : approval[answer[1]].status # "NONE"
  /\ \A a \in Approvals : IF approval[a].status = "NONE" THEN approval[a] = NoApproval
                           ELSE approval[a].incident \in Incidents

\* A change is in the worktree of its incident, whose branch stays.
ChangesHaveBranches ==
  /\ \A c \in Changes : change[c].status = "NONE" =>
       /\ change[c] = NoChange /\ coder[c] = 0
       /\ check[c] = [n \in Checks |-> NoCheck] /\ checking[c] = 0
  /\ \A c \in Changes : change[c].status # "NONE" => change[c].incident \in branch
  /\ \A i \in Incidents : tree[i] # 0 => i \in branch

\* A check that was run saw what the worktree holds now, if no coder has edited it
\* since; a check that passed has passed what it saw.
ChecksAreCurrent ==
  \A c \in Changes, n \in Checks :
    /\ (check[c][n] # NoCheck /\ change[c].incident \notin reworked
          /\ tree[change[c].incident] # 0)
         => check[c][n].of = tree[change[c].incident]
    /\ check[c][n].status = "PASSED" => <<c, n, check[c][n].of>> \in passed
    /\ checking[c] = n => check[c][n].status = "RUNNING"

CommitWasChecked ==
  \A c \in Changes : change[c].commit # 0 =>
    \/ change[c].incident \in reworked
    \/ \A n \in Checks : <<c, n, change[c].commit>> \in passed

DeploymentsHaveChanges ==
  /\ \A d \in Deployments : deployment[d].status # "NONE" =>
       deployment[d].change \in Changes /\ change[deployment[d].change].status # "NONE"
  /\ \A d, e \in Deployments :
       deployment[d].status # "NONE" /\ e < d => deployment[e].status # "NONE"

\* The last deployment that succeeded is one of them, and without an overlap only
\* the latest of all deployments is under way.
LatestIsKnown ==
  /\ Succeeded = {} \/ \E d \in Succeeded : \A e \in Succeeded : e <= d
  /\ ~overlapped => \A d \in InFlight, e \in Deployments :
       deployment[e].status # "NONE" => e <= d

\* While a deployment is under way it will be the last good one, or what it
\* replaces is.
LiveIsKnown ==
  (~overlapped /\ \A d \in Deployments : deployment[d].status # "FAILED") =>
    /\ InFlight = {} => live = LastGood
    /\ \A d \in InFlight :
         /\ deployment[d].previous = LastGood
         /\ deployment[d].status = "VERIFYING" => live = deployment[d].artifact

\* What a deployment goes back to had been found healthy before.
PreviousWasHealthy ==
  \A d \in Deployments : deployment[d].previous # 0 =>
    \E e \in Succeeded : deployment[e].artifact = deployment[d].previous

ChangesIInv ==
  /\ ChangesTypeOK
  /\ AwaitingHasPending
  /\ WorkIsApproved
  /\ OneChangePerIncident
  /\ ArtifactWasChecked
  /\ ApprovalsAreTrue
  /\ ChangesHaveBranches
  /\ ChecksAreCurrent
  /\ CommitWasChecked
  /\ DeploymentsHaveChanges
  /\ LatestIsKnown
  /\ LiveIsKnown
  /\ PreviousWasHealthy

(***************************************************************************)
(* What the supervisor is promised.                                        *)
(***************************************************************************)

\* The requests, the coder, the checks and the sweep keep the promise of ChangeContract.
Work == INSTANCE ChangeContract WITH
  None <- 0,
  asked <- [a \in Approvals |-> <<approval[a].incident, approval[a].kind>>],
  yes <- granted,
  origin <- [c \in Changes |-> <<change[c].incident, change[c].approval>>],
  commit <- [c \in Changes |-> change[c].commit],
  launch <- [d \in Deployments |->
               <<deployment[d].change, deployment[d].approval, deployment[d].artifact>>],
  outcome <- [d \in Deployments |->
                CASE deployment[d].status = "NONE" -> "NONE"
                  [] deployment[d].status \in {"DEPLOYING", "VERIFYING"} -> "OPEN"
                  [] deployment[d].status = "SUCCEEDED" -> "GOOD"
                  [] OTHER -> "BAD"]

ImplementsChangeContract == Work!Spec
=============================================================================
