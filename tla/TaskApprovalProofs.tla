------------------------- MODULE TaskApprovalProofs -------------------------
(***************************************************************************)
(* Proofs about TaskApproval, for any number of tasks, cards, delegated     *)
(* calls and devices: the inductive invariant IInv, the two safety          *)
(* properties it carries, and the implementation of ApprovalContract.       *)
(***************************************************************************)
EXTENDS TaskApproval, TLAPS

\* The type invariant, one step per action; a job that is claimed has a device.
LEMMA TypeStep ==
  ASSUME TypeOK, JobsAreTraced, [Next]_vars
  PROVE  TypeOK'
<1> USE DEF TypeOK, TaskStatuses, Terminal, taskVars, turnVars, jobVars
<1>1. ASSUME NEW t \in Tasks, PostMessage(t)
      PROVE  TypeOK'
  BY <1>1 DEF PostMessage
<1>2. ASSUME NEW t \in Tasks, ClaimTurn(t) \/ BeginTurn(t) \/ CloseTurn(t)
      PROVE  TypeOK'
  BY <1>2 DEF ClaimTurn, BeginTurn, CloseTurn
<1>3. ASSUME NEW t \in Tasks, NEW s \in TaskStatuses, NextIteration(t, s)
      PROVE  /\ tstatus' \in [Tasks -> TaskStatuses]
             /\ turn' \in [Tasks -> {"NONE", "START", "CHECK", "MODEL", "TOOL", "ENDED"}]
  BY <1>3 DEF NextIteration
<1>4. ASSUME NEW t \in Tasks, NEW C \in SUBSET Cards, Ask(t, C)
      PROVE  /\ card' \in [Cards -> {"ABSENT", "PENDING", "LAPSED", "APPROVED", "REJECTED"}]
             /\ approval' \in [Tasks -> {"NULL", "PENDING", "APPROVED", "REJECTED"}]
             /\ asked' \in [Tasks -> BOOLEAN]
  BY <1>4 DEF Ask
<1>5. ASSUME NEW t \in Tasks, FirstIteration(t) \/ AskApproval(t)
      PROVE  TypeOK'
  <2>1. CASE FirstIteration(t)
    BY <1>3, <2>1 DEF FirstIteration
  <2>2. CASE AskApproval(t)
    <3>1. PICK C \in SUBSET Cards : Ask(t, C) /\ NextIteration(t, Parked(t, C))
      BY <2>2 DEF AskApproval
    <3>2. Parked(t, C) \in TaskStatuses
      BY DEF Parked
    <3>3. QED
      BY <1>3, <1>4, <2>2, <3>1, <3>2 DEF AskApproval
  <2>3. QED
    BY <1>5, <2>1, <2>2
<1>6. ASSUME NEW t \in Tasks, Delegate(t)
      PROVE  TypeOK'
  BY <1>4, <1>6 DEF Delegate, Parked, Jobs, JobStates
<1>7. ASSUME NEW t \in Tasks, CallReturns(t) \/ CallGivesUp(t) \/ ToolBlocked(t)
      PROVE  TypeOK'
  <2>1. /\ tstatus' \in [Tasks -> TaskStatuses]
        /\ turn' \in [Tasks -> {"NONE", "START", "CHECK", "MODEL", "TOOL", "ENDED"}]
    BY <1>3, <1>7 DEF CallReturns, CallGivesUp, ToolBlocked, AfterTool
  <2>2. bad' \in [Tasks -> BOOLEAN]
    BY <1>7 DEF CallReturns, CallGivesUp, ToolBlocked
  <2>3. QED
    BY <1>7, <2>1, <2>2 DEF CallReturns, CallGivesUp, ToolBlocked
<1>8. ASSUME NEW t \in Tasks, Answer(t) \/ TurnRaises(t)
      PROVE  TypeOK'
  BY <1>8 DEF Answer, TurnRaises
<1>9. ASSUME NEW t \in Tasks, Cancel(t)
      PROVE  TypeOK'
  BY <1>9 DEF Cancel, JobStates
<1>10. ASSUME NEW c \in Cards, Approve(c)
       PROVE  TypeOK'
  <2>1. c \in Jobs /\ OwnerOf[c] \in Tasks
    BY OwnerOfIsFunction DEF Jobs
  <2>2. /\ tstatus' \in [Tasks -> TaskStatuses] /\ handed' = handed /\ done' = done
        /\ job' \in [Jobs -> JobStates] /\ jobDev' \in [Jobs -> Devices \cup {None}]
    <3>1. RunsOn(OwnerOf[c]) \subseteq Devices
      BY DEF RunsOn
    <3>2. QED
      BY <1>10, <2>1, <3>1 DEF Approve, JobStates
  <2>3. QED
    BY <1>10, <2>1, <2>2 DEF Approve
<1>11. ASSUME NEW c \in Cards, Reject(c) \/ Lapse(c)
       PROVE  TypeOK'
  BY <1>11, OwnerOfIsFunction DEF Reject, Lapse, Jobs
<1>12. ASSUME NEW x \in Jobs, ClaimJob(x) \/ LeaseExpires(x)
       PROVE  TypeOK'
  BY <1>12 DEF ClaimJob, LeaseExpires, SeesDevice, JobsAreTraced, JobStates
<1>13. ASSUME NEW x \in Jobs, NEW o \in Outcomes, ReportJob(x, o) \/ ReportAgain(x, o)
       PROVE  TypeOK'
  <2>1. x \in handed /\ job[x] # "NONE" /\ jobDev[x] \in Devices
    BY <1>13 DEF ReportJob, ReportAgain, JobsAreTraced
  <2>2. job' \in [Jobs -> JobStates]
    BY <1>13 DEF ReportJob, ReportAgain, JobStates, Outcomes
  <2>3. Settled(OwnerOf[x], o) \in TaskStatuses
    BY OwnerOfIsFunction DEF Settled
  <2>4. QED
    BY <1>13, <2>1, <2>2, <2>3, OwnerOfIsFunction DEF ReportJob, ReportAgain, Reported, SeesDevice
<1>14. ASSUME NEW d \in Devices, Heartbeat(d) \/ GoesStale(d)
       PROVE  TypeOK'
  BY <1>14 DEF Heartbeat, GoesStale, SeesDevice
<1>15. ASSUME NEW S \in SUBSET Tasks, Reconcile(S)
       PROVE  TypeOK'
  <2>1. \A t \in Tasks : Verdict(t) \in TaskStatuses
    BY DEF Verdict
  <2>2. QED
    BY <1>15, <2>1 DEF Reconcile
<1>16. CASE Sweep \/ ListApprovals
  BY <1>15, <1>16 DEF Sweep, ListApprovals
<1>17. CASE UNCHANGED vars
  BY <1>17 DEF vars
<1>18. QED
  BY <1>1, <1>2, <1>3, <1>5, <1>6, <1>7, <1>8, <1>9, <1>10, <1>11, <1>12, <1>13, <1>14,
     <1>16, <1>17 DEF Next, TurnStep, JobStep
-----------------------------------------------------------------------------
\* The claim on the conversation covers the turn, one step per action that moves either.
LEMMA OwnedStep ==
  ASSUME TypeOK, OwnedTurn, [Next]_vars
  PROVE  OwnedTurn'
<1> USE DEF TypeOK, OwnedTurn, taskVars, turnVars
<1>1. ASSUME UNCHANGED <<conv, turn>>,
             \A t \in Tasks : tstatus'[t] = "NEW" => tstatus[t] = "NEW"
      PROVE  OwnedTurn'
  BY <1>1
<1>2. ASSUME NEW t \in Tasks, PostMessage(t)
      PROVE  OwnedTurn'
  BY <1>2 DEF PostMessage
<1>3. ASSUME NEW t \in Tasks, ClaimTurn(t) \/ CloseTurn(t)
      PROVE  OwnedTurn'
  BY <1>3 DEF ClaimTurn, CloseTurn
<1>4. ASSUME NEW t \in Tasks, turn[t] # "NONE", UNCHANGED conv,
             \A u \in Tasks \ {t} : turn'[u] = turn[u] /\ tstatus'[u] = tstatus[u],
             tstatus'[t] = "NEW" => tstatus[t] = "NEW"
      PROVE  OwnedTurn'
  BY <1>4
<1>5. ASSUME NEW t \in Tasks, BeginTurn(t) \/ Answer(t) \/ TurnRaises(t)
      PROVE  OwnedTurn'
  BY <1>4, <1>5 DEF BeginTurn, Answer, TurnRaises
<1>6. ASSUME NEW t \in Tasks, FirstIteration(t) \/ AskApproval(t) \/ Delegate(t)
      PROVE  OwnedTurn'
  BY <1>4, <1>6 DEF FirstIteration, AskApproval, Delegate, NextIteration, Parked
<1>7. ASSUME NEW t \in Tasks, CallReturns(t) \/ CallGivesUp(t) \/ ToolBlocked(t)
      PROVE  OwnedTurn'
  BY <1>4, <1>7 DEF CallReturns, CallGivesUp, ToolBlocked, AfterTool, NextIteration
<1>8. ASSUME NEW t \in Tasks, Cancel(t)
      PROVE  OwnedTurn'
  BY <1>1, <1>8 DEF Cancel
<1>9. ASSUME NEW c \in Cards, Approve(c) \/ Reject(c) \/ Lapse(c)
      PROVE  OwnedTurn'
  BY <1>1, <1>9 DEF Approve, Reject, Lapse
<1>10. ASSUME NEW x \in Jobs, JobStep(x)
       PROVE  OwnedTurn'
  BY <1>1, <1>10 DEF JobStep, ClaimJob, LeaseExpires, ReportJob, ReportAgain, Reported, Settled
<1>11. ASSUME NEW d \in Devices, Heartbeat(d) \/ GoesStale(d)
       PROVE  OwnedTurn'
  BY <1>1, <1>11 DEF Heartbeat, GoesStale
<1>12. CASE Sweep \/ ListApprovals
  BY <1>1, <1>12 DEF Sweep, ListApprovals, Reconcile, Verdict
<1>13. CASE UNCHANGED vars
  BY <1>1, <1>13 DEF vars
<1>14. QED
  BY <1>2, <1>3, <1>5, <1>6, <1>7, <1>8, <1>9, <1>10, <1>11, <1>12, <1>13 DEF Next, TurnStep
-----------------------------------------------------------------------------
\* What a task remembers stays true when its memory stays, no card is new, and the approved
\* ones stay approved.
LEMMA RememberedUndisturbed ==
  ASSUME CardsAreRemembered, UNCHANGED <<asked, approval>>,
         \A c \in Cards : /\ card[c] = "ABSENT" => card'[c] = "ABSENT"
                          /\ card[c] = "APPROVED" => card'[c] = "APPROVED"
  PROVE  CardsAreRemembered'
<1>1. ASSUME NEW c \in Cards, card'[c] # "ABSENT"
      PROVE  asked'[OwnerOf[c]]
  <2>1. card[c] # "ABSENT" /\ asked' = asked
    BY <1>1
  <2>2. QED
    BY <2>1, Zenon DEF CardsAreRemembered
<1>2. \A t \in Tasks : approval'[t] = "APPROVED" => \E c \in CardsOf(t) : card'[c] = "APPROVED"
  BY DEF CardsAreRemembered, CardsOf
<1>3. QED
  BY <1>1, <1>2 DEF CardsAreRemembered, CardsOf

LEMMA RememberedByAsk ==
  ASSUME TypeOK, CardsAreRemembered, NEW t \in Tasks, NEW C \in SUBSET Cards, Ask(t, C)
  PROVE  CardsAreRemembered'
<1>1. ASSUME NEW c \in Cards, card'[c] # "ABSENT"
      PROVE  asked'[OwnerOf[c]]
  <2>1. OwnerOf[c] \in Tasks
    BY OwnerOfIsFunction DEF Jobs
  <2>2. CASE c \in C
    <3>1. OwnerOf[c] = t /\ C # {}
      BY <2>2 DEF Ask
    <3>2. QED
      BY <3>1 DEF Ask, TypeOK
  <2>3. CASE c \notin C
    <3>1. card[c] # "ABSENT"
      BY <1>1, <2>3 DEF Ask, CardsOf
    <3>2. asked[OwnerOf[c]]
      BY <3>1 DEF CardsAreRemembered
    <3>3. QED
      BY <2>1, <3>2 DEF Ask, TypeOK
  <2>4. QED
    BY <2>2, <2>3
<1>2. \A u \in Tasks : approval'[u] = "APPROVED" => approval[u] = "APPROVED"
  BY DEF Ask, TypeOK
<1>3. \A c \in Cards : card[c] = "APPROVED" => card'[c] = "APPROVED"
  BY DEF Ask, TypeOK, CardsOf
<1>4. QED
  BY <1>1, <1>2, <1>3 DEF CardsAreRemembered, CardsOf

LEMMA RememberedStep ==
  ASSUME TypeOK, CardsAreRemembered, [Next]_vars
  PROVE  CardsAreRemembered'
<1> USE DEF TypeOK, taskVars, turnVars
<1>1. ASSUME UNCHANGED <<asked, approval, card>>
      PROVE  CardsAreRemembered'
  BY <1>1, RememberedUndisturbed
<1>2. ASSUME NEW t \in Tasks, PostMessage(t) \/ ClaimTurn(t) \/ BeginTurn(t) \/ CloseTurn(t)
      PROVE  CardsAreRemembered'
  BY <1>1, <1>2 DEF PostMessage, ClaimTurn, BeginTurn, CloseTurn
<1>3. ASSUME NEW t \in Tasks, FirstIteration(t) \/ Answer(t) \/ TurnRaises(t)
      PROVE  CardsAreRemembered'
  BY <1>1, <1>3 DEF FirstIteration, Answer, TurnRaises
<1>4. ASSUME NEW t \in Tasks, CallReturns(t) \/ CallGivesUp(t) \/ ToolBlocked(t)
      PROVE  CardsAreRemembered'
  BY <1>1, <1>4 DEF CallReturns, CallGivesUp, ToolBlocked
<1>5. ASSUME NEW t \in Tasks, AskApproval(t) \/ Delegate(t)
      PROVE  CardsAreRemembered'
  BY <1>5, RememberedByAsk DEF AskApproval, Delegate
<1>6. ASSUME NEW t \in Tasks, Cancel(t)
      PROVE  CardsAreRemembered'
  BY <1>6, RememberedUndisturbed DEF Cancel, Undecided
<1>7. ASSUME NEW c \in Cards, Approve(c)
      PROVE  CardsAreRemembered'
  <2>1. OwnerOf[c] \in Tasks /\ c \in CardsOf(OwnerOf[c])
    BY OwnerOfIsFunction DEF Jobs, CardsOf
  <2>2. \A u \in Tasks : approval'[u] = "APPROVED" => \E b \in CardsOf(u) : card'[b] = "APPROVED"
    BY <1>7, <2>1 DEF Approve, CardsAreRemembered, CardsOf
  <2>3. \A b \in Cards : card'[b] # "ABSENT" => card[b] # "ABSENT"
    BY <1>7 DEF Approve, Answerable
  <2>4. \A b \in Cards : card'[b] # "ABSENT" => asked'[OwnerOf[b]]
    BY <1>7, <2>3, Zenon DEF Approve, CardsAreRemembered
  <2>5. QED
    BY <2>2, <2>4 DEF CardsAreRemembered, CardsOf
<1>8. ASSUME NEW c \in Cards, Reject(c)
      PROVE  CardsAreRemembered'
  <2>1. OwnerOf[c] \in Tasks
    BY OwnerOfIsFunction DEF Jobs
  <2>2. \A u \in Tasks : approval'[u] = "APPROVED" => approval[u] = "APPROVED"
    BY <1>8, <2>1 DEF Reject
  <2>3. \A b \in Cards : /\ card[b] = "APPROVED" => card'[b] = "APPROVED"
                         /\ card'[b] # "ABSENT" => card[b] # "ABSENT"
    BY <1>8 DEF Reject, Answerable
  <2>4. \A b \in Cards : card'[b] # "ABSENT" => asked'[OwnerOf[b]]
    BY <1>8, <2>3, Zenon DEF Reject, CardsAreRemembered
  <2>5. \A u \in Tasks : approval'[u] = "APPROVED" => \E b \in CardsOf(u) : card'[b] = "APPROVED"
    BY <2>2, <2>3 DEF CardsAreRemembered, CardsOf
  <2>6. QED
    BY <2>4, <2>5 DEF CardsAreRemembered, CardsOf
<1>9. ASSUME NEW c \in Cards, Lapse(c)
      PROVE  CardsAreRemembered'
  BY <1>9, RememberedUndisturbed DEF Lapse
<1>10. ASSUME NEW x \in Jobs, JobStep(x)
       PROVE  CardsAreRemembered'
  BY <1>1, <1>10 DEF JobStep, ClaimJob, LeaseExpires, ReportJob, ReportAgain, Reported
<1>11. ASSUME NEW d \in Devices, Heartbeat(d) \/ GoesStale(d)
       PROVE  CardsAreRemembered'
  BY <1>1, <1>11 DEF Heartbeat, GoesStale
<1>12. ASSUME NEW S \in SUBSET Tasks, Reconcile(S)
       PROVE  CardsAreRemembered'
  <2>1. \A c \in Cards : /\ card[c] = "APPROVED" => card'[c] = "APPROVED"
                         /\ card'[c] # "ABSENT" => card[c] # "ABSENT"
    BY <1>12 DEF Reconcile
  <2>2. ASSUME NEW t \in Tasks, approval'[t] = "APPROVED"
        PROVE  \E c \in CardsOf(t) : card[c] = "APPROVED"
    <3>1. CASE approval[t] = "APPROVED"
      BY <3>1 DEF CardsAreRemembered
    <3>2. CASE approval[t] # "APPROVED"
      <4>1. Verdict(t) # "CANCELLED"
        BY <1>12, <2>2, <3>2 DEF Reconcile
      <4>2. QED
        BY <4>1 DEF Verdict, Asked
    <3>3. QED
      BY <3>1, <3>2
  <2>3. \A c \in Cards : card'[c] # "ABSENT" => asked'[OwnerOf[c]]
    BY <1>12, <2>1, Zenon DEF Reconcile, CardsAreRemembered, turnVars
  <2>4. \A t \in Tasks : approval'[t] = "APPROVED" => \E c \in CardsOf(t) : card'[c] = "APPROVED"
    BY <2>1, <2>2 DEF CardsOf
  <2>5. QED
    BY <2>3, <2>4 DEF CardsAreRemembered, CardsOf
<1>13. CASE Sweep \/ ListApprovals
  BY <1>12, <1>13 DEF Sweep, ListApprovals
<1>14. CASE UNCHANGED vars
  BY <1>1, <1>14 DEF vars
<1>15. QED
  BY <1>2, <1>3, <1>4, <1>5, <1>6, <1>7, <1>8, <1>9, <1>10, <1>11, <1>13, <1>14
  DEF Next, TurnStep
-----------------------------------------------------------------------------
\* Jobs keep their row, their device, the record of having been handed out and of what was
\* reported, one step per action that touches a job.
LEMMA TracedStep ==
  ASSUME TypeOK, JobsAreTraced, [Next]_vars
  PROVE  JobsAreTraced'
<1> USE DEF TypeOK, JobsAreTraced, jobVars
<1>1. ASSUME UNCHANGED jobVars
      PROVE  JobsAreTraced'
  BY <1>1
<1>2. ASSUME NEW t \in Tasks, PostMessage(t) \/ TurnStep(t), ~Delegate(t)
      PROVE  JobsAreTraced'
  BY <1>1, <1>2 DEF PostMessage, TurnStep, ClaimTurn, BeginTurn, CloseTurn, FirstIteration,
                    AskApproval, Answer, TurnRaises, CallReturns, CallGivesUp, ToolBlocked
<1>3. ASSUME NEW t \in Tasks, Delegate(t)
      PROVE  JobsAreTraced'
  BY <1>3 DEF Delegate, Jobs
<1>4. ASSUME NEW t \in Tasks, Cancel(t)
      PROVE  JobsAreTraced'
  BY <1>4 DEF Cancel, JobsOf
<1>5. ASSUME NEW c \in Cards, Approve(c)
      PROVE  JobsAreTraced'
  <2>1. RunsOn(OwnerOf[c]) \subseteq Devices /\ c \in Jobs
    BY OwnerOfIsFunction DEF RunsOn, Jobs
  <2>2. QED
    BY <1>5, <2>1 DEF Approve
<1>6. ASSUME NEW c \in Cards, Reject(c) \/ Lapse(c)
      PROVE  JobsAreTraced'
  BY <1>1, <1>6 DEF Reject, Lapse
<1>7. ASSUME NEW x \in Jobs, ClaimJob(x) \/ LeaseExpires(x)
      PROVE  JobsAreTraced'
  BY <1>7 DEF ClaimJob, LeaseExpires
<1>8. ASSUME NEW x \in Jobs, NEW o \in Outcomes, ReportJob(x, o) \/ ReportAgain(x, o)
      PROVE  JobsAreTraced'
  BY <1>8 DEF ReportJob, ReportAgain, Reported, Outcomes
<1>9. ASSUME NEW d \in Devices, Heartbeat(d) \/ GoesStale(d)
      PROVE  JobsAreTraced'
  BY <1>1, <1>9 DEF Heartbeat, GoesStale
<1>10. CASE Sweep \/ ListApprovals
  BY <1>1, <1>10 DEF Sweep, ListApprovals, Reconcile
<1>11. CASE UNCHANGED vars
  BY <1>1, <1>11 DEF vars
<1>12. QED
  BY <1>2, <1>3, <1>4, <1>5, <1>6, <1>7, <1>8, <1>9, <1>10, <1>11 DEF Next, TurnStep, JobStep
-----------------------------------------------------------------------------
\* No step takes a job's row away, forgets a report of success or takes an approval back.
LEMMA OnlyGrows ==
  ASSUME TypeOK, [Next]_vars
  PROVE  /\ done \subseteq done'
         /\ \A x \in Jobs : job[x] # "NONE" => job'[x] # "NONE"
         /\ \A c \in Cards : card[c] = "APPROVED" => card'[c] = "APPROVED"
<1> DEFINE Grows == /\ done \subseteq done'
                    /\ \A x \in Jobs : job[x] # "NONE" => job'[x] # "NONE"
                    /\ \A c \in Cards : card[c] = "APPROVED" => card'[c] = "APPROVED"
<1> SUFFICES Grows
  OBVIOUS
<1> USE DEF TypeOK, jobVars
<1>1. ASSUME NEW t \in Tasks, PostMessage(t) \/ TurnStep(t), ~Delegate(t), ~AskApproval(t)
      PROVE  Grows
  BY <1>1 DEF PostMessage, TurnStep, ClaimTurn, BeginTurn, CloseTurn, FirstIteration,
              Answer, TurnRaises, CallReturns, CallGivesUp, ToolBlocked
<1>2. ASSUME NEW t \in Tasks, NEW C \in SUBSET Cards, Ask(t, C)
      PROVE  \A c \in Cards : card[c] = "APPROVED" => card'[c] = "APPROVED"
  BY <1>2 DEF Ask
<1>3. ASSUME NEW t \in Tasks, AskApproval(t) \/ Delegate(t)
      PROVE  Grows
  BY <1>2, <1>3 DEF AskApproval, Delegate, Jobs
<1>4. ASSUME NEW t \in Tasks, Cancel(t)
      PROVE  Grows
  BY <1>4 DEF Cancel, Undecided
<1>5. ASSUME NEW c \in Cards, Approve(c) \/ Reject(c) \/ Lapse(c)
      PROVE  Grows
  BY <1>5 DEF Approve, Reject, Lapse, Answerable
<1>6. ASSUME NEW x \in Jobs, JobStep(x)
      PROVE  Grows
  BY <1>6 DEF JobStep, ClaimJob, LeaseExpires, ReportJob, ReportAgain, Reported, Outcomes
<1>7. ASSUME NEW d \in Devices, Heartbeat(d) \/ GoesStale(d)
      PROVE  Grows
  BY <1>7 DEF Heartbeat, GoesStale
<1>8. CASE Sweep \/ ListApprovals
  BY <1>8 DEF Sweep, ListApprovals, Reconcile
<1>9. CASE UNCHANGED vars
  BY <1>9 DEF vars
<1>10. QED
  BY <1>1, <1>3, <1>4, <1>5, <1>6, <1>7, <1>8, <1>9 DEF Next, TurnStep
-----------------------------------------------------------------------------
\* A task that completed with an approval, and keeps showing it, keeps its evidence.
LEMMA EvidenceUndisturbed ==
  ASSUME TypeOK, [Next]_vars, CompletedHasEvidence, NEW t \in Tasks,
         tstatus[t] = "COMPLETED" /\ approval[t] = "APPROVED"
  PROVE  JobsOf(t)' \cap done' # {}
BY OnlyGrows DEF CompletedHasEvidence, JobsOf

LEMMA EvidenceStep ==
  ASSUME TypeOK, CardsAreRemembered, JobsAreTraced, CompletedHasEvidence, [Next]_vars
  PROVE  CompletedHasEvidence'
<1> SUFFICES ASSUME NEW t \in Tasks, tstatus'[t] = "COMPLETED", approval'[t] = "APPROVED"
             PROVE  JobsOf(t)' \cap done' # {}
  BY DEF CompletedHasEvidence
<1> USE DEF TypeOK, taskVars, turnVars
<1>1. CASE tstatus[t] = "COMPLETED" /\ approval[t] = "APPROVED"
  BY <1>1, EvidenceUndisturbed
<1>2. ASSUME NEW u \in Tasks, PostMessage(u) \/ ClaimTurn(u) \/ BeginTurn(u) \/ CloseTurn(u)
      PROVE  JobsOf(t)' \cap done' # {}
  BY <1>1, <1>2 DEF PostMessage, ClaimTurn, BeginTurn, CloseTurn
<1>3. ASSUME NEW u \in Tasks, FirstIteration(u) \/ CallReturns(u) \/ CallGivesUp(u) \/ ToolBlocked(u)
      PROVE  JobsOf(t)' \cap done' # {}
  BY <1>1, <1>3 DEF FirstIteration, CallReturns, CallGivesUp, ToolBlocked, AfterTool, NextIteration
<1>4. ASSUME NEW u \in Tasks, AskApproval(u) \/ Delegate(u)
      PROVE  JobsOf(t)' \cap done' # {}
  BY <1>1, <1>4 DEF AskApproval, Delegate, Ask, Parked, NextIteration
<1>5. ASSUME NEW u \in Tasks, Answer(u)
      PROVE  JobsOf(t)' \cap done' # {}
  <2>1. ~asked[t] => approval[t] # "APPROVED"
    BY OwnerOfIsFunction DEF CardsAreRemembered, CardsOf
  <2>2. tstatus[t] = "COMPLETED" /\ approval[t] = "APPROVED"
    BY <1>5, <2>1 DEF Answer, DecidedMeanwhile
  <2>3. QED
    BY <1>1, <2>2
<1>6. ASSUME NEW u \in Tasks, TurnRaises(u) \/ Cancel(u)
      PROVE  JobsOf(t)' \cap done' # {}
  BY <1>1, <1>6 DEF TurnRaises, Cancel
<1>7. ASSUME NEW c \in Cards, Approve(c) \/ Reject(c) \/ Lapse(c)
      PROVE  JobsOf(t)' \cap done' # {}
  BY <1>1, <1>7 DEF Approve, Reject, Lapse
<1>8. ASSUME NEW x \in Jobs, ClaimJob(x) \/ LeaseExpires(x)
      PROVE  JobsOf(t)' \cap done' # {}
  BY <1>1, <1>8 DEF ClaimJob, LeaseExpires
<1>9. ASSUME NEW x \in Jobs, NEW o \in Outcomes, ReportJob(x, o) \/ ReportAgain(x, o)
      PROVE  JobsOf(t)' \cap done' # {}
  <2>1. CASE OwnerOf[x] = t /\ o = "OK"
    <3>1. job'[x] # "NONE" /\ x \in done'
      BY <1>9, <2>1, OnlyGrows DEF ReportJob, ReportAgain, Reported, JobsAreTraced
    <3>2. QED
      BY <2>1, <3>1 DEF JobsOf
  <2>2. CASE ~(OwnerOf[x] = t /\ o = "OK")
    BY <1>1, <1>9, <2>2 DEF ReportJob, ReportAgain, Reported, Settled
  <2>3. QED
    BY <2>1, <2>2
<1>10. ASSUME NEW d \in Devices, Heartbeat(d) \/ GoesStale(d)
       PROVE  JobsOf(t)' \cap done' # {}
  BY <1>1, <1>10 DEF Heartbeat, GoesStale
<1>11. ASSUME NEW S \in SUBSET Tasks, Reconcile(S)
       PROVE  JobsOf(t)' \cap done' # {}
  <2>1. CASE t \in S /\ Reconcilable(t) /\ Verdict(t) = "COMPLETED"
    <3>1. PICK x \in JobsOf(t) : job[x] \notin {"NONE", "PENDING", "CLAIMED", "FAILED"}
      BY <2>1 DEF Verdict, Reconcilable, Open, JobsOf
    <3>2. x \in done
      BY <3>1 DEF JobsAreTraced, JobsOf, JobStates
    <3>3. QED
      BY <3>2, OnlyGrows DEF JobsOf
  <2>2. CASE ~(t \in S /\ Reconcilable(t) /\ Verdict(t) = "COMPLETED")
    BY <1>1, <1>11, <2>2 DEF Reconcile
  <2>3. QED
    BY <2>1, <2>2
<1>12. CASE Sweep \/ ListApprovals
  BY <1>11, <1>12 DEF Sweep, ListApprovals
<1>13. CASE UNCHANGED vars
  BY <1>1, <1>13 DEF vars
<1>14. QED
  BY <1>2, <1>3, <1>4, <1>5, <1>6, <1>7, <1>8, <1>9, <1>10, <1>12, <1>13
  DEF Next, TurnStep, JobStep
-----------------------------------------------------------------------------
UnderWay(t) == turn[t] \in {"CHECK", "MODEL", "TOOL"}

\* A task whose turn goes on keeps its status, or takes one that is no verdict.
LEMMA OutcomeUndisturbed ==
  ASSUME TypeOK, [Next]_vars, TurnOwnsOutcome,
         \A t \in Tasks : UnderWay(t)' => \/ UnderWay(t) /\ tstatus'[t] = tstatus[t]
                                          \/ tstatus'[t] \notin {"COMPLETED", "FAILED"}
  PROVE  TurnOwnsOutcome'
BY OnlyGrows DEF TurnOwnsOutcome, UnderWay, Asked, CardsOf

LEMMA OutcomeStep ==
  ASSUME TypeOK, OwnedTurn, CardsAreRemembered, TurnOwnsOutcome, [Next]_vars
  PROVE  TurnOwnsOutcome'
<1> USE DEF TypeOK, taskVars, turnVars, UnderWay
<1>1. ASSUME NEW t \in Tasks, PostMessage(t) \/ ClaimTurn(t) \/ BeginTurn(t) \/ CloseTurn(t)
      PROVE  TurnOwnsOutcome'
  BY <1>1, OutcomeUndisturbed DEF PostMessage, ClaimTurn, BeginTurn, CloseTurn
<1>2. ASSUME NEW t \in Tasks,
             FirstIteration(t) \/ CallReturns(t) \/ CallGivesUp(t) \/ ToolBlocked(t)
      PROVE  TurnOwnsOutcome'
  BY <1>2, OutcomeUndisturbed
  DEF FirstIteration, CallReturns, CallGivesUp, ToolBlocked, AfterTool, NextIteration
<1>3. ASSUME NEW t \in Tasks, AskApproval(t) \/ Delegate(t)
      PROVE  TurnOwnsOutcome'
  BY <1>3, OutcomeUndisturbed DEF AskApproval, Delegate, Parked, NextIteration
<1>4. ASSUME NEW t \in Tasks, Answer(t) \/ TurnRaises(t)
      PROVE  TurnOwnsOutcome'
  BY <1>4, OutcomeUndisturbed DEF Answer, TurnRaises
<1>5. ASSUME NEW t \in Tasks, Cancel(t)
      PROVE  TurnOwnsOutcome'
  BY <1>5, OutcomeUndisturbed DEF Cancel
<1>6. ASSUME NEW c \in Cards, Approve(c)
      PROVE  TurnOwnsOutcome'
  <2>1. ASSUME NEW t \in Tasks, t # OwnerOf[c], UnderWay(t)', \A b \in Asked(t)' : card'[b] # "APPROVED"
        PROVE  tstatus'[t] \notin {"COMPLETED", "FAILED"}
    <3>1. \A b \in Asked(t) : card[b] # "APPROVED"
      BY <2>1, OnlyGrows DEF Asked, CardsOf
    <3>2. UnderWay(t) /\ tstatus'[t] = tstatus[t]
      BY <1>6, <2>1 DEF Approve
    <3>3. QED
      BY <3>1, <3>2 DEF TurnOwnsOutcome
  <2>2. c \in Asked(OwnerOf[c])' /\ card'[c] = "APPROVED"
    BY <1>6 DEF Approve, Asked, CardsOf
  <2>3. QED
    BY <2>1, <2>2 DEF TurnOwnsOutcome
<1>7. ASSUME NEW c \in Cards, Reject(c) \/ Lapse(c)
      PROVE  TurnOwnsOutcome'
  BY <1>7, OutcomeUndisturbed DEF Reject, Lapse
<1>8. ASSUME NEW x \in Jobs, ClaimJob(x) \/ LeaseExpires(x)
      PROVE  TurnOwnsOutcome'
  BY <1>8, OutcomeUndisturbed DEF ClaimJob, LeaseExpires
<1>9. ASSUME NEW x \in Jobs, NEW o \in Outcomes, ReportJob(x, o) \/ ReportAgain(x, o)
      PROVE  TurnOwnsOutcome'
  <2>1. ASSUME NEW t \in Tasks, UnderWay(t)', \A c \in Asked(t)' : card'[c] # "APPROVED"
        PROVE  tstatus'[t] \notin {"COMPLETED", "FAILED"}
    <3>1. \A c \in CardsOf(t) : card[c] # "APPROVED"
      BY <2>1, OnlyGrows DEF Asked, CardsOf
    <3>2. UnderWay(t) /\ StillOwned(t) /\ approval[t] # "APPROVED"
      BY <1>9, <2>1, <3>1
      DEF ReportJob, ReportAgain, Reported, StillOwned, OwnedTurn, CardsAreRemembered
    <3>3. tstatus[t] \notin {"COMPLETED", "FAILED"}
      BY <3>1, <3>2 DEF TurnOwnsOutcome, Asked
    <3>4. QED
      BY <1>9, <3>2, <3>3 DEF ReportJob, ReportAgain, Reported, Settled
  <2>2. QED
    BY <2>1 DEF TurnOwnsOutcome
<1>10. ASSUME NEW d \in Devices, Heartbeat(d) \/ GoesStale(d)
       PROVE  TurnOwnsOutcome'
  BY <1>10, OutcomeUndisturbed DEF Heartbeat, GoesStale
<1>11. ASSUME NEW S \in SUBSET Tasks, Reconcile(S)
       PROVE  TurnOwnsOutcome'
  <2>1. ASSUME NEW t \in Tasks, UnderWay(t)', \A c \in Asked(t)' : card'[c] # "APPROVED"
        PROVE  tstatus'[t] \notin {"COMPLETED", "FAILED"}
    <3>1. \A c \in Asked(t) : card[c] # "APPROVED"
      BY <2>1, OnlyGrows DEF Asked, CardsOf
    <3>2. UnderWay(t) /\ tstatus[t] \notin {"COMPLETED", "FAILED"}
      BY <1>11, <2>1, <3>1 DEF Reconcile, TurnOwnsOutcome
    <3>3. Verdict(t) = "CANCELLED"
      BY <3>1 DEF Verdict
    <3>4. QED
      BY <1>11, <3>2, <3>3 DEF Reconcile
  <2>2. QED
    BY <2>1 DEF TurnOwnsOutcome
<1>12. CASE Sweep \/ ListApprovals
  BY <1>11, <1>12 DEF Sweep, ListApprovals
<1>13. CASE UNCHANGED vars
  BY <1>13, OutcomeUndisturbed DEF vars
<1>14. QED
  BY <1>1, <1>2, <1>3, <1>4, <1>5, <1>6, <1>7, <1>8, <1>9, <1>10, <1>12, <1>13
  DEF Next, TurnStep, JobStep
-----------------------------------------------------------------------------
\* The invariant: who owns a turn, what a task remembers of its cards, where its jobs come
\* from, and the two properties that rest on it.
THEOREM ApprovalInvariant == Spec => []IInv
<1>1. Init => IInv
  <2> SUFFICES ASSUME Init PROVE IInv
    OBVIOUS
  <2>1. TypeOK
    BY DEF Init, TypeOK, TaskStatuses, JobStates
  <2>2. OwnedTurn /\ CardsAreRemembered /\ JobsAreTraced
    BY DEF Init, OwnedTurn, CardsAreRemembered, JobsAreTraced
  <2>3. CompletedHasEvidence /\ TurnOwnsOutcome
    BY DEF Init, CompletedHasEvidence, TurnOwnsOutcome
  <2>4. QED
    BY <2>1, <2>2, <2>3 DEF IInv
<1>2. IInv /\ [Next]_vars => IInv'
  BY TypeStep, OwnedStep, RememberedStep, TracedStep, EvidenceStep, OutcomeStep DEF IInv
<1>3. QED
  BY <1>1, <1>2, PTL DEF Spec

\* Every reachable state of the tasks, turns, cards and jobs is well typed.
THEOREM ApprovalsWellTyped == Spec => []TypeOK
<1>1. IInv => TypeOK
  BY DEF IInv
<1>2. QED
  BY <1>1, ApprovalInvariant, PTL

\* A task that shows COMPLETED after an approval has a job that a device reported as carried
\* out, whichever of worker, device result and sweep completed it.
THEOREM CompletionHasEvidence == Spec => []CompletedHasEvidence
<1>1. IInv => CompletedHasEvidence
  BY DEF IInv
<1>2. QED
  BY <1>1, ApprovalInvariant, PTL

\* Device results do not close a task while its turn is under way and nothing was approved.
THEOREM OutcomeIsTheTurns == Spec => []TurnOwnsOutcome
<1>1. IInv => TurnOwnsOutcome
  BY DEF IInv
<1>2. QED
  BY <1>1, ApprovalInvariant, PTL
-----------------------------------------------------------------------------
\* The values TaskApproval substitutes for the variables of ApprovalContract.
Decision == [c \in Cards |-> IF Undecided(c) THEN "PENDING" ELSE card[c]]
Launched == {c \in Cards : job[c] # "NONE"}

\* A step that keeps the cards' decisions, the rows of their jobs and the reports about them
\* is none of the contract.
LEMMA ContractStutters ==
  ASSUME Decision' = Decision, Launched' = Launched, done' \cap Cards = done \cap Cards
  PROVE  UNCHANGED Contract!vars
BY DEF Contract!vars, Decision, Launched

\* Rejecting undecided cards is rejecting them in the contract, none included.
LEMMA ContractRejects ==
  ASSUME TypeOK, NEW R \in SUBSET Cards, \A c \in R : Undecided(c),
         card' = [c \in Cards |-> IF c \in R THEN "REJECTED" ELSE card[c]],
         Launched' = Launched, done' = done
  PROVE  Contract!Reject(R)
<1>1. \A c \in R : Decision[c] = "PENDING"
  BY DEF Decision
<1>2. Decision' = [c \in Cards |-> IF c \in R THEN "REJECTED" ELSE Decision[c]]
  BY DEF Decision, Undecided
<1>3. QED
  BY <1>1, <1>2 DEF Contract!Reject, Contract!Become, Decision, Launched

LEMMA ContractAsks ==
  ASSUME TypeOK, NEW t \in Tasks, NEW C \in SUBSET Cards, Ask(t, C),
         Launched' = Launched, done' = done
  PROVE  \E R \in SUBSET Cards : Contract!Ask(C, R)
<1>1. PICK R \in SUBSET {c \in CardsOf(t) : C # {} /\ card[c] = "LAPSED"} :
             card' = [c \in Cards |-> IF c \in C THEN "PENDING"
                                     ELSE IF c \in R THEN "REJECTED" ELSE card[c]]
  BY DEF Ask
<1>2. R \in SUBSET Cards /\ \A c \in R : Decision[c] = "PENDING"
  BY <1>1 DEF CardsOf, Decision, Undecided
<1>3. \A c \in C : Decision[c] = "ABSENT"
  BY DEF Ask, Decision, Undecided
<1>4. Decision' = [c \in Cards |-> IF c \in C THEN "PENDING"
                                  ELSE IF c \in R THEN "REJECTED" ELSE Decision[c]]
  BY <1>1, <1>2 DEF Decision, Undecided, TypeOK
<1>5. Contract!Ask(C, R)
  BY <1>2, <1>3, <1>4 DEF Contract!Ask, Contract!Become, Decision, Launched
<1>6. QED
  BY <1>2, <1>5

LEMMA ContractStep ==
  ASSUME IInv, [Next]_vars
  PROVE  [Contract!Next]_(Contract!vars)
<1> USE DEF IInv, TypeOK, taskVars, turnVars, jobVars, Decision, Launched
<1>1. ASSUME NEW t \in Tasks, PostMessage(t) \/ TurnStep(t), ~Delegate(t), ~AskApproval(t)
      PROVE  UNCHANGED Contract!vars
  BY <1>1, ContractStutters
  DEF PostMessage, TurnStep, ClaimTurn, BeginTurn, CloseTurn, FirstIteration, Answer, TurnRaises,
      CallReturns, CallGivesUp, ToolBlocked, Undecided
<1>2. ASSUME NEW t \in Tasks, AskApproval(t) \/ Delegate(t)
      PROVE  \E C, R \in SUBSET Cards : Contract!Ask(C, R)
  <2>1. PICK C \in SUBSET Cards : Ask(t, C)
    BY <1>2 DEF AskApproval, Delegate
  <2>2. Launched' = Launched /\ done' = done
    BY <1>2, CardsAreNotCalls DEF AskApproval, Delegate, Jobs
  <2>3. QED
    BY <2>1, <2>2, ContractAsks
<1>3. ASSUME NEW t \in Tasks, Cancel(t)
      PROVE  \E R \in SUBSET Cards : Contract!Reject(R)
  <2>1. PICK R \in SUBSET Cards : R = {c \in CardsOf(t) : Undecided(c)}
    BY DEF CardsOf
  <2>2. card' = [c \in Cards |-> IF c \in R THEN "REJECTED" ELSE card[c]]
    BY <1>3, <2>1 DEF Cancel
  <2>3. Launched' = Launched /\ done' = done
    BY <1>3 DEF Cancel, Jobs
  <2>4. QED
    BY <2>1, <2>2, <2>3, ContractRejects
<1>4. ASSUME NEW c \in Cards, Approve(c)
      PROVE  Contract!Approve(c)
  <2>1. Decision[c] = "PENDING" /\ Decision' = [Decision EXCEPT ![c] = "APPROVED"]
    BY <1>4 DEF Approve, Answerable, Undecided
  <2>2. Launched' \in {Launched, Launched \cup {c}} /\ done' = done
    BY <1>4 DEF Approve, Jobs
  <2>3. QED
    BY <2>1, <2>2 DEF Contract!Approve
<1>5. ASSUME NEW c \in Cards, Reject(c)
      PROVE  \E R \in SUBSET Cards : Contract!Reject(R)
  <2> DEFINE R == {c}
  <2>1. /\ R \in SUBSET Cards /\ \A b \in R : Undecided(b)
        /\ card' = [b \in Cards |-> IF b \in R THEN "REJECTED" ELSE card[b]]
    BY <1>5 DEF Reject, Answerable, Undecided
  <2>2. Launched' = Launched /\ done' = done
    BY <1>5 DEF Reject
  <2> HIDE DEF R
  <2>3. QED
    BY <2>1, <2>2, ContractRejects
<1>6. ASSUME NEW c \in Cards, Lapse(c)
      PROVE  UNCHANGED Contract!vars
  BY <1>6, ContractStutters DEF Lapse, Undecided
<1>7. ASSUME NEW x \in Jobs, ClaimJob(x) \/ LeaseExpires(x)
      PROVE  UNCHANGED Contract!vars
  BY <1>7, ContractStutters DEF ClaimJob, LeaseExpires, Undecided, Jobs
<1>8. ASSUME NEW x \in Jobs, NEW o \in Outcomes, ReportJob(x, o) \/ ReportAgain(x, o)
      PROVE  UNCHANGED Contract!vars \/ \E c \in Cards : Contract!CarryOut(c)
  <2>1. Decision' = Decision /\ Launched' = Launched /\ job[x] # "NONE"
    BY <1>8 DEF ReportJob, ReportAgain, Reported, Undecided, Outcomes, Jobs, JobsAreTraced
  <2>2. CASE x \in Cards /\ done' = done \cup {x}
    BY <2>1, <2>2 DEF Contract!CarryOut
  <2>3. CASE x \notin Cards \/ done' = done
    BY <1>8, <2>1, <2>3, ContractStutters DEF ReportJob, ReportAgain, Reported
  <2>4. QED
    BY <1>8, <2>2, <2>3 DEF ReportJob, ReportAgain, Reported
<1>9. ASSUME NEW d \in Devices, Heartbeat(d) \/ GoesStale(d)
      PROVE  UNCHANGED Contract!vars
  BY <1>9, ContractStutters DEF Heartbeat, GoesStale, Undecided
<1>10. ASSUME NEW S \in SUBSET Tasks, Reconcile(S)
       PROVE  \E R \in SUBSET Cards : Contract!Reject(R)
  <2>1. PICK R \in SUBSET Cards : R = {c \in Cards : card[c] = "LAPSED"}
    OBVIOUS
  <2>2. card' = [c \in Cards |-> IF c \in R THEN "REJECTED" ELSE card[c]]
    BY <1>10, <2>1 DEF Reconcile
  <2>3. Launched' = Launched /\ done' = done /\ \A c \in R : Undecided(c)
    BY <1>10, <2>1 DEF Reconcile, Undecided
  <2>4. QED
    BY <2>2, <2>3, ContractRejects
<1>11. CASE Sweep \/ ListApprovals
  BY <1>10, <1>11 DEF Sweep, ListApprovals, Contract!Next
<1>12. CASE UNCHANGED vars
  BY <1>12, ContractStutters DEF vars, Undecided
<1>13. QED
  BY <1>1, <1>2, <1>3, <1>4, <1>5, <1>6, <1>7, <1>8, <1>9, <1>11, <1>12
  DEF Next, TurnStep, JobStep, Contract!Next

\* The approval cards keep the promise of ApprovalContract: decided once, launched at most
\* once, with the approval, and nothing carried out that was not launched.
THEOREM CardsImplementContract == Spec => ImplementsContract
<1>1. Init => Contract!Init
  BY DEF Init, Contract!Init, Undecided, Jobs
<1>2. IInv /\ [Next]_vars => [Contract!Next]_(Contract!vars)
  BY ContractStep
<1>3. QED
  BY <1>1, <1>2, ApprovalInvariant, PTL DEF Spec, ImplementsContract, Contract!Spec
=============================================================================
