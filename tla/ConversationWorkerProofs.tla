---------------------- MODULE ConversationWorkerProofs ----------------------
(***************************************************************************)
(* Proofs about ConversationWorker, for any number of tasks, threads, queue *)
(* workers, requeues and faults: the inductive invariant IInv, the two      *)
(* safety properties it carries, that a closed job stays closed, and that   *)
(* ConversationWorker implements TurnContract.                              *)
(***************************************************************************)
EXTENDS ConversationWorker, TLAPS

\* The type invariant, one step per action.
LEMMA WorkerTypeStep ==
  ASSUME TypeOK, RunnersHaveTasks, [Next]_vars
  PROVE  TypeOK'
<1> USE DEF TypeOK, Decided, jobVars, runnerVars
<1> USE BoundsAreNat
<1>1. ASSUME NEW t \in Tasks, PostMessage(t) \/ Spawn(t) \/ Reclaim(t)
      PROVE  TypeOK'
  BY <1>1 DEF PostMessage, Spawn, Reclaim
<1>2. ASSUME NEW t \in Tasks, Dispatch(t)
      PROVE  TypeOK'
  BY <1>2 DEF Dispatch, Hands, Runners
<1>3. ASSUME NEW t \in Tasks, LeaseLapses(t)
      PROVE  TypeOK'
  BY <1>3 DEF LeaseLapses, Fault
<1>4. ASSUME NEW r \in Runners, TakeHint(r)
      PROVE  TypeOK'
  BY <1>4 DEF TakeHint, Hands
<1>5. ASSUME NEW r \in Runners, Claim(r)
      PROVE  TypeOK'
  BY <1>5 DEF Claim, Leaves, RunnersHaveTasks
<1>6. ASSUME NEW r \in Runners, BeginTurn(r) \/ EndTurn(r)
      PROVE  TypeOK'
  BY <1>6 DEF BeginTurn, EndTurn
<1>7. ASSUME NEW r \in Runners,
             TurnIsMissing(r) \/ InterruptTurn(r) \/ BreakTurn(r) \/ ReadStatus(r)
      PROVE  TypeOK'
  BY <1>7 DEF TurnIsMissing, InterruptTurn, BreakTurn, ReadStatus, Writes, VerdictOn, Fault
<1>8. ASSUME NEW r \in Runners, WriteVerdict(r)
      PROVE  TypeOK'
  BY <1>8 DEF WriteVerdict, Leaves, Fault, RunnersHaveTasks
<1>9. ASSUME NEW w \in Workers, WorkerCrash(w)
      PROVE  TypeOK'
  BY <1>9 DEF WorkerCrash, Leaves, Fault, Runners
<1>10. CASE ApiCrash \/ ApiStart
  <2>1. CASE ApiCrash
    <3>1. apiUp' = FALSE /\ faults' \in Nat
      BY <2>1 DEF ApiCrash, Fault
    <3>2. where' \in [Runners -> {"IDLE", "HINTED", "CLAIMED", "TURN", "ENDED", "WRITE"}]
      BY <2>1 DEF ApiCrash
    <3>3. has' \in [Runners -> Tasks \cup {NoTask}] /\ tries' \in [Runners -> Nat]
      BY <2>1 DEF ApiCrash
    <3>4. verdict' \in [Runners -> {"NONE", "PENDING"} \cup Decided]
      BY <2>1 DEF ApiCrash
    <3>5. QED
      BY <2>1, <3>1, <3>2, <3>3, <3>4 DEF ApiCrash
  <2>2. CASE ApiStart
    BY <2>2 DEF ApiStart
  <2>3. QED
    BY <1>10, <2>1, <2>2
<1>11. CASE UNCHANGED vars
  BY <1>11 DEF vars
<1>12. QED
  BY <1>1, <1>2, <1>3, <1>4, <1>5, <1>6, <1>7, <1>8, <1>9, <1>10, <1>11 DEF Next, RunnerStep
-----------------------------------------------------------------------------
LEMMA IdleStep ==
  ASSUME TypeOK, DownIsIdle, [Next]_vars
  PROVE  DownIsIdle'
<1> SUFFICES ASSUME ~apiUp'
             PROVE  spawning' = {} /\ dispatching' = {} /\ \A r \in Threads : where'[r] = "IDLE"
  BY DEF DownIsIdle
<1> USE DEF TypeOK, jobVars, runnerVars
<1>1. CASE ApiCrash
  BY <1>1 DEF ApiCrash, Runners
<1>2. CASE ~ApiCrash
  <2>1. ~apiUp /\ spawning = {} /\ dispatching = {} /\ \A r \in Threads : where[r] = "IDLE"
    <3>1. ~apiUp
      BY <1>2 DEF Next, RunnerStep, PostMessage, Spawn, Dispatch, Reclaim, LeaseLapses, TakeHint,
                  Claim, BeginTurn, TurnIsMissing, EndTurn, ReadStatus, WriteVerdict,
                  InterruptTurn, BreakTurn, WorkerCrash, ApiStart, vars
    <3>2. QED
      BY <3>1 DEF DownIsIdle
  <2>2. ASSUME NEW t \in Tasks,
               PostMessage(t) \/ Spawn(t) \/ Dispatch(t) \/ Reclaim(t) \/ LeaseLapses(t)
        PROVE  spawning' = {} /\ dispatching' = {} /\ \A r \in Threads : where'[r] = "IDLE"
    BY <2>1, <2>2 DEF PostMessage, Spawn, Dispatch, Reclaim, LeaseLapses
  <2>3. ASSUME NEW q \in Runners, q \notin Threads,
               \A r \in Runners \ {q} : where'[r] = where[r], UNCHANGED <<spawning, dispatching>>
        PROVE  spawning' = {} /\ dispatching' = {} /\ \A r \in Threads : where'[r] = "IDLE"
    BY <2>1, <2>3 DEF Runners
  <2>4. ASSUME NEW r \in Runners, TakeHint(r) \/ RunnerStep(r) \/ InterruptTurn(r) \/ BreakTurn(r)
        PROVE  spawning' = {} /\ dispatching' = {} /\ \A q \in Threads : where'[q] = "IDLE"
    <3>1. r \notin Threads
      BY <2>1, <2>4 DEF TakeHint, RunnerStep, Claim, BeginTurn, TurnIsMissing, EndTurn, ReadStatus,
                        WriteVerdict, InterruptTurn, BreakTurn
    <3>2. \A q \in Runners \ {r} : where'[q] = where[q]
      BY <2>4 DEF TakeHint, Hands, RunnerStep, Claim, Leaves, BeginTurn, TurnIsMissing, Writes,
                  EndTurn, ReadStatus, WriteVerdict, InterruptTurn, BreakTurn
    <3>3. UNCHANGED <<spawning, dispatching>>
      BY <2>4 DEF TakeHint, RunnerStep, Claim, BeginTurn, TurnIsMissing, EndTurn, ReadStatus,
                  WriteVerdict, InterruptTurn, BreakTurn
    <3>4. QED
      BY <2>3, <3>1, <3>2, <3>3
  <2>5. ASSUME NEW w \in Workers, WorkerCrash(w)
        PROVE  spawning' = {} /\ dispatching' = {} /\ \A r \in Threads : where'[r] = "IDLE"
    BY <2>3, <2>5, ThreadsAreNotWorkers DEF WorkerCrash, Leaves, Runners
  <2>6. CASE UNCHANGED vars
    BY <2>1, <2>6 DEF vars
  <2>7. ~ApiStart
    BY DEF ApiStart
  <2>8. QED
    BY <1>2, <2>2, <2>4, <2>5, <2>6, <2>7 DEF Next
<1>3. QED
  BY <1>1, <1>2
-----------------------------------------------------------------------------
\* Who works on which task, under which claim, as one group.
CoveredOK == RunnersHaveTasks /\ RunnerHoldsClaim /\ OneRunnerPerTask
             /\ SuccessIsOver /\ SucceededTaskIsOver

\* A step of the API process: no runner moves, and a job that has one keeps its claim.
LEMMA CoveredWithoutRunner ==
  ASSUME TypeOK, CoveredOK, UNCHANGED <<where, has, verdict>>, outlived \subseteq outlived',
         \A t \in Tasks : tstatus'[t] = tstatus[t] \/ tstatus[t] = "NEW",
         \A t \in Tasks : conv'[t] = "SUCCEEDED" => conv[t] = "SUCCEEDED",
         \A t \in Tasks \ outlived' : \A r \in On(t) : /\ conv'[t] = conv[t]
                                                       /\ lease'[t] = "LAPSED" => r \in Threads
  PROVE  CoveredOK'
<1> USE DEF CoveredOK, On
<1>1. RunnersHaveTasks'
  BY DEF RunnersHaveTasks
<1>2. RunnerHoldsClaim'
  BY DEF RunnerHoldsClaim
<1>3. OneRunnerPerTask'
  BY DEF OneRunnerPerTask
<1>4. SuccessIsOver'
  BY DEF SuccessIsOver, RunnersHaveTasks
<1>5. SucceededTaskIsOver'
  BY DEF SucceededTaskIsOver
<1>6. QED
  BY <1>1, <1>2, <1>3, <1>4, <1>5

\* A runner that has a claim moves on within it, and only its task's status may change.
LEMMA CoveredMovesOn ==
  ASSUME TypeOK, CoveredOK, NEW r \in Runners, where[r] \notin {"IDLE", "HINTED"},
         NEW step \in {"TURN", "ENDED", "WRITE"}, where' = [where EXCEPT ![r] = step],
         UNCHANGED <<has, jobVars, outlived>>,
         \A q \in Runners \ {r} : verdict'[q] = verdict[q],
         \A t \in Tasks \ {has[r]} : tstatus'[t] = tstatus[t],
         step = "WRITE" => /\ verdict'[r] # "NONE"
                           /\ verdict'[r] = "SUCCEEDED" => tstatus'[has[r]] = "OVER"
  PROVE  CoveredOK'
<1> USE DEF CoveredOK, TypeOK
<1>1. \A t \in Tasks : On(t)' = On(t)
  BY DEF On
<1>2. has[r] \in Tasks /\ r \in On(has[r])
  BY DEF RunnersHaveTasks, On
<1>3. has[r] \notin outlived => conv[has[r]] = "CLAIMED"
  BY <1>2 DEF RunnerHoldsClaim
<1>4. RunnersHaveTasks'
  BY DEF RunnersHaveTasks
<1>5. RunnerHoldsClaim'
  BY <1>1 DEF RunnerHoldsClaim, jobVars
<1>6. OneRunnerPerTask'
  BY <1>1 DEF OneRunnerPerTask
<1>7. SuccessIsOver'
  <2> SUFFICES ASSUME NEW q \in Runners, where'[q] = "WRITE", verdict'[q] = "SUCCEEDED",
                      has[q] \notin outlived
               PROVE  tstatus'[has[q]] = "OVER"
    BY DEF SuccessIsOver
  <2>1. CASE q = r
    BY <2>1
  <2>2. CASE q # r
    <3>1. where[q] = "WRITE" /\ verdict[q] = "SUCCEEDED" /\ has[q] \in Tasks /\ q \in On(has[q])
      BY <2>2 DEF RunnersHaveTasks, On
    <3>2. has[q] # has[r]
      BY <1>2, <2>2, <3>1 DEF OneRunnerPerTask
    <3>3. QED
      BY <3>1, <3>2 DEF SuccessIsOver
  <2>3. QED
    BY <2>1, <2>2
<1>8. SucceededTaskIsOver'
  BY <1>3 DEF SucceededTaskIsOver, jobVars
<1>9. QED
  BY <1>4, <1>5, <1>6, <1>7, <1>8

\* Runners leave: those in S, and no other moves.  The job of a task they were on may be closed
\* or requeued with that, as a success when the task is over.
LEMMA CoveredLeave ==
  ASSUME TypeOK, CoveredOK, NEW S \in SUBSET Runners,
         \A r \in S : where'[r] = "IDLE",
         \A r \in Runners \ S : where'[r] = where[r] /\ has'[r] = has[r] /\ verdict'[r] = verdict[r],
         UNCHANGED <<tstatus, outlived>>,
         \A t \in Tasks : \/ conv'[t] = conv[t] /\ lease'[t] = lease[t]
                          \/ /\ t \notin outlived => \E r \in S : r \in On(t)
                             /\ conv'[t] = "SUCCEEDED" /\ t \notin outlived => tstatus[t] = "OVER"
  PROVE  CoveredOK'
<1> USE DEF CoveredOK
<1>1. \A t \in Tasks : On(t)' = On(t) \ S
  BY DEF On
<1>2. RunnersHaveTasks'
  BY DEF RunnersHaveTasks
<1>3. OneRunnerPerTask'
  BY <1>1 DEF OneRunnerPerTask
<1>4. ASSUME NEW t \in Tasks \ outlived, NEW r \in On(t)'
      PROVE  conv'[t] = conv[t] /\ lease'[t] = lease[t]
  BY <1>1, <1>4 DEF OneRunnerPerTask
<1>5. RunnerHoldsClaim'
  BY <1>1, <1>4 DEF RunnerHoldsClaim
<1>6. SuccessIsOver'
  BY DEF SuccessIsOver
<1>7. SucceededTaskIsOver'
  BY DEF SucceededTaskIsOver
<1>8. QED
  BY <1>2, <1>3, <1>5, <1>6, <1>7

\* An idle runner takes up a task: it is on it only when it has claimed it.
LEMMA CoveredByHint ==
  ASSUME TypeOK, CoveredOK, NEW r \in Runners, NEW t \in Tasks, Hands(r, t),
         UNCHANGED <<tstatus, jobVars, verdict, outlived>>
  PROVE  CoveredOK'
<1> USE DEF TypeOK, CoveredOK, Hands, jobVars
<1>1. \A u \in Tasks : On(u)' = On(u)
  BY DEF On
<1>2. RunnersHaveTasks' /\ SuccessIsOver'
  BY DEF RunnersHaveTasks, SuccessIsOver
<1>3. RunnerHoldsClaim' /\ OneRunnerPerTask' /\ SucceededTaskIsOver'
  BY <1>1 DEF RunnerHoldsClaim, OneRunnerPerTask, SucceededTaskIsOver
<1>4. QED
  BY <1>2, <1>3

\* The claiming UPDATE finds the job pending, hence nobody on it.
LEMMA CoveredByClaim ==
  ASSUME TypeOK, CoveredOK, NEW r \in Runners, Claim(r), conv[has[r]] = "PENDING"
  PROVE  CoveredOK'
<1> USE DEF TypeOK, CoveredOK
<1>1. PICK t \in Tasks : t = has[r]
  BY DEF Claim, RunnersHaveTasks
<1>2. /\ where' = [where EXCEPT ![r] = "CLAIMED"] /\ UNCHANGED <<has, verdict, tstatus, outlived>>
      /\ conv' = [conv EXCEPT ![t] = "CLAIMED"] /\ lease' = [lease EXCEPT ![t] = "LIVE"]
  BY <1>1 DEF Claim
<1>3. t \notin outlived => On(t) = {}
  BY <1>1 DEF RunnerHoldsClaim
<1>4. /\ \A u \in Tasks \ {t} : On(u)' = On(u)
      /\ On(t)' \subseteq On(t) \cup {r}
  BY <1>1, <1>2 DEF On
<1>5. RunnersHaveTasks' /\ SuccessIsOver'
  BY <1>2 DEF RunnersHaveTasks, SuccessIsOver, Claim
<1>6. RunnerHoldsClaim'
  BY <1>2, <1>4 DEF RunnerHoldsClaim
<1>7. OneRunnerPerTask'
  BY <1>2, <1>3, <1>4 DEF OneRunnerPerTask
<1>8. SucceededTaskIsOver'
  BY <1>2 DEF SucceededTaskIsOver
<1>9. QED
  BY <1>5, <1>6, <1>7, <1>8

LEMMA CoveredStep ==
  ASSUME TypeOK, DownIsIdle, CoveredOK, [Next]_vars
  PROVE  CoveredOK'
<1> USE DEF TypeOK, jobVars, runnerVars
<1>1. ASSUME NEW t \in Tasks, PostMessage(t)
      PROVE  CoveredOK'
  BY <1>1, CoveredWithoutRunner DEF PostMessage, CoveredOK, RunnerHoldsClaim
<1>2. ASSUME NEW t \in Tasks, Spawn(t)
      PROVE  CoveredOK'
  BY <1>2, CoveredWithoutRunner DEF Spawn, CoveredOK, RunnerHoldsClaim
<1>3. ASSUME NEW t \in Tasks, Dispatch(t)
      PROVE  CoveredOK'
  <2>1. CASE UNCHANGED runnerVars
    BY <1>3, <2>1, CoveredWithoutRunner DEF Dispatch, CoveredOK, RunnerHoldsClaim
  <2>2. CASE \E r \in Threads : Hands(r, t) /\ UNCHANGED verdict
    BY <1>3, <2>2, CoveredByHint DEF Dispatch, Runners
  <2>3. QED
    BY <1>3, <2>1, <2>2 DEF Dispatch
<1>4. ASSUME NEW t \in Tasks, Reclaim(t)
      PROVE  CoveredOK'
  <2>1. t \notin outlived => On(t) = {}
    BY <1>4 DEF Reclaim, Reclaimable, Expired, NotRunningHere, CoveredOK, RunnerHoldsClaim
  <2>2. QED
    BY <1>4, <2>1, CoveredWithoutRunner DEF Reclaim, CoveredOK, RunnerHoldsClaim
<1>5. ASSUME NEW t \in Tasks, LeaseLapses(t)
      PROVE  CoveredOK'
  <2>1. t \notin outlived' => \A r \in On(t) : r \in Threads
    BY <1>5 DEF LeaseLapses, On, Runners
  <2>2. outlived \subseteq outlived'
    BY <1>5 DEF LeaseLapses
  <2>3. QED
    BY <1>5, <2>1, <2>2, CoveredWithoutRunner DEF LeaseLapses, CoveredOK, RunnerHoldsClaim
<1>6. ASSUME NEW r \in Runners, TakeHint(r)
      PROVE  CoveredOK'
  BY <1>6, CoveredByHint DEF TakeHint
<1>7. ASSUME NEW r \in Runners, Claim(r)
      PROVE  CoveredOK'
  <2>1. CASE conv[has[r]] = "PENDING"
    BY <1>7, <2>1, CoveredByClaim
  <2>2. CASE conv[has[r]] # "PENDING"
    <3>1. Leaves(r) /\ UNCHANGED <<tstatus, outlived, conv, lease>>
      BY <1>7, <2>2 DEF Claim
    <3> DEFINE S == {r}
    <3>2. /\ S \in SUBSET Runners /\ \A q \in S : where'[q] = "IDLE"
          /\ \A q \in Runners \ S : where'[q] = where[q] /\ has'[q] = has[q] /\ verdict'[q] = verdict[q]
      BY <3>1 DEF Leaves
    <3> HIDE DEF S
    <3>3. QED
      BY <3>1, <3>2, CoveredLeave
  <2>3. QED
    BY <2>1, <2>2
<1>8. ASSUME NEW r \in Runners, BeginTurn(r) \/ EndTurn(r)
      PROVE  CoveredOK'
  BY <1>8, CoveredMovesOn DEF BeginTurn, EndTurn
<1>9. ASSUME NEW r \in Runners,
             TurnIsMissing(r) \/ InterruptTurn(r) \/ BreakTurn(r) \/ ReadStatus(r)
      PROVE  CoveredOK'
  <2>1. has[r] \in Tasks
    BY <1>9 DEF TurnIsMissing, InterruptTurn, BreakTurn, ReadStatus, CoveredOK, RunnersHaveTasks
  <2>2. PICK v : Writes(r, v) /\ v \in {"PENDING", "SUCCEEDED", "FAILED"}
                 /\ (v = "SUCCEEDED" => tstatus[has[r]] = "OVER" /\ UNCHANGED tstatus)
    BY <1>9 DEF TurnIsMissing, InterruptTurn, BreakTurn, ReadStatus, VerdictOn
  <2>3. /\ where' = [where EXCEPT ![r] = "WRITE"] /\ verdict'[r] = v
        /\ \A q \in Runners \ {r} : verdict'[q] = verdict[q]
    BY <2>2 DEF Writes
  <2>4. \A t \in Tasks \ {has[r]} : tstatus'[t] = tstatus[t]
    BY <1>9 DEF TurnIsMissing, InterruptTurn, BreakTurn, ReadStatus
  <2>5. where[r] \notin {"IDLE", "HINTED"} /\ UNCHANGED <<has, jobVars, outlived>>
    BY <1>9 DEF TurnIsMissing, InterruptTurn, BreakTurn, ReadStatus
  <2>6. QED
    BY <2>2, <2>3, <2>4, <2>5, CoveredMovesOn
<1>10. ASSUME NEW r \in Runners, WriteVerdict(r)
       PROVE  CoveredOK'
  <2>1. PICK t \in Tasks : t = has[r]
    BY <1>10 DEF WriteVerdict, CoveredOK, RunnersHaveTasks
  <2>2. r \in On(t) /\ (verdict[r] = "SUCCEEDED" /\ t \notin outlived => tstatus[t] = "OVER")
    BY <1>10, <2>1 DEF WriteVerdict, On, CoveredOK, SuccessIsOver
  <2>3. Leaves(r) /\ UNCHANGED <<tstatus, outlived>>
    BY <1>10 DEF WriteVerdict
  <2>4. \A u \in Tasks : \/ conv'[u] = conv[u] /\ lease'[u] = lease[u]
                         \/ u = t /\ conv'[u] = verdict[r]
    BY <1>10, <2>1 DEF WriteVerdict
  <2> DEFINE S == {r}
  <2>5. /\ S \in SUBSET Runners /\ r \in S /\ \A q \in S : where'[q] = "IDLE"
        /\ \A q \in Runners \ S : where'[q] = where[q] /\ has'[q] = has[q] /\ verdict'[q] = verdict[q]
    BY <2>3 DEF Leaves
  <2> HIDE DEF S
  <2>6. QED
    BY <2>2, <2>3, <2>4, <2>5, CoveredLeave
<1>11. ASSUME NEW w \in Workers, WorkerCrash(w)
       PROVE  CoveredOK'
  <2> DEFINE S == {w}
  <2>1. /\ S \in SUBSET Runners /\ \A q \in S : where'[q] = "IDLE"
        /\ \A q \in Runners \ S : where'[q] = where[q] /\ has'[q] = has[q] /\ verdict'[q] = verdict[q]
    BY <1>11 DEF WorkerCrash, Leaves, Runners
  <2> HIDE DEF S
  <2>2. QED
    BY <1>11, <2>1, CoveredLeave DEF WorkerCrash
<1>12. CASE ApiCrash
  <2>1. /\ Threads \in SUBSET Runners /\ \A q \in Threads : where'[q] = "IDLE"
        /\ \A q \in Runners \ Threads : where'[q] = where[q] /\ has'[q] = has[q] /\ verdict'[q] = verdict[q]
    BY <1>12 DEF ApiCrash, Runners
  <2>2. QED
    BY <1>12, <2>1, CoveredLeave DEF ApiCrash
<1>13. CASE ApiStart
  <2>1. \A t \in Tasks : \A r \in On(t) : r \notin Threads
    BY <1>13 DEF ApiStart, DownIsIdle, On
  <2>2. \A t \in Tasks \ outlived : \A r \in On(t) : conv'[t] = conv[t] /\ lease'[t] = lease[t]
    BY <1>13, <2>1 DEF ApiStart, Expired, CoveredOK, RunnerHoldsClaim
  <2>3. \A t \in Tasks : conv'[t] = "SUCCEEDED" => conv[t] = "SUCCEEDED"
    BY <1>13 DEF ApiStart
  <2>4. QED
    BY <1>13, <2>2, <2>3, CoveredWithoutRunner DEF ApiStart, CoveredOK, RunnerHoldsClaim
<1>14. CASE UNCHANGED vars
  BY <1>14, CoveredWithoutRunner DEF vars, CoveredOK, RunnerHoldsClaim
<1>15. QED
  BY <1>1, <1>2, <1>3, <1>4, <1>5, <1>6, <1>7, <1>8, <1>9, <1>10, <1>11, <1>12, <1>13, <1>14
  DEF Next, RunnerStep
-----------------------------------------------------------------------------
\* The invariant: a runner on a task is covered by the one claim of its job, and what it is about
\* to write is true of the task.
THEOREM WorkerInvariant == Spec => []IInv
<1>1. Init => IInv
  <2> SUFFICES ASSUME Init PROVE IInv
    OBVIOUS
  <2>1. TypeOK
    BY DEF Init, TypeOK
  <2>2. \A t \in Tasks : On(t) = {}
    BY DEF Init, On
  <2>3. RunnersHaveTasks /\ DownIsIdle /\ SuccessIsOver /\ SucceededTaskIsOver
    BY DEF Init, RunnersHaveTasks, DownIsIdle, SuccessIsOver, SucceededTaskIsOver
  <2>4. RunnerHoldsClaim /\ OneRunnerPerTask
    BY <2>2 DEF RunnerHoldsClaim, OneRunnerPerTask
  <2>5. QED
    BY <2>1, <2>3, <2>4 DEF IInv
<1>2. IInv /\ [Next]_vars => IInv'
  BY WorkerTypeStep, IdleStep, CoveredStep DEF IInv, CoveredOK
<1>3. QED
  BY <1>1, <1>2, PTL DEF Spec

\* Every reachable state of the jobs, the hints and the runners is well typed.
THEOREM WorkersWellTyped == Spec => []TypeOK
<1>1. IInv => TypeOK
  BY DEF IInv
<1>2. QED
  BY <1>1, WorkerInvariant, PTL

\* No two runners are in one turn, as long as no separate worker outlives its lease.
THEOREM TurnsDoNotOverlap == Spec => []OneRunnerPerTask
<1>1. IInv => OneRunnerPerTask
  BY DEF IInv
<1>2. QED
  BY <1>1, WorkerInvariant, PTL

\* A job that is closed as SUCCEEDED belongs to a task whose turn came to an end.
THEOREM SuccessMeansOver == Spec => []SucceededTaskIsOver
<1>1. IInv => SucceededTaskIsOver
  BY DEF IInv
<1>2. QED
  BY <1>1, WorkerInvariant, PTL

\* A closed job is never claimed, requeued or closed otherwise again: every UPDATE of the row is
\* guarded by PENDING or CLAIMED, even that of a runner whose claim another one took over.
THEOREM ClosedForGood == Spec => ClosedJobStaysClosed
<1> DEFINE Stays == \A t \in Tasks : conv[t] \in Decided => conv'[t] = conv[t]
<1>1. TypeOK /\ [Next]_vars => [Stays]_conv
  <2> SUFFICES ASSUME TypeOK, [Next]_vars, conv' # conv
               PROVE  Stays
    OBVIOUS
  <2> USE DEF TypeOK, Decided, jobVars
  <2>1. ASSUME NEW t \in Tasks, PostMessage(t) \/ Spawn(t) \/ Dispatch(t) \/ LeaseLapses(t)
        PROVE  Stays
    BY <2>1 DEF PostMessage, Spawn, Dispatch, LeaseLapses
  <2>2. CASE ApiStart \/ \E t \in Tasks : Reclaim(t)
    BY <2>2 DEF ApiStart, Reclaim, Reclaimable, Expired
  <2>3. ASSUME NEW r \in Runners, Claim(r) \/ WriteVerdict(r)
        PROVE  Stays
    BY <2>3 DEF Claim, WriteVerdict
  <2>4. QED
    BY <2>1, <2>2, <2>3
    DEF Next, RunnerStep, TakeHint, BeginTurn, TurnIsMissing, EndTurn, ReadStatus, InterruptTurn,
        BreakTurn, WorkerCrash, ApiCrash, vars
<1>2. QED
  BY <1>1, WorkersWellTyped, PTL DEF Spec, ClosedJobStaysClosed
-----------------------------------------------------------------------------
(***************************************************************************)
(* ConversationWorker implements TurnContract.                              *)
(***************************************************************************)

\* The values ConversationWorker substitutes for the variables of TurnContract.
Outcome == [t \in Tasks |-> CASE conv[t] = "NONE" -> "ABSENT"
                              [] conv[t] \in {"PENDING", "CLAIMED"} -> "OPEN"
                              [] OTHER -> conv[t]]
Who == [t \in Tasks |-> On(t)]
Over == {t \in Tasks : tstatus[t] = "OVER"}

\* What a reader of the job concludes, row by row.
LEMMA OutcomeOfRow ==
  ASSUME TypeOK
  PROVE  /\ \A t \in Tasks : Outcome[t] = "OPEN" <=> conv[t] \in {"PENDING", "CLAIMED"}
         /\ \A t \in Tasks : Outcome[t] = "ABSENT" <=> conv[t] = "NONE"
BY DEF Outcome, TypeOK, Decided

\* A step that moves no runner on or off a task, settles no job and ends no turn is hidden.
LEMMA TurnsStutter ==
  ASSUME TypeOK, UNCHANGED outlived, \A t \in Tasks : On(t)' = On(t), Over' = Over,
         \A t \in Tasks : \/ conv'[t] = conv[t]
                         \/ {conv[t], conv'[t]} \subseteq {"PENDING", "CLAIMED"}
  PROVE  UNCHANGED Turns!vars
<1>1. Outcome' = Outcome
  BY DEF Outcome
<1>2. Who' = Who
  BY DEF Who
<1>3. QED
  BY <1>1, <1>2 DEF Turns!vars, Outcome, Who, Over

\* The turn writes the status of its own task.
LEMMA TurnsProceed ==
  ASSUME TypeOK, NEW t \in Tasks, On(t) # {},
         UNCHANGED <<conv, outlived>>, \A u \in Tasks : On(u)' = On(u),
         NEW s \in {"RUNNING", "OVER", "FAILED"}, tstatus' = [tstatus EXCEPT ![t] = s]
  PROVE  Turns!Proceed(t)
<1>1. Outcome' = Outcome /\ Who' = Who
  BY DEF Outcome, Who
<1>2. Over' \in {Over \cup {t}, Over \ {t}}
  <2>1. CASE s = "OVER"
    BY <2>1 DEF TypeOK, Over
  <2>2. CASE s # "OVER"
    BY <2>2 DEF TypeOK, Over
  <2>3. QED
    BY <2>1, <2>2
<1>3. Who[t] # {}
  BY DEF Who
<1>4. QED
  BY <1>1, <1>2, <1>3 DEF Turns!Proceed, Outcome, Who, Over

\* Runners that leave a task, and no other runner moves.
LEMMA TurnsStop ==
  ASSUME TypeOK, NEW R \in SUBSET Runners, UNCHANGED <<tstatus, outlived>>,
         \A r \in R : where'[r] = "IDLE",
         \A r \in Runners \ R : where'[r] = where[r] /\ has'[r] = has[r],
         \A t \in Tasks : \/ conv'[t] = conv[t]
                         \/ {conv[t], conv'[t]} \subseteq {"PENDING", "CLAIMED"}
  PROVE  Turns!Stop(R)
<1>1. Outcome' = Outcome /\ Over' = Over
  BY DEF Outcome, Over
<1>2. \A t \in Tasks : On(t)' = On(t) \ R
  BY DEF On
<1>3. Who' = [t \in Tasks |-> Who[t] \ R]
  BY <1>2 DEF Who
<1>4. QED
  BY <1>1, <1>3 DEF Turns!Stop, Outcome, Who, Over

\* The claiming UPDATE starts a turn, and nobody has one of that task unless one was overlong.
LEMMA TurnsStart ==
  ASSUME IInv, NEW r \in Runners, Claim(r), conv[has[r]] = "PENDING"
  PROVE  Turns!Start(has[r], r) /\ has[r] \in Tasks
<1> USE DEF IInv
<1>1. PICK t \in Tasks : t = has[r]
  BY DEF Claim, RunnersHaveTasks
<1>2. /\ where' = [where EXCEPT ![r] = "CLAIMED"] /\ UNCHANGED <<has, tstatus, outlived>>
      /\ where[r] = "HINTED" /\ conv' = [conv EXCEPT ![t] = "CLAIMED"]
  BY <1>1 DEF Claim
<1>3. Outcome' = Outcome /\ Over' = Over
  BY <1>1, <1>2 DEF TypeOK, Outcome, Over
<1>4. t \notin outlived => On(t) = {}
  BY <1>1 DEF RunnerHoldsClaim
<1>5. /\ \A u \in Tasks \ {t} : On(u)' = On(u)
      /\ On(t)' = On(t) \cup {r}
  BY <1>1, <1>2 DEF TypeOK, On
<1>6. Who' = [Who EXCEPT ![t] = @ \cup {r}]
  BY <1>5 DEF Who
<1>7. Outcome[t] = "OPEN" /\ (Who[t] = {} \/ t \in outlived)
  BY <1>1, <1>4, OutcomeOfRow DEF Who
<1>8. QED
  BY <1>1, <1>2, <1>3, <1>6, <1>7 DEF Turns!Start, Outcome, Who, Over

\* The UPDATE that closes a claimed job is written by a runner that has its turn, and says
\* SUCCEEDED of a turn that came to an end.
LEMMA TurnsDecide ==
  ASSUME IInv, NEW r \in Runners, where[r] = "WRITE", Leaves(r), conv[has[r]] = "CLAIMED",
         verdict[r] \in Decided, conv' = [conv EXCEPT ![has[r]] = verdict[r]],
         UNCHANGED <<tstatus, outlived>>
  PROVE  Turns!Decide(has[r], r) /\ has[r] \in Tasks
<1> USE DEF IInv
<1>1. PICK t \in Tasks : t = has[r]
  BY DEF RunnersHaveTasks
<1>2. Over' = Over
  BY DEF Over
<1>3. Outcome' = [Outcome EXCEPT ![t] = verdict[r]]
  BY <1>1 DEF TypeOK, Outcome, Decided
<1>4. r \in On(t) /\ On(t)' = On(t) \ {r} /\ \A u \in Tasks \ {t} : On(u)' = On(u)
  BY <1>1, NoTaskIsNone DEF TypeOK, On, Leaves
<1>5. Who' = [Who EXCEPT ![t] = @ \ {r}] /\ r \in Who[t]
  BY <1>4 DEF Who
<1>6. verdict[r] = "SUCCEEDED" => t \in Over \cup outlived
  BY <1>1 DEF SuccessIsOver, Over
<1>7. Outcome[t] = "OPEN"
  BY <1>1, OutcomeOfRow
<1>8. verdict[r] \in Turns!Decided
  BY DEF Decided, Turns!Decided
<1>9. QED
  BY <1>1, <1>2, <1>3, <1>5, <1>6, <1>7, <1>8 DEF Turns!Decide, Outcome, Who, Over

LEMMA TurnsStep ==
  ASSUME IInv, [Next]_vars
  PROVE  [Turns!Next]_(Turns!vars)
<1> USE DEF IInv, jobVars, runnerVars
<1>1. ASSUME NEW t \in Tasks, PostMessage(t)
      PROVE  UNCHANGED Turns!vars
  <2>1. Over' = Over /\ \A u \in Tasks : On(u)' = On(u)
    BY <1>1 DEF PostMessage, TypeOK, Over, On
  <2>2. QED
    BY <1>1, <2>1, TurnsStutter DEF PostMessage
<1>2. ASSUME NEW t \in Tasks, Spawn(t)
      PROVE  UNCHANGED Turns!vars \/ Turns!Open(t)
  <2>1. Over' = Over /\ Who' = Who /\ UNCHANGED outlived
    BY <1>2 DEF Spawn, Over, Who, On
  <2>2. CASE conv[t] = "NONE"
    <3>1. Outcome[t] = "ABSENT" /\ Outcome' = [Outcome EXCEPT ![t] = "OPEN"]
      BY <1>2, <2>2 DEF Spawn, TypeOK, Outcome, Decided
    <3>2. QED
      BY <2>1, <3>1 DEF Turns!Open, Outcome, Who, Over
  <2>3. CASE conv[t] # "NONE"
    <3>1. conv' = conv
      BY <1>2, <2>3 DEF Spawn, TypeOK
    <3>2. QED
      BY <2>1, <3>1 DEF Turns!vars, Outcome, Who, Over
  <2>4. QED
    BY <2>2, <2>3
<1>3. ASSUME NEW t \in Tasks, Dispatch(t)
      PROVE  UNCHANGED Turns!vars
  <2>1. Over' = Over /\ \A u \in Tasks : On(u)' = On(u)
    BY <1>3 DEF Dispatch, Hands, TypeOK, Over, On
  <2>2. QED
    BY <1>3, <2>1, TurnsStutter DEF Dispatch
<1>4. ASSUME NEW t \in Tasks, Reclaim(t)
      PROVE  UNCHANGED Turns!vars
  <2>1. Over' = Over /\ \A u \in Tasks : On(u)' = On(u)
    BY <1>4 DEF Reclaim, Over, On
  <2>2. QED
    BY <1>4, <2>1, TurnsStutter DEF Reclaim, Reclaimable, Expired, TypeOK
<1>5. ASSUME NEW t \in Tasks, LeaseLapses(t)
      PROVE  UNCHANGED Turns!vars \/ Turns!Outlast(t)
  <2>1. Over' = Over /\ Who' = Who /\ Outcome' = Outcome
    BY <1>5 DEF LeaseLapses, Over, Who, On, Outcome
  <2>2. \/ outlived' = outlived
        \/ outlived' = outlived \cup {t} /\ Who[t] # {}
    BY <1>5 DEF LeaseLapses, Who
  <2>3. QED
    BY <2>1, <2>2 DEF Turns!Outlast, Turns!vars, Outcome, Who, Over
<1>6. ASSUME NEW r \in Runners, TakeHint(r)
      PROVE  UNCHANGED Turns!vars
  <2>1. Over' = Over /\ \A u \in Tasks : On(u)' = On(u)
    BY <1>6 DEF TakeHint, Hands, TypeOK, Over, On
  <2>2. QED
    BY <1>6, <2>1, TurnsStutter DEF TakeHint
\* Runners in R leave, and the rows of conv stay open or stay as they were.
<1>7. ASSUME NEW R \in SUBSET Runners, Turns!Stop(R)
      PROVE  Turns!Next
  BY <1>7 DEF Turns!Next
<1>8. ASSUME NEW r \in Runners, Leaves(r), UNCHANGED <<tstatus, outlived>>,
             \A t \in Tasks : \/ conv'[t] = conv[t]
                             \/ {conv[t], conv'[t]} \subseteq {"PENDING", "CLAIMED"}
      PROVE  Turns!Next
  <2> DEFINE R == {r}
  <2>1. /\ R \in SUBSET Runners /\ \A q \in R : where'[q] = "IDLE"
        /\ \A q \in Runners \ R : where'[q] = where[q] /\ has'[q] = has[q]
    BY <1>8 DEF Leaves, TypeOK
  <2> HIDE DEF R
  <2>2. QED
    BY <1>7, <1>8, <2>1, TurnsStop
<1>9. ASSUME NEW r \in Runners, Claim(r)
      PROVE  Turns!Next
  <2>1. CASE conv[has[r]] = "PENDING"
    BY <1>9, <2>1, TurnsStart DEF Turns!Next
  <2>2. CASE conv[has[r]] # "PENDING"
    BY <1>8, <1>9, <2>2 DEF Claim
  <2>3. QED
    BY <2>1, <2>2
<1>10. ASSUME NEW r \in Runners,
              BeginTurn(r) \/ EndTurn(r) \/ TurnIsMissing(r) \/ InterruptTurn(r) \/ BreakTurn(r)
                \/ ReadStatus(r)
       PROVE  UNCHANGED Turns!vars \/ Turns!Next
  <2>1. has[r] \in Tasks /\ r \in On(has[r])
    BY <1>10 DEF RunnersHaveTasks, On, BeginTurn, EndTurn, TurnIsMissing, InterruptTurn, BreakTurn,
                 ReadStatus
  <2>2. \A t \in Tasks : On(t)' = On(t)
    BY <1>10 DEF TypeOK, On, BeginTurn, EndTurn, TurnIsMissing, InterruptTurn, BreakTurn,
                 ReadStatus, Writes
  <2>3. UNCHANGED <<conv, outlived>>
    BY <1>10 DEF BeginTurn, EndTurn, TurnIsMissing, InterruptTurn, BreakTurn, ReadStatus
  <2>4. \/ UNCHANGED tstatus
        \/ \E s \in {"RUNNING", "OVER", "FAILED"} : tstatus' = [tstatus EXCEPT ![has[r]] = s]
    BY <1>10 DEF BeginTurn, EndTurn, TurnIsMissing, InterruptTurn, BreakTurn, ReadStatus
  <2>5. CASE UNCHANGED tstatus
    BY <2>2, <2>3, <2>5, TurnsStutter DEF Over
  <2>6. ASSUME NEW s \in {"RUNNING", "OVER", "FAILED"}, tstatus' = [tstatus EXCEPT ![has[r]] = s]
        PROVE  Turns!Next
    <3>1. PICK t \in Tasks : t = has[r]
      BY <2>1
    <3>2. Turns!Proceed(t)
      BY <2>1, <2>2, <2>3, <2>6, <3>1, TurnsProceed
    <3>3. QED
      BY <3>2 DEF Turns!Next
  <2>7. QED
    BY <2>4, <2>5, <2>6
<1>11. ASSUME NEW r \in Runners, WriteVerdict(r)
       PROVE  Turns!Next
  <2>1. where[r] = "WRITE" /\ Leaves(r) /\ UNCHANGED <<tstatus, outlived>>
    BY <1>11 DEF WriteVerdict
  <2>2. has[r] \in Tasks /\ verdict[r] \in {"PENDING"} \cup Decided
    BY <2>1 DEF RunnersHaveTasks, TypeOK
  <2>3. \/ UNCHANGED conv
        \/ conv[has[r]] = "CLAIMED" /\ conv' = [conv EXCEPT ![has[r]] = verdict[r]]
    BY <1>11 DEF WriteVerdict
  <2>4. CASE UNCHANGED conv
    BY <1>8, <2>1, <2>4
  <2>5. CASE conv[has[r]] = "CLAIMED" /\ verdict[r] = "PENDING"
             /\ conv' = [conv EXCEPT ![has[r]] = verdict[r]]
    BY <1>8, <2>1, <2>2, <2>5 DEF TypeOK
  <2>6. CASE conv[has[r]] = "CLAIMED" /\ verdict[r] \in Decided
             /\ conv' = [conv EXCEPT ![has[r]] = verdict[r]]
    <3>1. Turns!Decide(has[r], r)
      BY <2>1, <2>6, TurnsDecide
    <3>2. QED
      BY <2>2, <3>1 DEF Turns!Next
  <2>7. QED
    BY <2>2, <2>3, <2>4, <2>5, <2>6
<1>12. ASSUME NEW w \in Workers, WorkerCrash(w)
       PROVE  Turns!Next
  BY <1>8, <1>12 DEF WorkerCrash, Runners
<1>13. CASE ApiCrash
  <2>1. /\ Threads \in SUBSET Runners /\ \A q \in Threads : where'[q] = "IDLE"
        /\ \A q \in Runners \ Threads : where'[q] = where[q] /\ has'[q] = has[q]
    BY <1>13 DEF ApiCrash, Runners
  <2>2. Turns!Stop(Threads)
    BY <1>13, <2>1, TurnsStop DEF ApiCrash
  <2>3. QED
    BY <1>7, <2>1, <2>2
<1>14. CASE ApiStart
  <2>1. Over' = Over /\ \A u \in Tasks : On(u)' = On(u)
    BY <1>14 DEF ApiStart, Over, On
  <2>2. \A t \in Tasks : \/ conv'[t] = conv[t]
                         \/ {conv[t], conv'[t]} \subseteq {"PENDING", "CLAIMED"}
    BY <1>14 DEF ApiStart, Expired
  <2>3. QED
    BY <1>14, <2>1, <2>2, TurnsStutter DEF ApiStart
<1>15. CASE UNCHANGED vars
  <2>1. Over' = Over /\ \A u \in Tasks : On(u)' = On(u)
    BY <1>15 DEF vars, Over, On
  <2>2. QED
    BY <1>15, <2>1, TurnsStutter DEF vars
<1> HIDE DEF IInv, jobVars, runnerVars
<1>16. ASSUME NEW t \in Tasks, Turns!Open(t) \/ Turns!Outlast(t)
       PROVE  Turns!Next
  BY <1>16 DEF Turns!Next
<1>17. ASSUME NEW t \in Tasks,
              PostMessage(t) \/ Spawn(t) \/ Dispatch(t) \/ Reclaim(t) \/ LeaseLapses(t)
       PROVE  UNCHANGED Turns!vars \/ Turns!Next
  BY <1>1, <1>2, <1>3, <1>4, <1>5, <1>16, <1>17
<1>18. ASSUME NEW r \in Runners, TakeHint(r) \/ RunnerStep(r) \/ InterruptTurn(r) \/ BreakTurn(r)
       PROVE  UNCHANGED Turns!vars \/ Turns!Next
  BY <1>6, <1>9, <1>10, <1>11, <1>18 DEF RunnerStep
<1>19. QED
  BY <1>12, <1>13, <1>14, <1>15, <1>17, <1>18 DEF Next

\* The runners keep the promise of TurnContract: a job is decided once, by a runner that has its
\* turn, a turn is started only while its job is open and nobody has it, whatever becomes of
\* hints, claims and processes.
THEOREM RunnersImplementTurns == Spec => ImplementsTurns
<1>1. Init => Turns!Init
  <2> SUFFICES ASSUME Init PROVE Turns!Init
    OBVIOUS
  <2>1. Outcome = [t \in Tasks |-> "ABSENT"] /\ Over = {}
    BY DEF Init, Outcome, Over
  <2>2. Who = [t \in Tasks |-> {}]
    BY DEF Init, Who, On
  <2>3. QED
    BY <2>1, <2>2 DEF Init, Turns!Init, Outcome, Who, Over
<1>2. IInv /\ [Next]_vars => [Turns!Next]_(Turns!vars)
  BY TurnsStep
<1>3. QED
  BY <1>1, <1>2, WorkerInvariant, PTL DEF Spec, ImplementsTurns, Turns!Spec
=============================================================================
