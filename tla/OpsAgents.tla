------------------------------ MODULE OpsAgents ------------------------------
(***************************************************************************)
(* The agents of the Operations Center (ops_runtime.py): the read-only     *)
(* assignments of each incident, the monitor tick of main.py that resumes  *)
(* and dispatches them, and the supervisor's dispatch requests.            *)
(*                                                                         *)
(* The tick is one thread and a request is another.  Each runs assignments *)
(* one after the other on its own connection.  What a run returns is       *)
(* written when the run ends and committed when the next one starts, or at *)
(* the end: until then it is the runner's outcome, which only it can see.  *)
(* What the code does between two runs without waiting is one action or    *)
(* two.  A start, which reads a row and then updates it, is one.           *)
(***************************************************************************)
EXTENDS Naturals, FiniteSets, Sequences, Functions

CONSTANTS TriageIncidents,     \* rows of ops_incidents, by severity
          RoleOrder,           \* LEAD, SECURITY, DIAGNOSTIC
          Requests,            \* threads that serve dispatch requests
          MaxConcurrency,      \* settings.ops_agent_max_concurrency
          DailyRunLimit,       \* settings.ops_agent_daily_run_limit
          FailureThreshold,    \* settings.ops_agent_failure_threshold
          ResumeLimit,         \* assignments resumed in a tick, 5
          DispatchLimit,       \* incidents dispatched in a tick, 5
          MaxDeaths            \* times the server process dies

Tick == "tick"

Roles == Range(RoleOrder)

ASSUME AgentsAssumption ==
  /\ TriageIncidents \subseteq Nat \ {0}
  /\ IsFiniteSet(TriageIncidents)
  /\ RoleOrder \in Seq(STRING)
  /\ "LEAD" \in Roles /\ "SYNTHESIS" \notin Roles
  /\ IsInjective(RoleOrder)
  /\ IsFiniteSet(Requests) /\ Tick \notin Requests
  /\ MaxConcurrency \in Nat
  /\ DailyRunLimit \in Nat
  /\ FailureThreshold \in Nat
  /\ ResumeLimit \in Nat
  /\ DispatchLimit \in Nat
  /\ MaxDeaths \in Nat

Works == Roles \cup {"SYNTHESIS"}

\* Two rows for a role and one synthesis for each incident: by AttemptsBounded no
\* more are ever needed.
Assignments == 1 .. Cardinality(TriageIncidents) * (2 * Len(RoleOrder) + 1)

Runners == Requests \cup {Tick}

VARIABLES assignment,   \* rows of ops_agent_assignments
          runner,       \* what the tick and each request are doing
          triage,       \* status of the incident; OTHER when no tick dispatches it
          triaged,      \* incidents with the event AGENT_TRIAGE_COMPLETED
          reports,      \* REPORT messages: the incident and the work
          usage,        \* rows of ops_agent_usage made today
          failures,     \* those FAILED within the cooldown
          deaths        \* times the server process has died

agentsVars == <<assignment, runner, triage, triaged, reports, usage, failures, deaths>>

NoAssignment == [incident |-> 0, work |-> "NONE", status |-> "NONE", attempts |-> 0,
                 lapsed |-> FALSE]

\* rest: the assignments still to run, oldest first.  incident: the one being
\* dispatched, 0 while the tick resumes.  todo: the incidents the tick dispatches
\* next, most severe first.
Idle == [pc |-> "idle", row |-> 0, outcome |-> "NONE", rest |-> {}, incident |-> 0,
         todo |-> {}]

Table == [Assignments -> [incident : TriageIncidents \cup {0}, work : Works \cup {"NONE"},
                          status : {"NONE", "PENDING", "ACTIVE", "COMPLETED", "CANCELLED"},
                          attempts : Nat, lapsed : BOOLEAN]]

AgentsTypeOK ==
  /\ assignment \in Table
  /\ runner \in
       [Runners -> [pc : {"idle", "next", "running", "choose", "tail"},
                    row : Assignments \cup {0},
                    outcome : {"NONE", "COMPLETED", "CANCELLED"},
                    rest : SUBSET Assignments, incident : TriageIncidents \cup {0},
                    todo : SUBSET TriageIncidents]]
  /\ triage \in [TriageIncidents -> {"OPEN", "INVESTIGATING", "OTHER"}]
  /\ triaged \subseteq TriageIncidents
  /\ reports \subseteq TriageIncidents \X Works
  /\ usage \in Nat
  /\ failures \in Nat
  /\ deaths \in 0 .. MaxDeaths

AgentsInit ==
  /\ assignment = [r \in Assignments |-> NoAssignment]
  /\ runner = [a \in Runners |-> Idle]
  /\ triage \in [TriageIncidents -> {"OPEN", "OTHER"}]
  /\ triaged = {}
  /\ reports = {}
  /\ usage = 0
  /\ failures = 0
  /\ deaths = 0

(***************************************************************************)
(* What a runner sees: the tables and its own outcome.                     *)
(***************************************************************************)
Outcome(a) == runner[a].outcome

Seen(a) == IF Outcome(a) = "NONE" THEN assignment
           ELSE [assignment EXCEPT ![runner[a].row].status = Outcome(a)]

SeenUsage(a) == IF Outcome(a) = "NONE" THEN usage ELSE usage + 1

SeenFailures(a) == IF Outcome(a) = "CANCELLED" THEN failures + 1 ELSE failures

SeenReports(a) ==
  IF Outcome(a) # "COMPLETED" THEN reports
  ELSE LET row == assignment[runner[a].row]
       IN reports \cup {<<row.incident, row.work>>}

Commit(a, table) ==
  /\ assignment' = table
  /\ usage' = SeenUsage(a)
  /\ failures' = SeenFailures(a)
  /\ reports' = SeenReports(a)

CapacityAvailable(table) ==
  Cardinality({r \in Assignments : table[r].status = "ACTIVE"}) < MaxConcurrency

CircuitOpen(n) == n >= FailureThreshold

MayRunUncounted(a) == ~CircuitOpen(SeenFailures(a))

\* The budget counts the runs that have ended.  Its limits of cost are of the same
\* kind.
MayRun(a) == SeenUsage(a) < DailyRunLimit /\ ~CircuitOpen(SeenFailures(a))

RowsOf(table, i) == {r \in Assignments : table[r].incident = i}

RoleOf(row) == IF row.work = "SYNTHESIS" THEN "LEAD" ELSE row.work

(***************************************************************************)
(* assign_default_roles: a role that has no row at work or completed gets  *)
(* one, and has two at most.                                               *)
(***************************************************************************)
NeedsRow(table, i, role) ==
  LET mine == {r \in RowsOf(table, i) : RoleOf(table[r]) = role} IN
  /\ \A r \in mine : table[r].status = "CANCELLED"
  /\ Cardinality(mine) < 2

LastId(table) == Cardinality({r \in Assignments : table[r].status # "NONE"})

PendingUnderAnotherName(i, work) ==
  [incident |-> i, work |-> work, status |-> "QUEUED", attempts |-> 0, lapsed |-> FALSE]

Pending(i, work) == [incident |-> i, work |-> work, status |-> "PENDING",
                     attempts |-> 0, lapsed |-> FALSE]

\* Places in the order of the roles.
NewRoles(table, i) == {k \in DOMAIN RoleOrder : NeedsRow(table, i, RoleOrder[k])}

\* The row of a new role follows those in use and those of the roles before it.
IsNewRow(last, new, k, r) == k \in new /\ r = last + Cardinality({j \in new : j <= k})

NewIds(table, i) ==
  LET new == NewRoles(table, i)
      last == LastId(table)
  IN {r \in Assignments : \E k \in new : IsNewRow(last, new, k, r)}

AssignDefaultRoles(table, i) ==
  LET new == NewRoles(table, i)
      last == LastId(table)
  IN [r \in Assignments |->
        IF \E k \in new : IsNewRow(last, new, k, r)
        THEN Pending(i, RoleOrder[CHOOSE k \in new : IsNewRow(last, new, k, r)])
        ELSE table[r]]

(***************************************************************************)
(* run_assignment.                                                         *)
(***************************************************************************)
Started(table, r) ==
  [table EXCEPT ![r].status = "ACTIVE", ![r].attempts = @ + 1, ![r].lapsed = FALSE]

Running(a, r, rest) ==
  [runner[a] EXCEPT !.pc = "running", !.row = r, !.outcome = "NONE", !.rest = rest]

\* The agent answers in the form asked for, or fails, or exceeds its time.
RunEnds(a, outcome) ==
  /\ runner[a].pc = "running"
  /\ runner' = [runner EXCEPT ![a].pc = "next", ![a].outcome = outcome]
  /\ UNCHANGED <<assignment, triage, triaged, reports, usage, failures, deaths>>

IsFirst(x, set) == x \in set /\ \A y \in set : x <= y

StartNext(a, r) ==
  /\ runner[a].pc = "next"
  /\ IsFirst(r, runner[a].rest)
  /\ CapacityAvailable(Seen(a))
  /\ Seen(a)[r].status = "PENDING"
  /\ MayRun(a)
  /\ Commit(a, Started(Seen(a), r))
  /\ runner' = [runner EXCEPT ![a] = Running(a, r, runner[a].rest \ {r})]
  /\ UNCHANGED <<triage, triaged, deaths>>

\* Another runner has taken the row.  The ValueError is not among the exceptions the
\* callers expect: the tick or the request ends, and the outcome of the run before
\* is rolled back.
AlreadyProcessed(a, r) ==
  /\ runner[a].pc = "next"
  /\ IsFirst(r, runner[a].rest)
  /\ CapacityAvailable(Seen(a))
  /\ Seen(a)[r].status # "PENDING"
  /\ runner' = [runner EXCEPT ![a] = Idle]
  /\ UNCHANGED <<assignment, triage, triaged, reports, usage, failures, deaths>>

\* The incidents a tick dispatches: nothing under way, and no triage yet.
Dispatchable(table) ==
  {i \in TriageIncidents :
     /\ triage[i] \in {"OPEN", "INVESTIGATING"}
     /\ \A r \in RowsOf(table, i) : table[r].status \notin {"PENDING", "ACTIVE"}
     /\ i \notin triaged}

First(n, set) == {x \in set : Cardinality({y \in set : y < x}) < n}

\* Nothing is left to run, or nothing may run now.  A dispatch goes on to the
\* synthesis, a tick that was resuming to the incidents it dispatches.
StopRuns(a) ==
  /\ runner[a].pc = "next"
  /\ \/ runner[a].rest = {}
     \/ ~CapacityAvailable(Seen(a))
     \/ /\ ~MayRun(a)
        /\ \E r \in runner[a].rest :
             IsFirst(r, runner[a].rest) /\ Seen(a)[r].status = "PENDING"
  /\ IF runner[a].incident # 0
     THEN runner' = [runner EXCEPT ![a].pc = "tail"]
     ELSE LET todo == IF CapacityAvailable(Seen(a))
                      THEN First(DispatchLimit, Dispatchable(Seen(a))) ELSE {}
          IN runner' = [runner EXCEPT ![a].pc = "choose", ![a].todo = todo]
  /\ UNCHANGED <<assignment, triage, triaged, reports, usage, failures, deaths>>

(***************************************************************************)
(* dispatch_incident.                                                      *)
(***************************************************************************)
DispatchIncident(a, i, todo) ==
  LET table == AssignDefaultRoles(Seen(a), i)
      ids == NewIds(Seen(a), i)
      me == [runner[a] EXCEPT !.incident = i, !.todo = todo] IN
  /\ \/ /\ MayRun(a)
        /\ CapacityAvailable(Seen(a))
        /\ \E r \in ids :
             /\ r = LastId(Seen(a)) + 1
             /\ Commit(a, Started(table, r))
             /\ runner' = [runner EXCEPT ![a] =
                             [me EXCEPT !.pc = "running", !.row = r, !.outcome = "NONE",
                                        !.rest = ids \ {r}]]
     \/ /\ ~MayRun(a) \/ ~CapacityAvailable(Seen(a)) \/ ids = {}
        /\ Commit(a, table)
        /\ runner' = [runner EXCEPT ![a] =
                        [me EXCEPT !.pc = "tail", !.outcome = "NONE", !.rest = {}]]
  /\ UNCHANGED <<triage, triaged, deaths>>

CompletedRoles(table, i) ==
  {RoleOf(table[r]) : r \in {x \in RowsOf(table, i) : table[x].status = "COMPLETED"}}

SynthesisIs(table, i, statuses) ==
  \E r \in RowsOf(table, i) : table[r].work = "SYNTHESIS" /\ table[r].status \in statuses

NeedsSynthesis(table, i) ==
  /\ Roles \subseteq CompletedRoles(table, i)
  /\ \A r \in RowsOf(table, i) : table[r].work # "SYNTHESIS"
  /\ CapacityAvailable(table)

RolesComplete(table, i) == Roles \subseteq CompletedRoles(table, i)

\* finalize_agent_triage
TriageComplete(table, i) ==
  /\ Roles \subseteq CompletedRoles(table, i)
  /\ SynthesisIs(table, i, {"COMPLETED"})

Finalize(table, set) ==
  LET done == {i \in set : TriageComplete(table, i) /\ i \notin triaged} IN
  /\ triaged' = triaged \cup done
  /\ triage' = [i \in TriageIncidents |->
                  IF i \in done /\ triage[i] = "OPEN" THEN "INVESTIGATING" ELSE triage[i]]

Returned(a) == IF a = Tick THEN [Idle EXCEPT !.pc = "choose", !.todo = runner[a].todo]
                           ELSE Idle

\* When the synthesis may not run now its row waits for a tick to resume it, and the
\* dispatch ends without looking at the triage.
Synthesize(a) ==
  LET i == runner[a].incident IN
  /\ runner[a].pc = "tail"
  /\ NeedsSynthesis(Seen(a), i)
  /\ \E r \in Assignments :
       LET table == [Seen(a) EXCEPT ![r] = Pending(i, "SYNTHESIS")] IN
       /\ r = LastId(Seen(a)) + 1
       /\ IF MayRun(a)
          THEN /\ Commit(a, Started(table, r))
               /\ runner' = [runner EXCEPT ![a] = Running(a, r, {})]
          ELSE /\ Commit(a, table)
               /\ runner' = [runner EXCEPT ![a] = Returned(a)]
  /\ UNCHANGED <<triage, triaged, deaths>>

EndDispatch(a) ==
  /\ runner[a].pc = "tail"
  /\ ~NeedsSynthesis(Seen(a), runner[a].incident)
  /\ Finalize(Seen(a), {runner[a].incident})
  /\ Commit(a, Seen(a))
  /\ runner' = [runner EXCEPT ![a] = Returned(a)]
  /\ UNCHANGED deaths

DispatchRequest(a, i) ==
  /\ runner[a] = Idle
  /\ DispatchIncident(a, i, {})

(***************************************************************************)
(* The tick.                                                               *)
(***************************************************************************)
RecoveredForEver(row) ==
  IF row.status = "ACTIVE" /\ row.lapsed
  THEN [row EXCEPT !.status = "PENDING", !.lapsed = FALSE] ELSE row

RecoveredWhenSpent(row) ==
  IF row.status = "ACTIVE" /\ row.lapsed /\ row.attempts >= 2
  THEN [row EXCEPT !.status = "CANCELLED", !.lapsed = FALSE] ELSE row

Recovered(row) ==
  IF row.status = "ACTIVE" /\ row.lapsed
  THEN [row EXCEPT !.status = IF row.attempts >= 2 THEN "CANCELLED" ELSE "PENDING",
                   !.lapsed = FALSE]
  ELSE row

RecoverExpiredAssignments == [r \in Assignments |-> Recovered(assignment[r])]

Waiting(table) == {r \in Assignments : table[r].status = "PENDING"}

TickStarts ==
  /\ runner[Tick] = Idle
  /\ assignment' = RecoverExpiredAssignments
  /\ Finalize(RecoverExpiredAssignments, {i \in TriageIncidents : triage[i] = "OPEN"})
  /\ runner' = [runner EXCEPT ![Tick] =
                  IF CircuitOpen(failures) THEN Idle
                  ELSE [Idle EXCEPT !.pc = "next",
                          !.rest = First(ResumeLimit, Waiting(RecoverExpiredAssignments))]]
  /\ UNCHANGED <<reports, usage, failures, deaths>>

TickDispatches ==
  /\ runner[Tick].pc = "choose"
  /\ CapacityAvailable(Seen(Tick))
  /\ \E i \in runner[Tick].todo :
       /\ IsFirst(i, runner[Tick].todo)
       /\ DispatchIncident(Tick, i, runner[Tick].todo \ {i})

TickEnds ==
  /\ runner[Tick].pc = "choose"
  /\ runner[Tick].todo = {} \/ ~CapacityAvailable(Seen(Tick))
  /\ Commit(Tick, Seen(Tick))
  /\ runner' = [runner EXCEPT ![Tick] = Idle]
  /\ UNCHANGED <<triage, triaged, deaths>>

(***************************************************************************)
(* Time, the server's death, and other hands on the incident.              *)
(***************************************************************************)
\* A lease is half a minute longer than a run may take.
LeaseExpires(r) ==
  /\ assignment[r].status = "ACTIVE"
  /\ ~assignment[r].lapsed
  /\ \A a \in Runners : runner[a].row # r
  /\ assignment' = [assignment EXCEPT ![r].lapsed = TRUE]
  /\ UNCHANGED <<runner, triage, triaged, reports, usage, failures, deaths>>

NewDay ==
  /\ usage > 0
  /\ usage' = 0
  /\ UNCHANGED <<assignment, runner, triage, triaged, reports, failures, deaths>>

Cooldown ==
  /\ failures > 0
  /\ failures' = failures - 1
  /\ UNCHANGED <<assignment, runner, triage, triaged, reports, usage, deaths>>

ServerDies ==
  /\ deaths < MaxDeaths
  /\ deaths' = deaths + 1
  /\ \E a \in Runners : runner[a] # Idle
  /\ runner' = [a \in Runners |-> Idle]
  /\ UNCHANGED <<assignment, triage, triaged, reports, usage, failures>>

StatusChanges(i, s) ==
  /\ triage[i] # s
  /\ triage' = [triage EXCEPT ![i] = s]
  /\ UNCHANGED <<assignment, runner, triaged, reports, usage, failures, deaths>>

RunnerStep(a) ==
  \/ \E outcome \in {"COMPLETED", "CANCELLED"} : RunEnds(a, outcome)
  \/ \E r \in runner[a].rest : StartNext(a, r) \/ AlreadyProcessed(a, r)
  \/ StopRuns(a)
  \/ Synthesize(a)
  \/ EndDispatch(a)

TickStep == TickStarts \/ TickDispatches \/ TickEnds \/ RunnerStep(Tick)

AgentsNext ==
  \/ TickStep
  \/ \E a \in Requests :
       \/ \E i \in TriageIncidents : DispatchRequest(a, i)
       \/ RunnerStep(a)
  \/ \E r \in Assignments : LeaseExpires(r)
  \/ NewDay
  \/ Cooldown
  \/ ServerDies
  \/ \E i \in TriageIncidents, s \in {"OPEN", "INVESTIGATING", "OTHER"} : StatusChanges(i, s)

\* The monitor loop ticks every minute and survives what a tick raises; a run has a
\* timeout; clocks go on.  Nothing makes a supervisor ask for a dispatch.
AgentsFairness ==
  /\ WF_agentsVars(TickStep)
  /\ \A a \in Requests : WF_agentsVars(RunnerStep(a))
  /\ WF_agentsVars(\E r \in Assignments : LeaseExpires(r))
  /\ WF_agentsVars(NewDay)
  /\ WF_agentsVars(Cooldown)

AgentsSpec == AgentsInit /\ [][AgentsNext]_agentsVars /\ AgentsFairness

(***************************************************************************)
(* Properties.                                                             *)
(***************************************************************************)

RowsFor(table, i, work) == {r \in RowsOf(table, i) : table[r].work = work}

\* An incident costs a bounded number of runs, however often the server dies and
\* whoever dispatches: two rows for a role, two attempts for a row.
AttemptsBounded ==
  /\ \A r \in Assignments : assignment[r].attempts <= 2
  /\ \A i \in TriageIncidents, w \in Works :
       Cardinality(RowsFor(assignment, i, w)) <= IF w = "SYNTHESIS" THEN 1 ELSE 2

\* The day's runs exceed the limit by at most one for every other runner, since a
\* run is only counted when it has ended and been committed.
DailyLimitRespected ==
  usage <= DailyRunLimit + Cardinality(Requests)

\* A triage is announced only when the report of every role and the synthesis are in
\* the database, whatever was rolled back or run again on the way.
TriageHasReports ==
  \A i \in triaged, w \in Works : <<i, w>> \in reports

Exhausted(i) ==
  \/ SynthesisIs(assignment, i, {"CANCELLED"})
  \/ \E role \in Roles :
       Cardinality({r \in RowsOf(assignment, i) :
                      assignment[r].work = role /\ assignment[r].status = "CANCELLED"}) = 2

\* An open incident is triaged, or its attempts are used up, or it is taken out of
\* the agents' hands: neither a full budget, an open circuit, a lack of capacity, a
\* lost run nor a row taken by another runner leaves it waiting for ever.
TriageEnds ==
  \A i \in TriageIncidents :
    triage[i] = "OPEN" ~> (i \in triaged \/ Exhausted(i) \/ triage[i] = "OTHER")

(***************************************************************************)
(* The inductive invariant.  Sound is about the rows and the reports of    *)
(* the database, and also about those that a runner sees.                  *)
(***************************************************************************)
Known(row) == row.incident \in TriageIncidents /\ row.work \in Works

\* A row that waits for a run has had one at most.
AttemptsLeft(table) ==
  \A r \in Assignments :
    /\ table[r].status # "NONE" => Known(table[r])
    /\ table[r].status = "PENDING" => table[r].attempts <= 1
    /\ table[r].attempts <= 2

RowsBounded(table) ==
  \A i \in TriageIncidents, w \in Works :
    Cardinality(RowsFor(table, i, w)) <= IF w = "SYNTHESIS" THEN 1 ELSE 2

\* What is completed is reported, and a synthesis is asked for after all reports.
RowsReported(table, sent) ==
  \A r \in Assignments :
    /\ table[r].status = "COMPLETED" => <<table[r].incident, table[r].work>> \in sent
    /\ table[r].work = "SYNTHESIS" =>
         \A role \in Roles : <<table[r].incident, role>> \in sent

Sound(table, sent) ==
  AttemptsLeft(table) /\ RowsBounded(table) /\ RowsReported(table, sent)

\* A run and its outcome are of a row of some incident.
RunnersHaveRows ==
  \A a \in Runners :
    /\ runner[a].pc = "running" \/ runner[a].outcome # "NONE" =>
         runner[a].row \in Assignments /\ Known(assignment[runner[a].row])
    /\ runner[a].pc = "tail" => runner[a].incident # 0

\* The runs that are not counted yet.
Busy == {a \in Runners : runner[a].pc = "running" \/ runner[a].outcome # "NONE"}

BusyWillBeCounted ==
  usage + Cardinality(Busy) <= DailyRunLimit + Cardinality(Requests)

AgentsIInv ==
  /\ AgentsTypeOK
  /\ Sound(assignment, reports)
  /\ RunnersHaveRows
  /\ BusyWillBeCounted
  /\ TriageHasReports
=============================================================================
