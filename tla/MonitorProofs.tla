---------------------------- MODULE MonitorProofs ----------------------------
(***************************************************************************)
(* Proofs about the two halves of the monitor tick. OpsAgents, for any     *)
(* incidents, roles, requests and limits: the inductive invariant          *)
(* AgentsIInv, and with it the bounds on runs, the budget and the reports  *)
(* of a triage. OpsNotices, for any conditions, reminders and bounds:      *)
(* NoticesIInv, and that deliveries are counted.  MCAgentsAndNotices: both *)
(* side by side.                                                           *)
(***************************************************************************)
EXTENDS MCAgentsAndNotices, FiniteSetTheorems, TLAPS

\* What a runner is doing, and a row.
Places == [pc : {"idle", "next", "running", "choose", "tail"},
           row : Assignments \cup {0}, outcome : {"NONE", "COMPLETED", "CANCELLED"},
           rest : SUBSET Assignments, incident : TriageIncidents \cup {0},
           todo : SUBSET TriageIncidents]

TableRow == [incident : TriageIncidents \cup {0}, work : Works \cup {"NONE"},
             status : {"NONE", "PENDING", "ACTIVE", "COMPLETED", "CANCELLED"},
             attempts : Nat, lapsed : BOOLEAN]

\* A row that is some incident's remains one.
Keeps(table, next) == \A r \in Assignments : Known(table[r]) => Known(next[r])

(***************************************************************************)
(* Rows: there are finitely many, and what a runner sees of them, starts,  *)
(* recovers or adds is sound.                                              *)
(***************************************************************************)
LEMMA SomeAssignments == Assignments \subseteq Nat \ {0} /\ IsFiniteSet(Assignments)
<1>1. Cardinality(TriageIncidents) \in Nat
  BY AgentsAssumption, FS_CardinalityType
<1>2. Len(RoleOrder) \in Nat
  BY AgentsAssumption
<1> DEFINE last == Cardinality(TriageIncidents) * (2 * Len(RoleOrder) + 1)
<1>3. last \in Nat
  BY <1>1, <1>2
<1>4. Assignments = 1 .. last
  BY DEF Assignments
<1> HIDE DEF last
<1>5. QED
  BY <1>3, <1>4, FS_Interval

LEMMA SomeRows ==
  ASSUME NEW S \in SUBSET Assignments
  PROVE  IsFiniteSet(S) /\ Cardinality(S) \in Nat
BY SomeAssignments, FS_Subset, FS_CardinalityType

LEMMA FewerRows ==
  ASSUME NEW S \in SUBSET Assignments, NEW T \in SUBSET S
  PROVE  Cardinality(T) <= Cardinality(S)
BY SomeRows, FS_Subset

LEMMA ZeroIsNoIncident == 0 \notin TriageIncidents /\ TriageIncidents \subseteq Nat
BY AgentsAssumption

\* Where no row is new for its work, the bounds stay.
LEMMA BoundsStay ==
  ASSUME NEW table \in Table, NEW next \in Table, RowsBounded(table),
         \A r \in Assignments :
           next[r].work = table[r].work /\ next[r].incident = table[r].incident
  PROVE  RowsBounded(next)
<1> SUFFICES ASSUME NEW i \in TriageIncidents, NEW w \in Works
             PROVE  RowsFor(next, i, w) = RowsFor(table, i, w)
  BY DEF RowsBounded
<1> QED
  BY DEF RowsFor, RowsOf

LEMMA SeenIsSound ==
  ASSUME AgentsIInv, NEW a \in Runners
  PROVE  /\ Seen(a) \in Table
         /\ Sound(Seen(a), SeenReports(a))
         /\ Keeps(assignment, Seen(a))
         /\ reports \subseteq SeenReports(a)
         /\ SeenReports(a) \subseteq TriageIncidents \X Works
         /\ SeenUsage(a) \in Nat /\ SeenFailures(a) \in Nat
<1> DEFINE o == runner[a].outcome
           q == runner[a].row
<1>1. runner[a] \in Places /\ assignment \in Table /\ usage \in Nat /\ failures \in Nat
      /\ reports \subseteq TriageIncidents \X Works
  BY DEF AgentsIInv, AgentsTypeOK, Places
<1>2. o \in {"NONE", "COMPLETED", "CANCELLED"}
  BY <1>1 DEF Places
<1>3. ASSUME o # "NONE" PROVE q \in Assignments /\ Known(assignment[q])
  BY <1>3 DEF AgentsIInv, RunnersHaveRows
<1>4. CASE o = "NONE"
  BY <1>1, <1>4 DEF Seen, SeenReports, SeenUsage, SeenFailures, Outcome, AgentsIInv, Keeps
<1>5. CASE o # "NONE"
  <2>1. Seen(a) = [assignment EXCEPT ![q].status = o] /\ q \in Assignments /\ Known(assignment[q])
    BY <1>3, <1>5 DEF Seen, Outcome
  <2>2. Seen(a) \in Table
    BY <2>1, <1>1, <1>2 DEF Table
  <2>3. \A r \in Assignments :
          /\ Seen(a)[r].work = assignment[r].work
          /\ Seen(a)[r].incident = assignment[r].incident
          /\ Seen(a)[r].attempts = assignment[r].attempts
          /\ Seen(a)[r].status = IF r = q THEN o ELSE assignment[r].status
    BY <2>1, <1>1, <1>2 DEF Table
  <2>4. reports \subseteq SeenReports(a) /\ SeenReports(a) \subseteq TriageIncidents \X Works
        /\ (o = "COMPLETED" => <<assignment[q].incident, assignment[q].work>> \in SeenReports(a))
    BY <1>1, <1>2, <2>1 DEF SeenReports, Outcome, Known
  <2>5. AttemptsLeft(Seen(a))
    BY <2>1, <2>3, <1>2, <1>5 DEF AgentsIInv, Sound, AttemptsLeft, Known
  <2>6. RowsBounded(Seen(a))
    BY <2>2, <2>3, <1>1, BoundsStay DEF AgentsIInv, Sound
  <2>7. RowsReported(Seen(a), SeenReports(a))
    BY <2>3, <2>4, <1>2 DEF AgentsIInv, Sound, RowsReported
  <2>8. Keeps(assignment, Seen(a))
    BY <2>3 DEF Keeps, Known
  <2>9. SeenUsage(a) \in Nat /\ SeenFailures(a) \in Nat
    BY <1>1 DEF SeenUsage, SeenFailures
  <2>10. QED
    BY <2>2, <2>4, <2>5, <2>6, <2>7, <2>8, <2>9 DEF Sound
<1>6. QED
  BY <1>4, <1>5

LEMMA StartedIsSound ==
  ASSUME NEW table \in Table, NEW sent, Sound(table, sent), NEW r \in Assignments,
         table[r].status = "PENDING"
  PROVE  /\ Started(table, r) \in Table
         /\ Sound(Started(table, r), sent)
         /\ Keeps(table, Started(table, r))
         /\ Known(Started(table, r)[r])
<1> DEFINE next == Started(table, r)
<1>1. next \in Table
  <2> DEFINE runs == table[r].attempts + 1
             row == [table[r] EXCEPT !.status = "ACTIVE", !.attempts = runs, !.lapsed = FALSE]
  <2>1. table[r] \in TableRow /\ runs \in Nat
    BY DEF Table, TableRow
  <2>2. next = [table EXCEPT ![r] = row]
    BY DEF Started, Table
  <2> HIDE DEF runs, next
  <2>3. row \in TableRow
    BY <2>1 DEF TableRow
  <2> HIDE DEF row
  <2>4. QED
    BY <2>2, <2>3 DEF Table, TableRow
<1>2. \A x \in Assignments :
        /\ next[x].work = table[x].work /\ next[x].incident = table[x].incident
        /\ next[x].attempts = IF x = r THEN table[x].attempts + 1 ELSE table[x].attempts
        /\ next[x].status = IF x = r THEN "ACTIVE" ELSE table[x].status
  BY DEF Started, Table
<1>3. RowsBounded(next)
  BY <1>1, <1>2, BoundsStay DEF Sound
<1>4. \A x \in Assignments : table[x].attempts \in Nat
  BY DEF Table
<1>5. AttemptsLeft(next)
  <2> SUFFICES ASSUME NEW x \in Assignments
               PROVE  /\ next[x].status # "NONE" => Known(next[x])
                      /\ next[x].status = "PENDING" => next[x].attempts <= 1
                      /\ next[x].attempts <= 2
    BY DEF AttemptsLeft
  <2>1. Known(table[x]) => Known(next[x])
    BY <1>2 DEF Known
  <2>2. CASE x = r
    <3>1. table[x].attempts <= 1 /\ Known(table[x])
      BY <2>2 DEF Sound, AttemptsLeft
    <3>2. QED
      BY <3>1, <2>1, <2>2, <1>2, <1>4
  <2>3. CASE x # r
    BY <2>1, <2>3, <1>2 DEF Sound, AttemptsLeft
  <2>4. QED
    BY <2>2, <2>3
<1>6. RowsReported(next, sent)
  BY <1>2 DEF Sound, RowsReported
<1>7. Keeps(table, next)
  BY <1>2 DEF Keeps, Known
<1>8. Known(next[r])
  BY <1>7 DEF Keeps, Sound, AttemptsLeft
<1>9. QED
  BY <1>1, <1>3, <1>5, <1>6, <1>7, <1>8 DEF Sound

LEMMA RecoveryIsSound ==
  ASSUME AgentsIInv
  PROVE  /\ RecoverExpiredAssignments \in Table
         /\ Sound(RecoverExpiredAssignments, reports)
         /\ Keeps(assignment, RecoverExpiredAssignments)
<1> DEFINE next == RecoverExpiredAssignments
<1>1. assignment \in Table
  BY DEF AgentsIInv, AgentsTypeOK
<1>2. \A r \in Assignments : next[r] = Recovered(assignment[r])
  BY DEF RecoverExpiredAssignments
<1>3. \A r \in Assignments : Recovered(assignment[r]) \in TableRow
  BY <1>1 DEF Recovered, Table, TableRow
<1>4. next \in Table
  BY <1>3 DEF RecoverExpiredAssignments, Table, TableRow
<1>5. \A r \in Assignments :
        LET old == assignment[r] IN
        /\ next[r].work = old.work /\ next[r].incident = old.incident
        /\ next[r].attempts = old.attempts
        /\ \/ next[r].status = old.status
           \/ next[r].status = "CANCELLED" /\ old.status = "ACTIVE"
           \/ next[r].status = "PENDING" /\ old.status = "ACTIVE" /\ ~(old.attempts >= 2)
  BY <1>1, <1>2 DEF Recovered, Table
<1>6. AttemptsLeft(next)
  <2> SUFFICES ASSUME NEW r \in Assignments
               PROVE  /\ next[r].status # "NONE" => Known(next[r])
                      /\ next[r].status = "PENDING" => next[r].attempts <= 1
                      /\ next[r].attempts <= 2
    BY DEF AttemptsLeft
  <2>1. Known(assignment[r]) => Known(next[r])
    BY <1>5 DEF Known
  <2>2. assignment[r].attempts \in Nat
    BY <1>1 DEF Table
  <2> HIDE DEF next
  <2>3. QED
    BY <1>5, <2>1, <2>2 DEF AgentsIInv, Sound, AttemptsLeft
<1>7. RowsBounded(next)
  BY <1>1, <1>4, <1>5, BoundsStay DEF AgentsIInv, Sound
<1>8. RowsReported(next, reports)
  BY <1>5 DEF AgentsIInv, Sound, RowsReported
<1>9. QED
  BY <1>4, <1>5, <1>6, <1>7, <1>8 DEF Sound, Keeps, Known

LEMMA RolesAreWorks ==
  Roles \subseteq Works /\ "SYNTHESIS" \in Works \ Roles /\ "LEAD" \in Roles
BY AgentsAssumption DEF Works

LEMMA SynthesisIsSound ==
  ASSUME NEW table \in Table, NEW sent, Sound(table, sent), NEW i \in TriageIncidents,
         NEW r \in Assignments, NeedsSynthesis(table, i)
  PROVE  LET next == [table EXCEPT ![r] = Pending(i, "SYNTHESIS")] IN
         /\ next \in Table
         /\ Sound(next, sent)
         /\ Keeps(table, next)
         /\ next[r].status = "PENDING"
<1> DEFINE next == [table EXCEPT ![r] = Pending(i, "SYNTHESIS")]
<1>1. Pending(i, "SYNTHESIS") \in TableRow /\ Known(Pending(i, "SYNTHESIS"))
  BY RolesAreWorks DEF Pending, TableRow, Known
<1>2. next \in Table
  BY <1>1 DEF Table, TableRow
<1>3. \A x \in Assignments : next[x] = IF x = r THEN Pending(i, "SYNTHESIS") ELSE table[x]
  BY DEF Table
<1>4. AttemptsLeft(next)
  BY <1>1, <1>3 DEF Sound, AttemptsLeft, Pending
<1>5. RowsBounded(next)
  <2> SUFFICES ASSUME NEW j \in TriageIncidents, NEW w \in Works
               PROVE  Cardinality(RowsFor(next, j, w)) <= IF w = "SYNTHESIS" THEN 1 ELSE 2
    BY DEF RowsBounded
  <2>1. Cardinality(RowsFor(table, j, w)) <= IF w = "SYNTHESIS" THEN 1 ELSE 2
    BY DEF Sound, RowsBounded
  <2>2. RowsFor(table, j, w) \in SUBSET Assignments
    BY DEF RowsFor, RowsOf
  <2>3. CASE j = i /\ w = "SYNTHESIS"
    <3>1. RowsFor(next, j, w) \subseteq {r}
      BY <1>3, <2>3 DEF RowsFor, RowsOf, NeedsSynthesis
    <3>2. Cardinality(RowsFor(next, j, w)) <= Cardinality({r})
      BY <3>1, FewerRows
    <3>3. Cardinality({r}) = 1
      BY FS_Singleton
    <3>4. QED
      BY <2>3, <3>2, <3>3
  <2>4. CASE ~(j = i /\ w = "SYNTHESIS")
    <3>1. RowsFor(next, j, w) \subseteq RowsFor(table, j, w)
      BY <1>3, <2>4 DEF RowsFor, RowsOf, Pending
    <3>2. Cardinality(RowsFor(next, j, w)) <= Cardinality(RowsFor(table, j, w))
      BY <2>2, <3>1, FewerRows
    <3>3. Cardinality(RowsFor(next, j, w)) \in Nat /\ Cardinality(RowsFor(table, j, w)) \in Nat
      BY <2>2, <3>1, SomeRows
    <3>4. QED
      BY <2>1, <3>2, <3>3
  <2>5. QED
    BY <2>3, <2>4
<1>6. \A role \in Roles : <<i, role>> \in sent
  <2> SUFFICES ASSUME NEW role \in Roles PROVE <<i, role>> \in sent
    OBVIOUS
  <2>1. PICK x \in RowsOf(table, i) : table[x].status = "COMPLETED" /\ RoleOf(table[x]) = role
    BY DEF NeedsSynthesis, CompletedRoles
  <2>2. table[x].work # "SYNTHESIS" /\ x \in Assignments /\ table[x].incident = i
    BY DEF NeedsSynthesis, RowsOf
  <2>3. QED
    BY <2>1, <2>2 DEF RoleOf, Sound, RowsReported
<1>7. RowsReported(next, sent)
  BY <1>3, <1>6 DEF Sound, RowsReported, Pending
<1>8. Keeps(table, next)
  BY <1>1, <1>3 DEF Keeps
<1>9. next[r].status = "PENDING"
  BY <1>3 DEF Pending
<1>10. QED
  BY <1>2, <1>4, <1>5, <1>7, <1>8, <1>9 DEF Sound

LEMMA RolesAreSound ==
  ASSUME NEW table \in Table, NEW sent, Sound(table, sent), NEW i \in TriageIncidents
  PROVE  /\ AssignDefaultRoles(table, i) \in Table
         /\ Sound(AssignDefaultRoles(table, i), sent)
         /\ Keeps(table, AssignDefaultRoles(table, i))
         /\ \A r \in NewIds(table, i) :
              r \in Assignments /\ AssignDefaultRoles(table, i)[r].status = "PENDING"
<1> DEFINE next == AssignDefaultRoles(table, i)
           new == NewRoles(table, i)
           last == LastId(table)
           Of(k, r) == k \in new /\ r = last + Cardinality({j \in new : j <= k})
           place(r) == CHOOSE k \in new : Of(k, r)
           ids == {r \in Assignments : \E k \in new : Of(k, r)}
<1>1. \A r \in ids : Of(place(r), r)
  OBVIOUS
<1>2. /\ NewIds(table, i) = ids
      /\ next = [r \in Assignments |->
                   IF r \in ids THEN Pending(i, RoleOrder[place(r)]) ELSE table[r]]
  BY DEF NewIds, AssignDefaultRoles, IsNewRow
<1>3. \A k \in new : k \in DOMAIN RoleOrder /\ RoleOrder[k] \in Roles
                    /\ NeedsRow(table, i, RoleOrder[k])
  BY DEF NewRoles, Roles, Range
<1>4. \A k \in new, m \in new : RoleOrder[k] = RoleOrder[m] => k = m
  BY <1>3, AgentsAssumption DEF IsInjective
<1>5. \A k, r, x : Of(k, r) /\ Of(k, x) => r = x
  OBVIOUS
<1> HIDE DEF next, new, last, Of, place, ids
<1>6. \A r \in ids : place(r) \in new
  BY <1>1 DEF Of
<1>7. /\ \A r \in ids : next[r] = Pending(i, RoleOrder[place(r)])
      /\ \A r \in Assignments : r \notin ids => next[r] = table[r]
  <2>1. ids \subseteq Assignments
    BY DEF ids
  <2>2. QED
    BY <1>2, <2>1
<1>8. \A r \in ids : /\ Pending(i, RoleOrder[place(r)]) \in TableRow
                     /\ Known(Pending(i, RoleOrder[place(r)]))
                     /\ RoleOrder[place(r)] # "SYNTHESIS"
  BY <1>3, <1>6, RolesAreWorks DEF Pending, TableRow, Known
<1>9. next \in Table
  <2>1. \A r \in Assignments : table[r] \in TableRow
    BY DEF Table, TableRow
  <2>2. \A r \in Assignments :
          (IF r \in ids THEN Pending(i, RoleOrder[place(r)]) ELSE table[r]) \in TableRow
    BY <2>1, <1>8
  <2>3. QED
    BY <1>2, <2>2 DEF Table, TableRow
<1>10. Keeps(table, next)
  BY <1>7, <1>8 DEF Keeps
<1>11. \A r \in ids :
         /\ next[r].incident = i /\ next[r].work = RoleOrder[place(r)]
         /\ next[r].status = "PENDING" /\ next[r].attempts = 0
         /\ Known(next[r]) /\ next[r].work # "SYNTHESIS"
  <2> SUFFICES ASSUME NEW r \in ids
               PROVE  /\ next[r].incident = i /\ next[r].work = RoleOrder[place(r)]
                      /\ next[r].status = "PENDING" /\ next[r].attempts = 0
                      /\ Known(next[r]) /\ next[r].work # "SYNTHESIS"
    OBVIOUS
  <2>1. next[r] = Pending(i, RoleOrder[place(r)])
    BY <1>7
  <2>2. Known(next[r]) /\ RoleOrder[place(r)] # "SYNTHESIS"
    BY <1>8, <2>1
  <2>3. QED
    BY <2>1, <2>2 DEF Pending
<1>12. AttemptsLeft(next)
  <2> SUFFICES ASSUME NEW r \in Assignments
               PROVE  /\ next[r].status # "NONE" => Known(next[r])
                      /\ next[r].status = "PENDING" => next[r].attempts <= 1
                      /\ next[r].attempts <= 2
    BY DEF AttemptsLeft
  <2>1. CASE r \in ids
    BY <2>1, <1>11
  <2>2. CASE r \notin ids
    BY <2>2, <1>7 DEF Sound, AttemptsLeft
  <2>3. QED
    BY <2>1, <2>2
<1>13. RowsReported(next, sent)
  <2> SUFFICES ASSUME NEW r \in Assignments
               PROVE  /\ next[r].status = "COMPLETED" =>
                           <<next[r].incident, next[r].work>> \in sent
                      /\ next[r].work = "SYNTHESIS" =>
                           \A role \in Roles : <<next[r].incident, role>> \in sent
    BY DEF RowsReported
  <2>1. CASE r \in ids
    BY <2>1, <1>11
  <2>2. CASE r \notin ids
    BY <2>2, <1>7 DEF Sound, RowsReported
  <2>3. QED
    BY <2>1, <2>2
<1>14. RowsBounded(next)
  <2> SUFFICES ASSUME NEW j \in TriageIncidents, NEW w \in Works
               PROVE  Cardinality(RowsFor(next, j, w)) <= IF w = "SYNTHESIS" THEN 1 ELSE 2
    BY DEF RowsBounded
  <2> DEFINE old == RowsFor(table, j, w)
             now == RowsFor(next, j, w)
  <2>1. Cardinality(old) <= IF w = "SYNTHESIS" THEN 1 ELSE 2
    BY DEF Sound, RowsBounded
  <2>2. old \in SUBSET Assignments /\ now \in SUBSET Assignments
    BY DEF RowsFor, RowsOf
  <2>3. Cardinality(old) \in Nat /\ Cardinality(now) \in Nat /\ IsFiniteSet(old)
    BY <2>2, SomeRows
  <2>4. ASSUME NEW x \in now \ old PROVE x \in ids /\ j = i /\ RoleOrder[place(x)] = w
    <3>1. x \in Assignments /\ next[x].incident = j /\ next[x].work = w
          /\ next[x] # table[x]
      BY DEF RowsFor, RowsOf
    <3>2. x \in ids
      BY <3>1, <1>7
    <3>3. QED
      BY <3>1, <3>2, <1>11
  <2>5. CASE now \subseteq old
    BY <2>1, <2>2, <2>3, <2>5, FewerRows
  <2>6. ASSUME NEW x \in now \ old PROVE Cardinality(now) <= IF w = "SYNTHESIS" THEN 1 ELSE 2
    <3>1. x \in ids /\ j = i /\ RoleOrder[place(x)] = w /\ w # "SYNTHESIS"
      BY <2>4, <2>6, <1>8
    <3>2. now \subseteq old \cup {x}
      <4> SUFFICES ASSUME NEW y \in now, y \notin old PROVE y = x
        OBVIOUS
      <4>1. y \in ids /\ RoleOrder[place(y)] = w
        BY <2>4
      <4>2. place(x) = place(y)
        BY <3>1, <4>1, <1>4, <1>6
      <4>3. QED
        BY <3>1, <4>1, <4>2, <1>1, <1>5
    <3>3. Cardinality({r \in RowsOf(table, i) : RoleOf(table[r]) = w}) < 2
      BY <3>1, <1>3, <1>6 DEF NeedsRow
    <3>4. old \subseteq {r \in RowsOf(table, i) : RoleOf(table[r]) = w}
      BY <3>1 DEF RowsFor, RoleOf
    <3>5. Cardinality(old) < 2
      <4> DEFINE mine == {r \in RowsOf(table, i) : RoleOf(table[r]) = w}
      <4>1. mine \in SUBSET Assignments
        BY DEF RowsOf
      <4>2. Cardinality(old) <= Cardinality(mine) /\ Cardinality(mine) \in Nat
        BY <4>1, <3>4, FewerRows, SomeRows
      <4>3. QED
        BY <4>2, <3>3, <2>3
    <3>6. IsFiniteSet(old \cup {x}) /\ Cardinality(old \cup {x}) = Cardinality(old) + 1
      BY <2>3, <2>6, FS_AddElement
    <3>7. Cardinality(now) <= Cardinality(old \cup {x})
      BY <3>2, <3>6, FS_Subset
    <3>8. QED
      BY <3>1, <3>5, <3>6, <3>7, <2>3
  <2>7. QED
    BY <2>5, <2>6
<1>15. \A r \in ids : r \in Assignments /\ next[r].status = "PENDING"
  <2>1. ids \subseteq Assignments
    BY DEF ids
  <2>2. QED
    BY <2>1, <1>11
<1>16. QED
  BY <1>2, <1>9, <1>10, <1>12, <1>13, <1>14, <1>15 DEF Sound, next

(***************************************************************************)
(* Steps: those that count no run, and those that commit the outcome of    *)
(* one.                                                                    *)
(***************************************************************************)
LEMMA SomeRunners ==
  /\ IsFiniteSet(Runners)
  /\ Cardinality(Requests) \in Nat
  /\ Cardinality(Runners) = Cardinality(Requests) + 1
<1>1. IsFiniteSet(Requests) /\ Tick \notin Requests
  BY AgentsAssumption
<1>2. QED
  BY <1>1, FS_AddElement, FS_CardinalityType DEF Runners

LEMMA BusyIsCountable ==
  IsFiniteSet(Busy) /\ Cardinality(Busy) \in Nat /\ Busy \subseteq Runners
<1>1. Busy \in SUBSET Runners
  BY DEF Busy
<1>2. QED
  BY <1>1, SomeRunners, FS_Subset, FS_CardinalityType

TriageMayBe(sent) ==
  /\ triage' \in [TriageIncidents -> {"OPEN", "INVESTIGATING", "OTHER"}]
  /\ triaged' \subseteq TriageIncidents
  /\ \A i \in triaged' : i \in triaged \/ \A w \in Works : <<i, w>> \in sent

\* A step in which no run starts and none is counted.
LEMMA QuietStep ==
  ASSUME AgentsIInv, assignment' \in Table, Sound(assignment', reports),
         Keeps(assignment, assignment'), reports' = reports,
         runner' \in [Runners -> Places],
         \A b \in Runners :
           /\ runner'[b].pc = "running" \/ runner'[b].outcome # "NONE" =>
                b \in Busy /\ runner'[b].row = runner[b].row
           /\ runner'[b].pc = "tail" => runner'[b].incident # 0,
         usage' \in Nat, usage' <= usage, failures' \in Nat,
         TriageMayBe(reports), deaths' \in 0 .. MaxDeaths
  PROVE  AgentsIInv'
<1>1. AgentsTypeOK'
  BY DEF AgentsIInv, AgentsTypeOK, TriageMayBe, Places
<1>2. RunnersHaveRows'
  BY DEF AgentsIInv, RunnersHaveRows, Keeps, Busy
<1>3. BusyWillBeCounted'
  <2>1. Busy' \in SUBSET Busy
    BY DEF Busy
  <2>2. IsFiniteSet(Busy) /\ Cardinality(Busy) \in Nat
    BY BusyIsCountable
  <2>3. Cardinality(Busy') <= Cardinality(Busy) /\ Cardinality(Busy') \in Nat
    BY <2>1, <2>2, FS_Subset, FS_CardinalityType
  <2>4. usage \in Nat /\ Cardinality(Requests) \in Nat /\ DailyRunLimit \in Nat
        /\ usage + Cardinality(Busy) <= DailyRunLimit + Cardinality(Requests)
    BY SomeRunners, AgentsAssumption DEF AgentsIInv, AgentsTypeOK, BusyWillBeCounted
  <2>5. usage' + Cardinality(Busy') <= DailyRunLimit + Cardinality(Requests)
    BY <2>2, <2>3, <2>4
  <2>6. QED
    BY <2>5 DEF BusyWillBeCounted
<1>4. TriageHasReports'
  BY DEF AgentsIInv, TriageHasReports, TriageMayBe
<1>5. Sound(assignment, reports)'
  BY DEF Sound, AttemptsLeft, RowsBounded, RowsReported, RowsFor, RowsOf, Known
<1>6. QED
  BY <1>1, <1>2, <1>3, <1>4, <1>5 DEF AgentsIInv

\* A step that commits the outcome of a run, and may start another.
LEMMA CommitStep ==
  ASSUME AgentsIInv, NEW a \in Runners, runner[a].pc # "running",
         NEW table \in Table, Sound(table, SeenReports(a)), Keeps(assignment, table),
         Commit(a, table),
         NEW me \in Places, runner' = [runner EXCEPT ![a] = me], me.outcome = "NONE",
         me.pc = "running" => MayRun(a) /\ me.row \in Assignments /\ Known(table[me.row]),
         me.pc = "tail" => me.incident # 0,
         TriageMayBe(SeenReports(a)), deaths' = deaths
  PROVE  AgentsIInv'
<1>1. /\ assignment' = table /\ usage' = SeenUsage(a) /\ failures' = SeenFailures(a)
      /\ reports' = SeenReports(a)
  BY DEF Commit
<1>2. /\ SeenUsage(a) \in Nat /\ SeenFailures(a) \in Nat /\ reports \subseteq SeenReports(a)
      /\ SeenReports(a) \subseteq TriageIncidents \X Works
  BY SeenIsSound
<1>3. runner \in [Runners -> Places]
  BY DEF AgentsIInv, AgentsTypeOK, Places
<1>4. \A b \in Runners : runner'[b] = IF b = a THEN me ELSE runner[b]
  BY <1>3
<1>5. AgentsTypeOK'
  <2>1. runner' \in [Runners -> Places]
    BY <1>3
  <2>2. QED
    BY <1>1, <1>2, <2>1 DEF AgentsIInv, AgentsTypeOK, TriageMayBe, Places
<1>6. Sound(assignment, reports)'
  BY <1>1 DEF Sound, AttemptsLeft, RowsBounded, RowsReported, RowsFor, RowsOf, Known
<1>7. RunnersHaveRows'
  BY <1>1, <1>4 DEF AgentsIInv, RunnersHaveRows, Keeps
<1>8. TriageHasReports'
  BY <1>1, <1>2 DEF AgentsIInv, TriageHasReports, TriageMayBe
<1>9. BusyWillBeCounted'
  <2>1. IsFiniteSet(Busy) /\ Cardinality(Busy) \in Nat /\ IsFiniteSet(Runners)
        /\ Cardinality(Requests) \in Nat /\ Cardinality(Runners) = Cardinality(Requests) + 1
        /\ DailyRunLimit \in Nat /\ usage \in Nat
    BY BusyIsCountable, SomeRunners, AgentsAssumption DEF AgentsIInv, AgentsTypeOK
  <2>2. usage + Cardinality(Busy) <= DailyRunLimit + Cardinality(Requests)
    BY DEF AgentsIInv, BusyWillBeCounted
  <2>3. CASE me.pc = "running"
    <3>1. Busy' \in SUBSET Runners
      BY DEF Busy
    <3>2. Cardinality(Busy') <= Cardinality(Runners) /\ Cardinality(Busy') \in Nat
      BY <2>1, <3>1, FS_Subset, FS_CardinalityType
    <3>3. SeenUsage(a) < DailyRunLimit
      BY <2>3 DEF MayRun
    <3>4. usage' + Cardinality(Busy') <= DailyRunLimit + Cardinality(Requests)
      BY <1>1, <1>2, <2>1, <3>2, <3>3
    <3>5. QED
      BY <3>4 DEF BusyWillBeCounted
  <2>4. CASE me.pc # "running"
    <3>1. Busy' = Busy \ {a}
      BY <1>4, <2>4 DEF Busy
    <3>2. Cardinality(Busy') = IF a \in Busy THEN Cardinality(Busy) - 1 ELSE Cardinality(Busy)
      BY <2>1, <3>1, FS_RemoveElement
    <3>3. a \in Busy <=> runner[a].outcome # "NONE"
      BY DEF Busy
    <3>4. usage' = IF a \in Busy THEN usage + 1 ELSE usage
      BY <1>1, <3>3 DEF SeenUsage, Outcome
    <3>5. usage' + Cardinality(Busy') <= DailyRunLimit + Cardinality(Requests)
      BY <2>1, <2>2, <3>2, <3>4
    <3>6. QED
      BY <3>5 DEF BusyWillBeCounted
  <2>5. QED
    BY <2>3, <2>4
<1>10. QED
  BY <1>5, <1>6, <1>7, <1>8, <1>9 DEF AgentsIInv

LEMMA FinalizeReports ==
  ASSUME AgentsIInv, NEW table \in Table, NEW sent, Sound(table, sent),
         NEW set \in SUBSET TriageIncidents, Finalize(table, set)
  PROVE  TriageMayBe(sent)
<1> DEFINE done == {i \in set : TriageComplete(table, i) /\ i \notin triaged}
<1>1. triaged' = triaged \cup done /\ done \subseteq TriageIncidents
  BY DEF Finalize
<1>2. triage' \in [TriageIncidents -> {"OPEN", "INVESTIGATING", "OTHER"}]
  BY DEF Finalize, AgentsIInv, AgentsTypeOK
<1>3. ASSUME NEW i \in done, NEW w \in Works PROVE <<i, w>> \in sent
  <2>1. PICK r \in RowsOf(table, i) :
          table[r].work = "SYNTHESIS" /\ table[r].status = "COMPLETED"
    BY <1>3 DEF TriageComplete, SynthesisIs
  <2>2. r \in Assignments /\ table[r].incident = i
    BY DEF RowsOf
  <2>3. <<i, "SYNTHESIS">> \in sent /\ \A role \in Roles : <<i, role>> \in sent
    BY <2>1, <2>2 DEF Sound, RowsReported
  <2>4. QED
    BY <2>3 DEF Works
<1>4. QED
  BY <1>1, <1>2, <1>3 DEF TriageMayBe, AgentsIInv, AgentsTypeOK

LEMMA TriageStays ==
  ASSUME AgentsIInv, UNCHANGED <<triage, triaged>>, NEW sent
  PROVE  TriageMayBe(sent)
BY DEF TriageMayBe, AgentsIInv, AgentsTypeOK

LEMMA RunnersArePlaces ==
  ASSUME AgentsIInv
  PROVE  /\ runner \in [Runners -> Places] /\ Idle \in Places
         /\ Tick \in Runners /\ Requests \subseteq Runners
BY DEF AgentsIInv, AgentsTypeOK, Places, Idle, Runners

(***************************************************************************)
(* The actions, one by one.                                                *)
(***************************************************************************)
LEMMA RunEndsIsSound ==
  ASSUME AgentsIInv, NEW a \in Runners, NEW o \in {"COMPLETED", "CANCELLED"}, RunEnds(a, o)
  PROVE  AgentsIInv'
<1>1. runner \in [Runners -> Places]
  BY RunnersArePlaces
<1>2. runner' = [runner EXCEPT ![a] = [runner[a] EXCEPT !.pc = "next", !.outcome = o]]
  BY DEF RunEnds
<1>3. runner' \in [Runners -> Places]
  <2> DEFINE me == [runner[a] EXCEPT !.pc = "next", !.outcome = o]
  <2>1. me \in Places
    BY <1>1 DEF Places
  <2> HIDE DEF me
  <2>2. QED
    BY <1>1, <1>2, <2>1 DEF me
<1>4. \A b \in Runners :
        /\ runner'[b].pc = "running" \/ runner'[b].outcome # "NONE" =>
             b \in Busy /\ runner'[b].row = runner[b].row
        /\ runner'[b].pc = "tail" => runner'[b].incident # 0
  BY <1>1, <1>2 DEF Places, Busy, RunEnds, AgentsIInv, RunnersHaveRows
<1>5. TriageMayBe(reports)
  BY TriageStays DEF RunEnds
<1>6. QED
  BY <1>3, <1>4, <1>5, QuietStep DEF RunEnds, AgentsIInv, AgentsTypeOK, Keeps

LEMMA StartNextIsSound ==
  ASSUME AgentsIInv, NEW a \in Runners, NEW r \in runner[a].rest, StartNext(a, r)
  PROVE  AgentsIInv'
<1>1. runner \in [Runners -> Places]
  BY RunnersArePlaces
<1>2. runner[a].rest \in SUBSET Assignments /\ r \in Assignments
  BY <1>1 DEF Places
<1> DEFINE table == Started(Seen(a), r)
           me == Running(a, r, runner[a].rest \ {r})
<1>3. table \in Table /\ Sound(table, SeenReports(a)) /\ Keeps(Seen(a), table)
      /\ Known(table[r]) /\ Keeps(assignment, Seen(a))
  BY <1>2, SeenIsSound, StartedIsSound DEF StartNext
<1>4. Keeps(assignment, table)
  BY <1>3 DEF Keeps
<1>5. me \in Places /\ me.row = r /\ me.pc = "running" /\ me.outcome = "NONE"
  BY <1>1, <1>2 DEF Places, Running
<1>6. TriageMayBe(SeenReports(a))
  BY TriageStays DEF StartNext
<1>7. runner[a].pc # "running" /\ MayRun(a) /\ Commit(a, table)
      /\ runner' = [runner EXCEPT ![a] = me] /\ deaths' = deaths
  BY DEF StartNext
<1> HIDE DEF table, me
<1>8. QED
  BY <1>2, <1>3, <1>4, <1>5, <1>6, <1>7, CommitStep

\* A step of a runner that commits nothing and begins no run.
LEMMA TurnStep ==
  ASSUME AgentsIInv, NEW a \in Runners, NEW me \in Places,
         runner' = [runner EXCEPT ![a] = me],
         me = Idle \/ (me.outcome = runner[a].outcome /\ me.row = runner[a].row),
         me.pc # "running", me.pc = "tail" => me.incident # 0,
         UNCHANGED <<assignment, triage, triaged, reports, usage, failures, deaths>>
  PROVE  AgentsIInv'
<1>1. runner \in [Runners -> Places]
  BY RunnersArePlaces
<1>2. runner' \in [Runners -> Places]
  BY <1>1
<1>3. \A b \in Runners : runner'[b] = IF b = a THEN me ELSE runner[b]
  BY <1>1
<1>4. \A b \in Runners :
        /\ runner'[b].pc = "running" \/ runner'[b].outcome # "NONE" =>
             b \in Busy /\ runner'[b].row = runner[b].row
        /\ runner'[b].pc = "tail" => runner'[b].incident # 0
  BY <1>3 DEF Busy, AgentsIInv, RunnersHaveRows, Idle
<1>5. TriageMayBe(reports)
  BY TriageStays
<1>6. QED
  BY <1>2, <1>4, <1>5, QuietStep DEF AgentsIInv, AgentsTypeOK, Keeps

LEMMA AlreadyProcessedIsSound ==
  ASSUME AgentsIInv, NEW a \in Runners, NEW r, AlreadyProcessed(a, r)
  PROVE  AgentsIInv'
<1>1. Idle \in Places /\ Idle.pc # "running" /\ Idle.pc # "tail"
  BY RunnersArePlaces DEF Idle
<1>2. runner' = [runner EXCEPT ![a] = Idle]
      /\ UNCHANGED <<assignment, triage, triaged, reports, usage, failures, deaths>>
  BY DEF AlreadyProcessed
<1>3. QED
  BY <1>1, <1>2, TurnStep

LEMMA StopRunsIsSound ==
  ASSUME AgentsIInv, NEW a \in Runners, StopRuns(a)
  PROVE  AgentsIInv'
<1>1. runner[a] \in Places
  BY RunnersArePlaces
<1>2. UNCHANGED <<assignment, triage, triaged, reports, usage, failures, deaths>>
  BY DEF StopRuns
<1>3. CASE runner[a].incident # 0
  <2> DEFINE me == [runner[a] EXCEPT !.pc = "tail"]
  <2>1. runner' = [runner EXCEPT ![a] = me]
    BY <1>3 DEF StopRuns
  <2>2. me \in Places /\ me.pc = "tail" /\ me.incident # 0
        /\ me.outcome = runner[a].outcome /\ me.row = runner[a].row
    BY <1>1, <1>3 DEF Places
  <2> HIDE DEF me
  <2>3. QED
    BY <1>2, <2>1, <2>2, TurnStep
<1>4. CASE runner[a].incident = 0
  <2> DEFINE todo == IF CapacityAvailable(Seen(a))
                     THEN First(DispatchLimit, Dispatchable(Seen(a))) ELSE {}
             me == [runner[a] EXCEPT !.pc = "choose", !.todo = todo]
  <2>1. runner' = [runner EXCEPT ![a] = me]
    BY <1>4 DEF StopRuns
  <2>2. todo \subseteq TriageIncidents
    BY DEF First, Dispatchable
  <2> HIDE DEF todo
  <2>3. me \in Places /\ me.pc = "choose"
        /\ me.outcome = runner[a].outcome /\ me.row = runner[a].row
    BY <1>1, <2>2 DEF Places
  <2> HIDE DEF me
  <2>4. QED
    BY <1>2, <2>1, <2>3, TurnStep
<1>5. QED
  BY <1>3, <1>4

LEMMA DispatchIsSound ==
  ASSUME AgentsIInv, NEW a \in Runners, NEW i \in TriageIncidents,
         NEW todo \in SUBSET TriageIncidents, runner[a].pc # "running",
         DispatchIncident(a, i, todo)
  PROVE  AgentsIInv'
<1> DEFINE table == AssignDefaultRoles(Seen(a), i)
           ids == NewIds(Seen(a), i)
           me == [runner[a] EXCEPT !.incident = i, !.todo = todo]
<1>1. runner[a] \in Places
  BY RunnersArePlaces
<1>2. me \in Places /\ me.incident = i /\ i # 0
  BY <1>1, ZeroIsNoIncident DEF Places
<1>3. /\ table \in Table /\ Sound(table, SeenReports(a)) /\ Keeps(Seen(a), table)
      /\ Keeps(assignment, Seen(a))
      /\ \A r \in ids : r \in Assignments /\ table[r].status = "PENDING"
  BY SeenIsSound, RolesAreSound
<1>4. Keeps(assignment, table)
  BY <1>3 DEF Keeps
<1>5. TriageMayBe(SeenReports(a)) /\ deaths' = deaths
  BY TriageStays DEF DispatchIncident
<1>6. ASSUME NEW r \in ids, MayRun(a), Commit(a, Started(table, r)),
             runner' = [runner EXCEPT ![a] =
                         [me EXCEPT !.pc = "running", !.row = r, !.outcome = "NONE",
                                    !.rest = ids \ {r}]]
      PROVE  AgentsIInv'
  <2> DEFINE next == Started(table, r)
             run == [me EXCEPT !.pc = "running", !.row = r, !.outcome = "NONE",
                               !.rest = ids \ {r}]
  <2>1. r \in Assignments /\ ids \in SUBSET Assignments /\ table[r].status = "PENDING"
    BY <1>3, <1>6
  <2>2. next \in Table /\ Sound(next, SeenReports(a)) /\ Keeps(table, next) /\ Known(next[r])
    BY <1>3, <2>1, StartedIsSound
  <2>3. Keeps(assignment, next)
    BY <1>4, <2>2 DEF Keeps
  <2> HIDE DEF me, ids, table
  <2>4. run \in Places /\ run.row = r /\ run.pc = "running" /\ run.outcome = "NONE"
    BY <1>2, <2>1 DEF Places
  <2> HIDE DEF next
  <2>5. Commit(a, next) /\ runner' = [runner EXCEPT ![a] = run]
    BY <1>6 DEF next
  <2> HIDE DEF run
  <2>6. QED
    BY <1>5, <1>6, <2>1, <2>2, <2>3, <2>4, <2>5, CommitStep
<1>7. ASSUME Commit(a, table),
             runner' = [runner EXCEPT ![a] =
                         [me EXCEPT !.pc = "tail", !.outcome = "NONE", !.rest = {}]]
      PROVE  AgentsIInv'
  <2> DEFINE end == [me EXCEPT !.pc = "tail", !.outcome = "NONE", !.rest = {}]
  <2>1. runner' = [runner EXCEPT ![a] = end]
    BY <1>7
  <2> HIDE DEF me
  <2>2. end \in Places /\ end.pc = "tail" /\ end.outcome = "NONE" /\ end.incident # 0
    BY <1>2 DEF Places
  <2> HIDE DEF end, table
  <2>3. QED
    BY <1>3, <1>4, <1>5, <1>7, <2>1, <2>2, CommitStep
<1>8. QED
  BY <1>6, <1>7 DEF DispatchIncident

LEMMA ReturnedIsPlace ==
  ASSUME AgentsIInv, NEW a \in Runners
  PROVE  /\ Returned(a) \in Places /\ Returned(a).outcome = "NONE"
         /\ Returned(a).pc \notin {"running", "tail"}
BY RunnersArePlaces DEF Returned, Idle, Places

LEMMA SynthesizeIsSound ==
  ASSUME AgentsIInv, NEW a \in Runners, Synthesize(a)
  PROVE  AgentsIInv'
<1> DEFINE i == runner[a].incident
           row(r) == [Seen(a) EXCEPT ![r] = Pending(i, "SYNTHESIS")]
<1>1. runner[a] \in Places /\ runner[a].pc = "tail"
  BY RunnersArePlaces DEF Synthesize
<1>2. i \in TriageIncidents /\ NeedsSynthesis(Seen(a), i)
  BY <1>1 DEF Synthesize, Places, AgentsIInv, RunnersHaveRows
<1>3. PICK r \in Assignments :
        IF MayRun(a) THEN /\ Commit(a, Started(row(r), r))
                          /\ runner' = [runner EXCEPT ![a] = Running(a, r, {})]
                     ELSE /\ Commit(a, row(r))
                          /\ runner' = [runner EXCEPT ![a] = Returned(a)]
  BY DEF Synthesize
<1> DEFINE table == row(r)
<1>4. /\ table \in Table /\ Sound(table, SeenReports(a)) /\ Keeps(Seen(a), table)
      /\ Keeps(assignment, Seen(a)) /\ table[r].status = "PENDING"
  BY <1>2, SeenIsSound, SynthesisIsSound
<1>5. Keeps(assignment, table)
  BY <1>4 DEF Keeps
<1>6. TriageMayBe(SeenReports(a)) /\ deaths' = deaths
  BY TriageStays DEF Synthesize
<1>7. CASE MayRun(a)
  <2> DEFINE next == Started(table, r)
             run == Running(a, r, {})
  <2>1. next \in Table /\ Sound(next, SeenReports(a)) /\ Keeps(table, next) /\ Known(next[r])
    BY <1>4, StartedIsSound
  <2>2. Keeps(assignment, next)
    BY <1>5, <2>1 DEF Keeps
  <2>3. run \in Places /\ run.row = r /\ run.pc = "running" /\ run.outcome = "NONE"
    BY <1>1 DEF Places, Running
  <2>4. Commit(a, next) /\ runner' = [runner EXCEPT ![a] = run]
    BY <1>3, <1>7
  <2> HIDE DEF next, run
  <2>5. QED
    BY <1>1, <1>6, <1>7, <2>1, <2>2, <2>3, <2>4, CommitStep
<1>8. CASE ~MayRun(a)
  <2>1. Commit(a, table) /\ runner' = [runner EXCEPT ![a] = Returned(a)]
    BY <1>3, <1>8
  <2> HIDE DEF table
  <2>2. QED
    BY <1>1, <1>4, <1>5, <1>6, <2>1, ReturnedIsPlace, CommitStep
<1>9. QED
  BY <1>7, <1>8

LEMMA EndDispatchIsSound ==
  ASSUME AgentsIInv, NEW a \in Runners, EndDispatch(a)
  PROVE  AgentsIInv'
<1>1. runner[a] \in Places /\ runner[a].pc = "tail"
  BY RunnersArePlaces DEF EndDispatch
<1>2. {runner[a].incident} \in SUBSET TriageIncidents
  BY <1>1 DEF Places, AgentsIInv, RunnersHaveRows
<1>3. Seen(a) \in Table /\ Sound(Seen(a), SeenReports(a)) /\ Keeps(assignment, Seen(a))
  BY SeenIsSound
<1>4. TriageMayBe(SeenReports(a))
  BY <1>2, <1>3, FinalizeReports DEF EndDispatch
<1>5. Commit(a, Seen(a)) /\ runner' = [runner EXCEPT ![a] = Returned(a)] /\ deaths' = deaths
  BY DEF EndDispatch
<1>6. QED
  BY <1>1, <1>3, <1>4, <1>5, ReturnedIsPlace, CommitStep

LEMMA TickEndsIsSound ==
  ASSUME AgentsIInv, TickEnds
  PROVE  AgentsIInv'
<1>1. Tick \in Runners /\ runner[Tick].pc # "running" /\ Idle \in Places
      /\ Idle.outcome = "NONE" /\ Idle.pc \notin {"running", "tail"}
  BY RunnersArePlaces DEF TickEnds, Idle
<1>2. Seen(Tick) \in Table /\ Sound(Seen(Tick), SeenReports(Tick))
      /\ Keeps(assignment, Seen(Tick))
  BY <1>1, SeenIsSound
<1>3. TriageMayBe(SeenReports(Tick)) /\ deaths' = deaths
  BY TriageStays DEF TickEnds
<1>4. Commit(Tick, Seen(Tick)) /\ runner' = [runner EXCEPT ![Tick] = Idle]
  BY DEF TickEnds
<1>5. QED
  BY <1>1, <1>2, <1>3, <1>4, CommitStep

LEMMA TickStartsIsSound ==
  ASSUME AgentsIInv, TickStarts
  PROVE  AgentsIInv'
<1> DEFINE table == RecoverExpiredAssignments
           open == {i \in TriageIncidents : triage[i] = "OPEN"}
           me == IF CircuitOpen(failures) THEN Idle
                 ELSE [Idle EXCEPT !.pc = "next", !.rest = First(ResumeLimit, Waiting(table))]
<1>1. table \in Table /\ Sound(table, reports) /\ Keeps(assignment, table)
  BY RecoveryIsSound
<1>2. TriageMayBe(reports)
  BY <1>1, FinalizeReports DEF TickStarts
<1>3. First(ResumeLimit, Waiting(table)) \subseteq Assignments
  BY DEF First, Waiting
<1>4. assignment' = table /\ runner' = [runner EXCEPT ![Tick] = me]
      /\ UNCHANGED <<reports, usage, failures, deaths>>
  BY DEF TickStarts
<1> HIDE DEF table
<1>5. me \in Places /\ me.outcome = "NONE" /\ me.pc \notin {"running", "tail"}
  BY <1>3, RunnersArePlaces DEF Idle, Places
<1> HIDE DEF me
<1>6. runner \in [Runners -> Places] /\ Tick \in Runners
  BY RunnersArePlaces
<1>7. runner' \in [Runners -> Places]
  BY <1>4, <1>5, <1>6
<1>8. \A b \in Runners :
        /\ runner'[b].pc = "running" \/ runner'[b].outcome # "NONE" =>
             b \in Busy /\ runner'[b].row = runner[b].row
        /\ runner'[b].pc = "tail" => runner'[b].incident # 0
  BY <1>4, <1>5, <1>6 DEF Busy, AgentsIInv, RunnersHaveRows
<1>9. QED
  BY <1>1, <1>2, <1>4, <1>7, <1>8, QuietStep DEF AgentsIInv, AgentsTypeOK

LEMMA LeaseExpiresIsSound ==
  ASSUME AgentsIInv, NEW r \in Assignments, LeaseExpires(r)
  PROVE  AgentsIInv'
<1>1. assignment \in Table /\ runner \in [Runners -> Places]
  BY RunnersArePlaces DEF AgentsIInv, AgentsTypeOK
<1>2. assignment' = [assignment EXCEPT ![r].lapsed = TRUE]
  BY DEF LeaseExpires
<1>3. assignment' \in Table
  BY <1>1, <1>2 DEF Table
<1>4. \A x \in Assignments :
        /\ assignment'[x].work = assignment[x].work
        /\ assignment'[x].incident = assignment[x].incident
        /\ assignment'[x].status = assignment[x].status
        /\ assignment'[x].attempts = assignment[x].attempts
  BY <1>1, <1>2 DEF Table
<1> DEFINE next == assignment'
<1>5. AttemptsLeft(next) /\ RowsReported(next, reports) /\ Keeps(assignment, next)
  BY <1>4 DEF AgentsIInv, Sound, AttemptsLeft, RowsReported, Keeps, Known
<1>6. RowsBounded(next)
  BY <1>1, <1>3, <1>4, BoundsStay DEF AgentsIInv, Sound
<1>7. TriageMayBe(reports)
  BY TriageStays DEF LeaseExpires
<1>8. \A b \in Runners :
        /\ runner[b].pc = "running" \/ runner[b].outcome # "NONE" => b \in Busy
        /\ runner[b].pc = "tail" => runner[b].incident # 0
  BY DEF Busy, AgentsIInv, RunnersHaveRows
<1>9. QED
  BY <1>1, <1>3, <1>5, <1>6, <1>7, <1>8, QuietStep
     DEF Sound, LeaseExpires, AgentsIInv, AgentsTypeOK

\* Time, the death of the server and other hands on an incident.
LEMMA WorldIsSound ==
  ASSUME AgentsIInv,
         NewDay \/ Cooldown \/ ServerDies
           \/ \E i \in TriageIncidents, s \in {"OPEN", "INVESTIGATING", "OTHER"} :
                StatusChanges(i, s)
  PROVE  AgentsIInv'
<1>1. /\ assignment' = assignment /\ reports' = reports
      /\ runner' = runner \/ runner' = [a \in Runners |-> Idle]
  BY DEF NewDay, Cooldown, ServerDies, StatusChanges
<1>2. usage \in Nat /\ failures \in Nat /\ deaths \in 0 .. MaxDeaths /\ MaxDeaths \in Nat
  BY AgentsAssumption DEF AgentsIInv, AgentsTypeOK
<1>3. usage' \in Nat /\ usage' <= usage /\ failures' \in Nat /\ deaths' \in 0 .. MaxDeaths
  BY <1>2 DEF NewDay, Cooldown, ServerDies, StatusChanges
<1>4. TriageMayBe(reports)
  BY DEF NewDay, Cooldown, ServerDies, StatusChanges, TriageMayBe, AgentsIInv, AgentsTypeOK
<1>5. runner' \in [Runners -> Places]
  BY <1>1, RunnersArePlaces
<1>6. \A b \in Runners :
        /\ runner'[b].pc = "running" \/ runner'[b].outcome # "NONE" =>
             b \in Busy /\ runner'[b].row = runner[b].row
        /\ runner'[b].pc = "tail" => runner'[b].incident # 0
  BY <1>1 DEF Idle, Busy, AgentsIInv, RunnersHaveRows
<1>7. QED
  BY <1>1, <1>3, <1>4, <1>5, <1>6, QuietStep DEF AgentsIInv, AgentsTypeOK, Keeps

LEMMA RunnerStepIsSound ==
  ASSUME AgentsIInv, NEW a \in Runners, RunnerStep(a)
  PROVE  AgentsIInv'
BY RunEndsIsSound, StartNextIsSound, AlreadyProcessedIsSound, StopRunsIsSound,
   SynthesizeIsSound, EndDispatchIsSound DEF RunnerStep

LEMMA AgentsInitially == AgentsInit => AgentsIInv
<1> SUFFICES ASSUME AgentsInit PROVE AgentsIInv
  OBVIOUS
<1>1. AgentsTypeOK
  BY AgentsAssumption DEF AgentsInit, AgentsTypeOK, Table, NoAssignment, Idle
<1>2. AttemptsLeft(assignment) /\ RowsReported(assignment, reports)
  BY DEF AgentsInit, NoAssignment, AttemptsLeft, RowsReported
<1>3. RowsBounded(assignment)
  <2> SUFFICES ASSUME NEW i \in TriageIncidents, NEW w \in Works
               PROVE  RowsFor(assignment, i, w) = {}
    BY FS_EmptySet DEF RowsBounded
  <2> QED
    BY ZeroIsNoIncident DEF AgentsInit, NoAssignment, RowsFor, RowsOf
<1>4. RunnersHaveRows /\ TriageHasReports
  BY DEF AgentsInit, Idle, RunnersHaveRows, TriageHasReports
<1>5. BusyWillBeCounted
  <2>1. Busy = {}
    BY DEF AgentsInit, Idle, Busy
  <2>2. Cardinality(Busy) = 0 /\ usage = 0
    BY <2>1, FS_EmptySet DEF AgentsInit
  <2>3. QED
    BY <2>2, SomeRunners, AgentsAssumption DEF BusyWillBeCounted
<1>6. QED
  BY <1>1, <1>2, <1>3, <1>4, <1>5 DEF AgentsIInv, Sound

(***************************************************************************)
(* The theorems about the agents.                                          *)
(***************************************************************************)
LEMMA AgentsIInvStep ==
  ASSUME AgentsIInv, [AgentsNext]_agentsVars
  PROVE  AgentsIInv'
<1>1. ASSUME NEW a \in Runners, RunnerStep(a) PROVE AgentsIInv'
  BY <1>1, RunnerStepIsSound
<1>2. CASE TickStep
  <2>1. Tick \in Runners
    BY RunnersArePlaces
  <2>2. CASE TickDispatches
    <3>1. PICK i \in runner[Tick].todo :
            DispatchIncident(Tick, i, runner[Tick].todo \ {i})
      BY <2>2 DEF TickDispatches
    <3>2. runner[Tick].todo \in SUBSET TriageIncidents /\ runner[Tick].pc # "running"
      BY <2>1, <2>2, RunnersArePlaces DEF TickDispatches, Places
    <3>3. QED
      BY <2>1, <3>1, <3>2, DispatchIsSound
  <2>3. QED
    BY <1>1, <1>2, <2>1, <2>2, TickStartsIsSound, TickEndsIsSound DEF TickStep
<1>3. ASSUME NEW a \in Requests, NEW i \in TriageIncidents, DispatchRequest(a, i)
      PROVE  AgentsIInv'
  <2>1. a \in Runners /\ runner[a].pc # "running"
    BY <1>3, RunnersArePlaces DEF DispatchRequest, Idle
  <2>2. {} \in SUBSET TriageIncidents
    OBVIOUS
  <2>3. QED
    BY <1>3, <2>1, <2>2, DispatchIsSound DEF DispatchRequest
<1>4. CASE UNCHANGED agentsVars
  BY <1>4 DEF agentsVars, AgentsIInv, AgentsTypeOK, Sound, AttemptsLeft, RowsBounded,
              RowsReported, RowsFor, RowsOf, Known, RunnersHaveRows, BusyWillBeCounted,
              Busy, TriageHasReports
<1>5. Requests \subseteq Runners
  BY RunnersArePlaces
<1>6. QED
  BY <1>1, <1>2, <1>3, <1>4, <1>5, LeaseExpiresIsSound, WorldIsSound DEF AgentsNext

\* Whatever the tick, the requests, the clocks and a restart of the server do to the
\* assignments of ops_runtime.py, their rows, reports and counts stay sound.
THEOREM AgentsInvariant == AgentsSpec => []AgentsIInv
BY AgentsInitially, AgentsIInvStep, PTL DEF AgentsSpec

\* The variables of ops_runtime.py keep their types.
THEOREM AgentsWellTyped == AgentsSpec => []AgentsTypeOK
<1>1. AgentsIInv => AgentsTypeOK
  BY DEF AgentsIInv
<1>2. QED
  BY <1>1, AgentsInvariant, PTL

\* An incident of the Operations Center costs at most two rows for a role, one
\* synthesis and two runs for each row, however runs fail, are lost or overlap.
THEOREM RunsAreBounded == AgentsSpec => []AttemptsBounded
<1>1. AgentsIInv => AttemptsBounded
  BY DEF AgentsIInv, Sound, AttemptsLeft, RowsBounded, AttemptsBounded
<1>2. QED
  BY <1>1, AgentsInvariant, PTL

\* The daily budget of _daily_budget_available is exceeded by one run for each request
\* under way at most.
THEOREM BudgetIsKept == AgentsSpec => []DailyLimitRespected
<1>1. AgentsIInv => DailyLimitRespected
  <2> SUFFICES ASSUME AgentsIInv PROVE DailyLimitRespected
    OBVIOUS
  <2>1. usage \in Nat /\ Cardinality(Busy) \in Nat /\ Cardinality(Requests) \in Nat
        /\ DailyRunLimit \in Nat
    BY BusyIsCountable, SomeRunners, AgentsAssumption DEF AgentsIInv, AgentsTypeOK
  <2>2. usage + Cardinality(Busy) <= DailyRunLimit + Cardinality(Requests)
    BY DEF AgentsIInv, BusyWillBeCounted
  <2>3. QED
    BY <2>1, <2>2 DEF DailyLimitRespected
<1>2. QED
  BY <1>1, AgentsInvariant, PTL

\* finalize_agent_triage announces a triage only with every report in the database.
THEOREM TriageIsReported == AgentsSpec => []TriageHasReports
<1>1. AgentsIInv => TriageHasReports
  BY DEF AgentsIInv
<1>2. QED
  BY <1>1, AgentsInvariant, PTL

(***************************************************************************)
(* The notices.                                                            *)
(***************************************************************************)
USE NoticesAssumption

Rows == [status : Results \cup {"NONE", "PENDING"}, attempts : 0 .. MaxSendAttempts,
         due : BOOLEAN]

\* Where RowsAreDense holds, the row after the last used one is the next.
LEMMA LastUsed ==
  ASSUME NEW last \in 0 .. MaxNotices, Used(notice) = 1 .. last
  PROVE  Cardinality(Used(notice)) = last
<1>1. last \in Nat
  OBVIOUS
<1>2. QED
  BY <1>1, FS_Interval

LEMMA QueuedRows ==
  ASSUME NoticesTypeOK, RowsAreDense, NEW k \in Nat, Room(k)
  PROVE  /\ Queued(notice, k) \in [Notices -> Rows]
         /\ \A n \in Notices :
              \/ Queued(notice, k)[n] = notice[n]
              \/ /\ notice[n].status = "NONE"
                 /\ Queued(notice, k)[n].status = "PENDING"
         /\ \E last \in 0 .. MaxNotices : Used(Queued(notice, k)) = 1 .. last
<1>1. PICK last \in 0 .. MaxNotices : Used(notice) = 1 .. last
  BY DEF RowsAreDense
<1>2. Cardinality(Used(notice)) = last /\ last \in Nat
  BY <1>1, LastUsed
<1>3. last + k <= MaxNotices
  BY <1>2 DEF Room
<1> DEFINE row == [status |-> "PENDING", attempts |-> 0, due |-> FALSE]
<1>4. row \in Rows /\ row.status = "PENDING"
  <2>1. 0 \in 0 .. MaxSendAttempts
    OBVIOUS
  <2>2. QED
    BY <2>1 DEF Rows
<1>5. Queued(notice, k) = [n \in Notices |-> IF n \in (last + 1) .. (last + k)
                                              THEN row ELSE notice[n]]
  BY <1>2 DEF Queued
<1>6. notice \in [Notices -> Rows]
  BY DEF NoticesTypeOK, Rows
<1> HIDE DEF row
<1>7. Queued(notice, k) \in [Notices -> Rows]
  BY <1>4, <1>5, <1>6
<1>8. \A n \in Notices : notice[n].status # "NONE" <=> n <= last
  BY <1>1, <1>2 DEF Used, Notices
<1>9. ASSUME NEW n \in Notices
      PROVE  \/ Queued(notice, k)[n] = notice[n]
             \/ notice[n].status = "NONE" /\ Queued(notice, k)[n].status = "PENDING"
  BY <1>2, <1>4, <1>5, <1>8 DEF Notices
<1>10. \A n \in Notices : Queued(notice, k)[n].status # "NONE" <=> n <= last + k
  BY <1>2, <1>4, <1>5, <1>8 DEF Notices
<1>11. Used(Queued(notice, k)) = 1 .. (last + k)
  BY <1>2, <1>3, <1>10 DEF Used, Notices
<1>12. last + k \in 0 .. MaxNotices
  BY <1>2, <1>3
<1>13. QED
  BY <1>7, <1>9, <1>11, <1>12

\* Queueing is all that some steps do to the rows, and they do it between deliveries.
LEMMA QueueStep ==
  ASSUME NoticesIInv, NEW k \in Nat, Room(k), ~Delivering, notice' = Queued(notice, k),
         UNCHANGED <<batch, outgoing, received, tickDeaths>>,
         bad' \subseteq Conditions, raised' \subseteq Conditions, digested' \in BOOLEAN,
         reminded' \subseteq Reminders, nearing' \subseteq Reminders
  PROVE  NoticesIInv'
<1> USE DEF NoticesIInv
<1>1. /\ notice' \in [Notices -> Rows]
      /\ \A n \in Notices : \/ notice'[n] = notice[n]
                            \/ notice[n].status = "NONE" /\ notice'[n].status = "PENDING"
      /\ \E last \in 0 .. MaxNotices : Used(notice') = 1 .. last
  BY QueuedRows
<1>2. NoticesTypeOK' /\ RowsAreDense'
  BY <1>1 DEF NoticesTypeOK, Rows, RowsAreDense
<1>3. batch' = {} /\ outgoing' = NoMessage
  BY DEF Delivering
<1>4. \A n \in Notices : received'[n] = received[n]
                         /\ (notice'[n] # notice[n] => received[n] = 0)
  BY <1>1 DEF DeliveryIsOfRows
<1>5. DeliveryIsOfRows' /\ MessageIsOfARow'
  BY <1>1, <1>3, <1>4 DEF DeliveryIsOfRows, MessageIsOfARow
<1>6. DeliveriesCounted'
  <2> SUFFICES ASSUME NEW n \in Notices
               PROVE  /\ received'[n] <= notice'[n].attempts + tickDeaths'
                                         + (IF outgoing'.row = n THEN 1 ELSE 0)
                      /\ notice'[n].status = "SENT" => received'[n] > 0
    BY DEF DeliveriesCounted
  <2>1. CASE notice'[n] = notice[n]
    BY <1>4, <2>1 DEF DeliveriesCounted
  <2>2. CASE notice'[n] # notice[n]
    <3>1. received'[n] = 0 /\ notice'[n].status = "PENDING"
      BY <1>1, <1>4, <2>2
    <3>2. notice'[n].attempts \in Nat /\ tickDeaths' \in Nat
      BY <1>2 DEF NoticesTypeOK
    <3>3. QED
      BY <3>1, <3>2
  <2>3. QED
    BY <2>1, <2>2
<1>7. QED
  BY <1>2, <1>5, <1>6

\* Steps that touch neither the rows nor the delivery.
LEMMA OtherStep ==
  ASSUME NoticesIInv, UNCHANGED <<notice, batch, outgoing, received, tickDeaths>>,
         bad' \subseteq Conditions, raised' \subseteq Conditions, digested' \in BOOLEAN,
         reminded' \subseteq Reminders, nearing' \subseteq Reminders
  PROVE  NoticesIInv'
<1> USE DEF NoticesIInv
<1>1. NoticesTypeOK' /\ RowsAreDense'
  BY DEF NoticesTypeOK, RowsAreDense
<1>2. DeliveryIsOfRows' /\ MessageIsOfARow' /\ DeliveriesCounted'
  BY DEF DeliveryIsOfRows, MessageIsOfARow, DeliveriesCounted
<1>3. QED
  BY <1>1, <1>2

LEMMA ReadStep ==
  ASSUME NoticesIInv, ReadPending
  PROVE  NoticesIInv'
<1> USE DEF NoticesIInv
<1>1. batch' \subseteq {n \in Notices : Deliverable(notice[n])}
  BY DEF ReadPending, Oldest
<1>2. outgoing = NoMessage
  BY DEF ReadPending, Delivering
<1>3. NoticesTypeOK' /\ RowsAreDense'
  BY <1>1 DEF NoticesTypeOK, RowsAreDense, ReadPending
<1>4. DeliveryIsOfRows'
  BY <1>1, <1>2 DEF DeliveryIsOfRows, ReadPending, Deliverable, NoMessage, Notices
<1>5. MessageIsOfARow' /\ DeliveriesCounted'
  BY DEF MessageIsOfARow, DeliveriesCounted, ReadPending
<1>6. QED
  BY <1>3, <1>4, <1>5

LEMMA NotifyStep ==
  ASSUME NoticesIInv, NEW n \in Notices, NEW result \in Results, NEW arrives \in BOOLEAN,
         NotifyOwner(n, result, arrives)
  PROVE  NoticesIInv'
<1> USE DEF NoticesIInv
<1>1. n \in batch /\ batch' = batch \ {n}
  BY DEF NotifyOwner, Oldest
<1>2. /\ outgoing' = [row |-> n, result |-> result] /\ outgoing = NoMessage
      /\ outgoing'.row = n /\ outgoing'.result = result
  BY DEF NotifyOwner
<1>3. received' = received \/ received' = [received EXCEPT ![n] = received[n] + 1]
  BY DEF NotifyOwner
<1>4. /\ received[n] \in Nat
      /\ received'[n] \in {received[n], received[n] + 1}
      /\ \A m \in Notices \ {n} : received'[m] = received[m]
      /\ received' \in [Notices -> Nat]
  BY <1>3 DEF NoticesTypeOK
<1>5. /\ result = "SENT" => received'[n] > 0
      /\ result = "SKIPPED" => received'[n] = received[n]
  BY <1>4 DEF NotifyOwner, NoticesTypeOK
<1>6. UNCHANGED <<notice, tickDeaths>> /\ tickDeaths \in Nat /\ notice[n].attempts \in Nat
  BY DEF NotifyOwner, NoticesTypeOK
<1>7. NoticesTypeOK' /\ RowsAreDense'
  BY <1>1, <1>2, <1>4, <1>6 DEF NoticesTypeOK, RowsAreDense, NotifyOwner
<1>8. DeliveryIsOfRows'
  BY <1>1, <1>2, <1>4, <1>6 DEF DeliveryIsOfRows
<1>9. received[n] <= notice[n].attempts + tickDeaths
  BY <1>2, <1>6 DEF DeliveriesCounted, NoMessage, Notices
<1>10. MessageIsOfARow'
  BY <1>1, <1>2, <1>5, <1>6, <1>9 DEF MessageIsOfARow, DeliveryIsOfRows
<1>11. DeliveriesCounted'
  <2> SUFFICES ASSUME NEW m \in Notices
               PROVE  /\ received'[m] <= notice'[m].attempts + tickDeaths'
                                         + (IF outgoing'.row = m THEN 1 ELSE 0)
                      /\ notice'[m].status = "SENT" => received'[m] > 0
    BY DEF DeliveriesCounted
  <2>1. CASE m = n
    <3>1. received'[n] <= notice[n].attempts + tickDeaths + 1
      BY <1>4, <1>6, <1>9
    <3>2. notice[n].status = "SENT" => received'[n] > 0
      BY <1>4 DEF DeliveriesCounted
    <3>3. QED
      BY <1>2, <1>6, <2>1, <3>1, <3>2
  <2>2. CASE m # n
    <3>1. received'[m] = received[m] /\ outgoing'.row # m /\ outgoing.row # m
      BY <1>2, <1>4, <2>2 DEF NoMessage, Notices
    <3>2. QED
      BY <1>6, <3>1 DEF DeliveriesCounted
  <2>3. QED
    BY <2>1, <2>2
<1>12. QED
  BY <1>7, <1>8, <1>10, <1>11

LEMMA RecordStep ==
  ASSUME NoticesIInv, RecordResult
  PROVE  NoticesIInv'
<1> USE DEF NoticesIInv
<1> DEFINE n == outgoing.row
           row == Attempted(notice[n], outgoing.result)
<1>1. /\ n \in Notices /\ outgoing.result \in Results /\ n \notin batch
      /\ notice[n].status # "NONE" /\ notice[n].attempts < MaxSendAttempts
      /\ outgoing.result = "SENT" => received[n] > 0
      /\ outgoing.result = "SKIPPED" => received[n] <= notice[n].attempts + tickDeaths
  BY DEF RecordResult, MessageIsOfARow, DeliveryIsOfRows
<1>2. notice[n].attempts \in Nat /\ notice \in [Notices -> Rows] /\ tickDeaths \in Nat
      /\ received \in [Notices -> Nat]
  BY <1>1 DEF NoticesTypeOK, Rows
<1>3. /\ row \in Rows /\ row.status = outgoing.result
      /\ row.attempts = IF outgoing.result = "SKIPPED" THEN notice[n].attempts
                        ELSE notice[n].attempts + 1
  BY <1>1, <1>2 DEF Attempted, Rows, Results
<1>4. notice' = [notice EXCEPT ![n] = row]
  BY DEF RecordResult
<1>5. received[n] <= notice[n].attempts + tickDeaths + 1
  BY <1>1 DEF DeliveriesCounted
<1> HIDE DEF row
<1>6. /\ notice' \in [Notices -> Rows] /\ notice'[n] = row
      /\ \A m \in Notices \ {n} : notice'[m] = notice[m]
  BY <1>1, <1>2, <1>3, <1>4
<1>7. \A m \in Notices : notice'[m].status # "NONE" <=> notice[m].status # "NONE"
  BY <1>1, <1>3, <1>6 DEF Results
<1>8. Used(notice') = Used(notice)
  BY <1>7 DEF Used
<1>9. NoticesTypeOK' /\ RowsAreDense'
  BY <1>6, <1>8 DEF NoticesTypeOK, Rows, RowsAreDense, RecordResult, NoMessage
<1>10. DeliveryIsOfRows' /\ MessageIsOfARow'
  <2>1. outgoing' = NoMessage /\ UNCHANGED <<batch, received>>
    BY DEF RecordResult
  <2>2. batch \subseteq Notices
    BY DEF NoticesTypeOK
  <2>3. QED
    BY <1>1, <1>6, <1>7, <2>1, <2>2 DEF DeliveryIsOfRows, MessageIsOfARow, NoMessage, Notices
<1>11. DeliveriesCounted'
  <2> SUFFICES ASSUME NEW m \in Notices
               PROVE  /\ received[m] <= notice'[m].attempts + tickDeaths
                      /\ notice'[m].status = "SENT" => received[m] > 0
    <3>1. outgoing' = NoMessage /\ UNCHANGED <<received, tickDeaths>>
      BY DEF RecordResult
    <3>2. \A m \in Notices : outgoing'.row # m /\ notice'[m].attempts \in Nat
      BY <1>6, <3>1 DEF NoMessage, Notices, Rows
    <3>3. QED
      BY <1>2, <3>1, <3>2 DEF DeliveriesCounted
  <2>1. CASE m = n
    <3>1. received[n] <= row.attempts + tickDeaths
      BY <1>1, <1>2, <1>3, <1>5
    <3>2. QED
      BY <1>1, <1>3, <1>6, <2>1, <3>1
  <2>2. CASE m # n
    <3>1. received[m] <= notice[m].attempts + tickDeaths
      BY <2>2 DEF DeliveriesCounted, NoticesTypeOK
    <3>2. QED
      BY <1>6, <2>2, <3>1 DEF DeliveriesCounted
  <2>3. QED
    BY <2>1, <2>2
<1>12. QED
  BY <1>9, <1>10, <1>11

LEMMA RetryStep ==
  ASSUME NoticesIInv, NEW n \in Notices, RetryDue(n)
  PROVE  NoticesIInv'
<1> USE DEF NoticesIInv
<1>1. notice' = [notice EXCEPT ![n].due = TRUE]
  BY DEF RetryDue
<1>2. /\ notice' \in [Notices -> Rows]
      /\ \A m \in Notices : notice'[m].status = notice[m].status
                            /\ notice'[m].attempts = notice[m].attempts
  BY <1>1 DEF NoticesTypeOK, Rows
<1>3. Used(notice') = Used(notice)
  BY <1>2 DEF Used
<1>4. NoticesTypeOK' /\ RowsAreDense'
  BY <1>2, <1>3 DEF NoticesTypeOK, Rows, RowsAreDense, RetryDue
<1>5. UNCHANGED <<batch, outgoing, received, tickDeaths>> /\ batch \subseteq Notices
  BY DEF RetryDue, NoticesTypeOK
<1>6. DeliveryIsOfRows' /\ DeliveriesCounted'
  BY <1>2, <1>5 DEF DeliveryIsOfRows, DeliveriesCounted
<1>7. MessageIsOfARow'
  BY <1>2, <1>5 DEF MessageIsOfARow
<1>8. QED
  BY <1>4, <1>6, <1>7

LEMMA DeathStep ==
  ASSUME NoticesIInv, TickDies
  PROVE  NoticesIInv'
<1> USE DEF NoticesIInv
<1>1. /\ UNCHANGED <<bad, raised, notice, digested, reminded, nearing, received>>
      /\ batch' = {} /\ outgoing' = NoMessage /\ tickDeaths' = tickDeaths + 1
      /\ tickDeaths < MaxTickDeaths
  BY DEF TickDies
<1>2. NoticesTypeOK' /\ RowsAreDense'
  <2>1. tickDeaths' \in 0 .. MaxTickDeaths
    BY <1>1 DEF NoticesTypeOK
  <2>2. outgoing' \in [row : Notices \cup {0}, result : Results \cup {"NONE"}]
    BY <1>1 DEF NoMessage
  <2>3. QED
    BY <1>1, <2>1, <2>2 DEF NoticesTypeOK, RowsAreDense
<1>3. DeliveryIsOfRows' /\ MessageIsOfARow'
  BY <1>1 DEF DeliveryIsOfRows, MessageIsOfARow
<1>4. DeliveriesCounted'
  <2>1. /\ outgoing'.row = 0 /\ tickDeaths \in Nat
        /\ \A n \in Notices : n # 0 /\ notice[n].attempts \in Nat /\ received[n] \in Nat
    BY <1>1 DEF NoMessage, Notices, NoticesTypeOK
  <2>2. ASSUME NEW n \in Notices
        PROVE  received[n] <= notice[n].attempts + (tickDeaths + 1)
    BY <2>1 DEF DeliveriesCounted
  <2>3. \A n \in Notices : notice[n].status = "SENT" => received[n] > 0
    BY DEF DeliveriesCounted
  <2>4. QED
    BY <1>1, <2>1, <2>2, <2>3 DEF DeliveriesCounted
<1>5. QED
  BY <1>2, <1>3, <1>4

LEMMA NoticesInitIInv == NoticesInit => NoticesIInv
<1> SUFFICES ASSUME NoticesInit
             PROVE  NoticesIInv
  OBVIOUS
<1> USE DEF NoticesInit, NoNotice, NoMessage
<1>1. NoticesTypeOK
  <2>1. notice \in [Notices -> [status : Results \cup {"NONE", "PENDING"},
                                attempts : 0 .. MaxSendAttempts, due : BOOLEAN]]
    <3>1. 0 \in 0 .. MaxSendAttempts
      OBVIOUS
    <3>2. NoNotice \in [status : Results \cup {"NONE", "PENDING"},
                        attempts : 0 .. MaxSendAttempts, due : BOOLEAN]
      BY <3>1
    <3>3. QED
      BY <3>2
  <2>2. tickDeaths \in 0 .. MaxTickDeaths
    OBVIOUS
  <2>3. QED
    BY <2>1, <2>2 DEF NoticesTypeOK
<1>2. RowsAreDense
  <2>1. Used(notice) = 1 .. 0
    BY DEF Used
  <2>2. 0 \in 0 .. MaxNotices
    OBVIOUS
  <2>3. QED
    BY <2>1, <2>2 DEF RowsAreDense
<1>3. DeliveryIsOfRows /\ MessageIsOfARow /\ DeliveriesCounted
  BY DEF DeliveryIsOfRows, MessageIsOfARow, DeliveriesCounted
<1>4. QED
  BY <1>1, <1>2, <1>3 DEF NoticesIInv

LEMMA NoticesIInvStep == NoticesIInv /\ [NoticesNext]_noticesVars => NoticesIInv'
<1> SUFFICES ASSUME NoticesIInv, [NoticesNext]_noticesVars
             PROVE  NoticesIInv'
  OBVIOUS
<1>1. /\ bad \subseteq Conditions /\ raised \subseteq Conditions /\ digested \in BOOLEAN
      /\ reminded \subseteq Reminders /\ nearing \subseteq Reminders
  BY DEF NoticesIInv, NoticesTypeOK
<1>2. CASE UNCHANGED noticesVars
  BY <1>1, <1>2, OtherStep DEF noticesVars
<1>3. ASSUME NEW c \in Conditions, ConditionChanges(c) \/ ResolveByHand(c)
      PROVE  NoticesIInv'
  BY <1>1, <1>3, OtherStep DEF ConditionChanges, ResolveByHand
<1>4. CASE CollectRuntimeSignals
  <2>1. Cardinality(Opened \cap Urgent) \in Nat
    <3>1. IsFiniteSet(Opened \cap Urgent)
      BY FS_Subset
    <3>2. QED
      BY <3>1, FS_CardinalityType
  <2>2. QED
    BY <1>1, <1>4, <2>1, QueueStep DEF CollectRuntimeSignals
<1>5. CASE QueueDailyDigest
  BY <1>1, <1>5, QueueStep DEF QueueDailyDigest
<1>6. CASE MidnightPasses
  BY <1>1, <1>6, OtherStep DEF MidnightPasses
<1>7. ASSUME NEW a \in Reminders, HalfLifePasses(a)
      PROVE  NoticesIInv'
  BY <1>1, <1>7, OtherStep DEF HalfLifePasses
<1>8. CASE QueueApprovalReminders
  <2> DEFINE due == nearing \ reminded
  <2>1. Cardinality(due) \in Nat
    <3>1. IsFiniteSet(due)
      BY <1>1, FS_Subset
    <3>2. QED
      BY <3>1, FS_CardinalityType
  <2>2. due \subseteq Reminders
    BY <1>1
  <2>3. /\ Room(Cardinality(due)) /\ ~Delivering /\ notice' = Queued(notice, Cardinality(due))
        /\ reminded' = reminded \cup due
        /\ UNCHANGED <<bad, raised, digested, nearing, batch, outgoing, received, tickDeaths>>
    BY <1>8 DEF QueueApprovalReminders
  <2> HIDE DEF due
  <2>4. QED
    BY <1>1, <2>1, <2>2, <2>3, QueueStep
<1>9. CASE DeliveryStep
  BY <1>9, ReadStep, NotifyStep, RecordStep DEF DeliveryStep
<1>10. ASSUME NEW n \in Notices, RetryDue(n)
       PROVE  NoticesIInv'
  BY <1>10, RetryStep
<1>11. CASE TickDies
  BY <1>11, DeathStep
<1>12. QED
  BY <1>2, <1>3, <1>4, <1>5, <1>6, <1>7, <1>8, <1>9, <1>10, <1>11 DEF NoticesNext

\* However often the tick dies and whatever Telegram answers, the notices and their
\* delivery satisfy the inductive invariant.
THEOREM NoticesInvariant == NoticesSpec => []NoticesIInv
BY NoticesInitIInv, NoticesIInvStep, PTL DEF NoticesSpec

\* deliver_pending (ops_notifications.py) never sends a notice more often than it was
\* tried, a death of the tick between sending and recording excepted, and what it
\* records as sent was received.
THEOREM DeliveriesAreCounted == NoticesSpec => []DeliveriesCounted
<1>1. NoticesIInv => DeliveriesCounted
  BY DEF NoticesIInv
<1>2. QED
  BY <1>1, NoticesInvariant, PTL

(***************************************************************************)
(* The two halves side by side.                                            *)
(***************************************************************************)
HalvesIInv == AgentsIInv /\ NoticesIInv

\* Side by side, the two halves of the tick satisfy the inductive invariant of each.
THEOREM HalvesInvariant == HalfSpec => []HalvesIInv
<1>1. HalfInit => HalvesIInv
  BY AgentsInitially, NoticesInitIInv DEF HalfInit, HalvesIInv
<1>2. HalvesIInv /\ [HalfNext]_<<half, agentsVars, noticesVars>> => HalvesIInv'
  <2> SUFFICES ASSUME HalvesIInv, [HalfNext]_<<half, agentsVars, noticesVars>>
               PROVE  HalvesIInv'
    OBVIOUS
  <2>1. [AgentsNext]_agentsVars /\ [NoticesNext]_noticesVars
    BY DEF HalfNext
  <2>2. QED
    BY <2>1, AgentsIInvStep, NoticesIInvStep DEF HalvesIInv
<1>3. QED
  BY <1>1, <1>2, PTL DEF HalfSpec

\* The variables of ops_runtime.py and of ops_notifications.py keep their types.
THEOREM HalvesWellTyped == HalfSpec => []HalfTypeOK
<1>1. HalvesIInv => HalfTypeOK
  BY DEF HalvesIInv, HalfTypeOK, AgentsIInv, NoticesIInv
<1>2. QED
  BY <1>1, HalvesInvariant, PTL
=============================================================================
