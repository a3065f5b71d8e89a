------------------------------ MODULE OpsNotices ------------------------------
(***************************************************************************)
(* What the Operations Center tells its owner: the signals that open and   *)
(* resolve incidents (ops_incidents.py), the notices they queue, the daily *)
(* digest, the reminders of pending approvals (ops_maintenance.py), and    *)
(* their delivery to Telegram by the monitor tick (ops_notifications.py).  *)
(*                                                                         *)
(* A message leaves the process before its result is committed: the tick   *)
(* may die in between, and Telegram's answer may be lost.                  *)
(***************************************************************************)
EXTENDS Naturals, FiniteSets

CONSTANTS Conditions,       \* what is monitored: a source and a resource
          Urgent,           \* those with severity HIGH or CRITICAL
          Reminders,        \* pending approvals that are to be reminded of
          MaxNotices,       \* rows of ops_notifications
          BatchLimit,       \* notices of one delivery, 10
          MaxSendAttempts,  \* 3
          MaxTickDeaths     \* times the process dies during a delivery

ASSUME NoticesAssumption ==
  /\ IsFiniteSet(Conditions) /\ IsFiniteSet(Reminders)
  /\ Urgent \subseteq Conditions
  /\ MaxNotices \in Nat
  /\ BatchLimit \in Nat \ {0}
  /\ MaxSendAttempts \in Nat
  /\ MaxTickDeaths \in Nat

Notices == 1 .. MaxNotices

Results == {"SENT", "FAILED", "SKIPPED"}

VARIABLES bad,         \* the conditions that are not healthy now
          raised,      \* the conditions with an active incident
          notice,      \* rows of ops_notifications
          digested,    \* today's digest has been queued
          reminded,    \* approvals with an APPROVAL_REMINDER event
          nearing,     \* approvals in the second half of their time
          batch,       \* the rows the delivery has read and not yet handled
          outgoing,    \* the message that has left and is not yet recorded
          received,    \* messages the owner has got, by notice
          tickDeaths

noticesVars == <<bad, raised, notice, digested, reminded, nearing, batch, outgoing,
                 received, tickDeaths>>

NoNotice == [status |-> "NONE", attempts |-> 0, due |-> FALSE]

NoMessage == [row |-> 0, result |-> "NONE"]

NoticesTypeOK ==
  /\ bad \subseteq Conditions
  /\ raised \subseteq Conditions
  /\ notice \in [Notices -> [status : Results \cup {"NONE", "PENDING"},
                             attempts : 0 .. MaxSendAttempts, due : BOOLEAN]]
  /\ digested \in BOOLEAN
  /\ reminded \subseteq Reminders
  /\ nearing \subseteq Reminders
  /\ batch \subseteq Notices
  /\ outgoing \in [row : Notices \cup {0}, result : Results \cup {"NONE"}]
  /\ received \in [Notices -> Nat]
  /\ tickDeaths \in 0 .. MaxTickDeaths

NoticesInit ==
  /\ bad = {}
  /\ raised = {}
  /\ notice = [n \in Notices |-> NoNotice]
  /\ digested = FALSE
  /\ reminded = {}
  /\ nearing = {}
  /\ batch = {}
  /\ outgoing = NoMessage
  /\ received = [n \in Notices |-> 0]
  /\ tickDeaths = 0

Delivering == batch # {} \/ outgoing # NoMessage

Used(rows) == {n \in Notices : rows[n].status # "NONE"}

\* The rows with k more, pending.
Queued(rows, k) ==
  LET last == Cardinality(Used(rows)) IN
  [n \in Notices |-> IF n \in (last + 1) .. (last + k)
                     THEN [status |-> "PENDING", attempts |-> 0, due |-> FALSE] ELSE rows[n]]

Room(k) == Cardinality(Used(notice)) + k <= MaxNotices

ConditionChanges(c) ==
  /\ bad' = IF c \in bad THEN bad \ {c} ELSE bad \cup {c}
  /\ UNCHANGED <<raised, notice, digested, reminded, nearing, batch, outgoing,
                 received, tickDeaths>>

(***************************************************************************)
(* ingest_signal opens an incident unless one is active, and queues a      *)
(* notice if it is urgent; the notice of another is born SKIPPED and is    *)
(* left out here.  auto_resolve closes the incidents of a healthy          *)
(* condition.                                                              *)
(***************************************************************************)
Opened == bad \ raised

CollectRuntimeSignals ==
  /\ ~Delivering
  /\ Room(Cardinality(Opened \cap Urgent))
  /\ raised' = bad
  /\ raised' # raised
  /\ notice' = Queued(notice, Cardinality(Opened \cap Urgent))
  /\ UNCHANGED <<bad, digested, reminded, nearing, batch, outgoing, received, tickDeaths>>

\* A supervisor or another signal closes the incident by hand.
ResolveByHand(c) ==
  /\ c \in raised
  /\ raised' = raised \ {c}
  /\ UNCHANGED <<bad, notice, digested, reminded, nearing, batch, outgoing, received,
                 tickDeaths>>

QueueDailyDigest ==
  /\ ~Delivering
  /\ ~digested
  /\ raised \ Urgent # {}
  /\ Room(1)
  /\ notice' = Queued(notice, 1)
  /\ digested' = TRUE
  /\ UNCHANGED <<bad, raised, reminded, nearing, batch, outgoing, received, tickDeaths>>

MidnightPasses ==
  /\ digested
  /\ digested' = FALSE
  /\ UNCHANGED <<bad, raised, notice, reminded, nearing, batch, outgoing, received,
                 tickDeaths>>

HalfLifePasses(a) ==
  /\ a \notin nearing
  /\ nearing' = nearing \cup {a}
  /\ UNCHANGED <<bad, raised, notice, digested, reminded, batch, outgoing, received,
                 tickDeaths>>

QueueApprovalReminders ==
  LET due == nearing \ reminded IN
  /\ ~Delivering
  /\ due # {}
  /\ Room(Cardinality(due))
  /\ notice' = Queued(notice, Cardinality(due))
  /\ reminded' = reminded \cup due
  /\ UNCHANGED <<bad, raised, digested, nearing, batch, outgoing, received, tickDeaths>>

(***************************************************************************)
(* deliver_pending.                                                        *)
(***************************************************************************)
DeliverableOnce(row) == row.status = "PENDING" /\ row.attempts < MaxSendAttempts

Deliverable(row) ==
  /\ row.status = "PENDING" \/ (row.status = "FAILED" /\ row.due)
  /\ row.attempts < MaxSendAttempts

\* ORDER BY id LIMIT: the rows with fewer than k older ones among them.
Oldest(rows, k) == {n \in rows : Cardinality({m \in rows : m < n}) < k}

ReadPending ==
  /\ ~Delivering
  /\ batch' = Oldest({n \in Notices : Deliverable(notice[n])}, BatchLimit)
  /\ batch' # {}
  /\ UNCHANGED <<bad, raised, notice, digested, reminded, nearing, outgoing, received,
                 tickDeaths>>

\* The owner may have got a message whose answer says or looks like a failure.
NotifyOwner(n, result, arrives) ==
  /\ n \in Oldest(batch, 1)
  /\ outgoing = NoMessage
  /\ (result = "SENT" => arrives) /\ (result = "SKIPPED" => ~arrives)
  /\ batch' = batch \ {n}
  /\ outgoing' = [row |-> n, result |-> result]
  /\ received' = IF arrives THEN [received EXCEPT ![n] = @ + 1] ELSE received
  /\ UNCHANGED <<bad, raised, notice, digested, reminded, nearing, tickDeaths>>

Uncounted(row, result) == [status |-> result, attempts |-> row.attempts, due |-> FALSE]

Attempted(row, result) ==
  [status |-> result,
   attempts |-> IF result = "SKIPPED" THEN row.attempts ELSE row.attempts + 1,
   due |-> FALSE]

RecordResult ==
  /\ outgoing # NoMessage
  /\ notice' = [notice EXCEPT ![outgoing.row] = Attempted(@, outgoing.result)]
  /\ outgoing' = NoMessage
  /\ UNCHANGED <<bad, raised, digested, reminded, nearing, batch, received, tickDeaths>>

\* next_attempt_at passes; the last failure has none.
RetryDue(n) ==
  /\ notice[n].status = "FAILED"
  /\ ~notice[n].due
  /\ notice[n].attempts < MaxSendAttempts
  /\ notice' = [notice EXCEPT ![n].due = TRUE]
  /\ UNCHANGED <<bad, raised, digested, reminded, nearing, batch, outgoing, received,
                 tickDeaths>>

TickDies ==
  /\ Delivering
  /\ tickDeaths < MaxTickDeaths
  /\ tickDeaths' = tickDeaths + 1
  /\ batch' = {}
  /\ outgoing' = NoMessage
  /\ UNCHANGED <<bad, raised, notice, digested, reminded, nearing, received>>

DeliveryStep ==
  \/ ReadPending
  \/ \E n \in Notices, result \in Results, arrives \in BOOLEAN :
       NotifyOwner(n, result, arrives)
  \/ RecordResult

NoticesNext ==
  \/ \E c \in Conditions : ConditionChanges(c) \/ ResolveByHand(c)
  \/ CollectRuntimeSignals
  \/ QueueDailyDigest
  \/ MidnightPasses
  \/ \E a \in Reminders : HalfLifePasses(a)
  \/ QueueApprovalReminders
  \/ DeliveryStep
  \/ \E n \in Notices : RetryDue(n)
  \/ TickDies

\* The tick returns every minute, and clocks go on.
NoticesFairness ==
  /\ WF_noticesVars(DeliveryStep)
  /\ WF_noticesVars(\E n \in Notices : RetryDue(n))

NoticesSpec == NoticesInit /\ [][NoticesNext]_noticesVars /\ NoticesFairness

(***************************************************************************)
(* Properties.                                                             *)
(***************************************************************************)

\* The owner never gets a notice more often than it was tried, one further copy for
\* each death of the tick between sending and recording excepted; and what is
\* recorded as SENT was received.
DeliveriesCounted ==
  \A n \in Notices :
    /\ received[n] <= notice[n].attempts + tickDeaths
                      + (IF outgoing.row = n THEN 1 ELSE 0)
    /\ notice[n].status = "SENT" => received[n] > 0

\* Every notice that is queued is sent, or found to have nowhere to go, or tried as
\* often as it may be; none is stuck behind others or behind a result that was lost.
NoticesSettle ==
  \A n \in Notices :
    notice[n].status = "PENDING" ~>
      \/ notice[n].status \in {"SENT", "SKIPPED"}
      \/ notice[n].status = "FAILED" /\ notice[n].attempts = MaxSendAttempts

(***************************************************************************)
(* The inductive invariant.                                                *)
(***************************************************************************)

\* Rows are numbered as they are queued.
RowsAreDense == \E last \in 0 .. MaxNotices : Used(notice) = 1 .. last

\* What is being delivered is a row that may still be tried, and nothing is sent
\* before it is one.
DeliveryIsOfRows ==
  /\ \A n \in Notices : notice[n].status = "NONE" => received[n] = 0
  /\ \A n \in batch : notice[n].status # "NONE" /\ notice[n].attempts < MaxSendAttempts
  /\ outgoing.row \notin batch

\* The message that has left is of a row that may still be tried.
MessageIsOfARow ==
  outgoing # NoMessage =>
    LET n == outgoing.row IN
    /\ n \in Notices /\ outgoing.result \in Results
    /\ notice[n].status # "NONE" /\ notice[n].attempts < MaxSendAttempts
    /\ outgoing.result = "SENT" => received[n] > 0
    /\ outgoing.result = "SKIPPED" => received[n] <= notice[n].attempts + tickDeaths

NoticesIInv ==
  /\ NoticesTypeOK
  /\ RowsAreDense
  /\ DeliveryIsOfRows
  /\ MessageIsOfARow
  /\ DeliveriesCounted
=============================================================================
