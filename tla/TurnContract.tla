----------------------------- MODULE TurnContract -----------------------------
(***************************************************************************)
(* What the conversation queue promises about the turns of a task, with    *)
(* claims, leases, hints, threads and processes hidden: a turn is started   *)
(* only while its job is open, by one runner at a time unless a turn was    *)
(* overlong, only a runner that has the turn decides the job, it is decided *)
(* once, and SUCCEEDED is recorded for a turn that came to an end.          *)
(* ConversationWorker implements this module.                               *)
(***************************************************************************)
CONSTANTS Tasks, Runners

VARIABLES outcome,   \* of the task's conversation job: ABSENT, OPEN, SUCCEEDED or FAILED
          who,       \* the runners that have the turn of a task
          over,      \* the tasks whose status says that the turn came to an end
          overlong   \* the tasks of which a turn went on for longer than its lease

vars == <<outcome, who, over, overlong>>

Decided == {"SUCCEEDED", "FAILED"}

Init == /\ outcome = [t \in Tasks |-> "ABSENT"]
        /\ who = [t \in Tasks |-> {}]
        /\ over = {}
        /\ overlong = {}

Open(t) == /\ outcome[t] = "ABSENT"
           /\ outcome' = [outcome EXCEPT ![t] = "OPEN"]
           /\ UNCHANGED <<who, over, overlong>>

Start(t, r) == /\ outcome[t] = "OPEN"
               /\ who[t] = {} \/ t \in overlong
               /\ who' = [who EXCEPT ![t] = @ \cup {r}]
               /\ UNCHANGED <<outcome, over, overlong>>

\* The turn writes the status of its task, and of no other.
Proceed(t) == /\ who[t] # {}
              /\ over' \in {over \cup {t}, over \ {t}}
              /\ UNCHANGED <<outcome, who, overlong>>

Decide(t, r) == /\ outcome[t] = "OPEN" /\ r \in who[t]
                /\ \E d \in Decided :
                     /\ d = "SUCCEEDED" => t \in over \cup overlong
                     /\ outcome' = [outcome EXCEPT ![t] = d]
                /\ who' = [who EXCEPT ![t] = @ \ {r}]
                /\ UNCHANGED <<over, overlong>>

\* Runners give up, find the job decided, or die; a process takes all of its threads along.
Stop(R) == /\ who' = [t \in Tasks |-> who[t] \ R]
           /\ UNCHANGED <<outcome, over, overlong>>

Outlast(t) == /\ who[t] # {}
              /\ overlong' = overlong \cup {t}
              /\ UNCHANGED <<outcome, who, over>>

Next == \/ \E t \in Tasks : \/ Open(t) \/ Proceed(t) \/ Outlast(t)
                            \/ \E r \in Runners : Start(t, r) \/ Decide(t, r)
        \/ \E R \in SUBSET Runners : Stop(R)

Spec == Init /\ [][Next]_vars
=============================================================================
