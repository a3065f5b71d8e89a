------------------------------ MODULE JobLedger ------------------------------
(***************************************************************************)
(* What the device job queue promises to the rest of the server, with      *)
(* claims, leases, agents and the network hidden: a job is opened once, its *)
(* tool may run on the device, the job is decided once, SUCCEEDED is never  *)
(* recorded for a tool that did not run, and no decision is ever revised.   *)
(* DeviceJobs implements this module.                                       *)
(***************************************************************************)
CONSTANT Jobs

VARIABLES outcome,   \* what a reader of the agent_jobs table concludes about a job
          ran        \* whether the job's tool has completed on the employee's computer

vars == <<outcome, ran>>

Decided == {"SUCCEEDED", "FAILED"}

Init == /\ outcome = [j \in Jobs |-> "ABSENT"]
        /\ ran = [j \in Jobs |-> FALSE]

Open(j) == /\ outcome[j] = "ABSENT"
           /\ outcome' = [outcome EXCEPT ![j] = "OPEN"]
           /\ UNCHANGED ran

\* A tool may complete after its job was decided: a superseded attempt, or one that
\* was cut off from the server, cannot be recalled from the device.
Run(j) == /\ outcome[j] # "ABSENT"
          /\ ran' = [ran EXCEPT ![j] = TRUE]
          /\ UNCHANGED outcome

Decide(j) == /\ outcome[j] = "OPEN"
             /\ \E d \in Decided : /\ d = "SUCCEEDED" => ran[j]
                                   /\ outcome' = [outcome EXCEPT ![j] = d]
             /\ UNCHANGED ran

\* One cancellation closes every job of a task at once.
Withdraw(S) == /\ \A j \in S : outcome[j] = "OPEN"
               /\ outcome' = [j \in Jobs |-> IF j \in S THEN "FAILED" ELSE outcome[j]]
               /\ UNCHANGED ran

Next == \/ \E j \in Jobs : Open(j) \/ Run(j) \/ Decide(j)
        \/ \E S \in SUBSET Jobs : Withdraw(S)

Spec == Init /\ [][Next]_vars
=============================================================================
