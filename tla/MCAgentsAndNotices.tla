-------------------------- MODULE MCAgentsAndNotices --------------------------
(***************************************************************************)
(* The two halves of the monitor tick, side by side: the agents it resumes *)
(* and dispatches, and the notices it delivers.  They share no state, so a *)
(* behaviour is one of one of them: half says which.                       *)
(***************************************************************************)
EXTENDS OpsAgents, OpsNotices

VARIABLE half

LeadAndSecurity == <<"LEAD", "SECURITY">>

\* Every variable of the half at work has its type; the others keep their value.
HalfTypeOK ==
  /\ half = "agents" => AgentsTypeOK
  /\ half = "notices" => NoticesTypeOK

HalfInit ==
  /\ half \in {"agents", "notices"}
  /\ AgentsInit /\ NoticesInit
  /\ half = "notices" => triage = [i \in TriageIncidents |-> "OTHER"]

HalfNext ==
  \/ half = "agents" /\ AgentsNext /\ UNCHANGED <<half, noticesVars>>
  \/ half = "notices" /\ NoticesNext /\ UNCHANGED <<half, agentsVars>>

\* AgentsFairness and NoticesFairness, each for its own half.
HalfFairness ==
  /\ WF_agentsVars(half = "agents" /\ TickStep)
  /\ \A a \in Requests : WF_agentsVars(half = "agents" /\ RunnerStep(a))
  /\ WF_agentsVars(half = "agents" /\ \E r \in Assignments : LeaseExpires(r))
  /\ WF_agentsVars(half = "agents" /\ NewDay)
  /\ WF_agentsVars(half = "agents" /\ Cooldown)
  /\ WF_noticesVars(half = "notices" /\ DeliveryStep)
  /\ WF_noticesVars(half = "notices" /\ \E n \in Notices : RetryDue(n))

HalfSpec ==
  HalfInit /\ [][HalfNext]_<<half, agentsVars, noticesVars>> /\ HalfFairness
=============================================================================
