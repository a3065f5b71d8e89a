-------------------------------- MODULE Policy --------------------------------
(***************************************************************************)
(* Which consent a tool needs before it runs (permissions.py,              *)
(* PermissionEngine): nobody's, the user's, or a supervisor's.             *)
(*                                                                         *)
(* A policy holds the two tables it is loaded from, a row of which may be  *)
(* missing, and the user's FULL_AUTO switch.  Tools are told apart by the  *)
(* built-in list they are in; those on no list stand for any other name.   *)
(***************************************************************************)
EXTENDS Naturals

CONSTANTS AutoActions,                \* AUTO_ACTIONS
          UserApprovalActions,        \* USER_APPROVAL_ACTIONS
          SupervisedDeletes,          \* file_delete
          SupervisedBulk,             \* batch_executor, bulk_delete
          OtherActions                \* any other tool

SupervisorApprovalActions == SupervisedDeletes \cup SupervisedBulk

Tools == AutoActions \cup UserApprovalActions \cup SupervisorApprovalActions \cup OtherActions

ASSUME PolicyAssumption ==
  /\ AutoActions \cap (UserApprovalActions \cup SupervisorApprovalActions) = {}
  /\ UserApprovalActions \cap SupervisorApprovalActions = {}
  /\ SupervisedDeletes \cap SupervisedBulk = {}
  /\ OtherActions \cap (AutoActions \cup UserApprovalActions \cup SupervisorApprovalActions)
       = {}

PolicyKinds == {"AUTO", "USER", "SUPERVISOR"}

NoRow == "unset"

\* A threshold of 0 is one that was never set.
Policies == [fullAuto : BOOLEAN,
             user : [Tools -> PolicyKinds \cup {NoRow}],
             global : [Tools -> PolicyKinds \cup {NoRow}],
             threshold : [Tools -> Nat]]

DefaultThreshold == 20

ConfiguredKind(policy, tool) ==
  IF policy.user[tool] # NoRow THEN policy.user[tool] ELSE policy.global[tool]

BulkThreshold(policy, tool) ==
  IF policy.global[tool] = NoRow \/ policy.threshold[tool] = 0
  THEN DefaultThreshold ELSE policy.threshold[tool]

\* What the row asks for, raised to a supervisor for many files.
ConfiguredApproval(policy, tool, count) ==
  IF ConfiguredKind(policy, tool) = "USER" /\ count > BulkThreshold(policy, tool)
  THEN "SUPERVISOR" ELSE ConfiguredKind(policy, tool)

\* What the built-in lists ask for.
DefaultApproval(tool, count) ==
  CASE tool \in SupervisedBulk -> "SUPERVISOR"
    [] tool \in SupervisedDeletes -> IF count > DefaultThreshold THEN "SUPERVISOR" ELSE "USER"
    [] tool \in UserApprovalActions -> "USER"
    [] OTHER -> "AUTO"

\* action_approval_kind; "AUTO" is its None.
ActionApprovalKind(policy, tool, count) ==
  CASE policy.fullAuto -> "AUTO"
    [] ~policy.fullAuto /\ ConfiguredKind(policy, tool) # NoRow ->
         ConfiguredApproval(policy, tool, count)
    [] OTHER -> DefaultApproval(tool, count)

\* effective_kind, what the user is shown.
EffectiveKind(policy, tool) ==
  CASE policy.fullAuto -> "FULL_AUTO"
    [] ~policy.fullAuto /\ ConfiguredKind(policy, tool) # NoRow -> ConfiguredKind(policy, tool)
    [] ~policy.fullAuto /\ tool \in SupervisorApprovalActions
         /\ ConfiguredKind(policy, tool) = NoRow -> "SUPERVISOR"
    [] ~policy.fullAuto /\ tool \in UserApprovalActions
         /\ ConfiguredKind(policy, tool) = NoRow -> "USER"
    [] OTHER -> "AUTO"

\* How much consent a kind asks for.
Strength(kind) == CASE kind = "AUTO" -> 0 [] kind = "USER" -> 1 [] OTHER -> 2
=============================================================================
