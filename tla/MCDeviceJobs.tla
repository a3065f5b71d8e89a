---------------------------- MODULE MCDeviceJobs ----------------------------
(***************************************************************************)
(* Values for model-checking DeviceJobs: two copies of the agent program    *)
(* paired with one device (a restart that leaves the first one running), or *)
(* one program on each of two devices.                                      *)
(***************************************************************************)
EXTENDS DeviceJobs, TLC

CONSTANTS d1, d2, a1, a2, t1, t2

OneDevice == {d1}
SameDevice == [a \in Agents |-> d1]
OneEach == (a1 :> d1) @@ (a2 :> d2)
SameTask == [j \in Jobs |-> t1]
TaskEach == [j \in Jobs |-> IF j = 1 THEN t1 ELSE t2]

AgentSymmetry == Permutations(Agents)
=============================================================================
