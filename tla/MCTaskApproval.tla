--------------------------- MODULE MCTaskApproval ---------------------------
(***************************************************************************)
(* Values for model-checking TaskApproval: one task with two cards and one  *)
(* delegated call, and two devices, so that a task has jobs of both kinds,  *)
(* cards with different decisions, and a device to fall back to.            *)
(***************************************************************************)
EXTENDS TaskApproval

CONSTANTS t1, c1, c2, x1, d1, d2

OwnedByOne == [x \in Jobs |-> t1]
=============================================================================
