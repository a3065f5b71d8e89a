-------------------------- MODULE ApprovalContract --------------------------
(***************************************************************************)
(* What an approval card promises to the employee who reads it, with tasks, *)
(* worker turns and devices hidden: a card is decided once, at most one     *)
(* operation is launched for it, that happens with the approval and never   *)
(* without it, and nothing is carried out that was not launched.            *)
(* TaskApproval implements this module.                                     *)
(***************************************************************************)
CONSTANT Cards

VARIABLES decision,   \* ABSENT, PENDING, APPROVED or REJECTED
          launched,   \* the cards whose operation was handed to a device
          done        \* the cards whose operation the device reported as carried out

vars == <<decision, launched, done>>

Init == /\ decision = [c \in Cards |-> "ABSENT"]
        /\ launched = {}
        /\ done = {}

Become(S, d) == [c \in Cards |-> IF c \in S THEN d ELSE decision[c]]

\* The user, a cancellation or the expiry sweep; the last two take several cards at once.
Reject(R) == /\ \A c \in R : decision[c] = "PENDING"
             /\ decision' = Become(R, "REJECTED")
             /\ UNCHANGED <<launched, done>>

\* New cards S, which may take the place of lapsed ones, R.
Ask(S, R) == /\ \A c \in S : decision[c] = "ABSENT"
             /\ \A c \in R : decision[c] = "PENDING"
             /\ decision' = [c \in Cards |-> IF c \in S THEN "PENDING" ELSE Become(R, "REJECTED")[c]]
             /\ UNCHANGED <<launched, done>>

Approve(c) == /\ decision[c] = "PENDING"
              /\ decision' = [decision EXCEPT ![c] = "APPROVED"]
              /\ launched' \in {launched, launched \cup {c}}
              /\ UNCHANGED done

CarryOut(c) == /\ c \in launched
               /\ done' = done \cup {c}
               /\ UNCHANGED <<decision, launched>>

Next == \/ \E S, R \in SUBSET Cards : Ask(S, R) \/ Reject(R)
        \/ \E c \in Cards : Approve(c) \/ CarryOut(c)

Spec == Init /\ [][Next]_vars
=============================================================================
