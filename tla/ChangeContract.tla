---------------------------- MODULE ChangeContract ----------------------------
(***************************************************************************)
(* What the Operations Center promises the supervisor about the changes it *)
(* makes to the code, with the progress of incidents, worktrees, coders,    *)
(* checks and sweeps hidden: what an approval is about never changes and a  *)
(* yes is not taken back; a change is begun, once for an incident, and a    *)
(* deployment is launched, on a yes of its own kind for its own incident;   *)
(* a change has one commit, which is what its deployments launch; and       *)
(* production runs nothing but what was launched, and goes back only to     *)
(* what had been found healthy.  OpsChanges implements this module.         *)
(***************************************************************************)
CONSTANTS Incidents, Approvals, Changes, Deployments, Revisions,
          None   \* no incident, change, approval or commit

VARIABLES asked,    \* what each approval is about: incident and kind
          yes,      \* the approvals that were granted
          origin,   \* what each change was begun on: incident and approval
          commit,   \* the commit of each change
          launch,   \* what each deployment launches: change, approval and artifact
          outcome,  \* NONE, OPEN, GOOD or BAD, of each deployment
          live      \* what production runs

vars == <<asked, yes, origin, commit, launch, outcome, live>>

Unasked == <<None, "NONE">>
NotBegun == <<None, None>>
NotLaunched == <<None, None, None>>

Init == /\ asked = [a \in Approvals |-> Unasked]
        /\ yes = {}
        /\ origin = [c \in Changes |-> NotBegun]
        /\ commit = [c \in Changes |-> None]
        /\ launch = [d \in Deployments |-> NotLaunched]
        /\ outcome = [d \in Deployments |-> "NONE"]
        /\ live = None

Ask(a, i, k) == /\ asked[a] = Unasked
                /\ asked' = [asked EXCEPT ![a] = <<i, k>>]
                /\ UNCHANGED <<yes, origin, commit, launch, outcome, live>>

Grant(a) == /\ asked[a] # Unasked
            /\ yes' = yes \cup {a}
            /\ UNCHANGED <<asked, origin, commit, launch, outcome, live>>

Begin(c, i, a) == /\ a \in yes /\ asked[a] = <<i, "CODE_FIX">>
                  /\ \A x \in Changes : origin[x][1] # i
                  /\ origin[c] = NotBegun
                  /\ origin' = [origin EXCEPT ![c] = <<i, a>>]
                  /\ UNCHANGED <<asked, yes, commit, launch, outcome, live>>

Commit(c, r) == /\ origin[c] # NotBegun /\ commit[c] = None
                /\ commit' = [commit EXCEPT ![c] = r]
                /\ UNCHANGED <<asked, yes, origin, launch, outcome, live>>

Launch(d, c, a) == /\ a \in yes /\ asked[a] = <<origin[c][1], "DEPLOYMENT">>
                   /\ origin[c] # NotBegun /\ commit[c] # None
                   /\ outcome[d] = "NONE"
                   /\ launch' = [launch EXCEPT ![d] = <<c, a, commit[c]>>]
                   /\ outcome' = [outcome EXCEPT ![d] = "OPEN"]
                   /\ UNCHANGED <<asked, yes, origin, commit, live>>

Artifact(d) == launch[d][3]

TakeEffect(d) == /\ outcome[d] = "OPEN"
                 /\ live' = Artifact(d)
                 /\ UNCHANGED <<asked, yes, origin, commit, launch, outcome>>

FindHealthy(d) == /\ outcome[d] = "OPEN"
                  /\ outcome' = [outcome EXCEPT ![d] = "GOOD"]
                  /\ UNCHANGED <<asked, yes, origin, commit, launch, live>>

Healthy == {Artifact(e) : e \in {d \in Deployments : outcome[d] = "GOOD"}}

\* The way back may fail as well, and leave what runs or what was to run.
GoBack(d) == /\ outcome[d] = "OPEN"
             /\ outcome' = [outcome EXCEPT ![d] = "BAD"]
             /\ live' \in {live, Artifact(d), None} \cup Healthy
             /\ UNCHANGED <<asked, yes, origin, commit, launch>>

Next == \/ \E a \in Approvals : \/ Grant(a)
                                \/ \E i \in Incidents, k \in {"CODE_FIX", "DEPLOYMENT"} : Ask(a, i, k)
        \/ \E c \in Changes : \/ \E r \in Revisions : Commit(c, r)
                              \/ \E i \in Incidents, a \in Approvals : Begin(c, i, a)
        \/ \E d \in Deployments : \/ TakeEffect(d) \/ FindHealthy(d) \/ GoBack(d)
                                  \/ \E c \in Changes, a \in Approvals : Launch(d, c, a)

Spec == Init /\ [][Next]_vars
=============================================================================
