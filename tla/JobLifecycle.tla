---------------------------- MODULE JobLifecycle ----------------------------
(***************************************************************************)
(* What the sidecar promises about a job, with no worker, request or       *)
(* store: the states a user sees and the moves between them.  Sidecar      *)
(* implements it (Sidecar!Lifecycle) as long as clients retry only a job   *)
(* the node is done with and no store call fails.                          *)
(***************************************************************************)
EXTENDS Naturals

CONSTANTS
  Jobs,
  MaxAttempts   \* bound: times a job enters the queue

VARIABLES
  phase,     \* what the job list shows, both running statuses being one
  attempt    \* times the job entered the queue; 0 before it exists

vars == <<phase, attempt>>

Outcomes == {"completed", "failed", "canceled"}

Init ==
  /\ phase = [j \in Jobs |-> "absent"]
  /\ attempt = [j \in Jobs |-> 0]

Become(j, p) == phase' = [phase EXCEPT ![j] = p]

Submit(j) ==
  /\ attempt[j] = 0
  /\ Become(j, "queued")
  /\ attempt' = [attempt EXCEPT ![j] = 1]

\* One job runs at a time.
Start(j) ==
  /\ phase[j] = "queued"
  /\ \A k \in Jobs : phase[k] # "running"
  /\ Become(j, "running")
  /\ UNCHANGED attempt

Finish(j) ==
  /\ phase[j] = "running"
  /\ \E p \in {"completed", "failed"} : Become(j, p)
  /\ UNCHANGED attempt

Cancel(j) ==
  /\ phase[j] \in {"queued", "running"}
  /\ Become(j, "canceled")
  /\ UNCHANGED attempt

Retry(j) ==
  /\ phase[j] \in Outcomes
  /\ attempt[j] < MaxAttempts
  /\ Become(j, "queued")
  /\ attempt' = [attempt EXCEPT ![j] = @ + 1]

Delete(j) ==
  /\ phase[j] # "absent"
  /\ Become(j, "absent")
  /\ UNCHANGED attempt

Next ==
  \E j \in Jobs : \/ Submit(j) \/ Start(j) \/ Finish(j) \/ Cancel(j)
                  \/ Retry(j) \/ Delete(j)

Spec == Init /\ [][Next]_vars

\* The queue is served and a running job ends, whatever clients ask for.
FairSpec ==
  /\ Spec
  /\ WF_vars(\E j \in Jobs : Start(j))
  /\ \A j \in Jobs : WF_vars(Finish(j))

=============================================================================
