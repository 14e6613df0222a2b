------------------------------ MODULE Compaction ------------------------------
(***************************************************************************)
(* The queue of deferred compactions (content_sqlite.rs): stores too large *)
(* to compact while they open hand a job to one background thread, which   *)
(* the first of them starts and which ends when it finds nothing to do.    *)
(* A maintenance action may run the queue too.                             *)
(*                                                                         *)
(* The queue is behind one lock: what is done under it is one step.        *)
(***************************************************************************)
EXTENDS Naturals, Sequences, SequencesExt

CONSTANTS
  Stores,       \* stores that owe a compaction
  MaxDefers     \* bound: how often a store is opened and defers its own

CompactionAssumption == MaxDefers \in Nat

Runners == {"worker", "maintenance"}

VARIABLES
  jobs,      \* the queued jobs, by the store each compacts
  worker,    \* a worker is there, says the queue
  running,   \* the store under compaction, says the queue
  at,        \* where each runner stands
  job,       \* the job it took: a sequence of at most one
  owed,      \* the stores marked vacuum_pending
  defers,    \* how often a store deferred its compaction, for the bound
  unstarted  \* no worker was there, and the last to be started did not start

vars == <<jobs, worker, running, at, job, owed, defers, unstarted>>

TypeOK ==
  /\ jobs \in Seq(Stores)
  /\ worker \in BOOLEAN
  /\ running \in SUBSET Stores
  /\ at \in [Runners -> {"none", "sleep", "take", "run", "check"}]
  /\ \A r \in Runners : job[r] \in Seq(Stores) /\ (job[r] # <<>> <=> at[r] = "run")
  /\ owed \in SUBSET Stores
  /\ defers \in 0 .. MaxDefers
  /\ unstarted \in BOOLEAN

Init ==
  /\ jobs = <<>>
  /\ worker = FALSE
  /\ running = {}
  /\ at = [r \in Runners |-> "none"]
  /\ job = [r \in Runners |-> <<>>]
  /\ owed = Stores
  /\ defers = 0
  /\ unstarted = FALSE

\* defer_compaction: the job is queued, and a worker started unless there is
\* one; a thread that does not start leaves the job to the next that does.
Defer(s) ==
  /\ defers < MaxDefers
  /\ defers' = defers + 1
  /\ jobs' = Append(jobs, s)
  /\ \/ worker /\ UNCHANGED <<worker, at, unstarted>>
     \/ /\ ~worker
        /\ worker' = TRUE
        /\ at' = [at EXCEPT !["worker"] = "sleep"]
        /\ unstarted' = FALSE
     \/ ~worker /\ unstarted' = TRUE /\ UNCHANGED <<worker, at>>
  /\ UNCHANGED <<running, job, owed>>

Wake ==
  /\ at["worker"] = "sleep"
  /\ at' = [at EXCEPT !["worker"] = "take"]
  /\ UNCHANGED <<jobs, worker, running, job, owed, defers, unstarted>>

Maintain ==
  /\ at["maintenance"] = "none"
  /\ jobs # <<>>
  /\ at' = [at EXCEPT !["maintenance"] = "take"]
  /\ UNCHANGED <<jobs, worker, running, job, owed, defers, unstarted>>

\* run_deferred_compactions: take the next job.
TakeJob(r) ==
  /\ at[r] = "take"
  /\ jobs # <<>>
  /\ jobs' = Tail(jobs)
  /\ job' = [job EXCEPT ![r] = <<Head(jobs)>>]
  /\ running' = {Head(jobs)}
  /\ at' = [at EXCEPT ![r] = "run"]
  /\ UNCHANGED <<worker, owed, defers, unstarted>>

NoMoreJobs(r) ==
  /\ at[r] = "take"
  /\ jobs = <<>>
  /\ at' = [at EXCEPT ![r] = IF r = "worker" THEN "check" ELSE "none"]
  /\ UNCHANGED <<jobs, worker, running, job, owed, defers, unstarted>>

\* The job: compacted, or the store is gone, or it failed and still owes it.
RunJob(r) ==
  /\ at[r] = "run"
  /\ owed' \in {owed, owed \ {Head(job[r])}}
  /\ job' = [job EXCEPT ![r] = <<>>]
  /\ running' = {}
  /\ at' = [at EXCEPT ![r] = "take"]
  /\ UNCHANGED <<jobs, worker, defers, unstarted>>

\* Mutant: the worker takes the queue for empty because it just was.
WorkerEndsUnchecked ==
  /\ at["worker"] = "check"
  /\ worker' = FALSE
  /\ at' = [at EXCEPT !["worker"] = "none"]
  /\ UNCHANGED <<jobs, running, job, owed, defers, unstarted>>

\* The worker looks once more under the lock before it ends.
WorkerChecks ==
  /\ at["worker"] = "check"
  /\ worker' = (jobs # <<>>)
  /\ at' = [at EXCEPT !["worker"] = IF jobs = <<>> THEN "none" ELSE "sleep"]
  /\ UNCHANGED <<jobs, running, job, owed, defers, unstarted>>

Next ==
  \/ \E s \in Stores : Defer(s)
  \/ Wake \/ Maintain \/ WorkerChecks
  \/ \E r \in Runners : TakeJob(r) \/ NoMoreJobs(r) \/ RunJob(r)

Spec == Init /\ [][Next]_vars

-----------------------------------------------------------------------------
\* What waits in the queue is never left to a worker that has gone or is about
\* to go unseen: the queue says a worker is there just when one is, and one is
\* there while a job waits, unless the thread for it could not be started.
QueuedJobsHaveAWorker ==
  /\ worker <=> at["worker"] # "none"
  /\ jobs # <<>> => worker \/ unstarted

\* With it, that the runners are two.
QueueInv ==
  /\ DOMAIN at = Runners
  /\ QueuedJobsHaveAWorker

=============================================================================
