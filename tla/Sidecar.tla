------------------------------ MODULE Sidecar ------------------------------
(***************************************************************************)
(* The subtitles process of backend/src/main.rs: one worker and the HTTP   *)
(* handlers over one store, started again after every crash or shutdown.   *)
(* Both ends lose the same things, everything but the database and the     *)
(* files, so one action stands for both.                                   *)
(***************************************************************************)
EXTENDS Api

CONSTANTS
  MaxCrashes,   \* bound: restarts of one behaviour
  KeyStates     \* what a restart may find: TRUE opens the store, FALSE does not

ASSUME SidecarAssumption ==
  /\ MaxCrashes \in Nat
  /\ KeyStates \subseteq BOOLEAN

VARIABLE crashes

vars == <<storeVars, engineVars, apiVars, crashes>>

Init == StoreInit /\ EngineInit /\ ApiInit /\ crashes = 0

Restart ==
  /\ crashes < MaxCrashes
  /\ crashes' = crashes + 1
  /\ writable' \in KeyStates
  /\ pc' = "boot"
  /\ run' = NoRun
  /\ writes' = {}
  /\ wake' = FALSE
  /\ req' = [c \in Clients |-> NoRequest]
  /\ UNCHANGED <<rows, files, events, errs, canceled>>

Next ==
  \/ EngineNext /\ UNCHANGED <<apiVars, crashes>>
  \/ ApiNext /\ UNCHANGED crashes
  \/ Restart

Spec == Init /\ [][Next]_vars

\* The worker task is scheduled and what it waits for answers: the engine and the
\* model within the client's timeout, the decoder at the end of the file.  A
\* handler that has changed the queue reaches its notify_one without another
\* await.  Nothing is assumed of the re-poll timer, of the spawned progress
\* writes, or of what clients ask for.
Fairness ==
  /\ WF_vars(WorkerStep /\ UNCHANGED <<apiVars, crashes>>)
  /\ \A c \in Clients : WF_vars(NotifyOne(c) /\ UNCHANGED crashes)

FairSpec == Spec /\ Fairness

-----------------------------------------------------------------------------

\* Every variable stays in the range the code gives it.
TypeOK ==
  /\ rows \in [Jobs -> Row]
  /\ writable \in BOOLEAN
  /\ pc \in Points
  /\ run \in Run
  /\ (run.job = NoJob) <=> (pc \in Unowned)
  /\ writes \subseteq Jobs \X (Opening..Done)
  /\ wake \in BOOLEAN
  /\ files \subseteq Jobs \X (1..MaxAttempts)
  /\ events \subseteq Jobs \X (1..MaxAttempts) \X {"completed", "failed"}
  /\ errs \in 0..MaxStoreErrors
  /\ req \in [Clients -> Request]
  /\ \A c \in Clients : (req[c].job = NoJob) <=> (req[c].todo = "none")
  /\ canceled \subseteq Jobs \X (1..MaxAttempts)
  /\ crashes \in 0..MaxCrashes

-----------------------------------------------------------------------------
\* Whatever clients do.

\* A terminal row is frozen: no late result, error or progress write of a run
\* touches its status, cues, error, progress or stamp.  Only a re-queue or a
\* delete takes a job out of a terminal status (store.rs: "terminal and must
\* never be overwritten by a late transcription/translation result").
TerminalIsFrozen ==
  [][\A j \in Jobs :
       LET r == rows[j] s == rows'[j] IN
       r.status \in Terminal =>
         \/ s.status \in {"queued", "absent"}
         \/ s = [r EXCEPT !.output = s.output, !.opts = s.opts]]_rows

\* An outcome event or a file says what the row says: while the attempt a run
\* published for is the row's last one, the row is completed (failed for a
\* job.failed), or the job was deleted.  A cancellation that won the race is
\* never contradicted by an event.
PublishedMatchesRow ==
  /\ \A e \in events :
       rows[e[1]].attempt = e[2] => rows[e[1]].status \in {e[3], "absent"}
  /\ \A f \in files :
       rows[f[1]].attempt = f[2] => rows[f[1]].status \in {"completed", "absent"}

\* completed_at: a job that can still change carries no stamp, and a completed or
\* failed one always does, across cancellations, re-queues and restarts.
StampMeansFinished ==
  \A j \in Jobs :
    /\ rows[j].stamped => rows[j].status \in Terminal
    /\ rows[j].status \in {"completed", "failed"} => rows[j].stamped

\* The worker never sleeps on work: once it has read the queue empty and a job is
\* queued, the permit is there or the handler that queued the job is about to
\* leave it, so the five-second re-poll is never what saves the queue.
NoLostWakeUp ==
  pc \in {"drained", "idle"} /\ NextQueued # {} =>
    wake \/ \E c \in Clients : req[c].todo = "notify"

\* A job that claims to be running is being run, or the process has just started
\* and is about to cancel it.
RunningIsOwned ==
  \A j \in Jobs : rows[j].status \in Running => pc = "boot" \/ run.job = j

\* ... unless a store call failed: a failed read in is_canceled makes the worker
\* drop the job as it stands.
RunningIsOwnedOrFaulted == errs = 0 => RunningIsOwned

-----------------------------------------------------------------------------
\* Of clients that retry a job only while no run holds it.

\* A completed job has cues, made by the run of its own last attempt, and none of
\* the marks of an earlier outcome.
CompletedIsItsOwnWork ==
  \A j \in Jobs : rows[j].status = "completed" =>
    /\ rows[j].cues # "none"
    /\ rows[j].cuesOf = rows[j].attempt
    /\ rows[j].progress = Done
    /\ rows[j].error = "none"

\* A queued job carries nothing of an earlier attempt: no progress, no cues and no
\* error (store.rs: requeue puts a job back in the queue "clearing its previous
\* outcome").
QueuedIsFresh ==
  \A j \in Jobs : rows[j].status = "queued" =>
    /\ rows[j].progress = Opening
    /\ rows[j].cues = "none"
    /\ rows[j].error = "none"

\* Once a client was told that a job is canceled, no file and no event of the run
\* that was under way appears.
CanceledNeverPublishes ==
  \A a \in canceled :
    /\ a \notin files
    /\ \A k \in {"completed", "failed"} : <<a[1], a[2], k>> \notin events

\* Cancelling or deleting a job lets at most the engine or model call under way
\* finish: "stop a running job at its next window boundary".
CancelStopsTheRun == run.late <= 1

\* What a client that cancels is promised: nothing of the run appears, and the run
\* ends at its next look at the row.
CancelIsObeyed == CanceledNeverPublishes /\ CancelStopsTheRun

\* A job is re-queued only from a terminal status: a running or queued job is
\* answered with 409.
RetryOnlyTerminal ==
  [][\A j \in Jobs :
       rows'[j].attempt > rows[j].attempt /\ rows[j].attempt > 0
         => rows[j].status \in Terminal]_rows

\* Every completion and failure is announced: the event of the row's outcome has
\* been emitted, or the worker is on its way to it.  Only a crash or a store
\* failure between the commit and the event loses one.
OutcomeIsAnnounced ==
  crashes = 0 /\ errs = 0 =>
    \A j \in Jobs : rows[j].status \in {"completed", "failed"} =>
      \/ <<j, rows[j].attempt, rows[j].status>> \in events
      \/ run.job = j /\ pc \in {"publish", "setOutput", "announce", "announceFailure"}

-----------------------------------------------------------------------------
\* Liveness.

\* A queued job is picked up, or taken out of the queue, whatever store calls fail;
\* only a key that does not open the store leaves it waiting.
QueuedIsServed ==
  \A j \in Jobs :
    rows[j].status = "queued" ~> (rows[j].status # "queued" \/ ~writable)

\* Every job reaches an outcome or is deleted, across a restart, if no store call
\* fails.
EveryJobEnds ==
  \A j \in Jobs : Active(rows[j]) ~> (~Active(rows[j]) \/ errs > 0 \/ ~writable)

-----------------------------------------------------------------------------
\* The abstract specification: a row's status is its phase, whichever of the two
\* running statuses it has.
L == INSTANCE JobLifecycle WITH
       phase   <- [j \in Jobs |-> IF rows[j].status \in Running
                                 THEN "running" ELSE rows[j].status],
       attempt <- [j \in Jobs |-> rows[j].attempt]

\* Of patient clients and a store that does not fail: the process implements the
\* job lifecycle, restarts included, one job running at a time ...
Lifecycle == L!Spec

\* ... and serves it fairly: a queue is started on, a running job finishes.
FairLifecycle == L!FairSpec

=============================================================================
