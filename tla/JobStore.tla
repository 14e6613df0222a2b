------------------------------ MODULE JobStore ------------------------------
(***************************************************************************)
(* The jobs table of backend/src/store.rs.                                 *)
(*                                                                         *)
(* Every method of SubtitleStore takes the one async mutex around the      *)
(* SQLite connection and runs one statement, so a method is atomic and the *)
(* interleaving points are between two calls.  A method is therefore a     *)
(* function from the row it addresses to the row it leaves; the worker     *)
(* (Engine) and the HTTP handlers (Api) apply these functions to `rows'.   *)
(*                                                                         *)
(* A row that does not exist has status "absent".  Job ids are fresh UUIDs *)
(* and never come back, so a row keeps the number of its attempts after it *)
(* is deleted, and only a row with no attempt can be created.              *)
(***************************************************************************)
EXTENDS Naturals

CONSTANTS
  Jobs,         \* the job ids the node ever hands out
  NoJob,        \* no job
  Options,      \* rendering choices: a format together with a layout
  Times,        \* creation stamps, compared by the queue's ORDER BY
  MaxAttempts,  \* bound: an attempt is a stay in the queue, begun by create or requeue
  MaxBatches    \* bound: translation batches of one run

ASSUME StoreAssumption ==
  /\ NoJob \notin Jobs
  /\ Options # {}
  /\ Times # {} /\ Times \subseteq Nat
  /\ MaxAttempts \in Nat \ {0}
  /\ MaxBatches \in Nat \ {0}

VARIABLES
  rows,       \* the jobs table
  writable    \* whether the key the process holds opens the store: fixed at open

storeVars == <<rows, writable>>

-----------------------------------------------------------------------------

Terminal == {"completed", "failed", "canceled"}
Running  == {"transcribing", "translating"}
Statuses == {"absent", "queued"} \cup Running \cup Terminal

\* The values the progress column takes, in order: 0 while the video is opened,
\* Transcribed for the transcription share, one per translated batch after it,
\* then the 0.98 of the final write and the 1 of a completed job.
Opening     == 0
Transcribed == 1
Batch(b)    == 1 + b
Writing     == MaxBatches + 2
Done        == MaxBatches + 3

Row == [status   : Statuses,
        attempt  : 0..MaxAttempts,   \* times created or re-queued (not a column)
        progress : Opening..Done,
        cues     : {"none", "transcript", "translated"},
        cuesOf   : 0..MaxAttempts,   \* the attempt whose run made the cues (not a column)
        error    : {"none", "failure", "cancelled", "interrupted"},
        stamped  : BOOLEAN,          \* completed_at IS NOT NULL
        output   : BOOLEAN,          \* output_path IS NOT NULL
        opts     : Options,
        created  : Times]

NoRow == [status |-> "absent", attempt |-> 0, progress |-> Opening,
          cues |-> "none", cuesOf |-> 0, error |-> "none",
          stamped |-> FALSE, output |-> FALSE,
          opts |-> CHOOSE o \in Options : TRUE,
          created |-> CHOOSE t \in Times : TRUE]

\* The status guard of every compare-and-set: the row exists and is not terminal.
Active(r)  == r.status \in {"queued"} \cup Running
Present(r) == r.status # "absent"

-----------------------------------------------------------------------------
\* What each method leaves in the row it addresses.

Created(r, o, t) ==
  [r EXCEPT !.status = "queued", !.attempt = 1, !.opts = o, !.created = t]

\* The UPDATE of set_status_if_active and cancel_if_active.
Moved(r, s, e) ==
  [r EXCEPT !.status = s, !.error = e, !.stamped = @ \/ s \in Terminal]

\* set_status_if_active: changes nothing, and says so, once the row is terminal.
SetStatusIfActive(r, s, e) == IF Active(r) THEN Moved(r, s, e) ELSE r

\* Mutant: the cancellation does not lose to a committed outcome.
CancelAnyStatus(r) == IF Present(r) THEN Moved(r, "canceled", "cancelled") ELSE r

CancelIfActive(r) == IF Active(r) THEN Moved(r, "canceled", "cancelled") ELSE r

CompleteIfActive(r) ==
  IF Active(r) THEN [Moved(r, "completed", "none") EXCEPT !.progress = Done] ELSE r

\* Mutant: set_progress without its status guard.
SetProgressAnyStatus(r, p) == IF Present(r) THEN [r EXCEPT !.progress = p] ELSE r

SetProgress(r, p) == IF Active(r) THEN [r EXCEPT !.progress = p] ELSE r

SetCues(r, c, a) ==
  IF Active(r) THEN [r EXCEPT !.cues = c, !.cuesOf = a] ELSE r

\* set_output_path carries no status guard: the row need only exist.
SetOutputPath(r, b) == IF Present(r) THEN [r EXCEPT !.output = b] ELSE r

SetRenderOptions(r, o) == IF Present(r) THEN [r EXCEPT !.opts = o] ELSE r

\* Mutant: requeue keeps completed_at.
RequeuedKeepingStamp(r) ==
  IF Present(r)
  THEN [r EXCEPT !.status = "queued", !.attempt = @ + 1, !.progress = Opening,
                 !.error = "none", !.cues = "none", !.cuesOf = 0]
  ELSE r

\* requeue carries no status guard either, and keeps output_path.
Requeued(r) ==
  IF Present(r)
  THEN [r EXCEPT !.status = "queued", !.attempt = @ + 1, !.progress = Opening,
                 !.error = "none", !.cues = "none", !.cuesOf = 0, !.stamped = FALSE]
  ELSE r

Deleted(r) == [NoRow EXCEPT !.attempt = r.attempt]

\* Mutant: reset_interrupted looks for one of the two running statuses.
InterruptedTranscribing(r) ==
  IF r.status = "transcribing"
  THEN [r EXCEPT !.status = "canceled",
                 !.error = IF writable THEN "interrupted" ELSE "none"]
  ELSE r

\* reset_interrupted: completed_at stays as it was; the text is sealed, so a
\* store that cannot write clears it instead.
Interrupted(r) ==
  IF r.status \in Running
  THEN [r EXCEPT !.status = "canceled",
                 !.error = IF writable THEN "interrupted" ELSE "none"]
  ELSE r

-----------------------------------------------------------------------------

\* next_queued: the queued job with the least creation stamp; equal stamps leave
\* the order to SQLite.  A store that refuses writes hands out nothing.
NextQueued ==
  {j \in Jobs : /\ writable
                /\ rows[j].status = "queued"
                /\ \A k \in Jobs : rows[k].status = "queued"
                                     => rows[j].created <= rows[k].created}

Store(j, r) == rows' = [rows EXCEPT ![j] = r]

StoreInit ==
  /\ rows = [j \in Jobs |-> NoRow]
  /\ writable = TRUE

=============================================================================
