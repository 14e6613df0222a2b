-------------------------------- MODULE Api --------------------------------
(***************************************************************************)
(* The handlers of backend/src/api.rs that change a job.  A handler reads  *)
(* the row, releases the store, and acts on what it read with a second     *)
(* call: `req' holds what a client's request still has to do.              *)
(*                                                                         *)
(* On a store that cannot open its values get_job answers with an error,   *)
(* so every handler except delete stops there.                             *)
(***************************************************************************)
EXTENDS Engine

CONSTANTS
  Clients,   \* concurrent HTTP requests
  Patient    \* TRUE: a client retries a job only while no run holds it

ASSUME ApiAssumption == Patient \in BOOLEAN

VARIABLES
  req,       \* what the request of each client still has to do
  canceled   \* cancellations accepted: <<job, attempt>>

apiVars == <<req, canceled>>

Pending == {"none", "requeue", "notify", "cancel", "cues", "options"}

\* Only a download carries a choice of format and layout.
Request == [todo : Pending, job : Jobs \cup {NoJob}, opts : Options]

NoRequest == [todo |-> "none", job |-> NoJob, opts |-> CHOOSE o \in Options : TRUE]

ApiInit ==
  /\ req = [c \in Clients |-> NoRequest]
  /\ canceled = {}

Then(c, t) == req' = [req EXCEPT ![c].todo = t]
Reply(c)   == req' = [req EXCEPT ![c] = NoRequest]

\* A request is accepted and its first read succeeds.
Accept(c, t, j, o) ==
  /\ req[c] = NoRequest
  /\ req' = [req EXCEPT ![c] = [todo |-> t, job |-> j, opts |-> o]]

\* No run holds job j, and no other request is about to re-queue it.  A client
\* cannot see the progress writes a run has detached: they may be outstanding.
Quiet(j) ==
  /\ run.job # j
  /\ \A c \in Clients : req[c].job = j => req[c].todo # "requeue"

-----------------------------------------------------------------------------

\* create_job: the insert, then the wake-up.
CreateJob(c, j) ==
  /\ writable
  /\ rows[j].attempt = 0
  /\ \E o \in Options, t \in Times :
       /\ Store(j, Created(rows[j], o, t))
       /\ Accept(c, "notify", j, NoRequest.opts)
  /\ UNCHANGED <<writable, engineVars, canceled>>

\* retry_job: a job that is not terminal is refused with 409.
RetryJob(c, j) ==
  /\ writable
  /\ rows[j].status \in Terminal
  /\ rows[j].attempt < MaxAttempts
  /\ Patient => Quiet(j)
  /\ Accept(c, "requeue", j, NoRequest.opts)
  /\ UNCHANGED <<storeVars, engineVars, canceled>>

\* Mutant: retry_job forgets to wake the worker.
RequeueSilently(c) ==
  /\ req[c].todo = "requeue"
  /\ rows[req[c].job].attempt < MaxAttempts
  /\ Store(req[c].job, Requeued(rows[req[c].job]))
  /\ Reply(c)
  /\ UNCHANGED <<writable, engineVars, canceled>>

\* The unconditional UPDATE of requeue, and the removal of the legacy copy.
Requeue(c) ==
  /\ req[c].todo = "requeue"
  /\ rows[req[c].job].attempt < MaxAttempts
  /\ Store(req[c].job, Requeued(rows[req[c].job]))
  /\ Then(c, "notify")
  /\ UNCHANGED <<writable, engineVars, canceled>>

\* Mutant: the signal reaches only a worker that is already waiting.
NotifyWaiting(c) ==
  /\ req[c].todo = "notify"
  /\ wake' = (wake \/ pc = "idle")
  /\ Reply(c)
  /\ UNCHANGED <<storeVars, pc, run, writes, files, events, errs, canceled>>

\* Notify::notify_one leaves a permit for a worker that is not waiting yet.
NotifyOne(c) ==
  /\ req[c].todo = "notify"
  /\ wake' = TRUE
  /\ Reply(c)
  /\ UNCHANGED <<storeVars, pc, run, writes, files, events, errs, canceled>>

\* cancel_job: a terminal job is returned as it is.
CancelJob(c, j) ==
  /\ writable
  /\ Active(rows[j])
  /\ Accept(c, "cancel", j, NoRequest.opts)
  /\ UNCHANGED <<storeVars, engineVars, canceled>>

Cancel(c) ==
  LET j == req[c].job IN
  /\ req[c].todo = "cancel"
  /\ Store(j, CancelIfActive(rows[j]))
  /\ canceled' = IF Active(rows[j])
                 THEN canceled \cup {<<j, rows[j].attempt>>}
                 ELSE canceled
  /\ Reply(c)
  /\ UNCHANGED <<writable, engineVars>>

DeleteJob(j) ==
  /\ Present(rows[j])
  /\ Store(j, Deleted(rows[j]))
  /\ UNCHANGED <<writable, engineVars, apiVars>>

\* download: the job, then its cues, then the remembered choice.
Download(c, j) ==
  /\ writable
  /\ Present(rows[j])
  /\ \E o \in Options : o # rows[j].opts /\ Accept(c, "cues", j, o)
  /\ UNCHANGED <<storeVars, engineVars, canceled>>

ReadCues(c) ==
  /\ req[c].todo = "cues"
  /\ IF rows[req[c].job].cues = "none" THEN Reply(c) ELSE Then(c, "options")
  /\ UNCHANGED <<storeVars, engineVars, canceled>>

Remember(c) ==
  LET j == req[c].job IN
  /\ req[c].todo = "options"
  /\ Store(j, SetRenderOptions(rows[j], req[c].opts))
  /\ Reply(c)
  /\ UNCHANGED <<writable, engineVars, canceled>>

ApiNext ==
  \/ \E c \in Clients, j \in Jobs :
       CreateJob(c, j) \/ RetryJob(c, j) \/ CancelJob(c, j) \/ Download(c, j)
  \/ \E c \in Clients :
       Requeue(c) \/ NotifyOne(c) \/ Cancel(c) \/ ReadCues(c) \/ Remember(c)
  \/ \E j \in Jobs : DeleteJob(j)

=============================================================================
