------------------------------- MODULE Engine -------------------------------
(***************************************************************************)
(* The job worker of backend/src/engine.rs: spawn's loop over the queue    *)
(* and run_job, which takes one job from decoding to the published file.   *)
(*                                                                         *)
(* `pc' names the await the worker stands at; each action is the code up   *)
(* to the next one.  Between two of them the handlers of Api and the       *)
(* progress writes the run has spawned may touch the same row.             *)
(*                                                                         *)
(* A store call may fail (a busy database, a value that does not open), at *)
(* most MaxStoreErrors times: StoreError says where each failure leads.    *)
(***************************************************************************)
EXTENDS JobStore

CONSTANTS
  MaxWindows,      \* bound: audio windows of one video
  MaxCalls,        \* bound: model calls of one batch, single-line retries included
  MaxStoreErrors   \* bound: failing store calls of one behaviour

ASSUME EngineAssumption ==
  /\ MaxWindows \in Nat
  /\ MaxCalls \in Nat \ {0}
  /\ MaxStoreErrors \in Nat

VARIABLES
  pc,       \* where the worker task stands
  run,      \* the locals of run_job
  writes,   \* progress writes spawned but not yet executed: <<job, value>>
  wake,     \* the permit of the Notify the handlers signal
  files,    \* runs whose file was written beside the video: <<job, attempt>>
  events,   \* outcome events emitted: <<job, attempt, "completed" | "failed">>
  errs      \* store calls that have failed so far

engineVars == <<pc, run, writes, wake, files, events, errs>>

-----------------------------------------------------------------------------

\* The awaits of run_job that read the row and leave when it is canceled.
Checks == {"windowCheck", "endCheck", "batchCheck", "applyCheck",
           "translatedCheck", "writeCheck"}

\* The awaits of run_job whose store call is propagated by `?'.
Propagated == {"claim", "reading", "saveTranscript", "startTranslating",
               "saveTranslation", "writing", "complete", "setOutput"}

\* The awaits at which the worker holds no job.
Unowned == {"boot", "poll", "drained", "idle"}

Points == Unowned \cup Checks \cup Propagated
            \cup {"open", "windows", "transcribe", "ask", "publish", "announce",
                  "fail", "announceFailure"}

Run == [job     : Jobs \cup {NoJob},
        attempt : 0..MaxAttempts,    \* the row's attempt when it was picked up
        windows : 0..MaxWindows,     \* windows received
        batches : 0..MaxBatches,     \* batches translated
        calls   : 0..MaxCalls,       \* model calls made for the current batch
        some    : BOOLEAN,           \* whether any line was translated
        beside  : BOOLEAN,           \* whether the file beside the video was written
        late    : 0..2]              \* engine and model calls made for a lost cause

NoRun == [job |-> NoJob, attempt |-> 0, windows |-> 0, batches |-> 0, calls |-> 0,
          some |-> FALSE, beside |-> FALSE, late |-> 0]

EngineInit ==
  /\ pc = "boot"
  /\ run = NoRun
  /\ writes = {}
  /\ wake = FALSE
  /\ files = {}
  /\ events = {}
  /\ errs = 0

-----------------------------------------------------------------------------

\* Mutant: the locals outlive the run.
LeaveKeepingRun == pc' = "poll" /\ UNCHANGED run

\* run_job returns and the loop asks for the next job.
Leave == /\ pc' = "poll"
         /\ run' = NoRun

Goto(p) == pc' = p /\ UNCHANGED run

\* is_canceled: the row says canceled, or was deleted.
IsCanceled(j) == rows[j].status \in {"canceled", "absent"}

\* The decoder's progress callback may queue a write of its own share.
MayReport ==
  \/ UNCHANGED writes
  \/ writes' = writes \cup {<<run.job, Transcribed>>}

\* abort() drops what the task has not begun; a write it is executing on another
\* thread still lands.
AbortProgress ==
  \/ UNCHANGED writes
  \/ writes' = writes \ {<<run.job, Transcribed>>}

\* Calls made although the attempt was canceled, deleted or re-queued meanwhile.
LateNow ==
  IF IsCanceled(run.job) \/ rows[run.job].attempt # run.attempt
  THEN IF run.late = 2 THEN 2 ELSE run.late + 1
  ELSE run.late

-----------------------------------------------------------------------------
\* spawn: the loop over the queue.

\* Mutant: the reset at boot is skipped.
BootWithoutReset ==
  /\ pc = "boot"
  /\ Goto("poll")
  /\ UNCHANGED <<rows, writable, writes, wake, files, events, errs>>

Boot ==
  /\ pc = "boot"
  /\ rows' = [j \in Jobs |-> Interrupted(rows[j])]
  /\ Goto("poll")
  /\ UNCHANGED <<writable, writes, wake, files, events, errs>>

PickUp(j) ==
  /\ pc = "poll"
  /\ j \in NextQueued
  /\ pc' = "claim"
  /\ run' = [NoRun EXCEPT !.job = j, !.attempt = rows[j].attempt]
  /\ UNCHANGED <<rows, writable, writes, wake, files, events, errs>>

NothingQueued ==
  /\ pc = "poll"
  /\ NextQueued = {}
  /\ Goto("drained")
  /\ UNCHANGED <<rows, writable, writes, wake, files, events, errs>>

\* The queue was read empty; only now does the worker wait for the permit.
WaitForWork ==
  /\ pc = "drained"
  /\ Goto("idle")
  /\ UNCHANGED <<rows, writable, writes, wake, files, events, errs>>

Woken ==
  /\ pc = "idle"
  /\ wake
  /\ wake' = FALSE
  /\ Goto("poll")
  /\ UNCHANGED <<rows, writable, writes, files, events, errs>>

\* The five-second re-poll.
PollAgain ==
  /\ pc = "idle"
  /\ Goto("poll")
  /\ UNCHANGED <<rows, writable, writes, wake, files, events, errs>>

-----------------------------------------------------------------------------
\* run_job: claiming and transcribing.

Claim ==
  /\ pc = "claim"
  /\ Store(run.job, SetStatusIfActive(rows[run.job], "transcribing", "none"))
  /\ IF Active(rows[run.job]) THEN Goto("reading") ELSE Leave
  /\ UNCHANGED <<writable, writes, wake, files, events, errs>>

ReadVideo ==
  /\ pc = "reading"
  /\ Store(run.job, SetProgress(rows[run.job], Opening))
  /\ Goto("open")
  /\ UNCHANGED <<writable, writes, wake, files, events, errs>>

\* validate_source and the language lookup; the decoder and the progress task
\* are spawned when both succeed.
OpenSource ==
  /\ pc = "open"
  /\ \/ Goto("windows")
     \/ Goto("fail")
  /\ UNCHANGED <<rows, writable, writes, wake, files, events, errs>>

\* rx.recv yields a window.
NextWindow ==
  /\ pc = "windows"
  /\ run.windows < MaxWindows
  /\ run' = [run EXCEPT !.windows = @ + 1]
  /\ pc' = "windowCheck"
  /\ MayReport
  /\ UNCHANGED <<rows, writable, wake, files, events, errs>>

\* rx.recv yields the decoder's error.  Nothing aborts the progress task here.
DecodeError ==
  /\ pc = "windows"
  /\ Goto("fail")
  /\ MayReport
  /\ UNCHANGED <<rows, writable, wake, files, events, errs>>

\* rx.recv yields None: the decoder is done.
EndOfWindows ==
  /\ pc = "windows"
  /\ Goto("endCheck")
  /\ AbortProgress
  /\ UNCHANGED <<rows, writable, wake, files, events, errs>>

WindowCheck ==
  /\ pc = "windowCheck"
  /\ IF IsCanceled(run.job)
     THEN Leave /\ AbortProgress
     ELSE Goto("transcribe") /\ UNCHANGED writes
  /\ UNCHANGED <<rows, writable, wake, files, events, errs>>

\* The call to the speech engine returns, or fails the job.
Transcribe ==
  /\ pc = "transcribe"
  /\ run' = [run EXCEPT !.late = LateNow]
  /\ \/ pc' = "windows" /\ UNCHANGED writes
     \/ pc' = "fail" /\ MayReport
  /\ UNCHANGED <<rows, writable, wake, files, events, errs>>

\* The check after the loop, and normalize: no window, or none with speech, and
\* the job fails.
EndCheck ==
  /\ pc = "endCheck"
  /\ \/ IsCanceled(run.job) /\ Leave
     \/ ~IsCanceled(run.job) /\ run.windows > 0 /\ Goto("saveTranscript")
     \/ ~IsCanceled(run.job) /\ Goto("fail")
  /\ UNCHANGED <<rows, writable, writes, wake, files, events, errs>>

\* Mutant: a transcript that needs no translation is not stored.
SaveTranscriptToTranslate ==
  /\ pc = "saveTranscript"
  /\ \/ /\ Store(run.job, SetCues(rows[run.job], "transcript", run.attempt))
        /\ Goto("startTranslating")
     \/ Goto("writing") /\ UNCHANGED rows
  /\ UNCHANGED <<writable, writes, wake, files, events, errs>>

\* set_cues; the transcript may already be in the target language.
SaveTranscript ==
  /\ pc = "saveTranscript"
  /\ Store(run.job, SetCues(rows[run.job], "transcript", run.attempt))
  /\ \/ Goto("startTranslating")
     \/ Goto("writing")
  /\ UNCHANGED <<writable, writes, wake, files, events, errs>>

-----------------------------------------------------------------------------
\* run_job: translating.

StartTranslating ==
  /\ pc = "startTranslating"
  /\ Store(run.job, SetStatusIfActive(rows[run.job], "translating", "none"))
  /\ IF Active(rows[run.job]) THEN Goto("batchCheck") ELSE Leave
  /\ UNCHANGED <<writable, writes, wake, files, events, errs>>

\* Mutant: the single-line retries are not checked for cancellation.
BatchCheckFirstOnly ==
  /\ pc = "batchCheck"
  /\ IF run.calls = 0 /\ IsCanceled(run.job) THEN Leave ELSE Goto("ask")
  /\ UNCHANGED <<rows, writable, writes, wake, files, events, errs>>

\* should_cancel before a batch is sent and before each single-line retry.
BatchCheck ==
  /\ pc = "batchCheck"
  /\ IF IsCanceled(run.job) THEN Leave ELSE Goto("ask")
  /\ UNCHANGED <<rows, writable, writes, wake, files, events, errs>>

\* One chat completion: it leaves lines to retry one by one, or none.
Ask ==
  /\ pc = "ask"
  /\ run' = [run EXCEPT !.calls = @ + 1, !.late = LateNow]
  /\ \/ run.calls + 1 < MaxCalls /\ pc' = "batchCheck"
     \/ pc' = "applyCheck"
  /\ UNCHANGED <<rows, writable, writes, wake, files, events, errs>>

\* should_cancel before a batch is applied; on_progress then detaches a task that
\* writes the progress, and the next batch begins without waiting for it.
ApplyCheck ==
  /\ pc = "applyCheck"
  /\ IF IsCanceled(run.job)
     THEN Leave /\ UNCHANGED writes
     ELSE /\ \E translated \in BOOLEAN :
               run' = [run EXCEPT !.batches = @ + 1, !.calls = 0,
                                  !.some = @ \/ translated]
          /\ writes' = writes \cup {<<run.job, Batch(run'.batches)>>}
          /\ \/ run'.batches < MaxBatches /\ pc' = "batchCheck"
             \/ pc' = "translatedCheck"
  /\ UNCHANGED <<rows, writable, wake, files, events, errs>>

TranslatedCheck ==
  /\ pc = "translatedCheck"
  /\ IF IsCanceled(run.job) THEN Leave ELSE Goto("saveTranslation")
  /\ UNCHANGED <<rows, writable, writes, wake, files, events, errs>>

\* The second set_cues; a run that translated no line keeps its transcript and
\* fails.
SaveTranslation ==
  /\ pc = "saveTranslation"
  /\ Store(run.job, SetCues(rows[run.job],
                            IF run.some THEN "translated" ELSE "transcript",
                            run.attempt))
  /\ Goto(IF run.some THEN "writing" ELSE "fail")
  /\ UNCHANGED <<writable, writes, wake, files, events, errs>>

-----------------------------------------------------------------------------
\* run_job: committing and publishing.

WriteProgress ==
  /\ pc = "writing"
  /\ Store(run.job, SetProgress(rows[run.job], Writing))
  /\ Goto("writeCheck")
  /\ UNCHANGED <<writable, writes, wake, files, events, errs>>

WriteCheck ==
  /\ pc = "writeCheck"
  /\ IF IsCanceled(run.job) THEN Leave ELSE Goto("complete")
  /\ UNCHANGED <<rows, writable, writes, wake, files, events, errs>>

\* Mutant: the file is published whatever complete_if_active answers.
CompleteUnheeded ==
  /\ pc = "complete"
  /\ Store(run.job, CompleteIfActive(rows[run.job]))
  /\ Goto("publish")
  /\ UNCHANGED <<writable, writes, wake, files, events, errs>>

\* Completion is the commit point.
Complete ==
  /\ pc = "complete"
  /\ Store(run.job, CompleteIfActive(rows[run.job]))
  /\ IF Active(rows[run.job]) THEN Goto("publish") ELSE Leave
  /\ UNCHANGED <<writable, writes, wake, files, events, errs>>

\* Mutant: a disk that refuses the file ends the run.
PublishOrLeave ==
  /\ pc = "publish"
  /\ \/ /\ files' = files \cup {<<run.job, run.attempt>>}
        /\ run' = [run EXCEPT !.beside = TRUE]
        /\ pc' = "setOutput"
     \/ Leave /\ UNCHANGED files
  /\ UNCHANGED <<rows, writable, writes, wake, events, errs>>

\* The settings are read (their default when that fails) and the file is written
\* beside the video: not asked for, written, or refused by the disk.
Publish ==
  /\ pc = "publish"
  /\ pc' = "setOutput"
  /\ \/ /\ files' = files \cup {<<run.job, run.attempt>>}
        /\ run' = [run EXCEPT !.beside = TRUE]
     \/ UNCHANGED <<files, run>>
  /\ UNCHANGED <<rows, writable, writes, wake, events, errs>>

SetOutput ==
  /\ pc = "setOutput"
  /\ Store(run.job, SetOutputPath(rows[run.job], run.beside))
  /\ Goto("announce")
  /\ UNCHANGED <<writable, writes, wake, files, events, errs>>

Announce ==
  /\ pc = "announce"
  /\ events' = events \cup {<<run.job, run.attempt, "completed">>}
  /\ Leave
  /\ UNCHANGED <<rows, writable, writes, wake, files, errs>>

\* Mutant: job.failed is emitted whether or not the row moved.
FailAnnounced ==
  /\ pc = "fail"
  /\ Store(run.job, SetStatusIfActive(rows[run.job], "failed", "failure"))
  /\ Goto("announceFailure")
  /\ UNCHANGED <<writable, writes, wake, files, events, errs>>

\* Mutant: the failure is logged but not recorded in the row.
FailUnrecorded ==
  /\ pc = "fail"
  /\ Leave
  /\ UNCHANGED <<rows, writable, writes, wake, files, events, errs>>

\* The Err arm of spawn: only a transition is announced.
Fail ==
  /\ pc = "fail"
  /\ Store(run.job, SetStatusIfActive(rows[run.job], "failed", "failure"))
  /\ IF Active(rows[run.job]) THEN Goto("announceFailure") ELSE Leave
  /\ UNCHANGED <<writable, writes, wake, files, events, errs>>

AnnounceFailure ==
  /\ pc = "announceFailure"
  /\ events' = events \cup {<<run.job, run.attempt, "failed">>}
  /\ Leave
  /\ UNCHANGED <<rows, writable, writes, wake, files, errs>>

-----------------------------------------------------------------------------
\* A spawned progress write runs; its result is ignored.
FlushProgress(j, p) ==
  /\ <<j, p>> \in writes
  /\ writes' = writes \ {<<j, p>>}
  /\ Store(j, SetProgress(rows[j], p))
  /\ UNCHANGED <<writable, pc, run, wake, files, events, errs>>

\* A store call of the worker fails.  A read for is_canceled counts as canceled;
\* `?' fails the job; the reset at boot and the failure's own write are dropped.
StoreError ==
  /\ errs < MaxStoreErrors
  /\ errs' = errs + 1
  /\ \/ pc = "boot" /\ Goto("poll") /\ UNCHANGED writes
     \/ pc \in Propagated /\ Goto("fail") /\ UNCHANGED writes
     \/ pc = "windowCheck" /\ Leave /\ AbortProgress
     \/ pc \in (Checks \cup {"fail"}) \ {"windowCheck"} /\ Leave /\ UNCHANGED writes
  /\ UNCHANGED <<rows, writable, wake, files, events>>

-----------------------------------------------------------------------------

\* The steps the runtime takes without being asked: the task is scheduled, the
\* engine, the model and the disk answer, the decoder ends.
WorkerStep ==
  \/ Boot \/ (\E j \in Jobs : PickUp(j)) \/ NothingQueued
  \/ WaitForWork \/ Woken
  \/ Claim \/ ReadVideo \/ OpenSource \/ NextWindow \/ DecodeError \/ EndOfWindows
  \/ WindowCheck \/ Transcribe \/ EndCheck \/ SaveTranscript
  \/ StartTranslating \/ BatchCheck \/ Ask \/ ApplyCheck \/ TranslatedCheck
  \/ SaveTranslation \/ WriteProgress \/ WriteCheck \/ Complete
  \/ Publish \/ SetOutput \/ Announce \/ Fail \/ AnnounceFailure

EngineNext ==
  \/ WorkerStep
  \/ PollAgain
  \/ \E j \in Jobs, p \in Opening..Done : FlushProgress(j, p)
  \/ StoreError

=============================================================================
