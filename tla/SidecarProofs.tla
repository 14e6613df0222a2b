--------------------------- MODULE SidecarProofs ---------------------------
(***************************************************************************)
(* Theorems about Sidecar, for every number of jobs, clients, attempts,    *)
(* windows, batches, model calls, store failures and restarts.             *)
(*                                                                         *)
(* The rows are reasoned about once: RowsStep says that a step takes each  *)
(* row by one statement of the store, and the Row lemmas say what such a   *)
(* statement preserves.  What remains of each invariant is the worker.     *)
(***************************************************************************)
EXTENDS Sidecar, LeastNumbers, TLAPS

\* The statements of store.rs that a handler, a spawned write or the boot may run on
\* any row, from the row each finds to the row it leaves; set_output_path is the
\* worker's, and just as harmless to the status.
OutsideStep(r, s) ==
  \/ s = r
  \/ s = Interrupted(r)
  \/ s = CancelIfActive(r)
  \/ \E p \in Opening..Done : s = SetProgress(r, p)
  \/ \E b \in BOOLEAN : s = SetOutputPath(r, b)
  \/ \E o \in Options : s = SetRenderOptions(r, o)
  \/ r.attempt < MaxAttempts /\ s = Requeued(r)
  \/ s = Deleted(r)
  \/ r.attempt = 0 /\ \E o \in Options, t \in Times : s = Created(r, o, t)

\* Every statement, with the arguments the code gives it.
RowStep(r, s) ==
  \/ OutsideStep(r, s)
  \/ s = SetStatusIfActive(r, "transcribing", "none")
  \/ s = SetStatusIfActive(r, "translating", "none")
  \/ s = SetStatusIfActive(r, "failed", "failure")
  \/ s = CompleteIfActive(r)
  \/ \E c \in {"transcript", "translated"}, a \in 0..MaxAttempts : s = SetCues(r, c, a)

\* The statements run on the row of job j by whom they may be run: a progress write
\* that was spawned, the worker at its await, the client that holds a re-queue.
OutsideMove(j, s) ==
  LET r == rows[j] IN
  \/ s = r
  \/ pc = "boot" /\ s = Interrupted(r)
  \/ s = CancelIfActive(r)
  \/ \E p \in Opening..Done : <<j, p>> \in writes /\ s = SetProgress(r, p)
  \/ /\ j = run.job /\ pc \in {"reading", "writing"}
     /\ \E p \in Opening..Done : s = SetProgress(r, p)
  \/ \E b \in BOOLEAN : s = SetOutputPath(r, b)
  \/ \E o \in Options : s = SetRenderOptions(r, o)
  \/ /\ \E c \in Clients :
          req[c].todo = "requeue" /\ req[c].job = j /\ req'[c].todo = "notify"
     /\ r.attempt < MaxAttempts /\ s = Requeued(r)
  \/ s = Deleted(r)
  \/ r.attempt = 0 /\ \E o \in Options, t \in Times : s = Created(r, o, t)

\* The worker's own statements, run at their await on the job in hand.
WorkerMove(j) ==
  /\ j = run.job
  /\ \/ /\ pc = "claim"
        /\ rows'[j] = SetStatusIfActive(rows[j], "transcribing", "none")
     \/ /\ pc = "startTranslating"
        /\ rows'[j] = SetStatusIfActive(rows[j], "translating", "none")
     \/ /\ pc = "fail"
        /\ rows'[j] = SetStatusIfActive(rows[j], "failed", "failure")
        /\ Active(rows[j]) => pc' = "announceFailure" /\ run' = run
     \/ /\ pc = "complete"
        /\ rows'[j] = CompleteIfActive(rows[j])
        /\ Active(rows[j]) => pc' = "publish" /\ run' = run
     \/ /\ pc \in {"saveTranscript", "saveTranslation"}
        /\ \E c \in {"transcript", "translated"} :
             rows'[j] = SetCues(rows[j], c, run.attempt)

\* Every step but the boot addresses a single row.
OneRowMoves == Boot \/ \E k : \A j \in Jobs : j # k => rows'[j] = rows[j]

\* What a step does to the row of job j, and what is left of it when it does not
\* matter who acts.
AuthoredMove(j) == OutsideMove(j, rows'[j]) \/ WorkerMove(j)

RowMove(j) == OutsideStep(rows[j], rows'[j]) \/ WorkerMove(j)

\* A row that exists has entered the queue at least once.
HasAttempt(r) == Present(r) => r.attempt >= 1

\* A job in hand was picked up after at least one attempt began, and the counters
\* of the run have room where the code is about to advance them.
BeforeTranslation ==
  {"claim", "reading", "open", "windows", "windowCheck", "transcribe", "endCheck",
   "saveTranscript", "startTranslating"}

RunInv ==
  /\ run.job # NoJob => run.attempt >= 1
  /\ pc \in BeforeTranslation => run.batches = 0 /\ run.calls = 0
  /\ pc \in {"batchCheck", "ask", "applyCheck"} => run.batches < MaxBatches
  /\ pc \in {"batchCheck", "ask"} => run.calls < MaxCalls

TypeInv == TypeOK /\ (\A j \in Jobs : HasAttempt(rows[j])) /\ RunInv

-----------------------------------------------------------------------------
\* The row lemmas.

LEMMA BoundsAreNumbers ==
  /\ MaxBatches \in Nat /\ MaxBatches >= 1
  /\ MaxAttempts \in Nat /\ MaxAttempts >= 1
  /\ MaxCalls \in Nat /\ MaxCalls >= 1
  /\ MaxWindows \in Nat
  /\ MaxStoreErrors \in Nat
  /\ MaxCrashes \in Nat
BY StoreAssumption, EngineAssumption, SidecarAssumption

\* The row that does not exist is a row.
LEMMA NoRowType == NoRow \in Row
<1>1. (CHOOSE o \in Options : TRUE) \in Options
  BY StoreAssumption
<1>2. (CHOOSE t \in Times : TRUE) \in Times
  BY StoreAssumption
<1> QED
  BY <1>1, <1>2, BoundsAreNumbers
     DEF NoRow, Row, Statuses, Running, Terminal, Opening, Done

\* Moving a row to a status leaves a row.
LEMMA MovedType ==
  ASSUME NEW r \in Row, NEW s \in Statuses,
         NEW e \in {"none", "failure", "cancelled", "interrupted"}
  PROVE  /\ Moved(r, s, e) \in Row
         /\ Moved(r, s, e).status = s
         /\ Moved(r, s, e).attempt = r.attempt
<1> DEFINE b == r.stamped \/ s \in Terminal
<1>1. b \in BOOLEAN
  OBVIOUS
<1>2. Moved(r, s, e) = [r EXCEPT !.status = s, !.error = e, !.stamped = b]
  BY DEF Moved
<1> HIDE DEF b
<1> QED
  BY <1>1, <1>2 DEF Row

\* A statement leaves a row, and one that exists has an attempt.
LEMMA RowStepType ==
  ASSUME NEW r \in Row, NEW s, HasAttempt(r), RowStep(r, s)
  PROVE  s \in Row /\ HasAttempt(s)
<1> USE BoundsAreNumbers, NoRowType DEF Row, HasAttempt, Present, Statuses, Running,
        Terminal, Opening, Done
<1>1. CASE s = r
  BY <1>1
<1>2. CASE s = Interrupted(r)
  BY <1>2 DEF Interrupted
<1>3. CASE \E t \in {"transcribing", "translating", "failed"}, e \in {"none", "failure"} :
             s = SetStatusIfActive(r, t, e)
  <2> PICK t \in {"transcribing", "translating", "failed"}, e \in {"none", "failure"} :
        s = SetStatusIfActive(r, t, e)
    BY <1>3
  <2>1. /\ Moved(r, t, e) \in Row
        /\ Moved(r, t, e).attempt = r.attempt
    BY MovedType
  <2> QED
    BY <2>1 DEF SetStatusIfActive, Active
<1>4. CASE s = CancelIfActive(r)
  BY <1>4, MovedType DEF CancelIfActive, Active
<1>5. CASE s = CompleteIfActive(r)
  <2>1. /\ Moved(r, "completed", "none") \in Row
        /\ Moved(r, "completed", "none").attempt = r.attempt
    BY MovedType
  <2> QED
    BY <1>5, <2>1 DEF CompleteIfActive, Active
<1>6. CASE \E p \in Opening..Done : s = SetProgress(r, p)
  BY <1>6 DEF SetProgress, Active
<1>7. CASE \E c \in {"transcript", "translated"}, a \in 0..MaxAttempts : s = SetCues(r, c, a)
  <2> PICK c \in {"transcript", "translated"}, a \in 0..MaxAttempts : s = SetCues(r, c, a)
    BY <1>7
  <2>1. CASE Active(r)
    BY <2>1 DEF SetCues
  <2>2. CASE ~Active(r)
    BY <2>2 DEF SetCues
  <2> QED
    BY <2>1, <2>2
<1>8. CASE \E b \in BOOLEAN : s = SetOutputPath(r, b)
  BY <1>8 DEF SetOutputPath
<1>9. CASE \E o \in Options : s = SetRenderOptions(r, o)
  BY <1>9 DEF SetRenderOptions
<1>10. CASE r.attempt < MaxAttempts /\ s = Requeued(r)
  <2>1. r.attempt \in Nat /\ r.attempt + 1 \in 0..MaxAttempts
    BY <1>10
  <2>2. s = IF Present(r)
            THEN [r EXCEPT !.status = "queued", !.attempt = r.attempt + 1,
                           !.progress = 0, !.error = "none", !.cues = "none",
                           !.cuesOf = 0, !.stamped = FALSE]
            ELSE r
    BY <1>10 DEF Requeued
  <2>3. 0 \in 0..MaxAttempts /\ 0 \in Opening..Done
    OBVIOUS
  <2>4. CASE Present(r)
    <3>1. s \in Row
      BY ONLY <2>1, <2>2, <2>3, <2>4, r \in Row DEF Row, Statuses
    <3>2. s.attempt = r.attempt + 1
      BY <2>1, <2>2, <2>4
    <3> QED
      BY <2>1, <3>1, <3>2
  <2> QED
    BY <2>2, <2>4
<1>11. CASE s = Deleted(r)
  <2>1. NoRow \in Row /\ NoRow.status = "absent"
    BY NoRowType DEF NoRow
  <2>2. r.attempt \in 0..MaxAttempts
    OBVIOUS
  <2> QED
    BY <1>11, <2>1, <2>2 DEF Deleted
<1>12. CASE r.attempt = 0 /\ \E o \in Options, t \in Times : s = Created(r, o, t)
  <2> PICK o \in Options, t \in Times : s = Created(r, o, t)
    BY <1>12
  <2>1. 1 \in 0..MaxAttempts
    OBVIOUS
  <2>2. s = [r EXCEPT !.status = "queued", !.attempt = 1, !.opts = o, !.created = t]
    BY DEF Created
  <2>3. s \in Row
    BY ONLY <2>1, <2>2, r \in Row, o \in Options, t \in Times DEF Row, Statuses
  <2>4. s.attempt = 1
    BY <2>2
  <2> QED
    BY <2>3, <2>4
<1> QED
  BY <1>1, <1>2, <1>3, <1>4, <1>5, <1>6, <1>7, <1>8, <1>9, <1>10, <1>11, <1>12 DEF RowStep, OutsideStep

-----------------------------------------------------------------------------
\* One step of the system, one statement per row.

LEMMA StoreStep ==
  ASSUME rows \in [Jobs -> Row], NEW k, NEW s, Store(k, s), OutsideMove(k, s)
  PROVE  /\ rows' = [j \in Jobs |-> rows'[j]]
         /\ \A j \in Jobs : AuthoredMove(j)
         /\ OneRowMoves
<1>1. /\ rows' = [rows EXCEPT ![k] = s]
      /\ \A j \in Jobs : rows'[j] = IF j = k THEN s ELSE rows[j]
  BY DEF Store
<1>2. \A j : OutsideMove(j, rows[j])
  BY DEF OutsideMove
<1> QED
  BY <1>1, <1>2 DEF AuthoredMove, WorkerMove, OneRowMoves

LEMMA WorkerStoreStep ==
  ASSUME rows \in [Jobs -> Row], NEW s, Store(run.job, s),
         \/ pc = "claim" /\ s = SetStatusIfActive(rows[run.job], "transcribing", "none")
         \/ pc = "startTranslating"
              /\ s = SetStatusIfActive(rows[run.job], "translating", "none")
         \/ /\ pc = "fail" /\ s = SetStatusIfActive(rows[run.job], "failed", "failure")
            /\ Active(rows[run.job]) => pc' = "announceFailure" /\ run' = run
         \/ /\ pc = "complete" /\ s = CompleteIfActive(rows[run.job])
            /\ Active(rows[run.job]) => pc' = "publish" /\ run' = run
         \/ /\ pc \in {"saveTranscript", "saveTranslation"}
            /\ \E c \in {"transcript", "translated"} :
                 s = SetCues(rows[run.job], c, run.attempt)
  PROVE  /\ rows' = [j \in Jobs |-> rows'[j]]
         /\ \A j \in Jobs : AuthoredMove(j)
         /\ OneRowMoves
<1>1. /\ rows' = [rows EXCEPT ![run.job] = s]
      /\ \A j \in Jobs : rows'[j] = IF j = run.job THEN s ELSE rows[j]
  BY DEF Store
<1>2. \A j : OutsideMove(j, rows[j])
  BY DEF OutsideMove
<1> QED
  BY <1>1, <1>2 DEF AuthoredMove, WorkerMove, OneRowMoves

LEMMA RowsAuthored ==
  ASSUME TypeInv, [Next]_vars
  PROVE  /\ rows' = [j \in Jobs |-> rows'[j]]
         /\ \A j \in Jobs : AuthoredMove(j)
         /\ OneRowMoves
<1>1. /\ rows \in [Jobs -> Row]
      /\ run \in Run
      /\ \A c \in Clients : req[c] \in Request
  BY DEF TypeInv, TypeOK
<1>2. CASE UNCHANGED rows
  <2>1. \A j : OutsideMove(j, rows[j])
    BY DEF OutsideMove
  <2> QED
    BY <1>1, <1>2, <2>1 DEF AuthoredMove, WorkerMove, OneRowMoves
<1>3. CASE Boot
  BY <1>1, <1>3 DEF Boot, OutsideMove, AuthoredMove, OneRowMoves
<1>4. CASE Claim
  BY <1>1, <1>4, WorkerStoreStep DEF Claim
<1>5. CASE ReadVideo
  <2>1. OutsideMove(run.job, SetProgress(rows[run.job], Opening))
    BY <1>5, BoundsAreNumbers DEF ReadVideo, OutsideMove, Opening, Done
  <2> QED
    BY <1>1, <1>5, <2>1, StoreStep DEF ReadVideo
<1>6. CASE SaveTranscript
  BY <1>1, <1>6, WorkerStoreStep DEF SaveTranscript
<1>7. CASE StartTranslating
  BY <1>1, <1>7, WorkerStoreStep DEF StartTranslating
<1>8. CASE SaveTranslation
  <2> DEFINE c == IF run.some THEN "translated" ELSE "transcript"
  <2>1. Store(run.job, SetCues(rows[run.job], c, run.attempt)) /\ pc = "saveTranslation"
    BY <1>8 DEF SaveTranslation
  <2>2. c \in {"transcript", "translated"}
    OBVIOUS
  <2> HIDE DEF c
  <2> QED
    BY <1>1, <2>1, <2>2, WorkerStoreStep
<1>9. CASE WriteProgress
  <2>1. OutsideMove(run.job, SetProgress(rows[run.job], Writing))
    BY <1>9, BoundsAreNumbers DEF WriteProgress, OutsideMove, Opening, Done, Writing
  <2> QED
    BY <1>1, <1>9, <2>1, StoreStep DEF WriteProgress
<1>10. CASE Complete
  BY <1>1, <1>10, WorkerStoreStep DEF Complete, Goto
<1>11. CASE SetOutput
  <2>1. OutsideMove(run.job, SetOutputPath(rows[run.job], run.beside))
    BY <1>1 DEF OutsideMove, Run
  <2> QED
    BY <1>1, <1>11, <2>1, StoreStep DEF SetOutput
<1>12. CASE Fail
  BY <1>1, <1>12, WorkerStoreStep DEF Fail, Goto
<1>13. CASE \E j \in Jobs, p \in Opening..Done : FlushProgress(j, p)
  <2> PICK j \in Jobs, p \in Opening..Done : FlushProgress(j, p)
    BY <1>13
  <2>1. OutsideMove(j, SetProgress(rows[j], p))
    BY DEF OutsideMove, FlushProgress
  <2> QED
    BY <1>1, <2>1, StoreStep DEF FlushProgress
<1>14. CASE \E c \in Clients, j \in Jobs : CreateJob(c, j)
  <2> PICK c \in Clients, j \in Jobs : CreateJob(c, j)
    BY <1>14
  <2> PICK o \in Options, t \in Times : Store(j, Created(rows[j], o, t))
    BY DEF CreateJob
  <2>1. OutsideMove(j, Created(rows[j], o, t))
    BY DEF OutsideMove, CreateJob
  <2> QED
    BY <1>1, <2>1, StoreStep
<1>15. CASE \E c \in Clients : Requeue(c)
  <2> PICK c \in Clients : Requeue(c)
    BY <1>15
  <2>1. OutsideMove(req[c].job, Requeued(rows[req[c].job]))
    <3>1. req'[c].todo = "notify"
      BY <1>1 DEF Requeue, Then, TypeInv, TypeOK, Request
    <3> QED
      BY <3>1 DEF OutsideMove, Requeue
  <2> QED
    BY <1>1, <2>1, StoreStep DEF Requeue
<1>16. CASE \E c \in Clients : Cancel(c)
  <2> PICK c \in Clients : Cancel(c)
    BY <1>16
  <2>1. OutsideMove(req[c].job, CancelIfActive(rows[req[c].job]))
    BY DEF OutsideMove
  <2> QED
    BY <1>1, <2>1, StoreStep DEF Cancel
<1>17. CASE \E c \in Clients : Remember(c)
  <2> PICK c \in Clients : Remember(c)
    BY <1>17
  <2>1. req[c].opts \in Options
    BY <1>1 DEF Request
  <2>2. OutsideMove(req[c].job, SetRenderOptions(rows[req[c].job], req[c].opts))
    BY <2>1 DEF OutsideMove
  <2> QED
    BY <1>1, <2>2, StoreStep DEF Remember
<1>18. CASE \E j \in Jobs : DeleteJob(j)
  <2> PICK j \in Jobs : DeleteJob(j)
    BY <1>18
  <2>1. OutsideMove(j, Deleted(rows[j]))
    BY DEF OutsideMove
  <2> QED
    BY <1>1, <2>1, StoreStep DEF DeleteJob
<1> DEFINE Writes ==
       \/ Boot \/ Claim \/ ReadVideo \/ SaveTranscript \/ StartTranslating
       \/ SaveTranslation \/ WriteProgress \/ Complete \/ SetOutput \/ Fail
       \/ \E j \in Jobs, p \in Opening..Done : FlushProgress(j, p)
       \/ \E c \in Clients, j \in Jobs : CreateJob(c, j)
       \/ \E c \in Clients : Requeue(c)
       \/ \E c \in Clients : Cancel(c)
       \/ \E c \in Clients : Remember(c)
       \/ \E j \in Jobs : DeleteJob(j)
<1>19. Writes \/ UNCHANGED rows
  <2>1. CASE WorkerStep
    BY <2>1 DEF WorkerStep, PickUp, NothingQueued, WaitForWork, Woken, OpenSource,
         NextWindow, DecodeError, EndOfWindows, WindowCheck, Transcribe, EndCheck,
         BatchCheck, Ask, ApplyCheck, TranslatedCheck, WriteCheck, Publish, Announce,
         AnnounceFailure
  <2>2. CASE PollAgain \/ StoreError \/ Restart
    BY <2>2 DEF PollAgain, StoreError, Restart
  <2>3. CASE ApiNext
    BY <2>3 DEF ApiNext, RetryJob, NotifyOne, CancelJob, Download, ReadCues, storeVars
  <2>4. CASE UNCHANGED vars
    BY <2>4 DEF vars, storeVars
  <2> QED
    BY <2>1, <2>2, <2>3, <2>4 DEF Next, EngineNext
<1> QED
  BY <1>2, <1>3, <1>4, <1>5, <1>6, <1>7, <1>8, <1>9, <1>10, <1>11, <1>12, <1>13, <1>14,
     <1>15, <1>16, <1>17, <1>18, <1>19

LEMMA RowsStep ==
  ASSUME TypeInv, [Next]_vars
  PROVE  /\ rows' = [j \in Jobs |-> rows'[j]]
         /\ \A j \in Jobs : RowMove(j)
<1>1. ASSUME NEW j \in Jobs, OutsideMove(j, rows'[j])
      PROVE  OutsideStep(rows[j], rows'[j])
  BY <1>1 DEF OutsideMove, OutsideStep
<1> QED
  BY <1>1, RowsAuthored DEF AuthoredMove, RowMove

\* Every move is a statement of the store.
LEMMA RowMoveStep ==
  ASSUME TypeInv, NEW j \in Jobs, RowMove(j)
  PROVE  RowStep(rows[j], rows'[j])
<1>1. run.attempt \in 0..MaxAttempts
  BY DEF TypeInv, TypeOK, Run
<1> QED
  BY <1>1 DEF RowMove, WorkerMove, RowStep

\* A step leaves rows that exist in good order.
LEMMA RowsStepType ==
  ASSUME TypeInv, [Next]_vars
  PROVE  /\ rows' \in [Jobs -> Row]
         /\ \A j \in Jobs : HasAttempt(rows'[j])
<1>1. ASSUME NEW j \in Jobs
      PROVE  rows'[j] \in Row /\ HasAttempt(rows'[j])
  <2>1. rows[j] \in Row /\ HasAttempt(rows[j]) /\ RowStep(rows[j], rows'[j])
    BY RowsStep, RowMoveStep DEF TypeInv, TypeOK
  <2> QED
    BY <2>1, RowStepType
<1>2. rows' = [j \in Jobs |-> rows'[j]]
  BY RowsStep
<1> QED
  BY <1>1, <1>2

-----------------------------------------------------------------------------
\* Types.

\* What TypeInv says of the worker.
WorkerInv ==
  /\ pc \in Points
  /\ run \in Run
  /\ (run.job = NoJob) <=> (pc \in Unowned)
  /\ writes \subseteq Jobs \X (Opening..Done)
  /\ wake \in BOOLEAN
  /\ files \subseteq Jobs \X (1..MaxAttempts)
  /\ events \subseteq Jobs \X (1..MaxAttempts) \X {"completed", "failed"}
  /\ errs \in 0..MaxStoreErrors
  /\ RunInv

\* What TypeInv says of the requests.
RequestInv ==
  /\ req \in [Clients -> Request]
  /\ \A c \in Clients : (req[c].job = NoJob) <=> (req[c].todo = "none")
  /\ canceled \subseteq Jobs \X (1..MaxAttempts)

LEMMA NoRunType == NoRun \in Run /\ NoRun.job = NoJob
BY BoundsAreNumbers DEF NoRun, Run

LEMMA NoRequestType ==
  NoRequest \in Request /\ NoRequest.job = NoJob /\ NoRequest.todo = "none"
<1>1. (CHOOSE o \in Options : TRUE) \in Options
  BY StoreAssumption
<1> QED
  BY <1>1 DEF NoRequest, Request, Pending

LEMMA WorkerStepType ==
  ASSUME TypeInv, WorkerStep
  PROVE  WorkerInv'
<1> USE BoundsAreNumbers, NoRunType, StoreAssumption
    DEF WorkerInv, RunInv, Points, Unowned, Checks, Propagated, BeforeTranslation,
        Goto, Leave
<1>0. WorkerInv /\ rows \in [Jobs -> Row] /\ \A j \in Jobs : HasAttempt(rows[j])
  BY DEF TypeInv, TypeOK
<1>1. CASE Boot
  BY <1>0, <1>1 DEF Boot
<1>2. CASE \E j \in Jobs : PickUp(j)
  <2> PICK j \in Jobs : PickUp(j)
    BY <1>2
  <2>1. rows[j] \in Row /\ rows[j].attempt >= 1 /\ rows[j].attempt \in 0..MaxAttempts
    BY <1>0 DEF PickUp, NextQueued, HasAttempt, Present, Row
  <2>2. run' \in Run /\ run'.job = j /\ run'.attempt >= 1 /\ run'.batches = 0 /\ run'.calls = 0
    BY <2>1 DEF PickUp, Run, Row, NoRun
  <2> QED
    BY <1>0, <2>2 DEF PickUp
<1>3. CASE NothingQueued
  BY <1>0, <1>3 DEF NothingQueued
<1>4. CASE WaitForWork
  BY <1>0, <1>4 DEF WaitForWork
<1>5. CASE Woken
  BY <1>0, <1>5 DEF Woken
<1>6. CASE Claim
  BY <1>0, <1>6 DEF Claim
<1>7. CASE ReadVideo
  BY <1>0, <1>7 DEF ReadVideo
<1>8. CASE OpenSource
  BY <1>0, <1>8 DEF OpenSource
<1>9. CASE SaveTranscript
  BY <1>0, <1>9 DEF SaveTranscript
<1>10. CASE StartTranslating
  BY <1>0, <1>10 DEF StartTranslating
<1>11. CASE BatchCheck
  BY <1>0, <1>11 DEF BatchCheck
<1>12. CASE TranslatedCheck
  BY <1>0, <1>12 DEF TranslatedCheck
<1>13. CASE SaveTranslation
  BY <1>0, <1>13 DEF SaveTranslation
<1>14. CASE WriteProgress
  BY <1>0, <1>14 DEF WriteProgress
<1>15. CASE WriteCheck
  BY <1>0, <1>15 DEF WriteCheck
<1>16. CASE Complete
  BY <1>0, <1>16 DEF Complete
<1>17. CASE SetOutput
  BY <1>0, <1>17 DEF SetOutput
<1>18. CASE Fail
  BY <1>0, <1>18 DEF Fail
<1>19. CASE EndCheck
  BY <1>0, <1>19 DEF EndCheck
<1>20. CASE NextWindow
  <2>1. run' \in Run /\ run'.job = run.job /\ run'.attempt = run.attempt
        /\ run'.batches = run.batches /\ run'.calls = run.calls
    BY <1>0, <1>20 DEF NextWindow, Run
  <2>2. writes' \subseteq Jobs \X (Opening..Done)
    BY <1>0, <1>20 DEF NextWindow, MayReport, Transcribed, Opening, Done, Run
  <2> QED
    BY <1>0, <1>20, <2>1, <2>2 DEF NextWindow
<1>21. CASE DecodeError
  <2>1. writes' \subseteq Jobs \X (Opening..Done)
    BY <1>0, <1>21 DEF DecodeError, MayReport, Transcribed, Opening, Done, Run
  <2> QED
    BY <1>0, <1>21, <2>1 DEF DecodeError
<1>22. CASE EndOfWindows
  BY <1>0, <1>22 DEF EndOfWindows, AbortProgress
<1>23. CASE WindowCheck
  BY <1>0, <1>23 DEF WindowCheck, AbortProgress
<1>24. CASE Transcribe
  <2>1. LateNow \in 0..2
    BY <1>0 DEF LateNow, Run
  <2>2. run' \in Run /\ run'.job = run.job /\ run'.attempt = run.attempt
        /\ run'.batches = run.batches /\ run'.calls = run.calls
    BY <1>0, <1>24, <2>1 DEF Transcribe, Run
  <2>3. writes' \subseteq Jobs \X (Opening..Done)
    BY <1>0, <1>24 DEF Transcribe, MayReport, Transcribed, Opening, Done, Run
  <2> QED
    BY <1>0, <1>24, <2>2, <2>3 DEF Transcribe
<1>25. CASE Ask
  <2>0. run \in Run
    BY <1>0
  <2>1. LateNow \in 0..2
    BY <2>0 DEF LateNow, Run
  <2>2. run.calls \in Nat /\ run.calls < MaxCalls
    BY <1>0, <1>25 DEF Ask, Run
  <2>3. run.calls + 1 \in 0..MaxCalls
    BY <2>2
  <2>4. run' = [run EXCEPT !.calls = run.calls + 1, !.late = LateNow]
    BY <1>25 DEF Ask
  <2>5. run' \in Run /\ run'.job = run.job /\ run'.attempt = run.attempt
        /\ run'.batches = run.batches /\ run'.calls = run.calls + 1
    BY ONLY <2>0, <2>1, <2>3, <2>4 DEF Run
  <2> QED
    BY <1>0, <1>25, <2>2, <2>5 DEF Ask
<1>26. CASE ApplyCheck
  <2>1. CASE IsCanceled(run.job)
    BY <1>0, <1>26, <2>1 DEF ApplyCheck
  <2>2. CASE ~IsCanceled(run.job)
    <3>0. run \in Run
      BY <1>0
    <3>1. run.batches \in Nat /\ run.batches < MaxBatches
      <4>1. pc = "applyCheck"
        BY <1>26 DEF ApplyCheck
      <4>2. run.batches < MaxBatches
        BY ONLY <1>0, <4>1 DEF WorkerInv, RunInv
      <4> QED
        BY <3>0, <4>2 DEF Run
    <3>2. run.batches + 1 \in 0..MaxBatches /\ 0 \in 0..MaxCalls
      BY <3>1
    <3>3. PICK t \in BOOLEAN :
            run' = [run EXCEPT !.batches = run.batches + 1, !.calls = 0,
                               !.some = run.some \/ t]
      BY <1>26, <2>2 DEF ApplyCheck
    <3>4. (run.some \/ t) \in BOOLEAN
      OBVIOUS
    <3>5. run' \in Run /\ run'.job = run.job /\ run'.attempt = run.attempt
          /\ run'.batches = run.batches + 1 /\ run'.calls = 0
      BY ONLY <3>0, <3>2, <3>3, <3>4 DEF Run
    <3>6. run.job \in Jobs /\ Batch(run'.batches) \in Opening..Done
      <4>1. run.job \in Jobs
        BY <1>0, <1>26, <3>0 DEF ApplyCheck, Run
      <4> QED
        BY <3>1, <3>5, <4>1 DEF Batch, Opening, Done
    <3>7. writes' = writes \cup {<<run.job, Batch(run'.batches)>>}
      BY <1>26, <2>2 DEF ApplyCheck
    <3>8. writes' \subseteq Jobs \X (Opening..Done)
      BY <1>0, <3>6, <3>7
    <3>9. /\ pc' \in {"batchCheck", "translatedCheck"}
          /\ pc' = "batchCheck" => run'.batches < MaxBatches
          /\ pc = "applyCheck"
          /\ UNCHANGED <<wake, files, events, errs>>
      BY <1>26, <2>2 DEF ApplyCheck
    <3> QED
      BY <1>0, <3>5, <3>8, <3>9
  <2> QED
    BY <2>1, <2>2
<1>27. CASE Publish
  <2>1. run' \in Run /\ run'.job = run.job /\ run'.attempt = run.attempt
        /\ run'.batches = run.batches /\ run'.calls = run.calls
    BY ZenonT(60), <1>0, <1>27 DEF Publish, Run
  <2>2. run.job \in Jobs /\ run.attempt \in 1..MaxAttempts
    BY <1>0, <1>27 DEF Publish, Run
  <2>3. files' \subseteq Jobs \X (1..MaxAttempts)
    BY <1>0, <1>27, <2>2 DEF Publish
  <2> QED
    BY <1>0, <1>27, <2>1, <2>3 DEF Publish
<1>28. CASE Announce
  <2>1. run.job \in Jobs /\ run.attempt \in 1..MaxAttempts
    BY <1>0, <1>28 DEF Announce, Run
  <2>2. events' \subseteq Jobs \X (1..MaxAttempts) \X {"completed", "failed"}
    BY <1>0, <1>28, <2>1 DEF Announce
  <2> QED
    BY <1>0, <1>28, <2>2 DEF Announce
<1>29. CASE AnnounceFailure
  <2>1. run.job \in Jobs /\ run.attempt \in 1..MaxAttempts
    BY <1>0, <1>29 DEF AnnounceFailure, Run
  <2>2. events' \subseteq Jobs \X (1..MaxAttempts) \X {"completed", "failed"}
    BY <1>0, <1>29, <2>1 DEF AnnounceFailure
  <2> QED
    BY <1>0, <1>29, <2>2 DEF AnnounceFailure
<1> QED
  BY <1>1, <1>2, <1>3, <1>4, <1>5, <1>6, <1>7, <1>8, <1>9, <1>10, <1>11, <1>12, <1>13, <1>14, <1>15, <1>16, <1>17, <1>18, <1>19, <1>20, <1>21, <1>22, <1>23, <1>24, <1>25, <1>26, <1>27, <1>28, <1>29
     DEF WorkerStep

\* The other steps: detached writes, failing store calls, the re-poll, restarts and
\* the handlers.
LEMMA OtherStepType ==
  ASSUME TypeInv, [Next]_vars, ~WorkerStep
  PROVE  WorkerInv'
<1> USE BoundsAreNumbers, NoRunType
<1>0. WorkerInv
  BY DEF TypeInv, TypeOK, WorkerInv
<1>1. CASE PollAgain
  BY <1>0, <1>1 DEF PollAgain, Goto, WorkerInv, RunInv, Points, Unowned, BeforeTranslation
<1>2. CASE \E j \in Jobs, p \in Opening..Done : FlushProgress(j, p)
  BY <1>0, <1>2 DEF FlushProgress, WorkerInv, RunInv
<1>3. CASE StoreError
  BY <1>0, <1>3 DEF StoreError, Goto, Leave, AbortProgress, WorkerInv, RunInv, Points,
       Unowned, Checks, Propagated, BeforeTranslation
<1>4. CASE Restart
  BY <1>0, <1>4 DEF Restart, WorkerInv, RunInv, Points, Unowned, BeforeTranslation
<1>5. CASE ApiNext
  <2>1. UNCHANGED <<pc, run, writes, files, events, errs>> /\ (wake' = wake \/ wake' = TRUE)
    BY <1>5 DEF ApiNext, CreateJob, RetryJob, CancelJob, Download, Requeue, NotifyOne,
         Cancel, ReadCues, Remember, DeleteJob, engineVars
  <2> QED
    BY <1>0, <2>1 DEF WorkerInv, RunInv
<1>6. CASE UNCHANGED vars
  BY <1>0, <1>6 DEF vars, engineVars, WorkerInv, RunInv
<1> QED
  BY <1>1, <1>2, <1>3, <1>4, <1>5, <1>6 DEF Next, EngineNext

LEMMA RequestStepType ==
  ASSUME TypeInv, [Next]_vars
  PROVE  RequestInv'
<1>0. RequestInv /\ rows \in [Jobs -> Row] /\ \A j \in Jobs : HasAttempt(rows[j])
  BY DEF TypeInv, TypeOK, RequestInv
<1>1. NoJob \notin Jobs
  BY StoreAssumption
<1>2. ASSUME NEW c \in Clients, NEW t \in Pending \ {"none"}, NEW j \in Jobs,
             NEW o \in Options, Accept(c, t, j, o), UNCHANGED canceled
      PROVE  RequestInv'
  BY <1>0, <1>1, <1>2 DEF Accept, RequestInv, Request
<1>3. ASSUME NEW c \in Clients, Reply(c), UNCHANGED canceled
      PROVE  RequestInv'
  BY <1>0, <1>3, NoRequestType DEF Reply, RequestInv
<1>4. ASSUME NEW c \in Clients, NEW t \in Pending \ {"none"}, Then(c, t),
             req[c].todo # "none", UNCHANGED canceled
      PROVE  RequestInv'
  BY <1>0, <1>4 DEF Then, RequestInv, Request
<1>5. NoRequest.opts \in Options
  BY NoRequestType DEF Request
<1>6. CASE \E c \in Clients, j \in Jobs :
             CreateJob(c, j) \/ RetryJob(c, j) \/ CancelJob(c, j) \/ Download(c, j)
  BY <1>2, <1>5, <1>6 DEF CreateJob, RetryJob, CancelJob, Download, Pending
<1>7. CASE \E c \in Clients : Requeue(c) \/ NotifyOne(c) \/ ReadCues(c) \/ Remember(c)
  BY <1>3, <1>4, <1>7 DEF Requeue, NotifyOne, ReadCues, Remember, Pending
<1>8. CASE \E c \in Clients : Cancel(c)
  <2> PICK c \in Clients : Cancel(c)
    BY <1>8
  <2> DEFINE j == req[c].job
  <2>1. j \in Jobs
    BY <1>0 DEF Cancel, RequestInv, Request
  <2>2. Active(rows[j]) => rows[j].attempt \in 1..MaxAttempts
    BY <1>0, <2>1, BoundsAreNumbers DEF Active, HasAttempt, Present, Row, Running
  <2>3. canceled' \subseteq Jobs \X (1..MaxAttempts)
    BY <1>0, <2>1, <2>2 DEF Cancel, RequestInv
  <2>4. req' = [req EXCEPT ![c] = NoRequest]
    BY DEF Cancel, Reply
  <2> QED
    BY <1>0, <2>3, <2>4, NoRequestType DEF RequestInv
<1>9. CASE Restart
  BY <1>0, <1>9, NoRequestType DEF Restart, RequestInv
<1>10. CASE EngineNext /\ UNCHANGED <<apiVars, crashes>>
  BY <1>0, <1>10 DEF apiVars, RequestInv
<1>11. CASE (\E j \in Jobs : DeleteJob(j)) \/ UNCHANGED vars
  BY <1>0, <1>11 DEF DeleteJob, vars, apiVars, RequestInv
<1> QED
  BY <1>6, <1>7, <1>8, <1>9, <1>10, <1>11 DEF Next, ApiNext

LEMMA TypeStep == TypeInv /\ [Next]_vars => TypeInv'
<1> SUFFICES ASSUME TypeInv, [Next]_vars PROVE TypeInv'
  OBVIOUS
<1>1. rows' \in [Jobs -> Row] /\ \A j \in Jobs : HasAttempt(rows'[j])
  BY RowsStepType
<1>2. WorkerInv'
  BY WorkerStepType, OtherStepType
<1>3. RequestInv'
  BY RequestStepType
<1>4. writable' \in BOOLEAN /\ crashes' \in 0..MaxCrashes
  <2>1. writable \in BOOLEAN /\ crashes \in 0..MaxCrashes
    BY DEF TypeInv, TypeOK
  <2>2. CASE Restart
    BY <2>1, <2>2, SidecarAssumption DEF Restart
  <2>3. CASE EngineNext /\ UNCHANGED <<apiVars, crashes>>
    <3>1. UNCHANGED writable
      BY <2>3 DEF EngineNext, WorkerStep, Boot, PickUp, NothingQueued, WaitForWork, Woken,
           PollAgain, Claim, ReadVideo, OpenSource, NextWindow, DecodeError, EndOfWindows,
           WindowCheck, Transcribe, EndCheck, SaveTranscript, StartTranslating, BatchCheck,
           Ask, ApplyCheck, TranslatedCheck, SaveTranslation, WriteProgress, WriteCheck,
           Complete, Publish, SetOutput, Announce, Fail, AnnounceFailure, FlushProgress,
           StoreError
    <3> QED
      BY <2>1, <2>3, <3>1
  <2>4. CASE ApiNext /\ UNCHANGED crashes
    BY <2>1, <2>4 DEF ApiNext, CreateJob, RetryJob, CancelJob, Download, Requeue,
         NotifyOne, Cancel, ReadCues, Remember, DeleteJob, storeVars
  <2>5. CASE UNCHANGED vars
    BY <2>1, <2>5 DEF vars, storeVars
  <2> QED
    BY <2>2, <2>3, <2>4, <2>5 DEF Next
<1> QED
  BY <1>1, <1>2, <1>3, <1>4 DEF TypeInv, TypeOK, WorkerInv, RequestInv

LEMMA TypeInit == Init => TypeInv
<1> SUFFICES ASSUME Init PROVE TypeInv
  OBVIOUS
<1>1. rows \in [Jobs -> Row] /\ \A j \in Jobs : HasAttempt(rows[j])
  BY NoRowType DEF Init, StoreInit, HasAttempt, Present, NoRow
<1>2. WorkerInv
  <2>1. /\ pc = "boot" /\ run = NoRun /\ writes = {} /\ wake = FALSE /\ files = {}
        /\ events = {} /\ errs = 0
    BY DEF Init, EngineInit
  <2>2. RunInv
    BY <2>1, NoRunType DEF RunInv, BeforeTranslation
  <2>3. pc \in Points /\ pc \in Unowned /\ run \in Run /\ run.job = NoJob
    BY <2>1, NoRunType DEF Points, Unowned
  <2>4. wake \in BOOLEAN
    BY <2>1
  <2>5. /\ writes \subseteq Jobs \X (Opening..Done)
        /\ files \subseteq Jobs \X (1..MaxAttempts)
        /\ events \subseteq Jobs \X (1..MaxAttempts) \X {"completed", "failed"}
    BY <2>1
  <2>6. errs \in 0..MaxStoreErrors
    BY <2>1, BoundsAreNumbers
  <2> QED
    BY <2>2, <2>3, <2>4, <2>5, <2>6 DEF WorkerInv
<1>3. RequestInv
  BY NoRequestType DEF Init, ApiInit, RequestInv
<1>4. writable \in BOOLEAN /\ crashes \in 0..MaxCrashes
  BY BoundsAreNumbers DEF Init, StoreInit
<1> QED
  BY <1>1, <1>2, <1>3, <1>4 DEF TypeInv, TypeOK, WorkerInv, RequestInv

\* Every variable keeps its type: statuses, progress, attempts and the counters of a
\* run stay in the ranges of store.rs and engine.rs.
THEOREM TypeCorrect == Spec => []TypeOK
<1>1. Init => TypeInv
  BY TypeInit
<1>2. TypeInv /\ [Next]_vars => TypeInv'
  BY TypeStep
<1>3. TypeInv => TypeOK
  BY DEF TypeInv
<1> QED
  BY <1>1, <1>2, <1>3, PTL DEF Spec

\* The type invariant and what strengthens it hold in every reachable state.
LEMMA TypeInvariant == Spec => []TypeInv
  BY TypeInit, TypeStep, PTL DEF Spec

-----------------------------------------------------------------------------
\* The stamp and the frozen rows: what one statement does to one row.

RowStamp(r) ==
  /\ r.stamped => r.status \in Terminal
  /\ r.status \in {"completed", "failed"} => r.stamped

LEMMA RowStepStamp ==
  ASSUME NEW r \in Row, NEW s, RowStamp(r), HasAttempt(r), RowStep(r, s)
  PROVE  RowStamp(s)
<1> USE DEF RowStamp, Terminal, Running, Row
<1>1. ASSUME NEW t \in Statuses, NEW e, Active(r), s = Moved(r, t, e)
      PROVE  RowStamp(s)
  BY <1>1 DEF Moved, Active
<1>2. CASE s = r \/ s = Interrupted(r)
  BY <1>2 DEF Interrupted
<1>3. CASE \/ s = SetStatusIfActive(r, "transcribing", "none")
           \/ s = SetStatusIfActive(r, "translating", "none")
           \/ s = SetStatusIfActive(r, "failed", "failure")
           \/ s = CancelIfActive(r)
  BY <1>1, <1>3 DEF SetStatusIfActive, CancelIfActive, Statuses
<1>4. CASE s = CompleteIfActive(r)
  BY <1>4 DEF CompleteIfActive, Moved, Active
<1>5. CASE \E p \in Opening..Done : s = SetProgress(r, p)
  BY <1>5 DEF SetProgress
<1>6. CASE \E c \in {"transcript", "translated"}, a \in 0..MaxAttempts : s = SetCues(r, c, a)
  BY <1>6 DEF SetCues
<1>7. CASE \E b \in BOOLEAN : s = SetOutputPath(r, b)
  BY <1>7 DEF SetOutputPath
<1>8. CASE \E o \in Options : s = SetRenderOptions(r, o)
  BY <1>8 DEF SetRenderOptions
<1>9. CASE s = Requeued(r)
  BY <1>9 DEF Requeued
<1>10. CASE s = Deleted(r)
  BY <1>10 DEF Deleted, NoRow
<1>11. CASE r.attempt = 0 /\ \E o \in Options, t \in Times : s = Created(r, o, t)
  <2>1. ~r.stamped
    BY <1>11 DEF HasAttempt, Present
  <2> QED
    BY <1>11, <2>1 DEF Created
<1> QED
  BY <1>2, <1>3, <1>4, <1>5, <1>6, <1>7, <1>8, <1>9, <1>10, <1>11
     DEF RowStep, OutsideStep

\* A terminal row is left alone but for its output path and rendering options, or
\* becomes queued or absent.
LEMMA RowStepFrozen ==
  ASSUME NEW r \in Row, NEW s, HasAttempt(r), r.status \in Terminal, RowStep(r, s)
  PROVE  \/ s.status \in {"queued", "absent"}
         \/ s = [r EXCEPT !.output = s.output, !.opts = s.opts]
<1>1. ~Active(r) /\ Present(r) /\ r.attempt # 0 /\ r.status \notin Running
  BY DEF Active, Present, HasAttempt, Terminal, Running, Row
<1>2. CASE s = r
  BY <1>2 DEF Row
<1>3. CASE \E b \in BOOLEAN : s = SetOutputPath(r, b)
  BY <1>3 DEF SetOutputPath, Row
<1>4. CASE \E o \in Options : s = SetRenderOptions(r, o)
  BY <1>4 DEF SetRenderOptions, Row
<1>5. CASE s = Requeued(r)
  BY <1>1, <1>5 DEF Requeued, Row
<1>6. CASE s = Deleted(r)
  BY <1>6 DEF Deleted, NoRow
<1> QED
  BY <1>1, <1>2, <1>3, <1>4, <1>5, <1>6
     DEF RowStep, OutsideStep, Interrupted, SetStatusIfActive, CancelIfActive, CompleteIfActive,
         SetProgress, SetCues

\* completed_at is set exactly on what has finished, whatever races with the run.
THEOREM StampCorrect == Spec => []StampMeansFinished
<1> DEFINE Inv == \A j \in Jobs : RowStamp(rows[j])
<1>1. Init => Inv
  <2>1. NoRow.status = "absent" /\ NoRow.stamped = FALSE
    BY DEF NoRow
  <2>2. RowStamp(NoRow)
    BY <2>1 DEF RowStamp, Terminal
  <2> QED
    BY <2>2 DEF Init, StoreInit
<1>2. TypeInv /\ Inv /\ [Next]_vars => Inv'
  <2> SUFFICES ASSUME TypeInv, Inv, [Next]_vars, NEW j \in Jobs
               PROVE  RowStamp(rows'[j])
    OBVIOUS
  <2>1. rows[j] \in Row /\ RowStamp(rows[j]) /\ HasAttempt(rows[j]) /\ RowStep(rows[j], rows'[j])
    BY RowsStep, RowMoveStep DEF TypeInv, TypeOK
  <2> QED
    BY <2>1, RowStepStamp
<1>3. Inv => StampMeansFinished
  BY DEF StampMeansFinished, RowStamp
<1> QED
  BY <1>1, <1>2, <1>3, TypeInvariant, PTL DEF Spec

\* No late result, error or progress write ever touches a terminal row.
THEOREM FrozenCorrect == Spec => TerminalIsFrozen
<1> DEFINE A == \A j \in Jobs :
                  LET r == rows[j] s == rows'[j] IN
                  r.status \in Terminal =>
                    \/ s.status \in {"queued", "absent"}
                    \/ s = [r EXCEPT !.output = s.output, !.opts = s.opts]
<1>1. TypeInv /\ [Next]_vars => [A]_rows
  <2> SUFFICES ASSUME TypeInv, [Next]_vars, NEW j \in Jobs, rows[j].status \in Terminal
               PROVE  \/ rows'[j].status \in {"queued", "absent"}
                      \/ rows'[j] = [rows[j] EXCEPT !.output = rows'[j].output,
                                                    !.opts = rows'[j].opts]
    OBVIOUS
  <2>1. rows[j] \in Row /\ HasAttempt(rows[j]) /\ RowStep(rows[j], rows'[j])
    BY RowsStep, RowMoveStep DEF TypeInv, TypeOK
  <2> QED
    BY <2>1, RowStepFrozen
<1> QED
  BY <1>1, TypeInvariant, PTL DEF Spec, TerminalIsFrozen

-----------------------------------------------------------------------------
\* What the statements of other tasks cannot do to a row: start it, finish it, or
\* take back an attempt.

LEMMA OutsideStepStatus ==
  ASSUME NEW r \in Row, NEW s, HasAttempt(r), OutsideStep(r, s)
  PROVE  /\ s.status \in {r.status, "queued", "canceled", "absent"}
         /\ s.status = "queued" => r.status = "queued" \/ s.attempt > r.attempt
         /\ s.status = "canceled" => r.status = "canceled" \/ Active(r)
         /\ s.attempt >= r.attempt
<1> USE DEF Active, Running, Row
<1>1. CASE s = r
  BY <1>1
<1>2. CASE s = Interrupted(r)
  BY <1>2 DEF Interrupted
<1>3. CASE s = CancelIfActive(r)
  <2>1. Moved(r, "canceled", "cancelled").status = "canceled"
        /\ Moved(r, "canceled", "cancelled").attempt = r.attempt
    BY DEF Moved
  <2> QED
    BY <1>3, <2>1 DEF CancelIfActive
<1>4. CASE \E p \in Opening..Done : s = SetProgress(r, p)
  BY <1>4 DEF SetProgress
<1>5. CASE \E b \in BOOLEAN : s = SetOutputPath(r, b)
  BY <1>5 DEF SetOutputPath
<1>6. CASE \E o \in Options : s = SetRenderOptions(r, o)
  BY <1>6 DEF SetRenderOptions
<1>7. CASE s = Requeued(r)
  BY <1>7 DEF Requeued, Present
<1>8. CASE s = Deleted(r)
  <2>1. NoRow.status = "absent" /\ NoRow \in Row
    BY NoRowType DEF NoRow
  <2>2. s.status = "absent" /\ s.attempt = r.attempt
    BY <1>8, <2>1 DEF Deleted
  <2> QED
    BY <2>2
<1>9. CASE r.attempt = 0 /\ \E o \in Options, t \in Times : s = Created(r, o, t)
  BY <1>9 DEF Created
<1> QED
  BY <1>1, <1>2, <1>3, <1>4, <1>5, <1>6, <1>7, <1>8, <1>9 DEF OutsideStep

\* An attempt has one outcome: once attempt a of job j is settled as k, the row says
\* k until the job is deleted or enters the queue again.
Settled(table, j, a, k) ==
  /\ a <= table[j].attempt
  /\ table[j].attempt = a => table[j].status \in {k, "absent"}

LEMMA SettledStep ==
  ASSUME TypeInv, [Next]_vars, NEW j \in Jobs, NEW a \in 1..MaxAttempts,
         NEW k \in Terminal, Settled(rows, j, a, k)
  PROVE  Settled(rows', j, a, k)
<1> DEFINE r == rows[j]
           s == rows'[j]
<1>1. r \in Row /\ HasAttempt(r) /\ s \in Row /\ RowMove(j)
  BY RowsStep, RowsStepType DEF TypeInv, TypeOK
<1>2. CASE OutsideStep(r, s)
  <2>1. /\ s.status \in {r.status, "queued", "canceled", "absent"}
        /\ s.status = "queued" => r.status = "queued" \/ s.attempt > r.attempt
        /\ s.status = "canceled" => r.status = "canceled" \/ Active(r)
        /\ s.attempt >= r.attempt
    BY <1>1, <1>2, OutsideStepStatus
  <2>2. r.attempt \in Nat /\ s.attempt \in Nat
    BY <1>1 DEF Row
  <2> QED
    BY <2>1, <2>2 DEF Settled, Active, Running, Terminal
<1>3. CASE ~OutsideStep(r, s)
  <2>1. CASE ~Active(r)
    <3>1. s = r
      BY <1>1, <1>3, <2>1 DEF RowMove, WorkerMove, SetStatusIfActive, CompleteIfActive,
              SetCues
    <3> QED
      BY <3>1 DEF Settled
  <2>2. CASE Active(r)
    <3>1. s.attempt = r.attempt
      BY <1>1, <1>3, <2>2
         DEF RowMove, WorkerMove, SetStatusIfActive, CompleteIfActive, SetCues,
           Moved, Row
    <3>2. r.attempt # a
      BY <2>2 DEF Settled, Active, Running, Terminal
    <3> QED
      BY <3>1, <3>2 DEF Settled
  <2> QED
    BY <2>1, <2>2
<1> QED
  BY <1>2, <1>3

\* The steps between the commit and the event.
Ending == {"publish", "setOutput", "announce", "announceFailure"}

Closing ==
  Complete \/ Publish \/ SetOutput \/ Announce \/ Fail \/ AnnounceFailure

\* The other steps publish nothing, and keep the run or drop it.
LEMMA PlainStep ==
  ASSUME TypeInv, [Next]_vars, ~Closing
  PROVE  /\ UNCHANGED <<events, files>>
         /\ \/ run'.job = run.job /\ run'.attempt = run.attempt
            \/ run' = NoRun
            \/ \E j \in Jobs : PickUp(j)
         /\ pc' \in Ending => pc' = pc /\ run' = run
<1> USE DEF Ending, Goto, Leave
<1>0. run \in Run
  BY DEF TypeInv, TypeOK
<1>1. CASE \E j \in Jobs : PickUp(j)
  BY <1>1 DEF PickUp
<1>2. CASE Boot \/ NothingQueued \/ WaitForWork \/ Woken \/ PollAgain \/ Claim \/ ReadVideo
             \/ OpenSource \/ DecodeError \/ EndOfWindows \/ WindowCheck \/ EndCheck
             \/ SaveTranscript
  BY <1>2 DEF Boot, NothingQueued, WaitForWork, Woken, PollAgain, Claim, ReadVideo,
       OpenSource, DecodeError, EndOfWindows, WindowCheck, EndCheck, SaveTranscript
<1>3. CASE StartTranslating \/ BatchCheck \/ TranslatedCheck \/ SaveTranslation
             \/ WriteProgress \/ WriteCheck
  BY <1>3 DEF StartTranslating, BatchCheck, TranslatedCheck, SaveTranslation,
       WriteProgress, WriteCheck
<1>4. CASE NextWindow
  BY <1>0, <1>4 DEF NextWindow, Run
<1>5. CASE Transcribe
  BY <1>0, <1>5 DEF Transcribe, Run
<1>6. CASE Ask
  BY <1>0, <1>6 DEF Ask, Run
<1>7. CASE ApplyCheck
  <2>1. CASE IsCanceled(run.job)
    BY <1>7, <2>1 DEF ApplyCheck
  <2>2. CASE ~IsCanceled(run.job)
    <3> PICK t \in BOOLEAN :
          run' = [run EXCEPT !.batches = run.batches + 1, !.calls = 0,
                             !.some = run.some \/ t]
      BY <1>7, <2>2 DEF ApplyCheck
    <3>1. run'.job = run.job /\ run'.attempt = run.attempt
      BY <1>0 DEF Run
    <3> QED
      BY <1>7, <2>2, <3>1 DEF ApplyCheck
  <2> QED
    BY <2>1, <2>2
<1>8. CASE \E j \in Jobs, p \in Opening..Done : FlushProgress(j, p)
  BY <1>8 DEF FlushProgress
<1>9. CASE StoreError
  BY <1>9 DEF StoreError
<1>10. CASE Restart
  BY <1>10 DEF Restart
<1>11. CASE ApiNext
  BY <1>11 DEF ApiNext, CreateJob, RetryJob, CancelJob, Download, Requeue, NotifyOne,
       Cancel, ReadCues, Remember, DeleteJob, engineVars
<1>12. CASE UNCHANGED vars
  BY <1>12 DEF vars, engineVars
<1> QED
  BY <1>1, <1>2, <1>3, <1>4, <1>5, <1>6, <1>7, <1>8, <1>9, <1>10, <1>11, <1>12
     DEF Next, EngineNext, WorkerStep, Closing

-----------------------------------------------------------------------------
\* What was published agrees with the row.

PublishedInv ==
  /\ \A e \in events : Settled(rows, e[1], e[2], e[3])
  /\ \A f \in files : Settled(rows, f[1], f[2], "completed")
  /\ run.job # NoJob => run.attempt <= rows[run.job].attempt
  /\ pc \in {"publish", "setOutput", "announce"} =>
       Settled(rows, run.job, run.attempt, "completed")
  /\ pc = "announceFailure" => Settled(rows, run.job, run.attempt, "failed")

\* An attempt never goes back.
LEMMA AttemptStep ==
  ASSUME TypeInv, [Next]_vars, NEW j \in Jobs
  PROVE  rows'[j].attempt >= rows[j].attempt
<1> DEFINE r == rows[j]
           s == rows'[j]
<1>1. r \in Row /\ HasAttempt(r) /\ RowMove(j)
  BY RowsStep DEF TypeInv, TypeOK
<1>2. CASE OutsideStep(r, s)
  BY <1>1, <1>2, OutsideStepStatus
<1>3. CASE ~OutsideStep(r, s)
  <2>1. s.attempt = r.attempt
    BY <1>1, <1>3 DEF RowMove, WorkerMove, SetStatusIfActive, CompleteIfActive, SetCues,
           Moved, Row
  <2> QED
    BY <1>1, <2>1 DEF Row
<1> QED
  BY <1>2, <1>3

LEMMA PublishedStep ==
  ASSUME TypeInv, PublishedInv, [Next]_vars
  PROVE  PublishedInv'
<1>1. /\ run \in Run /\ (run.job = NoJob <=> pc \in Unowned)
      /\ run.job # NoJob => run.job \in Jobs /\ run.attempt \in 1..MaxAttempts
      /\ rows \in [Jobs -> Row]
      /\ events \subseteq Jobs \X (1..MaxAttempts) \X {"completed", "failed"}
      /\ files \subseteq Jobs \X (1..MaxAttempts)
  BY DEF TypeInv, TypeOK, RunInv, Run
<1>2. \A e \in events : Settled(rows', e[1], e[2], e[3])
  BY <1>1, SettledStep DEF PublishedInv, Terminal
<1>3. \A f \in files : Settled(rows', f[1], f[2], "completed")
  BY <1>1, SettledStep DEF PublishedInv, Terminal
<1>4. run.job # NoJob => run.attempt <= rows'[run.job].attempt
  <2> SUFFICES ASSUME run.job # NoJob
               PROVE  run.attempt <= rows'[run.job].attempt
    OBVIOUS
  <2>1. run.job \in Jobs /\ run.attempt \in Nat /\ run.attempt <= rows[run.job].attempt
    BY <1>1 DEF PublishedInv
  <2>2. rows'[run.job].attempt >= rows[run.job].attempt
    BY <2>1, AttemptStep
  <2>3. rows[run.job].attempt \in Nat /\ rows'[run.job].attempt \in Nat
    BY <1>1, <2>1, RowsStepType DEF Row
  <2> QED
    BY <2>1, <2>2, <2>3
<1>5. pc \in {"publish", "setOutput", "announce"} =>
        Settled(rows', run.job, run.attempt, "completed")
  BY <1>1, SettledStep DEF PublishedInv, Terminal, Unowned
<1>6. pc = "announceFailure" => Settled(rows', run.job, run.attempt, "failed")
  BY <1>1, SettledStep DEF PublishedInv, Terminal, Unowned
<1>7. CASE Complete
  <2>0. /\ pc = "complete" /\ run.job \in Jobs /\ run.job # NoJob
        /\ UNCHANGED <<events, files>>
    BY <1>1, <1>7 DEF Complete, Unowned
  <2>1. CASE Active(rows[run.job])
    <3>1. rows'[run.job].status = "completed"
      BY <1>1, <1>7, <2>0, <2>1 DEF Complete, Store, CompleteIfActive, Moved, Row
    <3>2. pc' = "publish" /\ run' = run
      BY <1>7, <2>1 DEF Complete, Goto
    <3> QED
      BY <1>2, <1>3, <1>4, <2>0, <3>1, <3>2 DEF PublishedInv, Settled
  <2>2. CASE ~Active(rows[run.job])
    BY <1>2, <1>3, <1>7, <2>0, <2>2, NoRunType DEF Complete, Leave, PublishedInv
  <2> QED
    BY <2>1, <2>2
<1>8. CASE Fail
  <2>0. /\ pc = "fail" /\ run.job \in Jobs /\ run.job # NoJob
        /\ UNCHANGED <<events, files>>
    BY <1>1, <1>8 DEF Fail, Unowned
  <2>1. CASE Active(rows[run.job])
    <3>1. rows'[run.job].status = "failed"
      BY <1>1, <1>8, <2>0, <2>1 DEF Fail, Store, SetStatusIfActive, Moved, Row
    <3>2. pc' = "announceFailure" /\ run' = run
      BY <1>8, <2>1 DEF Fail, Goto
    <3> QED
      BY <1>2, <1>3, <1>4, <2>0, <3>1, <3>2 DEF PublishedInv, Settled
  <2>2. CASE ~Active(rows[run.job])
    BY <1>2, <1>3, <1>8, <2>0, <2>2, NoRunType DEF Fail, Leave, PublishedInv
  <2> QED
    BY <2>1, <2>2
<1>9. CASE Publish
  <2>1. /\ pc = "publish" /\ pc' = "setOutput"
        /\ run'.job = run.job /\ run'.attempt = run.attempt
        /\ files' \in {files, files \cup {<<run.job, run.attempt>>}}
        /\ UNCHANGED events
    BY <1>1, <1>9 DEF Publish, Run
  <2>2. \A f \in files' : Settled(rows', f[1], f[2], "completed")
    BY <1>3, <1>5, <2>1
  <2> QED
    BY <1>2, <1>4, <1>5, <2>1, <2>2 DEF PublishedInv
<1>10. CASE SetOutput
  BY <1>2, <1>3, <1>4, <1>5, <1>10 DEF SetOutput, Goto, PublishedInv
<1>11. CASE Announce
  <2>1. \A e \in events' : Settled(rows', e[1], e[2], e[3])
    BY <1>2, <1>5, <1>11 DEF Announce
  <2> QED
    BY <1>3, <1>11, <2>1, NoRunType DEF Announce, Leave, PublishedInv
<1>12. CASE AnnounceFailure
  <2>1. \A e \in events' : Settled(rows', e[1], e[2], e[3])
    BY <1>2, <1>6, <1>12 DEF AnnounceFailure
  <2> QED
    BY <1>3, <1>12, <2>1, NoRunType DEF AnnounceFailure, Leave, PublishedInv
<1>13. CASE \E j \in Jobs : PickUp(j)
  <2> PICK j \in Jobs : PickUp(j)
    BY <1>13
  <2>1. run'.job = j /\ run'.attempt = rows[j].attempt /\ rows[j].attempt \in Nat
    BY <1>1 DEF PickUp, NoRun, Row
  <2>2. pc' = "claim" /\ UNCHANGED <<rows, events, files>>
    BY DEF PickUp
  <2> QED
    BY <1>2, <1>3, <2>1, <2>2 DEF PublishedInv
<1>14. CASE ~Closing /\ ~\E j \in Jobs : PickUp(j)
  <2>1. /\ UNCHANGED <<events, files>>
        /\ (run'.job = run.job /\ run'.attempt = run.attempt) \/ run' = NoRun
        /\ pc' \in Ending => pc' = pc /\ run' = run
    BY <1>14, PlainStep
  <2> QED
    BY <1>2, <1>3, <1>4, <1>5, <1>6, <2>1, NoRunType DEF PublishedInv, Ending
<1> QED
  BY <1>7, <1>8, <1>9, <1>10, <1>11, <1>12, <1>13, <1>14 DEF Closing

\* What is published, about to be and picked up agrees with the rows in every
\* reachable state.
LEMMA PublishedInvariant == Spec => []PublishedInv
<1>1. Init => PublishedInv
  BY NoRunType DEF Init, EngineInit, PublishedInv
<1>2. TypeInv /\ PublishedInv /\ [Next]_vars => PublishedInv'
  BY PublishedStep
<1> QED
  BY <1>1, <1>2, TypeInvariant, PTL DEF Spec

\* No event and no file contradicts the outcome the row shows for its attempt.
THEOREM PublishedCorrect == Spec => []PublishedMatchesRow
<1>1. TypeInv /\ PublishedInv => PublishedMatchesRow
  BY DEF PublishedInv, PublishedMatchesRow, Settled, TypeInv, TypeOK
<1> QED
  BY <1>1, TypeInvariant, PublishedInvariant, PTL

-----------------------------------------------------------------------------
\* A running row is the one the worker holds.

OwnedInv ==
  /\ errs = 0 => RunningIsOwned
  /\ pc \in Ending => rows[run.job].status \notin Running

\* Only claiming a job and starting its translation make a row running.
LEMMA NotStarted ==
  ASSUME TypeInv, [Next]_vars, NEW j \in Jobs, rows'[j].status \in Running
  PROVE  \/ rows[j].status \in Running
         \/ j = run.job /\ pc \in {"claim", "startTranslating"} /\ Active(rows[j])
<1> DEFINE r == rows[j]
           s == rows'[j]
<1>1. r \in Row /\ HasAttempt(r) /\ RowMove(j)
  BY RowsStep DEF TypeInv, TypeOK
<1>2. CASE OutsideStep(r, s)
  <2>1. s.status \in {r.status, "queued", "canceled", "absent"}
    BY <1>1, <1>2, OutsideStepStatus
  <2> QED
    BY <2>1 DEF Running
<1>3. CASE ~OutsideStep(r, s)
  <2>1. CASE ~Active(r)
    BY <1>1, <1>3, <2>1 DEF RowMove, WorkerMove, SetStatusIfActive, CompleteIfActive,
              SetCues
  <2>2. CASE Active(r)
    BY <1>1, <1>3, <2>2
       DEF RowMove, WorkerMove, SetStatusIfActive, CompleteIfActive, SetCues, Moved,
           Row, Running
  <2> QED
    BY <2>1, <2>2
<1> QED
  BY <1>2, <1>3

\* A run that is left, without a failing store call, leaves no running row behind.
LEMMA LeftBehind ==
  ASSUME TypeInv, OwnedInv, [Next]_vars, errs' = 0, pc' # "boot",
         run.job # NoJob, run'.job # run.job
  PROVE  rows'[run.job].status \notin Running
<1> USE DEF Goto, Leave
<1>1. /\ run \in Run /\ run.job \in Jobs /\ pc \notin Unowned
      /\ rows \in [Jobs -> Row] /\ errs \in Nat
  BY BoundsAreNumbers DEF TypeInv, TypeOK, Run
<1>2. CASE Claim \/ StartTranslating \/ Complete \/ Fail
  <2>1. ~Active(rows[run.job])
    BY <1>2 DEF Claim, StartTranslating, Complete, Fail
  <2>2. rows'[run.job] = rows[run.job]
    BY <1>1, <1>2, <2>1
       DEF Claim, StartTranslating, Complete, Fail, Store, SetStatusIfActive,
           CompleteIfActive
  <2> QED
    BY <2>1, <2>2 DEF Active
<1>3. CASE WindowCheck \/ EndCheck \/ BatchCheck \/ TranslatedCheck \/ WriteCheck
  <2>1. IsCanceled(run.job) /\ UNCHANGED rows
    BY <1>3 DEF WindowCheck, EndCheck, BatchCheck, TranslatedCheck, WriteCheck
  <2> QED
    BY <2>1 DEF IsCanceled, Running
<1>4. CASE ApplyCheck
  <2>1. IsCanceled(run.job)
    <3> SUFFICES ASSUME ~IsCanceled(run.job) PROVE FALSE
      OBVIOUS
    <3> PICK t \in BOOLEAN :
          run' = [run EXCEPT !.batches = run.batches + 1, !.calls = 0,
                             !.some = run.some \/ t]
      BY <1>4 DEF ApplyCheck
    <3>1. run'.job = run.job
      BY <1>1 DEF Run
    <3> QED
      BY <3>1
  <2>2. UNCHANGED rows
    BY <1>4 DEF ApplyCheck
  <2> QED
    BY <2>1, <2>2 DEF IsCanceled, Running
<1>5. CASE Announce \/ AnnounceFailure
  BY <1>5 DEF Announce, AnnounceFailure, OwnedInv, Ending
<1>6. CASE \/ Boot \/ (\E j \in Jobs : PickUp(j)) \/ NothingQueued \/ WaitForWork \/ Woken
           \/ PollAgain
  BY <1>1, <1>6 DEF Boot, PickUp, NothingQueued, WaitForWork, Woken, PollAgain, Unowned
<1>7. CASE \/ ReadVideo \/ OpenSource \/ DecodeError \/ EndOfWindows \/ SaveTranscript
           \/ SaveTranslation \/ WriteProgress \/ SetOutput
  BY <1>7 DEF ReadVideo, OpenSource, DecodeError, EndOfWindows, SaveTranscript,
       SaveTranslation, WriteProgress, SetOutput
<1>8. CASE NextWindow \/ Transcribe \/ Ask \/ Publish
  <2>1. run'.job = run.job
    BY <1>1, <1>8 DEF NextWindow, Transcribe, Ask, Publish, Run
  <2> QED
    BY <2>1
<1>9. CASE StoreError
  <2>1. errs' = errs + 1
    BY <1>9 DEF StoreError
  <2> QED
    BY <1>1, <2>1
<1>10. CASE Restart
  BY <1>10 DEF Restart
<1>11. CASE \E j \in Jobs, p \in Opening..Done : FlushProgress(j, p)
  BY <1>11 DEF FlushProgress
<1>12. CASE ApiNext \/ UNCHANGED vars
  BY <1>12 DEF ApiNext, CreateJob, RetryJob, CancelJob, Download, Requeue, NotifyOne,
       Cancel, ReadCues, Remember, DeleteJob, engineVars, vars
<1> QED
  BY <1>2, <1>3, <1>4, <1>5, <1>6, <1>7, <1>8, <1>9, <1>10, <1>11, <1>12
     DEF Next, EngineNext, WorkerStep

LEMMA OwnedStep ==
  ASSUME TypeInv, OwnedInv, [Next]_vars
  PROVE  OwnedInv'
<1>1. /\ run \in Run /\ (run.job = NoJob <=> pc \in Unowned)
      /\ run.job # NoJob => run.job \in Jobs
      /\ rows \in [Jobs -> Row] /\ errs \in Nat /\ NoJob \notin Jobs
  BY BoundsAreNumbers, StoreAssumption DEF TypeInv, TypeOK, Run
<1>2. errs' = 0 => errs = 0
  <2>1. errs' = errs \/ errs' = errs + 1
    <3>1. CASE StoreError
      BY <3>1 DEF StoreError
    <3>2. CASE \/ Boot \/ (\E j \in Jobs : PickUp(j)) \/ NothingQueued \/ WaitForWork
               \/ Woken \/ Claim \/ ReadVideo \/ OpenSource \/ NextWindow
               \/ DecodeError \/ EndOfWindows \/ WindowCheck \/ Transcribe
      BY <3>2 DEF Boot, PickUp, NothingQueued, WaitForWork, Woken, Claim, ReadVideo,
           OpenSource, NextWindow, DecodeError, EndOfWindows, WindowCheck, Transcribe
    <3>3. CASE \/ EndCheck \/ SaveTranscript \/ StartTranslating \/ BatchCheck \/ Ask
               \/ ApplyCheck \/ TranslatedCheck \/ SaveTranslation \/ WriteProgress
               \/ WriteCheck \/ Complete \/ Publish \/ SetOutput \/ Announce \/ Fail
               \/ AnnounceFailure
      BY <3>3 DEF EndCheck, SaveTranscript, StartTranslating, BatchCheck, Ask,
           ApplyCheck, TranslatedCheck, SaveTranslation, WriteProgress, WriteCheck,
           Complete, Publish, SetOutput, Announce, Fail, AnnounceFailure
    <3>4. CASE PollAgain \/ Restart \/ \E j \in Jobs, p \in Opening..Done : FlushProgress(j, p)
      BY <3>4 DEF PollAgain, Restart, FlushProgress
    <3>5. CASE ApiNext \/ UNCHANGED vars
      BY <3>5 DEF ApiNext, CreateJob, RetryJob, CancelJob, Download, Requeue, NotifyOne,
           Cancel, ReadCues, Remember, DeleteJob, engineVars, vars
    <3> QED
      BY <3>1, <3>2, <3>3, <3>4, <3>5 DEF Next, EngineNext, WorkerStep
  <2> QED
    BY <1>1, <2>1
<1>3. ASSUME errs' = 0, NEW j \in Jobs, rows'[j].status \in Running
      PROVE  pc' = "boot" \/ run'.job = j
  <2>1. CASE pc = "boot"
    <3>1. CASE Boot
      <4>1. rows'[j] = Interrupted(rows[j])
        BY <3>1 DEF Boot
      <4>2. rows[j] \in Row
        BY <1>1
      <4> QED
        BY <1>3, <4>1, <4>2 DEF Interrupted, Running, Row
    <3>2. CASE ~Boot
      <4>1. pc' = "boot" \/ StoreError
        BY <2>1, <3>2 DEF Next, EngineNext, WorkerStep, PickUp, NothingQueued, WaitForWork,
           Woken, PollAgain, Claim, ReadVideo, OpenSource, NextWindow, DecodeError,
           EndOfWindows, WindowCheck, Transcribe, EndCheck, SaveTranscript,
           StartTranslating, BatchCheck, Ask, ApplyCheck, TranslatedCheck,
           SaveTranslation, WriteProgress, WriteCheck, Complete, Publish, SetOutput,
           Announce, Fail, AnnounceFailure, FlushProgress, Restart, ApiNext, CreateJob,
           RetryJob, CancelJob, Download, Requeue, NotifyOne, Cancel, ReadCues, Remember,
           DeleteJob, engineVars, vars
      <4>2. StoreError => errs' # 0
        BY <1>1 DEF StoreError
      <4> QED
        BY <1>3, <4>1, <4>2
    <3> QED
      BY <3>1, <3>2
  <2>2. CASE pc # "boot"
    <3>1. j = run.job
      BY <1>2, <1>3, <2>2, NotStarted DEF OwnedInv, RunningIsOwned
    <3>2. run.job # NoJob
      BY <1>1, <3>1
    <3> QED
      BY <1>3, <3>1, <3>2, LeftBehind
  <2> QED
    BY <2>1, <2>2
<1>4. ASSUME pc' \in Ending
      PROVE  rows'[run'.job].status \notin Running
  <2>1. CASE ~Closing /\ ~\E j \in Jobs : PickUp(j)
    <3>1. pc' = pc /\ run' = run
      BY <1>4, <2>1, PlainStep
    <3>2. run.job \in Jobs /\ rows[run.job].status \notin Running
      BY <1>1, <1>4, <3>1 DEF OwnedInv, Ending, Unowned
    <3>3. pc \notin {"claim", "startTranslating"}
      BY <1>4, <3>1 DEF Ending
    <3> QED
      BY <3>1, <3>2, <3>3, NotStarted
  <2>2. CASE \E j \in Jobs : PickUp(j)
    BY <1>4, <2>2 DEF PickUp, Ending
  <2>3. CASE Closing
    <3>1. /\ pc \in Ending \cup {"complete", "fail"}
          /\ run'.job = run.job /\ run.job \in Jobs
      BY <1>1, <1>4, <2>3
         DEF Closing, Complete, Publish, SetOutput, Announce, Fail, AnnounceFailure,
             Ending, Unowned, Goto, Leave, Run
    <3>2. CASE pc \in Ending
      <4>1. rows[run.job].status \notin Running /\ pc \notin {"claim", "startTranslating"}
        BY <3>2 DEF OwnedInv, Ending
      <4> QED
        BY <3>1, <4>1, NotStarted
    <3>3. CASE pc \in {"complete", "fail"}
      <4>1. (Complete \/ Fail) /\ Active(rows[run.job])
        BY <1>4, <2>3, <3>3
           DEF Closing, Complete, Publish, SetOutput, Announce, Fail, AnnounceFailure,
               Ending, Leave
      <4>2. rows[run.job] \in Row
        BY <1>1, <3>1
      <4>3. CASE Complete
        <5>1. rows'[run.job] = CompleteIfActive(rows[run.job])
          BY <1>1, <3>1, <4>3 DEF Complete, Store
        <5>2. rows'[run.job].status = "completed"
          BY <4>1, <4>2, <5>1 DEF CompleteIfActive, Moved, Row
        <5> QED
          BY <3>1, <5>2 DEF Running
      <4>4. CASE Fail
        <5>1. rows'[run.job] = SetStatusIfActive(rows[run.job], "failed", "failure")
          BY <1>1, <3>1, <4>4 DEF Fail, Store
        <5>2. rows'[run.job].status = "failed"
          BY <4>1, <4>2, <5>1 DEF SetStatusIfActive, Moved, Row
        <5> QED
          BY <3>1, <5>2 DEF Running
      <4> QED
        BY <4>1, <4>3, <4>4
    <3> QED
      BY <3>1, <3>2, <3>3
  <2> QED
    BY <2>1, <2>2, <2>3
<1> QED
  BY <1>3, <1>4 DEF OwnedInv, RunningIsOwned

\* The worker's row is the running one in every reachable state.
LEMMA OwnedInvariant == Spec => []OwnedInv
<1>1. Init => OwnedInv
  <2>1. NoRow.status = "absent"
    BY DEF NoRow
  <2> QED
    BY <2>1 DEF Init, StoreInit, EngineInit, OwnedInv, RunningIsOwned, Running, Ending
<1>2. TypeInv /\ OwnedInv /\ [Next]_vars => OwnedInv'
  BY OwnedStep
<1> QED
  BY <1>1, <1>2, TypeInvariant, PTL DEF Spec

\* Unless a store call failed, no job claims to run without a worker on it.
THEOREM OwnedCorrect == Spec => []RunningIsOwnedOrFaulted
<1>1. OwnedInv => RunningIsOwnedOrFaulted
  BY DEF OwnedInv, RunningIsOwnedOrFaulted
<1> QED
  BY <1>1, OwnedInvariant, PTL

-----------------------------------------------------------------------------
\* The worker never waits on a queue that holds work.

\* ORDER BY created_at finds a job as soon as one is queued.
LEMMA QueueHasHead ==
  ASSUME TypeInv, writable, \E j \in Jobs : rows[j].status = "queued"
  PROVE  NextQueued # {}
<1> DEFINE Q == {j \in Jobs : rows[j].status = "queued"}
           T == {rows[j].created : j \in Q}
<1>1. T \subseteq Nat /\ T # {}
  <2>1. Times \subseteq Nat /\ rows \in [Jobs -> Row]
    BY StoreAssumption DEF TypeInv, TypeOK
  <2>2. \A j \in Jobs : rows[j].created \in Nat
    BY <2>1 DEF Row
  <2> QED
    BY <2>2
<1>2. \E m \in T : \A k \in T : m <= k
  <2> HIDE DEF T
  <2> QED
    BY <1>1, LeastNumber
<1>3. PICK j \in Q : \A k \in Q : rows[j].created <= rows[k].created
  BY <1>2
<1> QED
  BY <1>3 DEF NextQueued

WakeInv ==
  /\ pc \in {"drained", "idle"}
  /\ writable
  /\ \E j \in Jobs : rows[j].status = "queued"
  => wake \/ \E c \in Clients : req[c].todo = "notify"

LEMMA WakeStep ==
  ASSUME TypeInv, WakeInv, [Next]_vars
  PROVE  WakeInv'
<1> USE DEF WakeInv, Goto, Leave
<1>1. /\ rows \in [Jobs -> Row]
      /\ req \in [Clients -> Request]
  BY DEF TypeInv, TypeOK
<1>2. ASSUME NEW j \in Jobs, rows'[j].status = "queued", rows'[j].attempt = rows[j].attempt
      PROVE  rows[j].status = "queued"
  <2>1. rows[j] \in Row /\ HasAttempt(rows[j]) /\ RowMove(j)
    BY RowsStep DEF TypeInv, TypeOK
  <2>2. CASE OutsideStep(rows[j], rows'[j])
    <3>1. rows'[j].status = "queued" => rows[j].status = "queued" \/ rows'[j].attempt > rows[j].attempt
      BY <2>1, <2>2, OutsideStepStatus
    <3>2. ~(rows'[j].attempt > rows[j].attempt)
      BY <1>2, <2>1 DEF Row
    <3> QED
      BY <1>2, <3>1, <3>2
  <2>3. CASE ~OutsideStep(rows[j], rows'[j])
    BY <1>2, <2>1, <2>3
       DEF RowMove, WorkerMove, SetStatusIfActive, CompleteIfActive, SetCues,
           Moved, Row
  <2> QED
    BY <2>2, <2>3
<1>3. CASE NothingQueued
  BY <1>3, QueueHasHead DEF NothingQueued
<1>4. CASE WaitForWork /\ UNCHANGED <<apiVars, crashes>>
  BY <1>4 DEF WaitForWork, apiVars
<1>5. CASE WorkerStep /\ ~NothingQueued /\ ~WaitForWork
  <2>1. pc' \notin {"drained", "idle"}
    BY <1>5 DEF WorkerStep, Boot, PickUp, Woken, Claim, ReadVideo, OpenSource, NextWindow,
         DecodeError, EndOfWindows, WindowCheck, Transcribe, EndCheck, SaveTranscript,
         StartTranslating, BatchCheck, Ask, ApplyCheck, TranslatedCheck, SaveTranslation,
         WriteProgress, WriteCheck, Complete, Publish, SetOutput, Announce, Fail,
         AnnounceFailure
  <2> QED
    BY <2>1
<1>6. CASE PollAgain \/ StoreError \/ Restart
  BY <1>6 DEF PollAgain, StoreError, Restart
<1>7. CASE (\E j \in Jobs, p \in Opening..Done : FlushProgress(j, p))
             /\ UNCHANGED <<apiVars, crashes>>
  <2> PICK j \in Jobs, p \in Opening..Done : FlushProgress(j, p)
    BY <1>7
  <2>1. \A k \in Jobs : rows'[k].status = rows[k].status
    BY <1>1 DEF FlushProgress, Store, SetProgress, Row
  <2>2. UNCHANGED <<pc, writable, wake, req>>
    BY <1>7 DEF FlushProgress, apiVars
  <2> QED
    BY <2>1, <2>2
<1>8. CASE \E c \in Clients, j \in Jobs : CreateJob(c, j)
  <2> PICK c \in Clients, j \in Jobs : CreateJob(c, j)
    BY <1>8
  <2>1. req'[c].todo = "notify"
    BY <1>1 DEF CreateJob, Accept
  <2> QED
    BY <2>1
<1>9. CASE \E c \in Clients : Requeue(c)
  <2> PICK c \in Clients : Requeue(c)
    BY <1>9
  <2>1. req'[c].todo = "notify"
    BY <1>1 DEF Requeue, Then, Request
  <2> QED
    BY <2>1
<1>10. CASE \E c \in Clients : NotifyOne(c)
  BY <1>10 DEF NotifyOne
<1>11. CASE \E c \in Clients, j \in Jobs :
              RetryJob(c, j) \/ CancelJob(c, j) \/ Download(c, j)
  <2> PICK c \in Clients, j \in Jobs : RetryJob(c, j) \/ CancelJob(c, j) \/ Download(c, j)
    BY <1>11
  <2>1. UNCHANGED <<pc, writable, wake, rows>>
    BY DEF RetryJob, CancelJob, Download, storeVars, engineVars
  <2>2. req[c].todo # "notify" /\ \A d \in Clients \ {c} : req'[d] = req[d]
    BY <1>1, NoRequestType DEF RetryJob, CancelJob, Download, Accept
  <2> QED
    BY <2>1, <2>2
<1>12. CASE \E c \in Clients : Cancel(c) \/ ReadCues(c) \/ Remember(c)
  <2> PICK c \in Clients : Cancel(c) \/ ReadCues(c) \/ Remember(c)
    BY <1>12
  <2>1. UNCHANGED <<pc, writable, wake>>
    BY DEF Cancel, ReadCues, Remember, storeVars, engineVars
  <2>2. req[c].todo # "notify" /\ \A d \in Clients \ {c} : req'[d] = req[d]
    BY <1>1 DEF Cancel, ReadCues, Remember, Reply, Then
  <2>3. \A k \in Jobs : rows'[k].attempt = rows[k].attempt
    <3>1. \A r \in Row : /\ CancelIfActive(r).attempt = r.attempt
                         /\ \A o : SetRenderOptions(r, o).attempt = r.attempt
      BY DEF CancelIfActive, SetRenderOptions, Moved, Row
    <3>2. CASE Cancel(c)
      BY <1>1, <3>1, <3>2 DEF Cancel, Store
    <3>3. CASE ReadCues(c)
      BY <3>3 DEF ReadCues, storeVars
    <3>4. CASE Remember(c)
      BY <1>1, <3>1, <3>4 DEF Remember, Store
    <3> QED
      BY <3>2, <3>3, <3>4
  <2> QED
    BY <1>2, <2>1, <2>2, <2>3
<1>13. CASE \E j \in Jobs : DeleteJob(j)
  <2> PICK j \in Jobs : DeleteJob(j)
    BY <1>13
  <2>1. UNCHANGED <<pc, writable, wake, req>>
    BY DEF DeleteJob, engineVars, apiVars
  <2>2. \A k \in Jobs : rows'[k].attempt = rows[k].attempt
    <3>1. Deleted(rows[j]).attempt = rows[j].attempt
      BY NoRowType DEF Deleted, Row
    <3> QED
      BY <1>1, <3>1 DEF DeleteJob, Store
  <2> QED
    BY <1>2, <2>1, <2>2
<1>14. CASE UNCHANGED vars
  BY <1>14 DEF vars, storeVars, engineVars, apiVars
<1> QED
  BY <1>3, <1>4, <1>5, <1>6, <1>7, <1>8, <1>9, <1>10, <1>11, <1>12, <1>13, <1>14
     DEF Next, EngineNext, ApiNext, WorkerStep

\* No wake-up is lost between an empty reading of the queue and the wait.
THEOREM WakeCorrect == Spec => []NoLostWakeUp
<1>1. Init => WakeInv
  BY DEF Init, EngineInit, WakeInv
<1>2. TypeInv /\ WakeInv /\ [Next]_vars => WakeInv'
  BY WakeStep
<1>3. WakeInv => NoLostWakeUp
  BY DEF WakeInv, NoLostWakeUp, NextQueued
<1> QED
  BY <1>1, <1>2, <1>3, TypeInvariant, PTL DEF Spec

-----------------------------------------------------------------------------
(***************************************************************************)
(* What holds of clients that retry a job only while no run holds it, for  *)
(* every number of jobs, clients, attempts, windows, batches, model calls  *)
(* and restarts, and, where the theorem does not say otherwise, of store   *)
(* failures.                                                               *)
(*                                                                         *)
(* All of it rests on one fact, that an attempt belongs to one run: while  *)
(* a run holds a job no re-queue of it is pending and its attempt does not *)
(* move (HoldInv).  The progress writes a run has detached may outlive     *)
(* both and land on the next attempt; nothing proved here depends on them. *)
(***************************************************************************)

\* A re-queue in flight finds the job as its client saw it, or deleted: nobody runs
\* it or re-queues it meanwhile.
RequeueInv ==
  \A c \in Clients : req[c].todo = "requeue" =>
    LET j == req[c].job IN
    /\ rows[j].status \in Terminal \cup {"absent"}
    /\ rows[j].attempt >= 1
    /\ run.job # j
    /\ \A d \in Clients : req[d].todo = "requeue" /\ req[d].job = j => d = c

\* The job in hand is in the attempt it was picked up in; it has left the queue,
\* unless claiming it failed.
HoldInv ==
  run.job # NoJob =>
    /\ rows[run.job].attempt = run.attempt
    /\ rows[run.job].status = "queued" =>
         pc = "claim" \/ (pc = "fail" /\ errs > 0)

PatientInv == RequeueInv /\ HoldInv

\* Between the first set_cues and the commit.
AfterTranscript ==
  {"startTranslating", "batchCheck", "ask", "applyCheck", "translatedCheck",
   "saveTranslation", "writing", "writeCheck", "complete"}

OwnCues(r) == r.cues # "none" /\ r.cuesOf = r.attempt

\* From its transcript on, a run has put cues of its own into a row that is still
\* active.
CuesInv ==
  /\ CompletedIsItsOwnWork
  /\ pc \in AfterTranscript /\ Active(rows[run.job]) => OwnCues(rows[run.job])

\* An accepted cancellation is the outcome of its attempt, and the run of that
\* attempt has not committed and will not.
CanceledInv ==
  /\ CanceledNeverPublishes
  /\ \A a \in canceled : Settled(rows, a[1], a[2], "canceled")
  /\ pc \in Ending => <<run.job, run.attempt>> \notin canceled

\* The awaits of a call to the speech engine or the model.
Calls == {"transcribe", "ask"}

\* A call made for a lost cause is the last one: what the worker has to pass before
\* the next call tells it that the job is canceled.
LateInv ==
  /\ run.late <= 1
  /\ run.late > 0 => /\ run.job # NoJob /\ IsCanceled(run.job)
                     /\ pc \notin Calls

\* At most one row is running if no store call failed.
OneRunning ==
  errs = 0 => \A j, k \in Jobs :
    rows[j].status \in Running /\ rows[k].status \in Running => j = k

-----------------------------------------------------------------------------
\* Who changes the run and the re-queues in flight.

\* A step keeps the job in hand, drops it, or picks one up.
LEMMA RunStep ==
  ASSUME TypeInv, [Next]_vars
  PROVE  \/ run'.job = run.job /\ run'.attempt = run.attempt
         \/ run' = NoRun
         \/ \E j \in Jobs : PickUp(j)
<1>1. CASE ~Closing
  BY <1>1, PlainStep
<1>2. CASE Closing
  BY <1>2 DEF Closing, Complete, Publish, SetOutput, Announce, Fail, AnnounceFailure,
       Goto, Leave, TypeInv, TypeOK, Run
<1> QED
  BY <1>1, <1>2

\* A re-queue in flight was so before, or begins with a retry of its job.
LEMMA RequeueStep ==
  ASSUME TypeInv, [Next]_vars, NEW c \in Clients, req'[c].todo = "requeue"
  PROVE  \/ req[c].todo = "requeue" /\ req'[c].job = req[c].job
         \/ \E j \in Jobs : RetryJob(c, j) /\ req'[c].job = j
<1>1. req \in [Clients -> Request]
  BY DEF TypeInv, TypeOK
<1>2. ASSUME NEW d \in Clients, NEW t \in Pending, NEW j \in Jobs, NEW o,
             Accept(d, t, j, o), c = d => t # "requeue"
      PROVE  req'[c] = req[c]
  BY <1>1, <1>2 DEF Accept
<1>3. ASSUME NEW d \in Clients, Reply(d)
      PROVE  req'[c] = req[c]
  BY <1>1, <1>3, NoRequestType DEF Reply
<1>4. ASSUME NEW d \in Clients, NEW t \in {"notify", "options"}, Then(d, t)
      PROVE  req'[c] = req[c]
  BY <1>1, <1>4 DEF Then, Request
<1>5. CASE \E d \in Clients, j \in Jobs : RetryJob(d, j)
  <2> PICK d \in Clients, j \in Jobs : RetryJob(d, j)
    BY <1>5
  <2>1. CASE c = d
    BY <1>1, <2>1 DEF RetryJob, Accept
  <2>2. CASE c # d
    BY <1>2, <2>2 DEF RetryJob, Pending
  <2> QED
    BY <2>1, <2>2
<1>6. CASE \E d \in Clients, j \in Jobs : CreateJob(d, j) \/ CancelJob(d, j) \/ Download(d, j)
  BY <1>2, <1>6 DEF CreateJob, CancelJob, Download, Pending
<1>7. CASE \E d \in Clients : Requeue(d) \/ NotifyOne(d) \/ Cancel(d) \/ ReadCues(d)
                               \/ Remember(d)
  BY <1>3, <1>4, <1>7 DEF Requeue, NotifyOne, Cancel, ReadCues, Remember
<1>8. CASE Restart
  BY <1>8, NoRequestType DEF Restart
<1>9. CASE UNCHANGED req
  BY <1>9
<1> QED
  BY <1>5, <1>6, <1>7, <1>8, <1>9 DEF Next, ApiNext, DeleteJob, apiVars, vars

-----------------------------------------------------------------------------
\* An attempt belongs to one run.

\* What a step may do to a row that is neither created nor re-queued.
LEMMA AuthoredStatus ==
  ASSUME TypeInv, [Next]_vars, NEW j \in Jobs, rows[j].attempt >= 1,
         ~\E c \in Clients :
            req[c].todo = "requeue" /\ req[c].job = j /\ req'[c].todo = "notify"
  PROVE  /\ rows'[j].attempt = rows[j].attempt
         /\ rows'[j].status = "queued" => rows[j].status = "queued"
         /\ rows[j].status \in Terminal \cup {"absent"} =>
              rows'[j].status \in {rows[j].status, "absent"}
<1> DEFINE r == rows[j]
           s == rows'[j]
<1>1. r \in Row /\ AuthoredMove(j)
  BY RowsAuthored DEF TypeInv, TypeOK
<1>2. CASE s = Deleted(r)
  BY <1>1, <1>2, NoRowType DEF Deleted, Row, NoRow
<1>3. CASE s # Deleted(r) /\ OutsideMove(j, s)
  <2>1. r.attempt # 0
    BY <1>1
  <2> QED
    BY <1>1, <1>3, <2>1
       DEF OutsideMove, Interrupted, CancelIfActive, SetProgress, SetOutputPath,
           SetRenderOptions, Moved, Active, Row, Terminal, Running
<1>4. CASE WorkerMove(j)
  BY ZenonT(60), <1>1, <1>4 DEF WorkerMove, SetStatusIfActive, CompleteIfActive, SetCues, Moved,
       Active, Row, Terminal, Running
<1> QED
  BY <1>1, <1>2, <1>3, <1>4 DEF AuthoredMove

\* The row of the job in hand keeps its attempt, does not go back into the queue, and
\* stays canceled or deleted.
LEMMA HeldRow ==
  ASSUME TypeInv, PatientInv, [Next]_vars, run.job # NoJob
  PROVE  /\ run.job \in Jobs
         /\ rows'[run.job].attempt = run.attempt
         /\ rows'[run.job].status = "queued" => rows[run.job].status = "queued"
         /\ rows[run.job].status \in Terminal \cup {"absent"} =>
              rows'[run.job].status \in {rows[run.job].status, "absent"}
<1>1. run.job \in Jobs /\ rows[run.job].attempt = run.attempt /\ run.attempt >= 1
  BY DEF PatientInv, HoldInv, TypeInv, TypeOK, RunInv, Run
<1>2. ~\E c \in Clients : req[c].todo = "requeue" /\ req[c].job = run.job
  BY DEF PatientInv, RequeueInv
<1> QED
  BY <1>1, <1>2, AuthoredStatus

LEMMA HoldStep ==
  ASSUME TypeInv, PatientInv, [Next]_vars
  PROVE  HoldInv'
<1>1. CASE \E j \in Jobs : PickUp(j)
  <2> PICK j \in Jobs : PickUp(j)
    BY <1>1
  <2>1. rows[j] \in Row /\ run' = [NoRun EXCEPT !.job = j, !.attempt = rows[j].attempt]
    BY DEF PickUp, TypeInv, TypeOK
  <2>2. run'.job = j /\ run'.attempt = rows[j].attempt
    BY <2>1 DEF NoRun
  <2> QED
    BY <2>2 DEF PickUp, HoldInv
<1>2. CASE run' = NoRun
  BY <1>2, NoRunType DEF HoldInv
<1>3. CASE run'.job = run.job /\ run'.attempt = run.attempt /\ run.job # NoJob
  <2>1. /\ run.job \in Jobs
        /\ rows'[run.job].attempt = run.attempt
        /\ rows'[run.job].status = "queued" => rows[run.job].status = "queued"
    BY <1>3, HeldRow
  <2>2. ASSUME rows'[run.job].status = "queued"
        PROVE  pc' = "claim" \/ (pc' = "fail" /\ errs' > 0)
    <3>1. rows[run.job].status = "queued" /\ (pc = "claim" \/ (pc = "fail" /\ errs > 0))
      BY <1>3, <2>1, <2>2 DEF PatientInv, HoldInv
    <3>2. rows[run.job] \in Row /\ Active(rows[run.job]) /\ errs \in Nat
          /\ rows \in [Jobs -> Row] /\ NoRun.job = NoJob
      BY <2>1, <3>1, BoundsAreNumbers, NoRunType DEF Active, TypeInv, TypeOK
    <3>3. CASE Claim
      BY <2>1, <2>2, <3>2, <3>3 DEF Claim, Store, SetStatusIfActive, Moved, Row
    <3>4. CASE Fail
      BY <2>1, <2>2, <3>2, <3>4 DEF Fail, Store, SetStatusIfActive, Moved, Row
    <3>5. CASE StoreError
      BY <1>3, <3>1, <3>2, <3>5 DEF StoreError, Leave, Goto, Checks, Propagated
    <3>6. CASE Restart
      BY <1>3, <3>2, <3>6 DEF Restart
    <3>7. CASE WorkerStep /\ ~Claim /\ ~Fail
      BY <3>1, <3>7 DEF WorkerStep, Boot, PickUp, NothingQueued, WaitForWork, Woken,
           ReadVideo, OpenSource, NextWindow, DecodeError, EndOfWindows, WindowCheck,
           Transcribe, EndCheck, SaveTranscript, StartTranslating, BatchCheck, Ask,
           ApplyCheck, TranslatedCheck, SaveTranslation, WriteProgress, WriteCheck,
           Complete, Publish, SetOutput, Announce, AnnounceFailure
    <3>8. CASE PollAgain
      BY <3>1, <3>8 DEF PollAgain
    <3>9. CASE (\E j \in Jobs, p \in Opening..Done : FlushProgress(j, p))
               \/ ApiNext \/ UNCHANGED vars
      <4>1. UNCHANGED <<pc, errs>>
        BY <3>9 DEF FlushProgress, ApiNext, CreateJob, RetryJob, CancelJob, Download,
             Requeue, NotifyOne, Cancel, ReadCues, Remember, DeleteJob, engineVars, vars
      <4> QED
        BY <3>1, <4>1
    <3> QED
      BY <3>3, <3>4, <3>5, <3>6, <3>7, <3>8, <3>9 DEF Next, EngineNext
  <2> QED
    BY <1>3, <2>1, <2>2 DEF HoldInv
<1> QED
  BY <1>1, <1>2, <1>3, RunStep DEF HoldInv

LEMMA RequeueHoldStep ==
  ASSUME Patient, TypeInv, PatientInv, [Next]_vars
  PROVE  RequeueInv'
<1>0. /\ rows \in [Jobs -> Row] /\ req \in [Clients -> Request] /\ run \in Run
      /\ \A j \in Jobs : HasAttempt(rows[j])
      /\ \A c \in Clients : req[c].todo = "requeue" => req[c].job \in Jobs
      /\ NoJob \notin Jobs
  BY StoreAssumption DEF TypeInv, TypeOK, Request
<1>1. ASSUME NEW c \in Clients, req[c].todo = "requeue", req'[c].todo = "requeue",
             NEW j, j = req[c].job
      PROVE  /\ rows'[j].status \in Terminal \cup {"absent"}
             /\ rows'[j].attempt >= 1
             /\ run'.job # j
             /\ \A d \in Clients : req'[d].todo = "requeue" /\ req'[d].job = j => d = c
  <2>1. /\ j \in Jobs
        /\ rows[j].status \in Terminal \cup {"absent"}
        /\ rows[j].attempt >= 1
        /\ run.job # j
        /\ \A d \in Clients : req[d].todo = "requeue" /\ req[d].job = j => d = c
    BY <1>0, <1>1 DEF PatientInv, RequeueInv
  <2>2. ~\E d \in Clients :
           req[d].todo = "requeue" /\ req[d].job = j /\ req'[d].todo = "notify"
    BY <1>1, <2>1
  <2>3. /\ rows'[j].attempt = rows[j].attempt
        /\ rows'[j].status \in {rows[j].status, "absent"}
    BY <2>1, <2>2, AuthoredStatus
  <2>4. run'.job # j
    <3>1. CASE \E k \in Jobs : PickUp(k)
      <4> PICK k \in Jobs : PickUp(k)
        BY <3>1
      <4>1. run'.job = k /\ rows[k].status = "queued"
        BY NoRunType DEF PickUp, NextQueued, NoRun
      <4> QED
        BY <2>1, <4>1 DEF Terminal
    <3>2. CASE ~\E k \in Jobs : PickUp(k)
      BY <1>0, <2>1, <3>2, RunStep, NoRunType
    <3> QED
      BY <3>1, <3>2
  <2>5. ASSUME NEW d \in Clients, req'[d].todo = "requeue", req'[d].job = j
        PROVE  d = c
    <3>1. ~RetryJob(d, j)
      BY <1>1, <2>1 DEF RetryJob, Quiet
    <3> QED
      BY <2>1, <2>5, <3>1, RequeueStep
  <2> QED
    BY <2>1, <2>3, <2>4, <2>5
<1>2. ASSUME NEW c \in Clients, NEW j \in Jobs, RetryJob(c, j), req'[c].job = j
      PROVE  /\ rows'[j].status \in Terminal \cup {"absent"}
             /\ rows'[j].attempt >= 1
             /\ run'.job # j
             /\ \A d \in Clients : req'[d].todo = "requeue" /\ req'[d].job = j => d = c
  <2>1. UNCHANGED <<rows, run>> /\ rows[j].status \in Terminal /\ Quiet(j)
    BY <1>2 DEF RetryJob, storeVars, engineVars
  <2>2. rows[j].attempt >= 1
    BY <1>0, <2>1 DEF HasAttempt, Present, Terminal
  <2>3. \A d \in Clients : d # c => req'[d] = req[d]
    BY <1>0, <1>2 DEF RetryJob, Accept
  <2> QED
    BY <2>1, <2>2, <2>3 DEF Quiet
<1>3. ASSUME NEW c \in Clients, req'[c].todo = "requeue"
      PROVE  \/ req[c].todo = "requeue" /\ req'[c].job = req[c].job
             \/ \E j \in Jobs : RetryJob(c, j) /\ req'[c].job = j
  BY <1>3, RequeueStep
<1> QED
  BY <1>1, <1>2, <1>3 DEF RequeueInv

LEMMA PatientInvariant ==
  ASSUME Patient PROVE Spec => []PatientInv
<1>1. Init => PatientInv
  BY NoRunType, NoRequestType
     DEF Init, EngineInit, ApiInit, PatientInv, RequeueInv, HoldInv
<1>2. TypeInv /\ PatientInv /\ [Next]_vars => PatientInv'
  BY HoldStep, RequeueHoldStep DEF PatientInv
<1> QED
  BY <1>1, <1>2, TypeInvariant, PTL DEF Spec

-----------------------------------------------------------------------------
\* A completed job shows its own work.

\* The way past the first set_cues is that statement.
LEMMA IntoTranslation ==
  ASSUME TypeInv, [Next]_vars, pc' \in AfterTranscript
  PROVE  /\ run.job # NoJob /\ run'.job = run.job
         /\ pc \in AfterTranscript \/ SaveTranscript
<1>1. pc' \notin Unowned /\ pc' # "claim"
  BY DEF AfterTranscript, Unowned
<1>2. run'.job # NoJob
  BY <1>1, TypeStep DEF TypeInv, TypeOK
<1>3. ~\E j \in Jobs : PickUp(j)
  BY <1>1 DEF PickUp
<1>4. run'.job = run.job
  BY <1>2, <1>3, RunStep, NoRunType
<1>5. pc \in AfterTranscript \/ SaveTranscript
  <2> USE DEF AfterTranscript, Goto, Leave
  <2>1. CASE WorkerStep
    BY <2>1 DEF WorkerStep, Boot, PickUp, NothingQueued, WaitForWork, Woken, Claim,
         ReadVideo, OpenSource, NextWindow, DecodeError, EndOfWindows, WindowCheck,
         Transcribe, EndCheck, StartTranslating, BatchCheck, Ask, ApplyCheck,
         TranslatedCheck, SaveTranslation, WriteProgress, WriteCheck, Complete, Publish,
         SetOutput, Announce, Fail, AnnounceFailure
  <2>2. CASE StoreError \/ PollAgain \/ Restart
    BY <2>2 DEF StoreError, PollAgain, Restart
  <2>3. CASE (\E j \in Jobs, p \in Opening..Done : FlushProgress(j, p))
             \/ ApiNext \/ UNCHANGED vars
    BY <2>3 DEF FlushProgress, ApiNext, CreateJob, RetryJob, CancelJob, Download,
         Requeue, NotifyOne, Cancel, ReadCues, Remember, DeleteJob, engineVars, vars
  <2> QED
    BY <2>1, <2>2, <2>3 DEF Next, EngineNext
<1> QED
  BY <1>2, <1>4, <1>5

\* Only set_cues and what begins an attempt or ends the row touch the cues.
LEMMA CuesKept ==
  ASSUME NEW r \in Row, NEW s, OwnCues(r),
         \/ s = r \/ s = Interrupted(r) \/ s = CancelIfActive(r)
         \/ s = SetStatusIfActive(r, "transcribing", "none")
         \/ s = SetStatusIfActive(r, "translating", "none")
         \/ s = SetStatusIfActive(r, "failed", "failure")
         \/ s = CompleteIfActive(r)
         \/ \E p \in Opening..Done : s = SetProgress(r, p)
         \/ \E b \in BOOLEAN : s = SetOutputPath(r, b)
         \/ \E o \in Options : s = SetRenderOptions(r, o)
  PROVE  OwnCues(s)
<1>1. ASSUME NEW t, NEW e, s = Moved(r, t, e)
      PROVE  OwnCues(s)
  BY <1>1 DEF Moved, OwnCues, Row
<1>2. CASE s = CompleteIfActive(r)
  BY <1>2 DEF CompleteIfActive, Moved, OwnCues, Row
<1>3. CASE s = Interrupted(r)
  BY <1>3 DEF Interrupted, OwnCues, Row
<1>4. CASE \E p \in Opening..Done : s = SetProgress(r, p)
  BY <1>4 DEF SetProgress, OwnCues, Row
<1>5. CASE \E b \in BOOLEAN : s = SetOutputPath(r, b)
  BY <1>5 DEF SetOutputPath, OwnCues, Row
<1>6. CASE \E o \in Options : s = SetRenderOptions(r, o)
  BY <1>6 DEF SetRenderOptions, OwnCues, Row
<1> QED
  BY <1>1, <1>2, <1>3, <1>4, <1>5, <1>6 DEF SetStatusIfActive, CancelIfActive

\* The row after set_cues of the attempt it is in.
LEMMA CuesSet ==
  ASSUME NEW r \in Row, NEW s, Active(r),
         \E c \in {"transcript", "translated"} : s = SetCues(r, c, r.attempt)
  PROVE  OwnCues(s)
BY DEF SetCues, OwnCues, Row

LEMMA CuesStep ==
  ASSUME TypeInv, PatientInv, CuesInv, [Next]_vars
  PROVE  CuesInv'
<1>0. /\ rows \in [Jobs -> Row]
      /\ \A j \in Jobs : HasAttempt(rows[j]) /\ AuthoredMove(j) /\ RowMove(j)
  BY RowsAuthored, RowsStep DEF TypeInv, TypeOK
<1>1. ASSUME NEW j \in Jobs, rows'[j].status = "completed"
      PROVE  /\ OwnCues(rows'[j])
             /\ rows'[j].progress = Done
             /\ rows'[j].error = "none"
  <2> DEFINE r == rows[j]
             s == rows'[j]
  <2>1. CASE r.status = "completed"
    <3>1. s = [r EXCEPT !.output = s.output, !.opts = s.opts]
      BY <1>0, <1>1, <2>1, RowStepFrozen, RowMoveStep DEF Terminal
    <3>2. OwnCues(r) /\ r.progress = Done /\ r.error = "none"
      BY <2>1 DEF CuesInv, CompletedIsItsOwnWork, OwnCues
    <3>3. r \in Row
      BY <1>0
    <3>4. s.cues = r.cues /\ s.cuesOf = r.cuesOf /\ s.attempt = r.attempt
          /\ s.progress = r.progress /\ s.error = r.error
      BY ONLY <3>1, <3>3 DEF Row
    <3> QED
      BY <3>2, <3>4 DEF OwnCues
  <2>2. CASE r.status # "completed"
    <3>1. ~OutsideStep(r, s)
      BY <1>0, <1>1, <2>2, OutsideStepStatus
    <3>2. WorkerMove(j) /\ pc = "complete" /\ Active(r) /\ s = CompleteIfActive(r)
      <4>1. WorkerMove(j) /\ r \in Row
        BY <1>0, <3>1 DEF RowMove
      <4>2. ASSUME NEW c, s = SetCues(r, c, run.attempt)
            PROVE  s.status = r.status
        BY <4>1, <4>2 DEF SetCues, Row
      <4>3. ASSUME NEW t \in Statuses \ {"completed"}, NEW e, s = SetStatusIfActive(r, t, e)
            PROVE  s.status # "completed"
        BY <2>2, <4>1, <4>3 DEF SetStatusIfActive, Moved, Row
      <4>4. pc = "complete" /\ s = CompleteIfActive(r)
        BY <1>1, <2>2, <4>1, <4>2, <4>3 DEF WorkerMove, Statuses, Running, Terminal
      <4> QED
        BY <1>1, <2>2, <4>1, <4>4 DEF CompleteIfActive
    <3>3. OwnCues(r)
      BY <3>2 DEF WorkerMove, CuesInv, AfterTranscript
    <3>4. r \in Row
      BY <1>0
    <3>5. s.cues = r.cues /\ s.cuesOf = r.cuesOf /\ s.attempt = r.attempt
          /\ s.progress = Done /\ s.error = "none"
      BY <3>2, <3>4 DEF CompleteIfActive, Moved, Row
    <3> QED
      BY <3>3, <3>5 DEF OwnCues
  <2> QED
    BY <2>1, <2>2
<1>2. ASSUME pc' \in AfterTranscript, Active(rows'[run'.job])
      PROVE  OwnCues(rows'[run'.job])
  <2> DEFINE j == run.job
             r == rows[j]
             s == rows'[j]
  <2>1. run'.job = j /\ j # NoJob /\ (pc \in AfterTranscript \/ SaveTranscript)
    BY <1>2, IntoTranslation
  <2>2. /\ j \in Jobs /\ s.attempt = run.attempt /\ r.attempt = run.attempt
        /\ r.status \in Terminal \cup {"absent"} => s.status \in {r.status, "absent"}
        /\ s.status = "queued" => r.status = "queued"
    BY <2>1, HeldRow DEF PatientInv, HoldInv
  <2>3. Active(r) /\ r \in Row
    BY <1>0, <1>2, <2>1, <2>2 DEF Active, Terminal, Running, Row, Statuses
  <2>4. CASE SaveTranscript
    <3>1. s = SetCues(r, "transcript", r.attempt)
      BY <1>0, <2>2, <2>4 DEF SaveTranscript, Store
    <3> QED
      BY <2>1, <2>3, <3>1, CuesSet
  <2>5. CASE pc \in AfterTranscript
    <3>1. OwnCues(r)
      BY <2>3, <2>5 DEF CuesInv
    <3>2. CASE WorkerMove(j)
      BY <2>1, <2>2, <2>3, <3>1, <3>2, CuesKept, CuesSet DEF WorkerMove
    <3>3. CASE OutsideMove(j, s)
      <4>1. ~\E c \in Clients : req[c].todo = "requeue" /\ req[c].job = j
        BY DEF PatientInv, RequeueInv
      <4>2. s # Deleted(r)
        <5>1. \A a : [NoRow EXCEPT !.attempt = a].status = "absent"
          BY NoRowType DEF NoRow, Row
        <5>2. s.status # "absent"
          BY <1>2, <2>1 DEF Active, Running
        <5> QED
          BY <5>1, <5>2 DEF Deleted
      <4>3. r.attempt # 0
        BY <2>1, <2>2 DEF TypeInv, RunInv
      <4> QED
        BY <2>1, <2>3, <3>1, <3>3, <4>1, <4>2, <4>3, CuesKept DEF OutsideMove
    <3> QED
      BY <1>0, <2>2, <3>2, <3>3 DEF AuthoredMove
  <2> QED
    BY <2>1, <2>4, <2>5
<1> QED
  BY <1>1, <1>2 DEF CuesInv, CompletedIsItsOwnWork, OwnCues

\* A completed job has the cues of the run of its last attempt, whatever an earlier
\* run still had to write.
THEOREM CompletedCorrect ==
  ASSUME Patient PROVE Spec => []CompletedIsItsOwnWork
<1>1. Init => CuesInv
  <2>1. NoRow.status = "absent"
    BY DEF NoRow
  <2> QED
    BY <2>1 DEF Init, StoreInit, EngineInit, CuesInv, CompletedIsItsOwnWork, AfterTranscript
<1>2. TypeInv /\ PatientInv /\ CuesInv /\ [Next]_vars => CuesInv'
  BY CuesStep
<1>3. CuesInv => CompletedIsItsOwnWork
  BY DEF CuesInv
<1> QED
  BY <1>1, <1>2, <1>3, TypeInvariant, PatientInvariant, PTL DEF Spec

-----------------------------------------------------------------------------
\* An accepted cancellation is final.

\* Events and files are the worker's, made for the job in hand between the commit
\* and the event; cancellations are accepted elsewhere, one at a time.
LEMMA PublishingStep ==
  ASSUME TypeInv, [Next]_vars
  PROVE  /\ \A f \in files' : f \in files \/ (f = <<run.job, run.attempt>> /\ pc \in Ending)
         /\ \A e \in events' :
              e \in events \/ (<<e[1], e[2]>> = <<run.job, run.attempt>> /\ pc \in Ending)
<1>1. CASE ~Closing
  BY <1>1, PlainStep
<1>2. CASE Publish
  BY <1>2 DEF Publish, Ending
<1>3. CASE Announce \/ AnnounceFailure
  <2>1. events' \in {events \cup {<<run.job, run.attempt, "completed">>},
                     events \cup {<<run.job, run.attempt, "failed">>}}
        /\ pc \in Ending /\ UNCHANGED files
    BY <1>3 DEF Announce, AnnounceFailure, Ending
  <2> QED
    BY <2>1
<1>4. CASE Complete \/ SetOutput \/ Fail
  BY <1>4 DEF Complete, SetOutput, Fail
<1> QED
  BY <1>1, <1>2, <1>3, <1>4 DEF Closing

LEMMA CanceledStep ==
  ASSUME TypeInv, [Next]_vars
  PROVE  \/ UNCHANGED canceled
         \/ \E j \in Jobs :
              /\ Active(rows[j])
              /\ rows'[j].status = "canceled" /\ rows'[j].attempt = rows[j].attempt
              /\ canceled' = canceled \cup {<<j, rows[j].attempt>>}
              /\ UNCHANGED engineVars
<1>1. CASE \E c \in Clients : Cancel(c)
  <2> PICK c \in Clients : Cancel(c)
    BY <1>1
  <2> DEFINE j == req[c].job
  <2>1. j \in Jobs /\ rows[j] \in Row /\ rows \in [Jobs -> Row]
    BY DEF Cancel, TypeInv, TypeOK, Request
  <2>2. CASE Active(rows[j])
    <3>1. rows'[j] = Moved(rows[j], "canceled", "cancelled")
      BY <2>1, <2>2 DEF Cancel, Store, CancelIfActive
    <3>2. rows'[j].status = "canceled" /\ rows'[j].attempt = rows[j].attempt
      <4> HIDE DEF j
      <4> QED
        BY <2>1, <3>1 DEF Moved, Row
    <3>3. canceled' = canceled \cup {<<j, rows[j].attempt>>} /\ UNCHANGED engineVars
      BY <2>2 DEF Cancel
    <3> HIDE DEF j
    <3> QED
      BY <2>1, <2>2, <3>2, <3>3
  <2>3. CASE ~Active(rows[j])
    BY <2>3 DEF Cancel
  <2> QED
    BY <2>2, <2>3
<1>2. CASE \/ \E c \in Clients, j \in Jobs :
                CreateJob(c, j) \/ RetryJob(c, j) \/ CancelJob(c, j) \/ Download(c, j)
           \/ \E c \in Clients : Requeue(c) \/ NotifyOne(c) \/ ReadCues(c) \/ Remember(c)
           \/ \E j \in Jobs : DeleteJob(j)
  BY <1>2 DEF CreateJob, RetryJob, CancelJob, Download, Requeue, NotifyOne, ReadCues,
       Remember, DeleteJob, apiVars
<1>3. CASE (EngineNext /\ UNCHANGED <<apiVars, crashes>>) \/ Restart \/ UNCHANGED vars
  BY <1>3 DEF Restart, vars, apiVars
<1> QED
  BY <1>1, <1>2, <1>3 DEF Next, ApiNext

\* What is published for an attempt says that the attempt is not active any more.
LEMMA PublishedNotActive ==
  ASSUME TypeInv, PublishedInv, PatientInv, NEW j \in Jobs, Active(rows[j])
  PROVE  /\ <<j, rows[j].attempt>> \notin files
         /\ \A k \in {"completed", "failed"} : <<j, rows[j].attempt, k>> \notin events
         /\ pc \in Ending => <<run.job, run.attempt>> # <<j, rows[j].attempt>>
<1> USE DEF PublishedInv, Settled, Active, Running
<1>1. <<j, rows[j].attempt>> \notin files
  OBVIOUS
<1>2. \A k \in {"completed", "failed"} : <<j, rows[j].attempt, k>> \notin events
  OBVIOUS
<1>3. pc \in Ending => <<run.job, run.attempt>> # <<j, rows[j].attempt>>
  BY DEF Ending
<1> QED
  BY <1>1, <1>2, <1>3

LEMMA CanceledHoldStep ==
  ASSUME TypeInv, PublishedInv, PatientInv, CanceledInv, [Next]_vars
  PROVE  CanceledInv'
<1>0. /\ canceled \subseteq Jobs \X (1..MaxAttempts) /\ canceled' \subseteq Jobs \X (1..MaxAttempts)
      /\ events' \subseteq Jobs \X (1..MaxAttempts) \X {"completed", "failed"}
      /\ rows \in [Jobs -> Row] /\ run \in Run
  BY TypeStep DEF TypeInv, TypeOK
<1>1. \A a \in canceled : Settled(rows', a[1], a[2], "canceled")
  BY <1>0, SettledStep DEF CanceledInv, Terminal
<1>2. \A a \in canceled :
        /\ a \notin files'
        /\ \A k \in {"completed", "failed"} : <<a[1], a[2], k>> \notin events'
  <2> SUFFICES ASSUME NEW a \in canceled
               PROVE  /\ a \notin files'
                      /\ \A k \in {"completed", "failed"} : <<a[1], a[2], k>> \notin events'
    OBVIOUS
  <2>1. a = <<a[1], a[2]>>
    BY <1>0
  <2>2. pc \in Ending => a # <<run.job, run.attempt>>
    BY DEF CanceledInv
  <2>3. a \notin files /\ \A k \in {"completed", "failed"} : <<a[1], a[2], k>> \notin events
    BY DEF CanceledInv, CanceledNeverPublishes
  <2>4. a \notin files'
    BY <2>2, <2>3, PublishingStep
  <2>5. ASSUME NEW k \in {"completed", "failed"}, <<a[1], a[2], k>> \in events'
        PROVE  FALSE
    BY <2>1, <2>2, <2>3, <2>5, PublishingStep
  <2> QED
    BY <2>4, <2>5
<1>3. pc' \in Ending => <<run'.job, run'.attempt>> \notin canceled
  <2> SUFFICES ASSUME pc' \in Ending PROVE <<run'.job, run'.attempt>> \notin canceled
    OBVIOUS
  <2>1. CASE pc \in Ending
    <3>1. run'.job = run.job /\ run'.attempt = run.attempt
      <4>1. run'.job # NoJob
        BY TypeStep DEF TypeInv, TypeOK, Ending, Unowned
      <4>2. ~\E j \in Jobs : PickUp(j)
        BY DEF PickUp, Ending
      <4> QED
        BY <4>1, <4>2, RunStep, NoRunType
    <3> QED
      BY <2>1, <3>1 DEF CanceledInv
  <2>2. CASE pc \notin Ending
    <3>1. Complete \/ Fail
      BY <2>2, PlainStep
         DEF Closing, Publish, SetOutput, Announce, AnnounceFailure, Ending
    <3>2. /\ Active(rows[run.job]) /\ run' = run
          /\ run.job # NoJob
      BY <3>1 DEF Complete, Fail, Goto, Leave, Ending, TypeInv, TypeOK, Unowned
    <3>3. rows[run.job].attempt = run.attempt
      BY <3>2 DEF PatientInv, HoldInv
    <3> QED
      BY <3>2, <3>3 DEF CanceledInv, Settled, Active, Running
  <2> QED
    BY <2>1, <2>2
<1>4. CASE UNCHANGED canceled
  BY <1>1, <1>2, <1>3, <1>4 DEF CanceledInv, CanceledNeverPublishes
<1>5. CASE \E j \in Jobs :
             /\ Active(rows[j])
             /\ rows'[j].status = "canceled" /\ rows'[j].attempt = rows[j].attempt
             /\ canceled' = canceled \cup {<<j, rows[j].attempt>>}
             /\ UNCHANGED engineVars
  <2> PICK j \in Jobs :
        /\ Active(rows[j])
        /\ rows'[j].status = "canceled" /\ rows'[j].attempt = rows[j].attempt
        /\ canceled' = canceled \cup {<<j, rows[j].attempt>>}
        /\ UNCHANGED engineVars
    BY <1>5
  <2> DEFINE b == <<j, rows[j].attempt>>
  <2>1. /\ b \notin files
        /\ \A k \in {"completed", "failed"} : <<j, rows[j].attempt, k>> \notin events
        /\ pc \in Ending => <<run.job, run.attempt>> # b
    BY PublishedNotActive
  <2>2. UNCHANGED <<files, events, pc, run>>
    BY DEF engineVars
  <2>3. Settled(rows', j, rows[j].attempt, "canceled")
    BY <1>0 DEF Settled, Row
  <2>4. b[1] = j /\ b[2] = rows[j].attempt
    OBVIOUS
  <2>5. /\ \A a \in canceled' : a \in canceled \/ a = b
        /\ b \in Jobs \X (1..MaxAttempts)
    BY <1>0
  <2> HIDE DEF b
  <2>6. CanceledNeverPublishes'
    BY <1>2, <2>1, <2>2, <2>4, <2>5 DEF CanceledNeverPublishes
  <2>7. \A a \in canceled' : Settled(rows', a[1], a[2], "canceled")
    BY <1>1, <2>3, <2>4, <2>5
  <2>8. pc' \in Ending => <<run'.job, run'.attempt>> \notin canceled'
    BY <1>3, <2>1, <2>2, <2>5
  <2> QED
    BY <2>6, <2>7, <2>8 DEF CanceledInv
<1> QED
  BY <1>4, <1>5, CanceledStep

\* No file and no event appears for a run whose job a client was told is canceled.
LEMMA CanceledCorrect ==
  ASSUME Patient PROVE Spec => []CanceledNeverPublishes
<1>1. Init => CanceledInv
  BY DEF Init, EngineInit, ApiInit, CanceledInv, CanceledNeverPublishes, Ending
<1>2. TypeInv /\ PublishedInv /\ PatientInv /\ CanceledInv /\ [Next]_vars => CanceledInv'
  BY CanceledHoldStep
<1>3. CanceledInv => CanceledNeverPublishes
  BY DEF CanceledInv
<1> QED
  BY <1>1, <1>2, <1>3, TypeInvariant, PatientInvariant, PublishedInvariant, PTL DEF Spec

-----------------------------------------------------------------------------
\* A canceled run stops.

\* Only the calls count as late, and a check leads to a call only for a job that is
\* not canceled.
LEMMA CallStep ==
  ASSUME TypeInv, [Next]_vars
  PROVE  \/ run'.late = 0
         \/ /\ run'.late = run.late /\ run'.job = run.job
            /\ pc' \in Calls => pc' = pc \/ ~IsCanceled(run.job)
         \/ /\ run'.late = LateNow /\ run'.job = run.job
            /\ pc \in Calls /\ pc' \notin Calls
<1> USE DEF Goto, Leave, Calls
<1>0. run \in Run /\ NoRun.late = 0
  BY DEF TypeInv, TypeOK, NoRun
<1>1. CASE Transcribe \/ Ask
  <2>1. run'.late = LateNow /\ run'.job = run.job
    BY <1>0, <1>1 DEF Transcribe, Ask, Run
  <2> QED
    BY <1>1, <2>1 DEF Transcribe, Ask
<1>2. CASE \E j \in Jobs : PickUp(j)
  BY <1>0, <1>2 DEF PickUp, NoRun
<1>3. CASE NextWindow \/ Publish
  <2>1. run'.late = run.late /\ run'.job = run.job /\ pc' \notin Calls
    BY <1>0, <1>3 DEF NextWindow, Publish, Run
  <2> QED
    BY <2>1
<1>4. CASE ApplyCheck
  <2>1. pc' \notin Calls
    BY <1>4 DEF ApplyCheck
  <2>2. CASE IsCanceled(run.job)
    BY <1>0, <1>4, <2>2 DEF ApplyCheck
  <2>3. CASE ~IsCanceled(run.job)
    <3> PICK t \in BOOLEAN :
          run' = [run EXCEPT !.batches = run.batches + 1, !.calls = 0,
                             !.some = run.some \/ t]
      BY <1>4, <2>3 DEF ApplyCheck
    <3>1. run'.late = run.late /\ run'.job = run.job
      BY <1>0 DEF Run
    <3> QED
      BY <2>1, <3>1
  <2> QED
    BY <2>2, <2>3
<1>5. CASE WindowCheck \/ BatchCheck
  BY <1>0, <1>5 DEF WindowCheck, BatchCheck
<1>6. CASE \/ Boot \/ NothingQueued \/ WaitForWork \/ Woken \/ Claim \/ ReadVideo
           \/ OpenSource \/ DecodeError \/ EndOfWindows \/ EndCheck \/ SaveTranscript
           \/ PollAgain \/ StoreError \/ Restart
  <2>1. pc' \notin Calls /\ (run' = run \/ run' = NoRun)
    BY <1>6 DEF Boot, NothingQueued, WaitForWork, Woken, Claim, ReadVideo, OpenSource,
         DecodeError, EndOfWindows, EndCheck, SaveTranscript, PollAgain, StoreError, Restart
  <2> QED
    BY <1>0, <2>1
<1>7. CASE \/ StartTranslating \/ TranslatedCheck \/ SaveTranslation \/ WriteProgress
           \/ WriteCheck \/ Complete \/ SetOutput \/ Announce \/ Fail \/ AnnounceFailure
  <2>1. pc' \notin Calls /\ (run' = run \/ run' = NoRun)
    BY <1>7 DEF StartTranslating, TranslatedCheck, SaveTranslation, WriteProgress,
         WriteCheck, Complete, SetOutput, Announce, Fail, AnnounceFailure
  <2> QED
    BY <1>0, <2>1
<1>8. CASE (\E j \in Jobs, p \in Opening..Done : FlushProgress(j, p)) \/ ApiNext
           \/ UNCHANGED vars
  <2>1. UNCHANGED <<pc, run>>
    BY <1>8 DEF FlushProgress, ApiNext, CreateJob, RetryJob, CancelJob, Download, Requeue,
         NotifyOne, Cancel, ReadCues, Remember, DeleteJob, engineVars, vars
  <2> QED
    BY <2>1
<1> QED
  BY <1>1, <1>2, <1>3, <1>4, <1>5, <1>6, <1>7, <1>8 DEF Next, EngineNext, WorkerStep

LEMMA LateStep ==
  ASSUME TypeInv, PatientInv, LateInv, [Next]_vars
  PROVE  LateInv'
<1>0. run.late \in 0..2 /\ (run.job = NoJob <=> pc \in Unowned)
  BY DEF TypeInv, TypeOK, Run
<1>1. ASSUME run.job # NoJob, IsCanceled(run.job), run'.job = run.job
      PROVE  IsCanceled(run.job)'
  BY <1>1, HeldRow DEF IsCanceled, Terminal
<1>2. CASE run'.late = 0
  BY <1>2 DEF LateInv
<1>3. CASE /\ run'.late = run.late /\ run'.job = run.job
           /\ pc' \in Calls => pc' = pc \/ ~IsCanceled(run.job)
  <2>1. CASE run.late = 0
    BY <1>2, <1>3, <2>1
  <2>2. CASE run.late > 0
    <3>1. run.job # NoJob /\ IsCanceled(run.job) /\ pc \notin Calls
      BY <2>2 DEF LateInv
    <3> QED
      BY <1>1, <1>3, <3>1 DEF LateInv
  <2> QED
    BY <1>0, <2>1, <2>2
<1>4. CASE /\ run'.late = LateNow /\ run'.job = run.job
           /\ pc \in Calls /\ pc' \notin Calls
  <2>1. run.late = 0
    BY <1>0, <1>4 DEF LateInv
  <2>2. run.job # NoJob
    BY <1>0, <1>4 DEF Calls, Unowned
  <2>3. run'.late \in {0, 1} /\ (run'.late = 1 => IsCanceled(run.job))
    BY <1>4, <2>1, <2>2 DEF LateNow, PatientInv, HoldInv
  <2> QED
    BY <1>1, <1>4, <2>2, <2>3 DEF LateInv
<1> QED
  BY <1>2, <1>3, <1>4, CallStep

\* A cancellation lets at most the call under way finish.
LEMMA CancelStopsCorrect ==
  ASSUME Patient PROVE Spec => []CancelStopsTheRun
<1>1. Init => LateInv
  BY DEF Init, EngineInit, NoRun, LateInv
<1>2. TypeInv /\ PatientInv /\ LateInv /\ [Next]_vars => LateInv'
  BY LateStep
<1>3. LateInv => CancelStopsTheRun
  BY DEF LateInv, CancelStopsTheRun
<1> QED
  BY <1>1, <1>2, <1>3, TypeInvariant, PatientInvariant, PTL DEF Spec

\* A cancellation that was answered is obeyed, by the run and by what it leaves.
THEOREM CancelCorrect ==
  ASSUME Patient PROVE Spec => []CancelIsObeyed
<1>1. CanceledNeverPublishes /\ CancelStopsTheRun => CancelIsObeyed
  BY DEF CancelIsObeyed
<1> QED
  BY <1>1, CanceledCorrect, CancelStopsCorrect, PTL

-----------------------------------------------------------------------------
\* An outcome is announced.

\* From the commit to the event the worker is stopped only by a failing store call
\* or a restart.
LEMMA EndingStep ==
  ASSUME TypeInv, [Next]_vars, pc \in Ending, errs' = 0, crashes' = 0
  PROVE  \/ /\ run'.job = run.job /\ pc' \in Ending
            /\ events \subseteq events'
         \/ /\ pc = "announce" /\ events' = events \cup {<<run.job, run.attempt, "completed">>}
         \/ /\ pc = "announceFailure"
            /\ events' = events \cup {<<run.job, run.attempt, "failed">>}
<1> USE DEF Ending
<1>0. run \in Run /\ errs \in Nat /\ crashes \in Nat
  BY BoundsAreNumbers DEF TypeInv, TypeOK
<1>1. CASE Publish
  BY <1>0, <1>1 DEF Publish, Run
<1>2. CASE SetOutput
  BY <1>2 DEF SetOutput, Goto
<1>3. CASE Announce
  BY <1>3 DEF Announce
<1>4. CASE AnnounceFailure
  BY <1>4 DEF AnnounceFailure
<1>5. CASE StoreError \/ Restart
  BY <1>0, <1>5 DEF StoreError, Restart
<1>6. CASE WorkerStep /\ ~Publish /\ ~SetOutput /\ ~Announce /\ ~AnnounceFailure
  BY <1>6 DEF WorkerStep, Boot, PickUp, NothingQueued, WaitForWork, Woken, Claim, ReadVideo,
       OpenSource, NextWindow, DecodeError, EndOfWindows, WindowCheck, Transcribe, EndCheck,
       SaveTranscript, StartTranslating, BatchCheck, Ask, ApplyCheck, TranslatedCheck,
       SaveTranslation, WriteProgress, WriteCheck, Complete, Fail
<1>7. CASE PollAgain
  BY <1>7 DEF PollAgain
<1>8. CASE (\E j \in Jobs, p \in Opening..Done : FlushProgress(j, p)) \/ ApiNext
           \/ UNCHANGED vars
  <2>1. UNCHANGED <<pc, run, events>>
    BY <1>8 DEF FlushProgress, ApiNext, CreateJob, RetryJob, CancelJob, Download, Requeue,
         NotifyOne, Cancel, ReadCues, Remember, DeleteJob, engineVars, vars
  <2> QED
    BY <2>1
<1> QED
  BY <1>1, <1>2, <1>3, <1>4, <1>5, <1>6, <1>7, <1>8 DEF Next, EngineNext

\* Failures and restarts are counted and never forgotten, and neither is an event.
LEMMA CountersStep ==
  ASSUME TypeInv, [Next]_vars
  PROVE  /\ errs' = 0 => errs = 0
         /\ crashes' = 0 => crashes = 0
         /\ events \subseteq events'
<1>0. errs \in Nat /\ crashes \in Nat
  BY BoundsAreNumbers DEF TypeInv, TypeOK
<1>1. CASE StoreError /\ UNCHANGED <<apiVars, crashes>>
  BY <1>0, <1>1 DEF StoreError
<1>2. CASE Restart
  BY <1>0, <1>2 DEF Restart
<1>3. CASE WorkerStep /\ UNCHANGED <<apiVars, crashes>>
  BY <1>3 DEF WorkerStep, Boot, PickUp, NothingQueued, WaitForWork, Woken, Claim, ReadVideo,
       OpenSource, NextWindow, DecodeError, EndOfWindows, WindowCheck, Transcribe, EndCheck,
       SaveTranscript, StartTranslating, BatchCheck, Ask, ApplyCheck, TranslatedCheck,
       SaveTranslation, WriteProgress, WriteCheck, Complete, Fail, Publish, SetOutput,
       Announce, AnnounceFailure
<1>4. CASE PollAgain /\ UNCHANGED <<apiVars, crashes>>
  BY <1>4 DEF PollAgain
<1>5. CASE \/ (\E j \in Jobs, p \in Opening..Done : FlushProgress(j, p))
                /\ UNCHANGED <<apiVars, crashes>>
           \/ ApiNext /\ UNCHANGED crashes
           \/ UNCHANGED vars
  BY <1>5 DEF FlushProgress, ApiNext, CreateJob, RetryJob, CancelJob, Download, Requeue,
       NotifyOne, Cancel, ReadCues, Remember, DeleteJob, engineVars, vars
<1> QED
  BY <1>1, <1>2, <1>3, <1>4, <1>5 DEF Next, EngineNext

\* A job is completed or failed by the two statements that commit an outcome, and the
\* worker goes on to announce it.
LEMMA OutcomeStep ==
  ASSUME TypeInv, [Next]_vars, NEW j \in Jobs,
         rows'[j].status \in {"completed", "failed"}
  PROVE  \/ rows'[j].status = rows[j].status /\ rows'[j].attempt = rows[j].attempt
         \/ run'.job = j /\ pc' \in Ending
<1> DEFINE r == rows[j]
           s == rows'[j]
<1>1. r \in Row /\ HasAttempt(r) /\ AuthoredMove(j) /\ RowMove(j) /\ RowStep(r, s)
  BY RowsAuthored, RowsStep, RowMoveStep DEF TypeInv, TypeOK
<1>2. CASE r.status \in Terminal
  <2>1. s = [r EXCEPT !.output = s.output, !.opts = s.opts]
    BY <1>1, <1>2, RowStepFrozen
  <2> QED
    BY <1>1, <2>1 DEF Row
<1>3. CASE r.status \notin Terminal
  <2>1. ~OutsideStep(r, s)
    BY <1>1, <1>3, OutsideStepStatus DEF Terminal
  <2>2. WorkerMove(j)
    BY <1>1, <2>1 DEF RowMove
  <2>3. s # r
    BY <1>3 DEF Terminal
  <2>4. Active(r)
    BY <2>2, <2>3 DEF WorkerMove, SetStatusIfActive, CompleteIfActive, SetCues
  <2>5. ASSUME NEW c, s = SetCues(r, c, run.attempt)
        PROVE  FALSE
    <3>1. s.status = r.status
      BY <1>1, <2>5 DEF SetCues, Row
    <3> QED
      BY <1>3, <3>1 DEF Terminal
  <2>6. ASSUME NEW t \in Running, s = SetStatusIfActive(r, t, "none")
        PROVE  FALSE
    <3>1. s.status = t
      BY <1>1, <2>4, <2>6 DEF SetStatusIfActive, Moved, Row
    <3> QED
      BY <3>1 DEF Running
  <2> QED
    BY <2>2, <2>4, <2>5, <2>6 DEF WorkerMove, Ending, Running
<1> QED
  BY <1>2, <1>3

LEMMA AnnouncedStep ==
  ASSUME TypeInv, PublishedInv, PatientInv, OutcomeIsAnnounced, [Next]_vars
  PROVE  OutcomeIsAnnounced'
<1> SUFFICES ASSUME errs' = 0, crashes' = 0, NEW j \in Jobs,
                    rows'[j].status \in {"completed", "failed"}
             PROVE  \/ <<j, rows'[j].attempt, rows'[j].status>> \in events'
                    \/ run'.job = j /\ pc' \in Ending
  BY DEF OutcomeIsAnnounced, Ending
<1>1. errs = 0 /\ crashes = 0 /\ events \subseteq events'
  BY CountersStep
<1>2. CASE run'.job = j /\ pc' \in Ending
  BY <1>2
<1>3. CASE rows'[j].status = rows[j].status /\ rows'[j].attempt = rows[j].attempt
  <2>1. \/ <<j, rows[j].attempt, rows[j].status>> \in events
        \/ run.job = j /\ pc \in Ending
    BY <1>1, <1>3 DEF OutcomeIsAnnounced, Ending
  <2>2. CASE <<j, rows[j].attempt, rows[j].status>> \in events
    BY <1>1, <1>3, <2>2
  <2>3. CASE run.job = j /\ pc \in Ending
    <3>1. rows[j].attempt = run.attempt
      BY <2>3, StoreAssumption DEF PatientInv, HoldInv
    <3>2. /\ pc = "announce" => rows[j].status = "completed"
          /\ pc = "announceFailure" => rows[j].status = "failed"
      BY <1>3, <2>3, <3>1 DEF PublishedInv, Settled
    <3> QED
      BY <1>3, <2>3, <3>1, <3>2, EndingStep
  <2> QED
    BY <2>1, <2>2, <2>3
<1> QED
  BY <1>2, <1>3, OutcomeStep

\* Every outcome is announced, or about to be, unless a crash or a failing store call
\* came in between.
THEOREM AnnouncedCorrect ==
  ASSUME Patient PROVE Spec => []OutcomeIsAnnounced
<1>1. Init => OutcomeIsAnnounced
  <2>1. NoRow.status = "absent"
    BY DEF NoRow
  <2> QED
    BY <2>1 DEF Init, StoreInit, OutcomeIsAnnounced
<1>2. TypeInv /\ PublishedInv /\ PatientInv /\ OutcomeIsAnnounced /\ [Next]_vars
        => OutcomeIsAnnounced'
  BY AnnouncedStep
<1> QED
  BY <1>1, <1>2, TypeInvariant, PatientInvariant, PublishedInvariant, PTL DEF Spec

-----------------------------------------------------------------------------
\* The process implements the job lifecycle.

\* OwnedInv says whose row may run; that there is one such row also while the process
\* restarts is left to show.
LEMMA OneRunningStep ==
  ASSUME TypeInv, OwnedInv, OneRunning, [Next]_vars
  PROVE  OneRunning'
<1> SUFFICES ASSUME errs' = 0, NEW j \in Jobs, NEW k \in Jobs,
                    rows'[j].status \in Running, rows'[k].status \in Running
             PROVE  j = k
  BY DEF OneRunning
<1>1. errs = 0
  BY CountersStep
<1>2. ASSUME NEW i \in Jobs, rows[i].status \in Running, pc # "boot"
      PROVE  run.job = i
  BY <1>1, <1>2 DEF OwnedInv, RunningIsOwned
<1>3. \/ rows[j].status \in Running
      \/ j = run.job /\ pc \in {"claim", "startTranslating"}
  BY NotStarted
<1>4. \/ rows[k].status \in Running
      \/ k = run.job /\ pc \in {"claim", "startTranslating"}
  BY NotStarted
<1>5. CASE rows[j].status \in Running /\ rows[k].status \in Running
  BY <1>1, <1>5 DEF OneRunning
<1>6. CASE pc \in {"claim", "startTranslating"}
  BY <1>2, <1>3, <1>4, <1>6
<1> QED
  BY <1>3, <1>4, <1>5, <1>6

\* The phase a row is in.
Phase(r) == IF r.status \in Running THEN "running" ELSE r.status

\* A move of JobLifecycle, of one row and with the phases of all.
RowLifecycle(j) ==
  LET p == Phase(rows[j]) q == Phase(rows'[j])
      a == rows[j].attempt b == rows'[j].attempt
  IN \/ q = p /\ b = a
     \/ a = 0 /\ q = "queued" /\ b = 1
     \/ /\ p = "queued" /\ q = "running" /\ b = a
        /\ \A k \in Jobs : Phase(rows[k]) # "running"
     \/ p = "running" /\ q \in {"completed", "failed"} /\ b = a
     \/ p \in {"queued", "running"} /\ q = "canceled" /\ b = a
     \/ p \in Terminal /\ a < MaxAttempts /\ q = "queued" /\ b = a + 1
     \/ p # "absent" /\ q = "absent" /\ b = a

LEMMA RowLifecycleStep ==
  ASSUME TypeInv, OwnedInv, PatientInv, OneRunning, errs = 0, [Next]_vars, NEW j \in Jobs
  PROVE  RowLifecycle(j)
<1> DEFINE r == rows[j]
           s == rows'[j]
<1>0. r \in Row /\ HasAttempt(r) /\ AuthoredMove(j)
  BY RowsAuthored DEF TypeInv, TypeOK
<1> USE DEF RowLifecycle, Phase
<1>1. CASE s = r \/ s = Interrupted(r)
  BY <1>0, <1>1 DEF Interrupted, Row, Running
<1>2. CASE s = CancelIfActive(r)
  BY <1>0, <1>2 DEF CancelIfActive, Moved, Active, Row, Running
<1>3. CASE \/ \E p \in Opening..Done : s = SetProgress(r, p)
           \/ \E b \in BOOLEAN : s = SetOutputPath(r, b)
           \/ \E o \in Options : s = SetRenderOptions(r, o)
  BY <1>0, <1>3 DEF SetProgress, SetOutputPath, SetRenderOptions, Row
<1>4. CASE /\ \E c \in Clients : req[c].todo = "requeue" /\ req[c].job = j
           /\ r.attempt < MaxAttempts /\ s = Requeued(r)
  <2>1. r.status \in Terminal \cup {"absent"}
    BY <1>4 DEF PatientInv, RequeueInv
  <2>2. CASE r.status = "absent"
    BY <1>4, <2>2 DEF Requeued, Present
  <2>3. CASE r.status \in Terminal
    <3>1. s.status = "queued" /\ s.attempt = r.attempt + 1
      BY <1>0, <1>4, <2>3 DEF Requeued, Present, Row, Terminal
    <3> QED
      BY <1>4, <2>3, <3>1 DEF Terminal, Running
  <2> QED
    BY <2>1, <2>2, <2>3
<1>5. CASE s = Deleted(r)
  <2>1. s.status = "absent" /\ s.attempt = r.attempt
    <3>1. NoRow \in Row /\ NoRow.status = "absent"
      BY NoRowType DEF NoRow
    <3> QED
      BY <1>5, <3>1 DEF Deleted, Row
  <2> QED
    BY <2>1 DEF Running
<1>6. CASE r.attempt = 0 /\ \E o \in Options, t \in Times : s = Created(r, o, t)
  <2>1. s.status = "queued" /\ s.attempt = 1
    BY <1>0, <1>6 DEF Created, Row
  <2> QED
    BY <1>6, <2>1 DEF Running
<1>7. CASE WorkerMove(j)
  <2>1. j = run.job /\ run.job # NoJob
    BY <1>7, StoreAssumption DEF WorkerMove
  <2>2. r.status = "queued" => pc = "claim"
    BY <2>1 DEF PatientInv, HoldInv
  <2>3. CASE ~Active(r)
    BY <1>7, <2>3 DEF WorkerMove, SetStatusIfActive, CompleteIfActive, SetCues
  <2>4. CASE Active(r) /\ pc = "claim"
    <3>1. s.status = "transcribing" /\ s.attempt = r.attempt
      BY <1>0, <1>7, <2>4 DEF WorkerMove, SetStatusIfActive, Moved, Row
    <3>2. r.status = "queued" => \A k \in Jobs : rows[k].status \notin Running
      BY <2>1, <2>4 DEF OwnedInv, RunningIsOwned, Running
    <3>3. \A k \in Jobs : rows[k] \in Row
      BY DEF TypeInv, TypeOK
    <3>4. Phase(s) = "running"
      BY <3>1 DEF Running
    <3>5. CASE r.status = "queued"
      <4>1. \A k \in Jobs : Phase(rows[k]) # "running"
        BY <3>2, <3>3, <3>5 DEF Row, Statuses, Terminal
      <4> QED
        BY <3>1, <3>4, <3>5, <4>1 DEF Running
    <3>6. CASE r.status \in Running
      BY <3>1, <3>4, <3>6
    <3> QED
      BY <2>4, <3>5, <3>6 DEF Active
  <2>5. CASE Active(r) /\ pc # "claim"
    <3>1. r.status \in Running
      BY <2>2, <2>5 DEF Active
    <3>2. \/ s.status \in Running \cup {"completed", "failed"} /\ s.attempt = r.attempt
      <4>1. ASSUME NEW c, s = SetCues(r, c, run.attempt)
            PROVE  s.status = r.status /\ s.attempt = r.attempt
        BY <1>0, <4>1 DEF SetCues, Row
      <4>2. ASSUME NEW t, NEW e, s = SetStatusIfActive(r, t, e)
            PROVE  s.status = t /\ s.attempt = r.attempt
        BY <1>0, <2>5, <4>2 DEF SetStatusIfActive, Moved, Row
      <4>3. ASSUME s = CompleteIfActive(r)
            PROVE  s.status = "completed" /\ s.attempt = r.attempt
        BY <1>0, <2>5, <4>3 DEF CompleteIfActive, Moved, Row
      <4> QED
        BY <1>7, <2>5, <3>1, <4>1, <4>2, <4>3 DEF WorkerMove, Running
    <3> QED
      BY <3>1, <3>2 DEF Running
  <2> QED
    BY <2>3, <2>4, <2>5
<1> QED
  BY <1>0, <1>1, <1>2, <1>3, <1>4, <1>5, <1>6, <1>7 DEF AuthoredMove, OutsideMove

LEMMA LifecycleStep ==
  ASSUME TypeInv, OwnedInv, PatientInv, OneRunning, errs = 0, [Next]_vars
  PROVE  [L!Next]_(L!vars)
<1> DEFINE ph == [j \in Jobs |-> IF rows[j].status \in Running
                                 THEN "running" ELSE rows[j].status]
           at == [j \in Jobs |-> rows[j].attempt]
<1>1. \A j \in Jobs :
        /\ ph[j] = Phase(rows[j]) /\ ph'[j] = Phase(rows'[j])
        /\ at[j] = rows[j].attempt /\ at'[j] = rows'[j].attempt
  BY DEF Phase
<1>2. \E k : \A j \in Jobs : j # k => ph'[j] = ph[j] /\ at'[j] = at[j]
  <2>1. CASE Boot
    <3>1. \A j \in Jobs : rows[j].status \notin Running => rows'[j] = rows[j]
      BY <2>1 DEF Boot, Interrupted
    <3>2. \E k : \A j \in Jobs : j # k => rows[j].status \notin Running
      BY DEF OneRunning
    <3> QED
      BY <1>1, <3>1, <3>2
  <2>2. CASE ~Boot
    BY <1>1, <2>2, RowsAuthored DEF OneRowMoves
  <2> QED
    BY <2>1, <2>2
<1>3. PICK k : \A j \in Jobs : j # k => ph'[j] = ph[j] /\ at'[j] = at[j]
  BY <1>2
<1>4. CASE k \notin Jobs \/ (ph'[k] = ph[k] /\ at'[k] = at[k])
  <2>1. ph' = ph /\ at' = at
    BY <1>3, <1>4
  <2> QED
    BY <2>1 DEF L!vars
<1>5. CASE k \in Jobs /\ ~(ph'[k] = ph[k] /\ at'[k] = at[k])
  <2>1. ph' = [ph EXCEPT ![k] = ph'[k]] /\ at' = [at EXCEPT ![k] = at'[k]]
    BY <1>3, <1>5
  <2>2. at'[k] = at[k] => at' = at
    BY <1>3
  <2>3. RowLifecycle(k)
    BY <1>5, RowLifecycleStep
  <2>4. \/ at[k] = 0 /\ ph'[k] = "queued" /\ at'[k] = 1
        \/ /\ ph[k] = "queued" /\ ph'[k] = "running" /\ at'[k] = at[k]
           /\ \A j \in Jobs : ph[j] # "running"
        \/ ph[k] = "running" /\ ph'[k] \in {"completed", "failed"} /\ at'[k] = at[k]
        \/ ph[k] \in {"queued", "running"} /\ ph'[k] = "canceled" /\ at'[k] = at[k]
        \/ /\ ph[k] \in Terminal /\ at[k] < MaxAttempts
           /\ ph'[k] = "queued" /\ at'[k] = at[k] + 1
        \/ ph[k] # "absent" /\ ph'[k] = "absent" /\ at'[k] = at[k]
    BY <1>1, <1>5, <2>3 DEF RowLifecycle
  <2> HIDE DEF ph, at
  <2>5. \/ L!Submit(k) \/ L!Start(k) \/ L!Finish(k) \/ L!Cancel(k) \/ L!Retry(k) \/ L!Delete(k)
    BY <2>1, <2>2, <2>4
       DEF ph, at, L!Submit, L!Start, L!Finish, L!Cancel, L!Retry, L!Delete, L!Become,
           L!Outcomes, Terminal
  <2> QED
    BY <1>5, <2>5 DEF L!Next
<1> QED
  BY <1>4, <1>5

\* Of patient clients and a store that does not fail, the process implements the job
\* lifecycle across restarts: what users see moves as JobLifecycle says, one job
\* running at a time.
THEOREM LifecycleCorrect ==
  ASSUME Patient, MaxStoreErrors = 0 PROVE Spec => Lifecycle
<1>1. Init => L!Init
  <2>1. NoRow.status = "absent" /\ NoRow.attempt = 0
    BY DEF NoRow
  <2> QED
    BY <2>1 DEF Init, StoreInit, L!Init, Running
<1>2. Init => OneRunning
  <2>1. NoRow.status = "absent"
    BY DEF NoRow
  <2> QED
    BY <2>1 DEF Init, StoreInit, OneRunning, Running
<1>3. TypeInv /\ OwnedInv /\ OneRunning /\ [Next]_vars => OneRunning'
  BY OneRunningStep
<1>4. TypeInv => errs = 0
  BY DEF TypeInv, TypeOK
<1>5. TypeInv /\ OwnedInv /\ PatientInv /\ OneRunning /\ [Next]_vars => [L!Next]_(L!vars)
  BY <1>4, LifecycleStep
<1> QED
  BY <1>1, <1>2, <1>3, <1>5, TypeInvariant, PatientInvariant, OwnedInvariant, PTL
     DEF Spec, Lifecycle, L!Spec

=============================================================================
