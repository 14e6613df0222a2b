---------------------------- MODULE Transcription ----------------------------
(***************************************************************************)
(* From the file to the speech engine: decode_windows (media.rs) on its    *)
(* blocking thread, the bounded channel of windows, the task that reports  *)
(* progress, and the loop of run_job (engine.rs) that takes the windows.   *)
(* Engine sees of all this NextWindow, DecodeError and EndOfWindows.       *)
(*                                                                         *)
(* A packet the container gives another track, or that does not decode, is *)
(* skipped and changes nothing; `decoded' is what the others amounted to.  *)
(***************************************************************************)
EXTENDS WindowCutter

CONSTANTS
  WindowQueue,   \* capacity of the channel
  Packets,       \* what one packet may decode to, after resampling
  MaxSamples     \* bound: samples of one file

ASSUME TranscriptionAssumption ==
  /\ WindowQueue \in Nat \ {0}
  /\ Packets \subseteq Seq(Nat)
  /\ \A p \in Packets : p # <<>> /\ Len(p) <= Lo
  /\ MaxSamples \in Nat

VARIABLES
  dec,       \* where the decoder stands
  acc,       \* its WindowAccumulator
  left,      \* samples of the current packet not yet pushed
  hand,      \* the window it is sending: a sequence of at most one
  chan,      \* windows in the channel
  errMsg,    \* the decoder's error waits behind them
  rxOpen,    \* the receiver has not been dropped
  reports,   \* progress reports not yet received
  prog,      \* the progress task: "running" or "over"
  con,       \* where run_job stands
  taken,     \* the windows it has received
  decoded,   \* history: every sample pushed
  closedAt   \* history: how many there were when the receiver was dropped

decVars == <<dec, acc, left, hand, decoded>>
conVars == <<con, taken, rxOpen, closedAt>>
vars == <<dec, acc, left, hand, chan, errMsg, rxOpen, reports, prog, con, taken,
          decoded, closedAt>>

Over == {"finished", "canceled", "failed"}

Init ==
  /\ dec = "packet"
  /\ acc = New
  /\ left = <<>>
  /\ hand = <<>>
  /\ chan = <<>>
  /\ errMsg = FALSE
  /\ rxOpen = TRUE
  /\ reports = 0
  /\ prog = "running"
  /\ con = "recv"
  /\ taken = <<>>
  /\ decoded = <<>>
  /\ closedAt = 0

-----------------------------------------------------------------------------
\* decode_windows.

NextPacket(p) ==
  /\ dec = "packet"
  /\ Len(decoded) + Len(p) <= MaxSamples
  /\ left' = p
  /\ dec' = "push"
  /\ UNCHANGED <<acc, hand, chan, errMsg, reports, prog, conVars, decoded>>

\* End of file, or a track change.
EndOfStream ==
  /\ dec = "packet"
  /\ dec' = "remainder"
  /\ UNCHANGED <<acc, left, hand, chan, errMsg, reports, prog, conVars, decoded>>

\* The file does not open, or a packet fails in a way that is not skipped.
StreamError ==
  /\ dec = "packet"
  /\ dec' = "sendError"
  /\ UNCHANGED <<acc, left, hand, chan, errMsg, reports, prog, conVars, decoded>>

\* Mutant: the packet is taken for done after its first sample.
PushFirstSample ==
  /\ dec = "push"
  /\ acc' = Push(acc, Head(left))
  /\ decoded' = Append(decoded, Head(left))
  /\ left' = Tail(left)
  /\ dec' = "drain"
  /\ UNCHANGED <<hand, chan, errMsg, reports, prog, conVars>>

PushSample ==
  /\ dec = "push"
  /\ acc' = Push(acc, Head(left))
  /\ decoded' = Append(decoded, Head(left))
  /\ left' = Tail(left)
  /\ dec' = IF Len(left) = 1 THEN "drain" ELSE "push"
  /\ UNCHANGED <<hand, chan, errMsg, reports, prog, conVars>>

\* The windows a packet completed are reported and sent one by one.
DrainReady ==
  /\ dec = "drain"
  /\ HasReady(acc)
  /\ acc' = TakeReady(acc)
  /\ hand' = <<Head(acc.ready)>>
  /\ reports' = reports + 1
  /\ dec' = "send"
  /\ UNCHANGED <<left, chan, errMsg, prog, conVars, decoded>>

Drained ==
  /\ dec = "drain"
  /\ ~HasReady(acc)
  /\ dec' = "packet"
  /\ UNCHANGED <<acc, left, hand, chan, errMsg, reports, prog, conVars, decoded>>

\* Mutant: the channel has no bound.
SendUnbounded ==
  /\ dec \in {"send", "sendLast"}
  /\ rxOpen
  /\ chan' = Append(chan, Head(hand))
  /\ hand' = <<>>
  /\ dec' = IF dec = "send" THEN "drain" ELSE "done"
  /\ UNCHANGED <<acc, left, errMsg, reports, prog, conVars, decoded>>

\* blocking_send: waits for room while the receiver is there.
Send ==
  /\ dec \in {"send", "sendLast"}
  /\ rxOpen
  /\ Len(chan) < WindowQueue
  /\ chan' = Append(chan, Head(hand))
  /\ hand' = <<>>
  /\ dec' = IF dec = "send" THEN "drain" ELSE "done"
  /\ UNCHANGED <<acc, left, errMsg, reports, prog, conVars, decoded>>

\* Mutant: a refused window is dropped and decoding goes on.
SendRefusedIgnored ==
  /\ dec \in {"send", "sendLast"}
  /\ ~rxOpen
  /\ hand' = <<>>
  /\ dec' = IF dec = "send" THEN "drain" ELSE "done"
  /\ UNCHANGED <<acc, left, chan, errMsg, reports, prog, conVars, decoded>>

\* The receiver is gone: on_window answers false and the decoder stops.
SendRefused ==
  /\ dec \in {"send", "sendLast"}
  /\ ~rxOpen
  /\ hand' = <<>>
  /\ dec' = "done"
  /\ UNCHANGED <<acc, left, chan, errMsg, reports, prog, conVars, decoded>>

LastWindow ==
  /\ dec = "remainder"
  /\ IF HasRemainder(acc)
     THEN /\ acc' = TakeRemainder(acc)
          /\ hand' = <<Remainder(acc)>>
          /\ reports' = reports + 1
          /\ dec' = "sendLast"
     ELSE /\ dec' = "done"
          /\ UNCHANGED <<acc, hand, reports>>
  /\ UNCHANGED <<left, chan, errMsg, prog, conVars, decoded>>

\* The error is the last message; with the receiver gone it is lost.
SendError ==
  /\ dec = "sendError"
  /\ rxOpen => Len(chan) < WindowQueue
  /\ errMsg' = rxOpen
  /\ dec' = "done"
  /\ UNCHANGED <<acc, left, hand, chan, reports, prog, conVars, decoded>>

-----------------------------------------------------------------------------
\* run_job.

\* Whatever is left in the channel goes with the receiver.
DropReceiver ==
  /\ rxOpen' = FALSE
  /\ closedAt' = Len(decoded)
  /\ chan' = <<>>
  /\ errMsg' = FALSE

ReceiveWindow ==
  /\ con = "recv"
  /\ chan # <<>>
  /\ taken' = Append(taken, Head(chan))
  /\ chan' = Tail(chan)
  /\ con' = "check"
  /\ UNCHANGED <<decVars, errMsg, rxOpen, reports, prog, closedAt>>

\* The error leaves run_job: the receiver goes, the two tasks are left to
\* themselves.
ReceiveError ==
  /\ con = "recv"
  /\ chan = <<>>
  /\ errMsg
  /\ con' = "failed"
  /\ DropReceiver
  /\ UNCHANGED <<decVars, reports, prog, taken>>

\* recv answers None once the decoder, and with it the sender, is gone.
ReceiveNone ==
  /\ con = "recv"
  /\ chan = <<>>
  /\ ~errMsg
  /\ dec = "done"
  /\ con' = "finished"
  /\ prog' = "over"
  /\ UNCHANGED <<decVars, chan, errMsg, rxOpen, reports, taken, closedAt>>

\* The job was not canceled.
GoOn ==
  /\ con = "check"
  /\ con' = "transcribe"
  /\ UNCHANGED <<decVars, chan, errMsg, rxOpen, reports, prog, taken, closedAt>>

\* Mutant: the receiver is kept while the decoder is awaited.
StopKeepingReceiver ==
  /\ con = "check"
  /\ con' = "join"
  /\ prog' = "over"
  /\ UNCHANGED <<decVars, chan, errMsg, rxOpen, reports, taken, closedAt>>

\* It was, or the read failed: the receiver is dropped before the decoder is
\* awaited.
Stop ==
  /\ con = "check"
  /\ con' = "join"
  /\ DropReceiver
  /\ prog' = "over"
  /\ UNCHANGED <<decVars, reports, taken>>

Joined ==
  /\ con = "join"
  /\ dec = "done"
  /\ con' = "canceled"
  /\ UNCHANGED <<decVars, chan, errMsg, rxOpen, reports, prog, taken, closedAt>>

Transcribed ==
  /\ con = "transcribe"
  /\ con' = "recv"
  /\ UNCHANGED <<decVars, chan, errMsg, rxOpen, reports, prog, taken, closedAt>>

TranscriptionFailed ==
  /\ con = "transcribe"
  /\ con' = "failed"
  /\ DropReceiver
  /\ UNCHANGED <<decVars, reports, prog, taken>>

-----------------------------------------------------------------------------
\* The progress task.

Report ==
  /\ prog = "running"
  /\ reports > 0
  /\ reports' = reports - 1
  /\ UNCHANGED <<decVars, chan, errMsg, prog, conVars>>

\* Its channel closes with the decoder.
NoMoreReports ==
  /\ prog = "running"
  /\ reports = 0
  /\ dec = "done"
  /\ prog' = "over"
  /\ UNCHANGED <<decVars, chan, errMsg, reports, conVars>>

-----------------------------------------------------------------------------

DecoderStep ==
  \/ \E p \in Packets : NextPacket(p)
  \/ EndOfStream \/ StreamError \/ PushSample \/ DrainReady \/ Drained
  \/ Send \/ SendRefused \/ LastWindow \/ SendError

ConsumerStep ==
  \/ ReceiveWindow \/ ReceiveError \/ ReceiveNone \/ GoOn \/ Stop \/ Joined
  \/ Transcribed \/ TranscriptionFailed

ProgressStep == Report \/ NoMoreReports

Next == DecoderStep \/ ConsumerStep \/ ProgressStep

Spec == Init /\ [][Next]_vars

\* The thread and the two tasks are scheduled, the engine answers, the file ends.
FairSpec ==
  Spec /\ WF_vars(DecoderStep) /\ WF_vars(ConsumerStep) /\ WF_vars(ProgressStep)

-----------------------------------------------------------------------------

TypeOK ==
  /\ dec \in {"packet", "push", "drain", "send", "remainder", "sendLast", "sendError",
              "done"}
  /\ acc \in WindowAccumulator
  /\ left \in Seq(Nat) /\ ((dec = "push") <=> (left # <<>>))
  /\ hand \in Seq(Window) /\ Len(hand) = IF dec \in {"send", "sendLast"} THEN 1 ELSE 0
  /\ chan \in Seq(Window)
  /\ errMsg \in BOOLEAN
  /\ rxOpen \in BOOLEAN
  /\ reports \in Nat
  /\ prog \in {"running", "over"}
  /\ con \in {"recv", "check", "transcribe", "join"} \cup Over
  /\ taken \in Seq(Window)
  /\ decoded \in Seq(Nat)
  /\ closedAt \in Nat

\* The positions a window says it spans: Begin(w) + 1 to End(w).
Begin(w) == w.offset * PerMs
End(w)   == Begin(w) + Len(w.samples)

\* The windows the engine hears are the decoded audio: each holds the samples of
\* the stretch its offset names, and begins where the one before it ends, from
\* the first sample on.  Offsets pass through milliseconds and lose nothing.
WindowsAreTheAudio ==
  \A i \in 1..Len(taken) :
    /\ Begin(taken[i]) = IF i = 1 THEN 0 ELSE End(taken[i - 1])
    /\ End(taken[i]) <= Len(decoded)
    /\ taken[i].samples = SubSeq(decoded, Begin(taken[i]) + 1, End(taken[i]))

\* A window stays short of the hard maximum, whatever the audio, and only the last
\* one may be shorter than the search band begins.
WindowBounds ==
  \A i \in 1..Len(taken) :
    /\ Len(taken[i].samples) < Hi
    /\ Len(taken[i].samples) >= IF i < Len(taken) THEN Lo ELSE MinTail

\* A run that goes on to save its transcript has heard the whole file, but for a
\* sliver too short for speech.
NothingIsLost ==
  con = "finished" =>
    Len(decoded) < MinTail + IF taken = <<>> THEN 0 ELSE End(taken[Len(taken)])

\* A handful of windows is in memory.
MemoryIsBounded ==
  /\ Len(chan) <= WindowQueue
  /\ Len(chan) + Len(hand) + Len(acc.ready) <= WindowQueue + 1
  /\ Len(acc.samples) < Hi

\* A decoder whose windows nobody takes stops at its next window, not at the end of
\* the file.
StopReachesTheDecoder == ~rxOpen => Len(decoded) < closedAt + Hi + Lo

\* The decoder thread of run_job, many times faster than the engine, runs ahead by
\* a bounded part of the file while it is heard, and after nobody listens any more.
DecoderIsBounded == MemoryIsBounded /\ StopReachesTheDecoder

\* On every path out of run_job, errors included, the decoder thread and the
\* progress task end: nobody waits for room, a window or a report for ever.
EveryTaskEnds == <>(con \in Over /\ dec = "done" /\ prog = "over")

\* "It is the quietest 100 ms frame": when the band holds a silence as long as two
\* frames, so that one frame lies in it however the frames are laid, the cut is
\* in a silence.
CutsInSilence ==
  \A i \in 1..Len(taken) :
    LET at == Begin(taken[i])  cut == End(taken[i]) IN
    /\ Len(decoded) >= at + Hi
    /\ \E p \in (at + Lo)..(at + Hi) :
         p + 2 * Frame <= at + Hi /\ \A q \in 1..(2 * Frame) : decoded[p + q] = 0
    => decoded[cut] = 0 /\ decoded[cut + 1] = 0

=============================================================================
