------------------------------ MODULE ModelStream ------------------------------
(***************************************************************************)
(* The model stream of a sidecar (app-events/lib.rs, ModelStreamClient):   *)
(* Core's answer arrives in chunks of any size, is cut into frames at the  *)
(* empty lines, and each frame becomes at most one event of the app.       *)
(*                                                                         *)
(* The wire is a sequence of lines, the unit a chunk may end after:        *)
(* "delta", "completed", "failed" and "garbled" (not JSON) are data lines, *)
(* "other" is data of no known type, "binary" is not UTF-8, "comment" a    *)
(* line without data, Blank the empty line.                                *)
(***************************************************************************)
EXTENDS Integers, Sequences

CONSTANT MaxWire        \* bound: lines Core sends
ModelStreamAssumption == MaxWire \in Nat

Blank == ""
DataLines == {"delta", "completed", "failed", "garbled", "other"}
Lines == DataLines \cup {"binary", "comment", Blank}

VARIABLES
  wire,      \* lines sent by Core, not yet received
  heard,     \* lines received
  buffer,    \* lines received and not yet cut into frames
  items,     \* what the app was given
  upstream,  \* "open" | "ended" | "broken"
  reading    \* "chunk" | "frames" | "over"

vars == <<wire, heard, buffer, items, upstream, reading>>

Terminals == {"completed", "failed", "garbled", "transport", "unfinished"}
Terminal(item) == item \in Terminals

-----------------------------------------------------------------------------
\* find_sse_frame_boundary: the last line before the first empty line that
\* follows another line.
Boundaries(lines) == {i \in 1 .. Len(lines) - 1 : lines[i + 1] = Blank}
FirstOf(S) == CHOOSE i \in S : \A j \in S : i <= j
Boundary(lines) == FirstOf(Boundaries(lines))

\* parse_model_stream_frame: it is text, and its first data line decides.
Parsed(frame) ==
  LET data == {i \in 1 .. Len(frame) : frame[i] \in DataLines}
  IN IF \E i \in 1 .. Len(frame) : frame[i] = "binary" THEN <<"garbled">>
     ELSE IF data = {} \/ frame[FirstOf(data)] = "other" THEN <<>>
     ELSE <<frame[FirstOf(data)]>>

-----------------------------------------------------------------------------
Init ==
  /\ wire = <<>> /\ heard = <<>> /\ buffer = <<>> /\ items = <<>>
  /\ upstream = "open" /\ reading = "chunk"

Give(item) == items' = items \o item

SendLine(line) ==
  /\ upstream = "open" /\ reading # "over"
  /\ Len(wire) + Len(heard) < MaxWire
  /\ wire' = Append(wire, line)
  /\ UNCHANGED <<heard, buffer, items, upstream, reading>>

EndOfBody ==
  /\ upstream = "open" /\ reading # "over"
  /\ upstream' \in {"ended", "broken"}
  /\ UNCHANGED <<wire, heard, buffer, items, reading>>

ReceiveChunk(n) ==
  /\ reading = "chunk"
  /\ n \in 1 .. Len(wire)
  /\ heard' = heard \o SubSeq(wire, 1, n)
  /\ buffer' = buffer \o SubSeq(wire, 1, n)
  /\ wire' = SubSeq(wire, n + 1, Len(wire))
  /\ reading' = "frames"
  /\ UNCHANGED <<items, upstream>>

\* Mutant: what the buffer holds after a terminal event is given too.
NextFrameOfAny ==
  /\ reading = "frames"
  /\ Boundaries(buffer) # {}
  /\ Give(Parsed(SubSeq(buffer, 1, Boundary(buffer))))
  /\ buffer' = SubSeq(buffer, Boundary(buffer) + 2, Len(buffer))
  /\ UNCHANGED <<wire, heard, upstream, reading>>

\* One frame of the buffer; a terminal event ends both loops.
NextFrame ==
  /\ reading = "frames"
  /\ Boundaries(buffer) # {}
  /\ LET item == Parsed(SubSeq(buffer, 1, Boundary(buffer)))
     IN /\ Give(item)
        /\ reading' = IF \E i \in DOMAIN item : Terminal(item[i]) THEN "over" ELSE "frames"
  /\ buffer' = SubSeq(buffer, Boundary(buffer) + 2, Len(buffer))
  /\ UNCHANGED <<wire, heard, upstream>>

NoMoreFrames ==
  /\ reading = "frames"
  /\ Boundaries(buffer) = {}
  /\ reading' = "chunk"
  /\ UNCHANGED <<wire, heard, buffer, items, upstream>>

\* The body ends, after its last chunk; a broken one may lose what was on the wire.
Close ==
  /\ reading = "chunk"
  /\ \/ upstream = "ended" /\ wire = <<>> /\ Give(<<"unfinished">>)
     \/ upstream = "broken" /\ Give(<<"transport">>)
  /\ reading' = "over"
  /\ UNCHANGED <<wire, heard, buffer, upstream>>

Next ==
  \/ \E line \in Lines : SendLine(line)
  \/ \E n \in 1 .. MaxWire : ReceiveChunk(n)
  \/ EndOfBody \/ NextFrame \/ NoMoreFrames \/ Close

Spec == Init /\ [][Next]_vars

-----------------------------------------------------------------------------
TypeOK ==
  /\ wire \in Seq(Lines) /\ heard \in Seq(Lines) /\ buffer \in Seq(Lines)
  /\ items \in Seq(Terminals \cup {"delta"})
  /\ upstream \in {"open", "ended", "broken"} /\ reading \in {"chunk", "frames", "over"}

\* The events of a body, read line by line: whatever the chunks were.
Read(state, line) ==
  IF state.over THEN state
  ELSE IF line # Blank \/ state.frame = <<>>
       THEN [state EXCEPT !.frame = Append(@, line)]
  ELSE LET item == Parsed(state.frame)
       IN [frame |-> <<>>, items |-> state.items \o item,
           over  |-> \E i \in DOMAIN item : Terminal(item[i])]
Reader(lines) ==
  LET after[n \in 0 .. Len(lines)] ==
        IF n = 0 THEN [frame |-> <<>>, items |-> <<>>, over |-> FALSE]
        ELSE Read(after[n - 1], lines[n])
  IN after[Len(lines)]
Events(lines) == Reader(lines).items

\* The app is told one ending, and nothing after it; and whatever the chunks
\* of the answer were, it is told what the body says, in its order.
StreamIsWhole ==
  /\ \A i \in 1 .. Len(items) : Terminal(items[i]) <=> (reading = "over" /\ i = Len(items))
  /\ reading = "chunk" => items = Events(heard)
  /\ reading = "over" =>
       \E end \in {<<>>, <<"transport">>, <<"unfinished">>} : items = Events(heard) \o end

\* What was cut off the buffer a reader of lines has read to the same end, and
\* the buffer begins with what it holds of the next frame.
CutIsRead ==
  LET cut == Len(heard) - Len(buffer)
  IN /\ cut \in Nat /\ \A i \in 1 .. Len(buffer) : buffer[i] = heard[cut + i]
     /\ reading # "over" =>
          Reader(SubSeq(heard, 1, cut)) = [frame |-> <<>>, items |-> items, over |-> FALSE]
     /\ reading = "chunk" => Boundaries(buffer) = {}

StreamInv == TypeOK /\ CutIsRead /\ StreamIsWhole

=============================================================================
