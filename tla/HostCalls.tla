------------------------------- MODULE HostCalls -------------------------------
(***************************************************************************)
(* One call of a sidecar to the Core that hosts it (app-events/lib.rs):    *)
(* opening a model stream, publishing into a room, reporting usage,        *)
(* emitting an event, asking a provider's status, calling a provider, and  *)
(* asking whether an agent may use one.  A client sends one request, waits *)
(* for one answer and never repeats itself.                                *)
(*                                                                         *)
(* Core and Gateway are external: Core takes a request or refuses it, a    *)
(* Gateway that is given a time answers within it, and the hops around it  *)
(* take less than the margin.                                              *)
(***************************************************************************)
EXTENDS Integers, FiniteSets

CONSTANTS
  TIMEOUT_MARGIN, \* ManagedProviderCall::TIMEOUT_MARGIN_MS
  MAX_TIMEOUT,    \* ManagedProviderCall::MAX_TIMEOUT_MS, also Gateway's ceiling here
  ClientBound,    \* the time-out of the app's own HTTP client
  CorePort        \* the port the hosting Core listens on

HostCallsAssumption ==
  /\ TIMEOUT_MARGIN \in Nat \ {0} /\ MAX_TIMEOUT \in Nat \ {0} /\ ClientBound \in Nat \ {0}
  /\ CorePort \in Nat \ {0}

Kinds == {"stream", "publish", "usage", "emit", "status", "call", "authorize"}
BestEffort == {"publish", "usage", "emit"}     \* those with a variant that swallows errors

\* What a variable of the environment holds: absent or unreadable (0), or a port.
Ports == {0, CorePort}

VARIABLES
  env,      \* [port, bind, token]: RYU_CORE_PORT, RYU_BIND, RYU_EXT_TOKEN
  call,     \* [kind, valid, timeout, quiet]
  at,       \* "idle" | "sent" | "over"
  taken,    \* what Core made of the request: "unseen" | "taken" | "refused"
  allows,   \* its verdict on an agent: "yes" | "no" | "unsaid"
  answer,   \* "none" | "good" | "garbled" | "error"
  clock,    \* time since the request
  result,   \* what the client returns
  told      \* what its caller sees

vars == <<env, call, at, taken, allows, answer, clock, result, told>>

Hop == TIMEOUT_MARGIN - 1

-----------------------------------------------------------------------------
\* core_endpoint_for, core_model_stream_endpoint: the port, else the port of
\* the address Core is bound to.
Endpoint == IF env.port # 0 THEN env.port ELSE env.bind
is_hosted == Endpoint # 0 /\ env.token

\* validate: of a request, or that a grant is given; emit and status have none.
Refused == call.kind \notin {"emit", "status"} /\ ~call.valid

Deadline ==
  IF call.kind = "call" /\ call.timeout # 0 THEN call.timeout + TIMEOUT_MARGIN ELSE ClientBound

\* Mutant: an agent is refused only when Core says so.
OutcomeUnlessDenied ==
  IF answer = "error" THEN "rejected"
  ELSE IF answer = "garbled" /\ call.kind \notin {"publish", "stream"} THEN "transport"
  ELSE IF call.kind = "authorize" /\ allows = "no" THEN "rejected" ELSE "ok"

\* What the client makes of an answer: the status first, then the body, which
\* publish and stream do not read here.
Outcome ==
  IF answer = "error" THEN "rejected"
  ELSE IF answer = "garbled" /\ call.kind \notin {"publish", "stream"} THEN "transport"
  ELSE IF call.kind = "authorize" /\ allows # "yes" THEN "rejected" ELSE "ok"

-----------------------------------------------------------------------------
Init ==
  /\ env \in [port : Ports, bind : Ports, token : BOOLEAN]
  /\ call \in [kind : Kinds, valid : BOOLEAN, timeout : 0 .. MAX_TIMEOUT, quiet : BOOLEAN]
  /\ call.timeout # 0 => call.kind = "call"
  /\ call.quiet => call.kind \in BestEffort
  /\ at = "idle" /\ taken = "unseen" /\ allows = "unsaid" /\ answer = "none"
  /\ clock = 0 /\ result = "none" /\ told = "none"

\* emit, report, publish_best_effort: a failure is logged, never returned.
Return(outcome) ==
  /\ at' = "over"
  /\ result' = outcome
  /\ told' = IF call.quiet THEN "nothing" ELSE outcome

SendCall ==
  /\ at = "idle"
  /\ IF Refused THEN Return("invalid")
     ELSE IF ~is_hosted THEN Return("not_hosted")
     ELSE at' = "sent" /\ UNCHANGED <<result, told>>
  /\ UNCHANGED <<env, call, taken, allows, answer, clock>>

\* Core takes the request, or refuses it; of an agent it says what it allows.
CoreTakes ==
  /\ at = "sent" /\ taken = "unseen"
  /\ \/ /\ taken' = "taken"
        /\ IF call.kind = "authorize" THEN allows' \in {"yes", "no", "unsaid"} ELSE UNCHANGED allows
     \/ taken' = "refused" /\ UNCHANGED allows
  /\ UNCHANGED <<env, call, at, answer, clock, result, told>>

CoreAnswers ==
  /\ at = "sent" /\ taken # "unseen" /\ answer = "none"
  /\ answer' \in IF taken = "refused" THEN {"error"} ELSE {"good", "garbled"}
  /\ UNCHANGED <<env, call, at, taken, allows, clock, result, told>>

\* Gateway answers in the time it was given, and its answer takes less than
\* the margin to arrive.
MustAnswer == call.timeout # 0 /\ clock = call.timeout + Hop

\* Mutant: the client has no time-out.
TickOn ==
  /\ at = "sent" /\ answer = "none"
  /\ ~MustAnswer
  /\ clock' = clock + 1
  /\ UNCHANGED <<env, call, at, taken, allows, answer, result, told>>

Tick ==
  /\ at = "sent" /\ answer = "none"
  /\ clock < Deadline
  /\ ~MustAnswer
  /\ clock' = clock + 1
  /\ UNCHANGED <<env, call, at, taken, allows, answer, result, told>>

TimesOut ==
  /\ at = "sent" /\ answer = "none" /\ clock = Deadline
  /\ Return("timed_out")
  /\ UNCHANGED <<env, call, taken, allows, answer, clock>>

ConnectionFails ==
  /\ at = "sent"
  /\ Return("transport")
  /\ UNCHANGED <<env, call, taken, allows, answer, clock>>

ReadAnswer ==
  /\ at = "sent" /\ answer # "none"
  /\ Return(Outcome)
  /\ UNCHANGED <<env, call, taken, allows, answer, clock>>

Next ==
  \/ SendCall \/ CoreTakes \/ CoreAnswers \/ Tick \/ TimesOut \/ ConnectionFails \/ ReadAnswer

Spec == Init /\ [][Next]_vars

-----------------------------------------------------------------------------
Results == {"none", "invalid", "not_hosted", "transport", "timed_out", "rejected", "ok"}

TypeOK ==
  /\ at \in {"idle", "sent", "over"}
  /\ taken \in {"unseen", "taken", "refused"} /\ allows \in {"yes", "no", "unsaid"}
  /\ answer \in {"none", "good", "garbled", "error"}
  /\ clock \in 0 .. MAX_TIMEOUT + TIMEOUT_MARGIN + ClientBound
  /\ result \in Results /\ told \in Results \cup {"nothing"}

\* What a client returns is what happened at Core: a success was taken there,
\* an agent is let through only by a plain yes, a request that was never sent
\* was never seen, and a call with a time of its own is not cut off by the
\* client before Gateway had that time.
AnswersAreHonest ==
  /\ result = "ok" => taken = "taken" /\ (call.kind = "authorize" => allows = "yes")
  /\ result \in {"invalid", "not_hosted"} => taken = "unseen"
  /\ result = "rejected" => taken = "refused" \/ (call.kind = "authorize" /\ allows # "yes")
  /\ taken # "unseen" => call.valid \/ call.kind \in {"emit", "status"}
  /\ result = "timed_out" => call.timeout = 0

-----------------------------------------------------------------------------
(* The inductive invariant behind AnswersAreHonest.                        *)

\* What was sent had passed the client's own checks.
Sent ==
  /\ at = "idle" => taken = "unseen"
  /\ at # "over" => result = "none"
  /\ at = "sent" => call.valid \/ call.kind \in {"emit", "status"}

\* An answer is Core's to the request it took or refused.
Answered ==
  /\ answer # "none" => taken # "unseen"
  /\ answer = "error" => taken = "refused"
  /\ answer \in {"good", "garbled"} => taken = "taken"

\* A call with a time of its own is answered a margin before the client's
\* deadline.
InTime == call.timeout # 0 => call.kind = "call" /\ clock <= call.timeout + Hop

HonestInv ==
  /\ call \in [kind : Kinds, valid : BOOLEAN, timeout : 0 .. MAX_TIMEOUT, quiet : BOOLEAN]
  /\ at \in {"idle", "sent", "over"}
  /\ taken \in {"unseen", "taken", "refused"}
  /\ answer \in {"none", "good", "garbled", "error"}
  /\ clock \in Nat
  /\ Sent /\ Answered /\ InTime
  /\ AnswersAreHonest

=============================================================================
