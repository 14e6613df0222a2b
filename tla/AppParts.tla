------------------------------ MODULE AppParts ------------------------------
(***************************************************************************)
(* What the app does besides its jobs and windows (streams and calls of    *)
(* Core, translation, cues, resampling, settings), side by side: parts     *)
(* that share no state, each a behavior of its own (PartVars).             *)
(*                                                                         *)
(* A part's constants are named as its module names them where no other    *)
(* part has one of that name. No part is bounded by another.               *)
(***************************************************************************)
EXTENDS PartVars, Naturals

CONSTANTS
  \* ModelStream
  MaxWire,
  \* HostCalls
  TIMEOUT_MARGIN, MAX_TIMEOUT, ClientBound, CorePort,
  \* Translation
  BATCH, NumCues,
  \* Cues
  BUDGET, MAX_CUE_MS, MIN_CUE_MS, CUE_GAP_MS, WindowMs, NumWindows, Segments,
  \* Resampler
  TARGET_RATE, Rates, MaxPacket, MaxFed,
  \* Settings
  Fields, Puts

Stream == INSTANCE ModelStream WITH
  wire <- v1, heard <- v2, buffer <- v3, items <- v4, upstream <- v5,
  reading <- v6

Call == INSTANCE HostCalls WITH
  env <- v1, call <- v2, at <- v3, taken <- v4, allows <- v5,
  answer <- v6, clock <- v7, result <- v8, told <- v9

Translate == INSTANCE Translation WITH
  translated <- v1, base <- v2, got <- v3, offset <- v4, at <- v5,
  count <- v6, progress <- v7

Subtitles == INSTANCE Cues WITH
  cues <- v1, window <- v2, spoken <- v3, normal <- v4,
  dropped <- v5

Audio == INSTANCE Resampler WITH
  carry <- v1, position <- v2, rate <- v3, fed <- v4, out <- v5,
  since <- v6, sampling <- v7

Requests == INSTANCE Settings WITH
  stored <- v1, names <- v2, draft <- v3, at <- v4, first <- v5,
  misread <- v6

ASSUME AppPartsAssumption ==
  /\ Stream!ModelStreamAssumption
  /\ Call!HostCallsAssumption
  /\ Translate!TranslationAssumption
  /\ Subtitles!CuesAssumption
  /\ Audio!ResamplerAssumption
  /\ Requests!SettingsAssumption

-----------------------------------------------------------------------------
AppInit ==
  \/ part = "stream" /\ Stream!Init /\ Unused6
  \/ part = "call" /\ Call!Init /\ Unused9
  \/ part = "translation" /\ Translate!Init /\ Unused7
  \/ part = "cues" /\ Subtitles!Init /\ Unused5
  \/ part = "audio" /\ Audio!Init /\ Unused7
  \/ part = "settings" /\ Requests!Init /\ Unused6

ModelStreamStep == part = "stream" /\ Stream!Next /\ UNCHANGED <<part, Rest6>>
HostCallsStep == part = "call" /\ Call!Next /\ UNCHANGED <<part, Rest9>>
TranslationStep == part = "translation" /\ Translate!Next /\ UNCHANGED <<part, Rest7>>
CuesStep == part = "cues" /\ Subtitles!Next /\ UNCHANGED <<part, Rest5>>
ResamplerStep == part = "audio" /\ Audio!Next /\ UNCHANGED <<part, Rest7>>
SettingsStep == part = "settings" /\ Requests!Next /\ UNCHANGED <<part, Rest6>>

AppNext ==
  \/ ModelStreamStep \/ HostCallsStep \/ TranslationStep \/ CuesStep
  \/ ResamplerStep \/ SettingsStep

AppSpec == AppInit /\ [][AppNext]_vars

-----------------------------------------------------------------------------
(* What each part keeps, stated and explained in its module.               *)

\* Every part's variables are what its module says they are.
AppTypeOK ==
  /\ part = "stream" => Stream!TypeOK
  /\ part = "call" => Call!TypeOK
  /\ part = "translation" => Translate!TypeOK
  /\ part = "cues" => Subtitles!TypeOK
  /\ part = "audio" => Audio!TypeOK
  /\ part = "settings" => Requests!TypeOK

\* app-events: an app is told of a stream's frames, in order, with one end.
StreamIsWhole == part = "stream" => Stream!StreamIsWhole

\* app-events: an app is told of a call's outcome what Core made of it.
AnswersAreHonest == part = "call" => Call!AnswersAreHonest

\* translate.rs: each cue gets its own translation, or none.
TranslationsAreInPlace == part = "translation" => Translate!TranslationsAreInPlace

\* cues.rs, media.rs: cues follow one another, and resampled audio does not
\* drift.
SubtitlesAreInPlace ==
  /\ part = "cues" => Subtitles!CuesFollowOneAnother
  /\ part = "audio" => Audio!OutputDoesNotDrift

\* api.rs: settings that a request does not name are kept.
UnnamedIsKept == part = "settings" => Requests!UnnamedIsKept

=============================================================================
