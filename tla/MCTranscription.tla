--------------------------- MODULE MCTranscription ---------------------------
(***************************************************************************)
(* Transcription for TLC: packets of speech and of silence, whose lengths  *)
(* are no multiple of a frame.                                             *)
(***************************************************************************)
EXTENDS Transcription

MCPackets == {<<1, 1, 1, 1>>, <<0, 0, 0>>}

MCLongPackets == {<<1, 1, 1, 1>>, <<0, 0, 0, 0>>}

=============================================================================
