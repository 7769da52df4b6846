-------------------------- MODULE MCTranscription --------------------------
(***************************************************************************)
(* TLC instance of Transcription.                                          *)
(***************************************************************************)
EXTENDS Transcription

CONSTANT tab

TwoJobs == 1..2

=============================================================================
