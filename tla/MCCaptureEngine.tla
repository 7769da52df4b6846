-------------------------- MODULE MCCaptureEngine --------------------------
(***************************************************************************)
(* TLC instances of CaptureEngine: which channels exist and which of them  *)
(* are fed by a device comes from the .cfg files.                          *)
(***************************************************************************)
EXTENDS Recovery, TLC

CONSTANTS tab, mic, mixed

OneChannel == {tab}
TwoChannels == {tab, mic}
MixedOnly == {mixed}
NoDevice == {}

=============================================================================
