---------------------------- MODULE DurableAudio ----------------------------
(***************************************************************************)
(* What the capture engine promises about the audio of one session,        *)
(* without chunks, timers, requests or manifests: a sample is in memory    *)
(* when it is encoded and leaves memory exactly once, oldest first, to the *)
(* local store or to a failure; the death of the page takes what is in     *)
(* memory and nothing else.  CaptureEngine implements this specification.  *)
(*                                                                         *)
(* "durable" means has reached the local store: a later upload or a        *)
(* discard by the user does not undo it.                                   *)
(***************************************************************************)
EXTENDS Integers

CONSTANT Channel

VARIABLES
  alive,    \* has the page not died yet?
  encoded,  \* samples encoded per channel: 1..encoded[c]
  memory, durable, failed, lost   \* which of them are where

aVars == <<alive, encoded, memory, durable, failed, lost>>

Nothing == [c \in Channel |-> {}]

AInit ==
  /\ alive = TRUE
  /\ encoded = [c \in Channel |-> 0]
  /\ memory = Nothing /\ durable = Nothing
  /\ failed = Nothing /\ lost = Nothing

AEncode(c) ==
  /\ alive
  /\ encoded' = [encoded EXCEPT ![c] = @ + 1]
  /\ memory' = [memory EXCEPT ![c] = @ \cup {encoded[c] + 1}]
  /\ UNCHANGED <<alive, durable, failed, lost>>

\* S is a run of the oldest samples that channel c has in memory.
Oldest(c, S) ==
  /\ S \subseteq memory[c] /\ S # {}
  /\ \A m \in S, n \in memory[c] \ S : m < n

APersist(c, S) ==
  /\ alive
  /\ Oldest(c, S)
  /\ memory' = [memory EXCEPT ![c] = @ \ S]
  /\ durable' = [durable EXCEPT ![c] = @ \cup S]
  /\ UNCHANGED <<alive, encoded, failed, lost>>

AFail(c, S) ==
  /\ alive
  /\ Oldest(c, S)
  /\ memory' = [memory EXCEPT ![c] = @ \ S]
  /\ failed' = [failed EXCEPT ![c] = @ \cup S]
  /\ UNCHANGED <<alive, encoded, durable, lost>>

ADie ==
  /\ alive
  /\ alive' = FALSE
  /\ lost' = memory
  /\ memory' = Nothing
  /\ UNCHANGED <<encoded, durable, failed>>

ANext ==
  \/ \E c \in Channel : AEncode(c)
  \/ \E c \in Channel : \E S \in SUBSET memory[c] : APersist(c, S) \/ AFail(c, S)
  \/ ADie

ASpec == AInit /\ [][ANext]_aVars

=============================================================================
