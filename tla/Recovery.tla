------------------------------ MODULE Recovery ------------------------------
(***************************************************************************)
(* The recovery of a session, over the engine that recorded it: what the   *)
(* banner says of the chunks in the store and what its download contains,  *)
(* in every state in which some page may look.                             *)
(***************************************************************************)
EXTENDS CaptureEngine, Reassembly

Entries(chunks) == {chunks[i] : i \in DOMAIN chunks}

\* IndexedDBRecoveryStore.getChunks: sorted by sequence, channels mixed; which
\* of two channels comes first is the index's order.
GetChunks ==
  {chunks \in [1..Cardinality(store) -> store] :
     /\ Entries(chunks) = store
     /\ \A i, j \in DOMAIN chunks : i < j => chunks[i].seq <= chunks[j].seq}

Sequences(S, c) == {ch.seq : ch \in {x \in S : x.chan = c}}

\* A gap that the banner shows is a chunk that was uploaded and reclaimed,
\* discarded, or that could not be written, never one that was overtaken; the
\* plan and the download, which compute it apart, agree on what is complete;
\* and the download plays what is stored of the channel, all of it, in the
\* order it was recorded (reassemble.ts planReassembly, recovery-manager.ts
\* findRecoverable and reassemble).
Explained(chunks) ==
  LET plan == PlanReassembly(chunks)
      audio == Reassemble(chunks)
  IN /\ plan.bytes > 0 <=> store # {}
     /\ DOMAIN audio = DOMAIN plan.channels
     /\ \A c \in DOMAIN audio :
          LET channel == plan.channels[c] IN
          /\ channel.missing \subseteq Sequences(reclaimed \cup dropped \cup discarded, c)
          /\ channel.duplicates = {}
          /\ channel.contiguous <=> channel.missing = {}
          /\ audio[c].complete <=> channel.missing = {}
          /\ audio[c].blob = channel.ordered
          /\ Entries(audio[c].blob) = {ch \in store : ch.chan = c}
          /\ \A i, j \in DOMAIN audio[c].blob : i < j =>
               \A m \in audio[c].blob[i].parts, n \in audio[c].blob[j].parts : m < n

GapsAreExplained == GetChunks # {} /\ \A chunks \in GetChunks : Explained(chunks)

=============================================================================
