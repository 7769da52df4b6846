----------------------------- MODULE Reassembly -----------------------------
(***************************************************************************)
(* What recovery makes of the chunks it finds: the plan behind the banner  *)
(* (reassemble.ts planReassembly) and the audio the user downloads         *)
(* (recovery-manager.ts reassemble), two algorithms over the same list.    *)
(* A chunk has a channel, a sequence number and its samples, whose number  *)
(* stands for its bytes.  The loops of the code are written without        *)
(* recursion, as what they select from the list and in which order.        *)
(***************************************************************************)
EXTENDS Integers, Sequences, FiniteSets

\* The sum of the numbers f[x], as the size of a disjoint union.
Total(f) == Cardinality(UNION {{x} \X (1..f[x]) : x \in DOMAIN f})

BytesOf(ch) == Cardinality(ch.parts)
TotalBytes(chunks) == Total([i \in DOMAIN chunks |-> BytesOf(chunks[i])])
ChannelsOf(chunks) == {chunks[i].chan : i \in DOMAIN chunks}

\* The places of a channel's chunks in the list; their sequence numbers.
OfChannel(chunks, c) == {i \in DOMAIN chunks : chunks[i].chan = c}
Numbers(chunks, I) == {chunks[i].seq : i \in I}

\* Array.sort by sequence is stable: the chunk whose turn it is has as many
\* before it as were placed.
Precedes(chunks, i, j) ==
  chunks[i].seq < chunks[j].seq \/ (chunks[i].seq = chunks[j].seq /\ i < j)
Rank(chunks, I, j) == Cardinality({i \in I : Precedes(chunks, i, j)})
Sorted(chunks, I) ==
  [n \in 1..Cardinality(I) |-> chunks[CHOOSE j \in I : Rank(chunks, I, j) = n - 1]]

\* Of two chunks with one number the larger is kept, of two equal ones the
\* later.
Seen(chunks, I) ==
  {i \in I : \A j \in I : chunks[j].seq = chunks[i].seq =>
     \/ BytesOf(chunks[j]) < BytesOf(chunks[i])
     \/ BytesOf(chunks[j]) = BytesOf(chunks[i]) /\ j <= i}

Duplicates(chunks, I) ==
  {chunks[j].seq : j \in {x \in I : \E i \in I : i < x /\ chunks[i].seq = chunks[x].seq}}

\* (mutant) the first chunk is not looked for
MissingFromOne(numbers) == (UNION {1..k : k \in numbers}) \ numbers

\* Numbers up to the largest that no chunk has.
Missing(numbers) == (UNION {0..k : k \in numbers}) \ numbers

ReassembleChannel(chunks, I) ==
  LET seen == Seen(chunks, I)
      ordered == Sorted(chunks, seen)
      missing == Missing(Numbers(chunks, seen))
  IN [ordered |-> ordered, missing |-> missing, duplicates |-> Duplicates(chunks, I),
      bytes |-> TotalBytes(ordered),
      contiguous |-> missing = {} /\ ordered # <<>> /\ ordered[1].seq = 0]

PlanReassembly(chunks) ==
  LET channels == [c \in ChannelsOf(chunks) |-> ReassembleChannel(chunks, OfChannel(chunks, c))]
  IN [channels |-> channels,
      clean |-> DOMAIN channels # {} /\ \A c \in DOMAIN channels : channels[c].contiguous,
      bytes |-> Total([c \in DOMAIN channels |-> channels[c].bytes])]

\* The second algorithm keeps every chunk of the list.
Reassemble(chunks) ==
  [c \in ChannelsOf(chunks) |->
     LET sorted == Sorted(chunks, OfChannel(chunks, c))
     IN [blob |-> sorted, bytes |-> TotalBytes(sorted),
         complete |-> Len(sorted) = sorted[Len(sorted)].seq + 1 /\ sorted[1].seq = 0]]

=============================================================================
