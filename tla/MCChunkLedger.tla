--------------------------- MODULE MCChunkLedger ---------------------------
(***************************************************************************)
(* TLC instances of ChunkLedger with any client of the API.                *)
(***************************************************************************)
EXTENDS ChunkLedger, TLC

CONSTANTS c1, c2, h1, h2, h3

TwoChunks == {c1, c2}
TwoHandlers == {h1, h2}
ThreeHandlers == {h1, h2, h3}

\* Chunks and handlers are interchangeable.
Symmetry == Permutations(TwoChunks) \cup Permutations(TwoHandlers)

=============================================================================
