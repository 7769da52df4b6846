--------------------------- MODULE MCUploadQueue ---------------------------
(***************************************************************************)
(* TLC instances of UploadQueue.                                           *)
(***************************************************************************)
EXTENDS UploadQueue, TLC

CONSTANTS h1, h2, h3

TwoHandlers == {h1, h2}
ThreeHandlers == {h1, h2, h3}
TwoChunks == 1..2
ThreeChunks == 1..3

\* Handlers are interchangeable.
Symmetry == Permutations(Handler)

=============================================================================
