---------------------------- MODULE MCExtension ----------------------------
(***************************************************************************)
(* TLC instance of Extension: the exchanges of the popup are               *)
(* interchangeable.                                                        *)
(***************************************************************************)
EXTENDS Extension, TLC

Exchanges == Permutations(Toggle)

=============================================================================
