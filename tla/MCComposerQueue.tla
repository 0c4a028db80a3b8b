-------------------------- MODULE MCComposerQueue --------------------------
(* Small instances of ComposerQueue. *)
EXTENDS ComposerQueue, TLC
CONSTANTS h1, h2

Symmetry == Permutations(Hooks)
=============================================================================
