------------------------------- MODULE MCSbx -------------------------------
(***************************************************************************)
(* Sbx with two processes over two journals and up to two strategies.       *)
(* Processes and contents are interchangeable, and every property checked   *)
(* is an invariant, so symmetry is sound.                                   *)
(***************************************************************************)
EXTENDS Sbx, TLC

Symmetry ==
    Permutations(Procs) \union Permutations(Journals) \union Permutations(Strategies)

=============================================================================
