------------------------------- MODULE MCMint -------------------------------
(* Mint for TLC.                                                           *)
EXTENDS Mint, TLC

(* Key ids are interchangeable.                                            *)
Symmetry == Permutations(Kids)

=============================================================================
