--------------------------- MODULE MCAttestations ---------------------------
(* Tokens, sessions, runs and versions are interchangeable. *)
EXTENDS Attestations, TLC

Symmetry == Permutations(Tokens) \cup Permutations(Sessions) \cup Permutations(Runs)
            \cup Permutations(Versions)
=============================================================================
