------------------------------ MODULE MCRunner ------------------------------
(* Runner on small pools.  Entries and Workers are sets of model values; the
   slots per entry are bounded so that the results channel (2N+1) can fill. *)
EXTENDS Runner, TLC

MCSymmetry == Permutations(Entries) \cup Permutations(Workers)

=============================================================================
