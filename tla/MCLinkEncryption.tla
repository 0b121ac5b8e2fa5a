-------------------------- MODULE MCLinkEncryption --------------------------
(* The values of LinkEncryption's random numbers are interchangeable.      *)
EXTENDS LinkEncryption

Values == Permutations(Nonces) \union Permutations(Pairings)
=============================================================================
