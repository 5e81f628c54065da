-------------------------- MODULE MCSqisignAdapter --------------------------
(* Messages of no, one and two bytes: buffers of three sizes.               *)
EXTENDS SqisignAdapter, TLC

MCMessages == {<<>>, <<1>>, <<2, 2>>}
Symmetry == Permutations(Goroutines) \cup Permutations(Keys) \cup Permutations(Blocks)
=============================================================================
