------------------------------ MODULE MCPublish ------------------------------
(* Instances of Publish for TLC. *)
EXTENDS Publish, TLC

Symmetry == Permutations(Session) \cup Permutations(Source) \cup Permutations(Content)
=============================================================================
