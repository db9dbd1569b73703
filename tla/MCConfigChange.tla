---------------------------- MODULE MCConfigChange ----------------------------
(* The instance of ConfigChange for TLC. *)
EXTENDS ConfigChange, TLC

CONSTANTS listed, unlisted

\* Seeds with and without a block, on the allow-list and (drafts) not on it yet.
Seeds == [url : {listed, unlisted}, block : {NULL, unlisted}, bound : {0}]

Symmetry == Permutations(Admin)
=============================================================================
