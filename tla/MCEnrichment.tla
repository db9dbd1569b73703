---------------------------- MODULE MCEnrichment ----------------------------
EXTENDS Enrichment, TLC

CONSTANTS k1, k2

(* The provider may take the second subject for either of two companies.   *)
Matches == [s \in Subject |-> IF s = 2 THEN {k1, k2} ELSE {k1}]
=============================================================================
