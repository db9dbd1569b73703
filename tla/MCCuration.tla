----------------------------- MODULE MCCuration -----------------------------
EXTENDS Curation, TLC

CONSTANTS x1, v1, v2

(* The act names the first vessel only.  It can be proposed again, with    *)
(* other entries, when it was decided.                                     *)
Texts == x1 :> {v1}

(* One of two entries may go, as one of twenty may with the shipped bounds *)
(* (max_removed_pct 5); both at once are held.  Additions are never many.  *)
AnnexLimits ==
  [maxRemovedPct |-> 50, maxRemovedAbs |-> 5, maxAddedPct |-> 30, maxAddedAbs |-> 1500]
=============================================================================
