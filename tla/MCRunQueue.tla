----------------------------- MODULE MCRunQueue -----------------------------
(* The instance of RunQueue for TLC: run ids are numbers and are given out in *)
(* order, which takes the place of their symmetry where liveness is checked.  *)
EXTENDS RunQueue, Integers

InOrder ==
  \A q, r \in RunId :
    q < r /\ run[r].status = "UNUSED" /\ run'[r].status # "UNUSED" => run[q].status # "UNUSED"

SpecInOrder == Init /\ [][Next /\ InOrder]_vars
FairInOrder == SpecInOrder /\ Fairness
=============================================================================
