----------------------------- MODULE MCPipeline -----------------------------
(* Instances of Pipeline for TLC. *)
EXTENDS Pipeline, Validation, TLC

Plain == NoOptions
Dry == [NoOptions EXCEPT !.dry = TRUE]

Reparse == {[NoOptions EXCEPT !.reparse = b] : b \in Bytes}

PlainOnly == {Plain}
AnyRequest == {Plain, Dry} \cup Reparse

Symmetry == Permutations(RunId) \cup Permutations(Slot) \cup Permutations(Bytes)

-----------------------------------------------------------------------------
(* A list of two records with one configuration of each kind: the step     *)
(* ValidateData of Pipeline takes exactly the outcomes validate_data has,  *)
(* and a file with no record passes only where all removals are allowed.   *)
Lists == UNION {[K -> {"h1", "h2"}] : K \in SUBSET {"k1", "k2"}}
SmallBounds ==
  [minRecords : {0, 1}, maxRemovedPct : {49, 50, 100}, maxRemovedAbs : {0, 2},
   maxAddedPct : {50}, maxAddedAbs : {0}, floors : [{"PERSON.dob"} -> {60}],
   driftPolicy : {"warn", "quarantine"}]
MeasuresOf(staged) ==
  [records : {Cardinality(DOMAIN staged)}, skipped : {0, 1}, unknownPaths : BOOLEAN,
   ofType : [{"PERSON.dob"} -> {Cardinality(DOMAIN staged)}], filled : [{"PERSON.dob"} -> {0, 1}]]

OutcomesOf(staged) ==
  {[cfg |-> cfg, current |-> c, outcome |-> Outcome(cfg, m, DiffPreview(staged, c))] :
     cfg \in SmallBounds, m \in MeasuresOf(staged), c \in Lists}

ASSUME ValidationOutcomes ==
  /\ {x.outcome : x \in UNION {OutcomesOf(s) : s \in Lists}} = {"PASS", "HOLD", "QUARANTINE"}
  /\ \A x \in OutcomesOf(<<>>) :
       x.outcome = "PASS" /\ DOMAIN x.current # {} => x.cfg.maxRemovedPct = 100
=============================================================================
