----------------------------- MODULE Validation -----------------------------
(***************************************************************************)
(* The bounds a parsed file is measured against before it is published     *)
(* (pipeline/validate.py, validate_data) and the comparison with the list  *)
(* in force they rest on (pipeline/publish.py, diff_preview).  Module      *)
(* Pipeline lets the step take any of the three outcomes; this module says *)
(* which one a file gets.  Warnings, which change no outcome, are left     *)
(* out.  Percentages are natural numbers, and the code's quotients are     *)
(* compared by multiplying.                                                *)
(***************************************************************************)
EXTENDS Naturals, FiniteSets

(* The bounds: ValidationConfig.  A floor is the share of the records of   *)
(* one entity type that must have one field, as a percentage.              *)
Bounds(Field, Number) ==
  [minRecords : Number, maxRemovedPct : Number, maxRemovedAbs : Number,
   maxAddedPct : Number, maxAddedAbs : Number, floors : [Field -> Number],
   driftPolicy : {"warn", "quarantine"}]

(* What is known of a parsed file: the records, those that could not be    *)
(* parsed, whether an element path is new, and for each field how many     *)
(* records of its type there are and how many have it.                     *)
Measures(Field, Number) ==
  [records : Number, skipped : Number, unknownPaths : BOOLEAN,
   ofType : [Field -> Number], filled : [Field -> Number]]

(* diff_preview: staged and current map keys to the hashes of records.     *)
DiffPreview(staged, current) ==
  LET Both == DOMAIN staged \cap DOMAIN current
      Changed == {k \in Both : staged[k] # current[k]}
  IN [added     |-> Cardinality(DOMAIN staged \ DOMAIN current),
      removed   |-> Cardinality(DOMAIN current \ DOMAIN staged),
      changed   |-> Cardinality(Changed),
      unchanged |-> Cardinality(Both \ Changed),
      previous  |-> Cardinality(DOMAIN current)]

-----------------------------------------------------------------------------
TooFew(cfg, m) == m.records < cfg.minRecords

(* More than one record in a hundred could not be parsed.                  *)
TooManySkipped(m) == m.skipped > 0 /\ 100 * m.skipped > m.records + m.skipped

Drifted(cfg, m) == m.unknownPaths /\ cfg.driftPolicy = "quarantine"

(* A field no record of the file could have is not measured.               *)
BelowFloor(cfg, m) ==
  \E f \in DOMAIN cfg.floors :
    m.ofType[f] > 0 /\ 100 * m.filled[f] < cfg.floors[f] * m.ofType[f]

Untrusted(cfg, m) ==
  TooFew(cfg, m) \/ TooManySkipped(m) \/ Drifted(cfg, m) \/ BelowFloor(cfg, m)

(* Removals are held above either bound, additions above both.             *)
ManyRemoved(cfg, d) ==
  d.removed > cfg.maxRemovedAbs \/ 100 * d.removed > cfg.maxRemovedPct * d.previous

ManyAdded(cfg, d) ==
  d.added > cfg.maxAddedAbs /\ 100 * d.added > cfg.maxAddedPct * d.previous

LargeChange(cfg, d) == d.previous > 0 /\ (ManyRemoved(cfg, d) \/ ManyAdded(cfg, d))

Outcome(cfg, m, d) ==
  IF Untrusted(cfg, m) THEN "QUARANTINE"
  ELSE IF LargeChange(cfg, d) THEN "HOLD" ELSE "PASS"
=============================================================================
