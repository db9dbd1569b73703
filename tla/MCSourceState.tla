---------------------------- MODULE MCSourceState ----------------------------
(* Instances of SourceState for TLC. *)
EXTENDS SourceState

\* The bound on failures hides nothing: every wait has reached its maximum there.
ASSUME WaitsSaturate ==
  /\ RetryBase * 2^(MaxFailures - 1) >= RetryMax
  /\ BreakerBase * 2^(MaxFailures - BreakerThreshold) >= BreakerMax
=============================================================================
