------------------------------ MODULE PhaseStep ------------------------------
(***************************************************************************)
(* The phase accumulator of tap::sr::async::fractional_resampler           *)
(* (async/include/tap/sr/async/polyphase_filter.h): the fractional read    *)
(* position is an unsigned fraction of an input frame, in PhaseRange       *)
(* steps.  Only the deviation is accumulated, the wraparound of the        *)
(* unsigned sum is what tells that a whole frame was crossed.              *)
(***************************************************************************)
EXTENDS Integers

CONSTANT PhaseRange \* 2^64

ASSUME PhaseAssumption == PhaseRange \in Nat \ {0}

Phases == 0..(PhaseRange - 1)

(* eps_fix: the clamp on eps_hat keeps it well inside int64.                *)
Deviations == (1 - PhaseRange)..(PhaseRange - 1)

NextPhase(p, e) == (p + e) % PhaseRange

(* Fault: an unmoved phase is taken for a slip.                             *)
AdvanceInclusive(p, e) ==
  IF e >= 0 THEN IF NextPhase(p, e) <= p THEN 2 ELSE 1
            ELSE IF NextPhase(p, e) > p THEN 0 ELSE 1

(* How many input frames the next output frame consumes: one, two at a      *)
(* forward slip, none at a backward slip.                                   *)
Advance(p, e) ==
  IF e >= 0 THEN IF NextPhase(p, e) < p THEN 2 ELSE 1
            ELSE IF NextPhase(p, e) > p THEN 0 ELSE 1

=============================================================================
