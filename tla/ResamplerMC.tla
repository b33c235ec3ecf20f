----------------------------- MODULE ResamplerMC -----------------------------
(* Resampler for TLC: deviations on both sides of zero.                     *)
EXTENDS Resampler
MCSteps == {-4, -1, 0, 1, 3}
=============================================================================
