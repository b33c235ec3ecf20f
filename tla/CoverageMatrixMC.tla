--------------------------- MODULE CoverageMatrixMC ---------------------------
(***************************************************************************)
(* Pairs of rates, in units of 25 Hz: within the families every ratio of   *)
(* two or more stages, and some across them.                               *)
(***************************************************************************)
EXTENDS CoverageMatrix

ARates == {320, 480, 640, 960, 1280, 1920, 3840, 7680, 15360}
BRates == {441, 882, 1764, 3528, 7056}

BothWays(lows, highs) ==
  {p \in (lows \X highs) \cup (highs \X lows) : p[1] # p[2]}

MCPairs ==
  BothWays({320, 480}, ARates) \cup BothWays({441}, BRates)
    \cup BothWays({320, 1920, 15360}, {441, 1764, 7056})

=============================================================================
