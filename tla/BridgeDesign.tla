----------------------------- MODULE BridgeDesign -----------------------------
(***************************************************************************)
(* tap::sr::bridge::design_prototype (bridge/design.h): what becomes of    *)
(* the coefficients that the shared designer delivers.  A coefficient is a *)
(* fraction <<numerator, denominator>>.                                    *)
(***************************************************************************)
EXTENDS Integers

(* The designer's prototype of l branches of taps: linear phase, otherwise  *)
(* no two coefficients alike.                                               *)
Raw(n, l, taps) == 1 + (IF 2 * n < l * taps THEN n ELSE l * taps - 1 - n)

(* What the coefficients of branch ph add up to.                            *)
BranchSum(ph, l, taps) ==
  LET sum[t \in 0..taps] == IF t = 0 THEN 0 ELSE sum[t - 1] + Raw((t - 1) * l + ph, l, taps)
  IN sum[taps]

(* Every branch divided by its sum.                                         *)
Normalized(l, taps) ==
  [n \in 0..(l * taps - 1) |-> <<Raw(n, l, taps), BranchSum(n % l, l, taps)>>]

=============================================================================
