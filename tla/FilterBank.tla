------------------------------ MODULE FilterBank ------------------------------
(***************************************************************************)
(* tap::sr::async::polyphase_filter_bank and what reads it                 *)
(* (async/include/tap/sr/async/polyphase_filter.h, sample_traits.h): the   *)
(* prototype cut into Branches rows, the extra row behind the last, and    *)
(* the coefficients blended from two neighbouring rows.                    *)
(*                                                                         *)
(* The designed prototype is any function; here it is a ramp that ends at  *)
(* zero, so that a coefficient, blended ones included, says by its value   *)
(* where on the prototype it was taken.  Quantization is left out.         *)
(***************************************************************************)
EXTENDS PhaseStep

CONSTANTS
  Taps,      \* taps(), T
  Branches,  \* num_phases(), L: a power of two
  Fractions, \* steps of a blend factor, one per sample format: 2^24, 2^15, 2^20
  MuRange    \* steps of mu(), a double: 2^53

ASSUME TapsAssumption == Taps \in Nat \ {0}

(* A phase has bits for the branch and, below them, for the blend factor.   *)
ASSUME BankAssumption ==
  /\ Branches \in Nat \ {0}
  /\ Fractions \subseteq Nat \ {0}
  /\ \A fraction \in Fractions : PhaseRange % (Branches * fraction) = 0
  /\ MuRange \in Nat \ {0} /\ PhaseRange % MuRange = 0

Slots == 0..(Taps - 1)
Length == Branches * Taps

(* In steps that every blend factor divides.                                *)
Unit == PhaseRange \div Branches
Proto(m) == (Length - m) * Unit

(* Row p: coefficient t of the branch, tap-reversed.                        *)
Branch(p) == [u \in Slots |-> Proto((Taps - 1 - u) * Branches + p)]

(* Fault: row 0 again, not advanced by one input sample.                    *)
ExtraRowInPlace == Branch(0)

(* Row 0 advanced by one input sample.                                      *)
ExtraRow == [u \in Slots |-> IF u = 0 THEN 0 ELSE Branch(0)[u - 1]]

Table == [p \in 0..Branches |-> IF p = Branches THEN ExtraRow ELSE Branch(p)]

-----------------------------------------------------------------------------
(* Fault: the branch bits are not shifted out.                              *)
FactorUnshifted(p, fraction) == p \div (PhaseRange \div fraction)

(* blend_factor_from_q64() of the phase below the branch bits.              *)
Factor(p, fraction) == ((p * Branches) % PhaseRange) \div (PhaseRange \div fraction)

(* The shift of a fixed-point product rounds down.                          *)
Blend(a, b, factor, fraction) == a + (factor * (b - a)) \div fraction

(* The two rows next to a position and how far it is between them.          *)
Blended(branch, factor, fraction) ==
  [u \in Slots |-> Blend(Table[branch][u], Table[branch + 1][u], factor, fraction)]

(* blend_row_phase(), and interpolate_phase(), which multiplies as it       *)
(* blends: the top bits of the phase are the branch.                        *)
BlendRowPhase(p, fraction) == Blended((p * Branches) \div PhaseRange, Factor(p, fraction), fraction)

(* mu(): the phase as a double, rounded, all the way up to 1 perhaps.       *)
Mu(p) == LET step == PhaseRange \div MuRange IN (p + step \div 2) \div step

(* interpolate(): a mu of 1 is served by the last branch.                   *)
BranchOfMu(mu) ==
  LET branch == (mu * Branches) \div MuRange IN IF branch >= Branches THEN Branches - 1 ELSE branch

(* make_blend_factor() of what the branch leaves of mu, 1 included.         *)
FactorOfMu(mu, fraction) == ((mu * Branches - BranchOfMu(mu) * MuRange) * fraction) \div MuRange

BlendRow(mu, fraction) == Blended(BranchOfMu(mu), FactorOfMu(mu, fraction), fraction)

=============================================================================
