---------------------------- MODULE RationalDesign ----------------------------
(***************************************************************************)
(* What a rational chain or stage is built from: the ratios of the charter *)
(* (rational/ratio.h), the rates along a chain and the divisor each stage  *)
(* is designed at (chain.h), the profiles with their pinned lengths        *)
(* (design.h), and what the constructors reject (stage.h).                 *)
(*                                                                         *)
(* A ratio, a rate and a divisor are fractions <<numerator, denominator>>. *)
(***************************************************************************)
EXTENDS Integers, Sequences, FiniteSetsExt, SequencesExt

(* tap::dsp::exact_ratio keeps fractions reduced.                           *)
gcd[p \in Nat \X Nat] == IF p[2] = 0 THEN p[1] ELSE gcd[<<p[2], p[1] % p[2]>>]

Reduced(r)  == <<r[1] \div gcd[r], r[2] \div gcd[r]>>
Times(a, b) == Reduced(<<a[1] * b[1], a[2] * b[2]>>)
Plus(a, b)  == Reduced(<<a[1] * b[2] + b[1] * a[2], a[2] * b[2]>>)

Less(a, b) == a[1] * b[2] < b[1] * a[2]
Over(a, b) == Reduced(<<a[1] * b[2], a[2] * b[1]>>)

-----------------------------------------------------------------------------
(* ratio.h.                                                                 *)
Smooth(n) == \E a \in 0..8, b \in 0..5 : n = 2^a * 3^b

InCharter(r) == Smooth(r[1]) /\ Smooth(r[2]) /\ gcd[r] = 1 /\ r[1] # r[2]

Band(r) == Max({r[1], r[2]})

LowerRate(r) == IF r[1] > r[2] THEN <<1, 1>> ELSE r

Vocabulary == {<<2,1>>, <<1,2>>, <<3,1>>, <<1,3>>, <<6,1>>, <<1,6>>, <<8,1>>, <<1,8>>,
               <<3,2>>, <<2,3>>, <<4,3>>, <<3,4>>, <<8,3>>, <<3,8>>}

(* The static assertions: the charter, and the composite rate being the     *)
(* band times the lower rate.                                               *)
ASSUME CharterAssumption ==
  \A r \in Vocabulary : InCharter(r) /\ r[1] * LowerRate(r)[2] = Band(r) * LowerRate(r)[1]

-----------------------------------------------------------------------------
(* chain.h.  The chains of the C ABI by their number, in stages; the        *)
(* one-stage chains come first.                                             *)
NamedChains ==
  << <<<<2,1>>>>, <<<<1,2>>>>, <<<<3,1>>>>, <<<<1,3>>>>,
     <<<<3,2>>>>, <<<<2,3>>>>, <<<<4,3>>>>, <<<<3,4>>>>,
     <<<<2,1>>, <<2,1>>>>, <<<<2,1>>, <<3,1>>>>, <<<<2,1>>, <<4,3>>, <<3,1>>>>, <<<<3,1>>, <<8,3>>>>,
     <<<<2,1>>, <<6,1>>>>, <<<<2,1>>, <<8,1>>>>, <<<<2,1>>, <<6,1>>, <<2,1>>>>, <<<<2,1>>, <<8,1>>, <<2,1>>>>,
     <<<<2,1>>, <<8,1>>, <<3,1>>>>, <<<<2,1>>, <<4,3>>>>, <<<<3,4>>, <<1,2>>>>, <<<<1,2>>, <<1,2>>>>,
     <<<<1,3>>, <<1,2>>>>, <<<<1,3>>, <<3,4>>, <<1,2>>>>, <<<<3,8>>, <<1,3>>>>, <<<<1,6>>, <<1,2>>>>,
     <<<<1,8>>, <<1,2>>>>, <<<<1,2>>, <<1,6>>, <<1,2>>>>, <<<<1,2>>, <<1,8>>, <<1,2>>>>,
     <<<<1,3>>, <<1,8>>, <<1,2>>>> >>

(* "Ratios in comments are the chain's L/M."                                *)
NamedRatios ==
  << <<2,1>>, <<1,2>>, <<3,1>>, <<1,3>>, <<3,2>>, <<2,3>>, <<4,3>>, <<3,4>>,
     <<4,1>>, <<6,1>>, <<8,1>>, <<8,1>>, <<12,1>>, <<16,1>>, <<24,1>>, <<32,1>>, <<48,1>>, <<8,3>>,
     <<3,8>>, <<1,4>>, <<1,6>>, <<1,8>>, <<1,8>>, <<1,12>>, <<1,16>>, <<1,24>>, <<1,32>>, <<1,48>> >>

(* Fault: a stage's rate over the lowest is its divisor, whole or not.      *)
DesignDivisorUnrounded(q) == q

(* The largest pinnable divisor (2^a 3^b) not above q.                      *)
DesignDivisor(q) ==
  IF Less(q, <<1,1>>) THEN q
  ELSE <<Max({d \in {2^a * 3^b : a \in 0..9, b \in 0..3} : d * q[2] <= q[1]}), 1>>

(* The rates before and after each stage, relative to the chain's input.    *)
Rates(stages) ==
  LET rate[i \in 0..Len(stages)] == IF i = 0 THEN <<1,1>> ELSE Times(rate[i - 1], stages[i])
  IN rate

Lower(a, b) == IF Less(a, b) THEN a ELSE b

(* Each stage is designed for its lower rate over the chain's lowest.       *)
Divisors(stages) ==
  LET rate   == Rates(stages)
      lowest == FoldFunction(Lower, <<1,1>>, rate)
  IN [i \in 1..Len(stages) |-> DesignDivisor(Over(Lower(rate[i - 1], rate[i]), lowest))]

ChainDivisors == [c \in 1..Len(NamedChains) |-> Divisors(NamedChains[c])]

ChainRatio(stages) == Rates(stages)[Len(stages)]

(* Fault: a stage's outputs scaled by the rate before it.                   *)
MacsPerOutputBefore(stages, macs) ==
  LET rate == Rates(stages)
  IN FoldFunction(Plus, <<0,1>>,
       [i \in 1..Len(stages) |-> Times(<<macs[i], stages[i][1]>>, Over(rate[i - 1], ChainRatio(stages)))])

(* Each stage's work per output, scaled by its output rate over the chain's.*)
MacsPerOutput(stages, macs) ==
  LET rate == Rates(stages)
  IN FoldFunction(Plus, <<0,1>>,
       [i \in 1..Len(stages) |-> Times(<<macs[i], stages[i][1]>>, Over(rate[i], ChainRatio(stages)))])

-----------------------------------------------------------------------------
(* design.h.  Rows of pinned taps per branch for the bands 2, 3, 4, 6, 8,   *)
(* by design divisor.                                                       *)
Unpinned == <<0,0,0,0,0>>

PinnedDivisors ==
  <<<<147,160>>, <<1,1>>, <<2,1>>, <<3,1>>, <<4,1>>, <<6,1>>, <<8,1>>, <<9,1>>, <<12,1>>, <<16,1>>>>

Profiles == {"super_economy", "economy", "balanced", "transparent"}

Passband == [super_economy |-> <<1,3>>, economy |-> <<3,8>>, balanced |-> <<19,48>>, transparent |-> <<5,12>>]

Pins == [
  super_economy |-> <<<<11,10,10,10,10>>, <<9,8,8,8,8>>, <<7,5,5,5,5>>, <<7,5,5,5,5>>, <<7,5,5,5,5>>,
                      <<4,4,4,4,4>>, <<4,4,4,4,4>>, <<3,4,4,4,4>>, <<3,3,3,4,4>>, <<3,3,3,4,4>>>>,
  economy       |-> <<<<15,14,14,14,14>>, <<11,11,11,12,12>>, <<7,5,5,5,5>>, <<7,5,5,5,5>>, <<7,5,5,5,5>>,
                      <<4,5,4,4,4>>, <<4,4,4,4,4>>, <<4,4,4,4,4>>, <<3,3,3,4,4>>, <<3,3,3,4,4>>>>,
  balanced      |-> <<<<19,19,19,20,20>>, <<13,13,14,14,14>>, <<7,5,5,5,5>>, <<7,5,5,5,5>>, <<7,5,5,5,5>>,
                      <<6,5,4,4,4>>, <<4,4,4,4,4>>, <<4,4,4,4,4>>, <<3,3,4,4,4>>, <<3,3,3,4,4>>>>,
  transparent   |-> <<<<45,46,46,46,46>>, <<31,25,25,25,25>>, <<10,8,13,13,13>>, <<9,8,11,11,12>>,
                      <<9,8,8,7,10>>, <<9,8,7,7,10>>, <<9,7,7,7,10>>, <<8,7,7,7,10>>, <<8,7,7,7,10>>,
                      <<7,7,7,7,7>>>>]

(* profile::relaxed() of a named profile.                                   *)
Relaxed(name, divisor) ==
  [pass |-> Over(Passband[name], divisor),
   pins |-> LET row == SelectInSeq(PinnedDivisors, LAMBDA d : d = divisor)
            IN IF row = 0 THEN Unpinned ELSE Pins[name][row]]

(* pinned_taps_per_branch().                                                *)
PinFor(band, p) == p.pins[SelectInSeq(<<2,3,4,6,8>>, LAMBDA b : b = band)]

ProfileRejected(p) == 2 * p.pass[1] >= p.pass[2]

(* search_nyquist_m(), of which only this counts: it finds a length unless  *)
(* the transition is too narrow, and it allocates.                          *)
Searched(p) == IF 50 * p.pass[1] <= 24 * p.pass[2] THEN 64 ELSE 0

TapsPerBranch(r, p) == IF PinFor(Band(r), p) # 0 THEN PinFor(Band(r), p) ELSE Searched(p)

Searches(r, p) == ~ProfileRejected(p) /\ PinFor(Band(r), p) = 0

(* design_stage(): the length of the stage's filter.                        *)
StageTaps(r, p) == 2 * TapsPerBranch(r, p) * Band(r) - 1

(* basic_stage::validate(); the constructor rejects the same.               *)
StageRejected(r, channels, p) ==
  channels = 0 \/ ProfileRejected(p) \/ TapsPerBranch(r, p) = 0

=============================================================================
