------------------------ MODULE AsyncConverterProofs ------------------------
(***************************************************************************)
(* Proofs about ConverterSizing and AsyncConverter, for every accepted     *)
(* configuration, block size and deviation: the levels fit the ring, a     *)
(* start-up is never short of frames, the filter is never run unprimed,    *)
(* the fade and the published state are what happened.                     *)
(*                                                                         *)
(* And, at the end, about the servo it drives (PiServo), for every pair of *)
(* thresholds, holds and gains: the invariant ServoInv, kept by reset()    *)
(* and by each branch of update().                                         *)
(***************************************************************************)
EXTENDS AsyncConverter, PiServo, TLAPS

(* Quotient and remainder are unique: what a % b and a \div b are is shown  *)
(* by writing a as a multiple of b and a remainder.                         *)
LEMMA DivUnique ==
  ASSUME NEW a \in Int, NEW b \in Nat \ {0}, NEW q \in Int, NEW r \in 0..(b - 1),
         a = b * q + r
  PROVE  a % b = r /\ a \div b = q
<1>1. a % b = r
  OBVIOUS
<1>2. a \div b = q
  OBVIOUS
<1> QED BY <1>1, <1>2

(* What dividing by a positive number yields.                               *)
LEMMA DivParts ==
  ASSUME NEW a \in Int, NEW b \in Nat \ {0}
  PROVE  /\ a = b * (a \div b) + (a % b)
         /\ a \div b \in Int
         /\ a % b \in 0..(b - 1)
OBVIOUS

(* A wraparound by less than one turn: the sum comes back moved by one      *)
(* modulus, or not at all.                                                  *)
LEMMA WrapOnce ==
  ASSUME NEW m \in Nat \ {0}, NEW p \in 0..(m - 1), NEW e \in (1 - m)..(m - 1)
  PROVE  (p + e) % m = IF p + e >= m THEN p + e - m
                       ELSE IF p + e < 0 THEN p + e + m ELSE p + e
<1>1. CASE p + e >= m
  <2>1. p + e = m * 1 + (p + e - m) /\ p + e - m \in 0..(m - 1) /\ p + e \in Int
    BY <1>1
  <2>2. (p + e) % m = p + e - m
    BY <2>1, DivUnique
  <2> QED BY <1>1, <2>2
<1>2. CASE p + e < 0
  <2>1. p + e = m * (-1) + (p + e + m) /\ p + e + m \in 0..(m - 1) /\ p + e \in Int
    BY <1>2
  <2>2. (p + e) % m = p + e + m
    BY <2>1, DivUnique
  <2> QED BY <1>2, <2>2
<1>3. CASE p + e < m /\ p + e >= 0
  <2>1. p + e = m * 0 + (p + e) /\ p + e \in 0..(m - 1) /\ p + e \in Int
    BY <1>3
  <2>2. (p + e) % m = p + e
    BY <2>1, DivUnique
  <2> QED BY <1>3, <2>2
<1> QED BY <1>1, <1>2, <1>3

(* Rounding down keeps order.                                               *)
LEMMA DivMonotonic ==
  ASSUME NEW a \in Int, NEW c \in Int, NEW b \in Nat \ {0}, a <= c
  PROVE  a \div b <= c \div b
<1> DEFINE qa == a \div b
<1> DEFINE qc == c \div b
<1>3. /\ a = b * qa + (a % b) /\ qa \in Int /\ a % b \in 0..(b - 1)
      /\ c = b * qc + (c % b) /\ qc \in Int /\ c % b \in 0..(b - 1)
  BY DivParts
<1> HIDE DEF qa, qc
<1>4. SUFFICES ASSUME qa >= qc + 1
               PROVE  FALSE
  BY <1>3 DEF qa, qc
<1>5. b * qa >= b * qc + b
  BY <1>3, <1>4
<1> QED BY <1>3, <1>5

-----------------------------------------------------------------------------
(* What the filter needs to make a frame.                                   *)
Ready == primed /\ lined = Taps /\ ~ranDry

(* Where a pull() stands: filling until its seed, with the frames prime()   *)
(* still needs on the ring or in the scratch; ready from there on.  Between *)
(* two calls a filling converter has nothing in the scratch.                *)
StagesOfPull ==
  /\ pc # "process" => made = 0
  /\ pc \in {"prime", "seed"} => filling
  /\ pc \in {"resync", "update", "process"} => ~filling
  /\ pc = "idle" /\ filling => staged = 0
  /\ pc = "prime" => adv > 0 /\ ring + staged >= adv /\ lined = Taps - adv /\ ~ranDry
  /\ pc \in {"seed", "resync", "update", "process"} => Ready
  /\ pc = "idle" /\ ~filling => Ready

(* The ramp is settled when the call ends, by as many frames as it made.    *)
Ramp ==
  /\ pc # "process" => fadeLeft = FadeFrames - sinceFill
  /\ pc = "process" => sinceFill = MinOf(FadeFrames - fadeLeft + made, FadeFrames)

ConverterInv == TypeOK /\ NoOverfill /\ StagesOfPull /\ Ramp /\ StatusTrue

(* The input frames that the next k output frames take from phase p on.     *)
ToGo(k, p, e) == k + (p + k * e) \div PhaseRange

(* A setpoint's worth of frames is there from the moment a start-up has     *)
(* primed or a resync has dropped the excess, and process() leaves enough   *)
(* for the rest of a block that the setpoint covers.                        *)
FreshInv ==
  /\ settled => pc \in {"resync", "update", "process"}
  /\ pc = "prime" => Backlog >= adv + target
  /\ pc = "seed" => Backlog >= target
  /\ pc = "resync" => target <= occ /\ occ <= Backlog
  /\ pc = "update" /\ settled => Backlog >= target
  /\ pc = "process" /\ settled /\ target >= Needed(frames) /\ made < frames =>
       Backlog >= adv + ToGo(frames - made - 1, NextPhase(phase, eps), eps)

-----------------------------------------------------------------------------
(* The sizing.                                                              *)

LEMMA ParametersAreCounts ==
  /\ Taps \in Nat \ {0} /\ TargetLatency \in Nat \ {0} /\ PopChunk \in Nat \ {0}
  /\ CapFrames \in Nat /\ FadeFrames \in Nat \ {0} /\ CountRange \in Nat \ {0}
  /\ PhaseRange \in Nat \ {0}
BY SizesAssumption, ConfigAccepted, BlocksAssumption, PhaseAssumption

(* The upper limit is a setpoint of its own.                                *)
LEMMA MaxTargetIsNat == MaxTarget \in Nat /\ TargetLatency <= MaxTarget
<1> DEFINE a == (CapFrames - 1) \div 3
<1> DEFINE b == (CapFrames - Taps - 1) \div 2
<1> DEFINE C == CapFrames
<1>1. Taps \in Nat /\ TargetLatency \in Nat /\ C \in Nat
  BY ParametersAreCounts
<1>2. a \in Int /\ b \in Int
  <2> HIDE DEF C
  <2> QED BY <1>1 DEF C
<1>3. MaxTarget = MaxOf(TargetLatency, MinOf(a, IF C > Taps + 1 THEN b ELSE TargetLatency))
  BY DEF MaxTarget
<1> HIDE DEF a, b, C
<1> QED BY <1>1, <1>2, <1>3 DEF MaxOf, MinOf

(* Whatever setpoint the clamp lets through, the fill level a start-up      *)
(* waits for and the watermark of a resync are within the ring.             *)
LEMMA AnySetpointFits ==
  ASSUME NEW t \in TargetLatency..MaxTarget
  PROVE  FillThreshold(t) <= HighWater(t) /\ HighWater(t) < CapFrames
<1> DEFINE C == CapFrames
<1> DEFINE a == (C - 1) \div 3
<1> DEFINE b == (C - Taps - 1) \div 2
<1>1. /\ Taps \in Nat /\ TargetLatency \in Nat /\ C \in Nat /\ t \in Nat
      /\ TargetLatency <= t /\ t <= MaxTarget
  BY ParametersAreCounts, MaxTargetIsNat
<1>2. C > MaxOf(3 * TargetLatency, TargetLatency + Taps + TargetLatency)
  BY ConfigAccepted DEF FifoLargeEnough, HighWater, FillThreshold
<1>3. MaxTarget = MaxOf(TargetLatency, MinOf(a, IF C > Taps + 1 THEN b ELSE TargetLatency))
  BY DEF MaxTarget
<1> HIDE DEF C
<1>4. a \in Int /\ 3 * a <= C - 1 /\ b \in Int /\ 2 * b <= C - Taps - 1
  BY <1>1
<1> HIDE DEF a, b
<1>5. t = TargetLatency \/ (t <= a /\ t <= b)
  BY <1>1, <1>3, <1>4 DEF MaxOf, MinOf
<1>6. 3 * t < C /\ t + Taps + t < C
  BY <1>1, <1>2, <1>4, <1>5 DEF MaxOf
<1> QED BY <1>1, <1>6 DEF HighWater, FillThreshold, MaxOf, C

LEMMA RaisedFits ==
  ASSUME NEW t \in TargetLatency..MaxTarget, NEW n \in Nat
  PROVE  Raised(t, n) \in TargetLatency..MaxTarget
<1> DEFINE x == Needed(n)
<1>1. TargetLatency \in Nat /\ MaxTarget \in Nat /\ TargetLatency <= MaxTarget /\ PopChunk \in Nat
  BY ParametersAreCounts, MaxTargetIsNat
<1>2. x \in Int
  BY <1>1 DEF Needed, MaxOf
<1> HIDE DEF x
<1> QED BY <1>1, <1>2 DEF Raised, Clamp, MaxOf, MinOf, x

LEMMA CountUpIsCount ==
  ASSUME NEW c \in 0..(CountRange - 1)
  PROVE  CountUp(c) \in 0..(CountRange - 1)
<1>1. c + 1 \in Int /\ CountRange \in Nat \ {0}
  BY ParametersAreCounts
<1> QED BY <1>1, DivParts DEF CountUp

(* The phase stays a fraction, an output takes at most two frames.          *)
LEMMA PhaseStepTypes ==
  ASSUME NEW p \in Phases, NEW e \in Deviations
  PROVE  NextPhase(p, e) \in Phases /\ Advance(p, e) \in 0..2
<1>1. p + e \in Int /\ PhaseRange \in Nat \ {0}
  BY ParametersAreCounts DEF Phases, Deviations
<1>2. NextPhase(p, e) \in Phases
  BY <1>1, DivParts DEF NextPhase, Phases
<1> QED BY <1>2 DEF Advance

(* The clamp keeps the deviation a fraction of a frame.                     *)
LEMMA EpsIsDeviation == EpsRange \subseteq Deviations
<1> SUFFICES ASSUME NEW e \in EpsRange PROVE e \in Deviations
  OBVIOUS
<1>1. e \in Int /\ 4 * e <= PhaseRange /\ -PhaseRange <= 4 * e /\ PhaseRange \in Nat \ {0}
  BY EpsAssumption, ParametersAreCounts
<1> QED BY <1>1 DEF Deviations

-----------------------------------------------------------------------------
(* The steps.                                                               *)

LEMMA InitConverterInv == Init => ConverterInv
<1> SUFFICES ASSUME Init PROVE ConverterInv
  OBVIOUS
<1>0. /\ Taps \in Nat \ {0} /\ TargetLatency \in Nat \ {0} /\ PopChunk \in Nat \ {0}
      /\ CapFrames \in Nat /\ FadeFrames \in Nat \ {0} /\ CountRange \in Nat \ {0}
      /\ PhaseRange \in Nat \ {0} /\ MaxTarget \in Nat /\ TargetLatency <= MaxTarget
  BY ParametersAreCounts, MaxTargetIsNat
<1>1. ~primed /\ primed \in BOOLEAN /\ filling /\ filling \in BOOLEAN
      /\ ~ranDry /\ ranDry \in BOOLEAN /\ ~settled /\ settled \in BOOLEAN
  BY DEF Init
<1>2. /\ ring = 0 /\ pushing = -1 /\ lined = 0 /\ staged = 0 /\ phase = 0
      /\ target = TargetLatency /\ observed = 0 /\ fadeLeft = 0 /\ pubState = "filling"
      /\ overruns = 0 /\ underruns = 0 /\ resyncs = 0
      /\ pc = "idle" /\ frames = 0 /\ made = 0 /\ adv = 0 /\ eps = 0 /\ occ = 0
      /\ sinceFill = FadeFrames
  BY DEF Init
<1>3. ring \in 0..CapFrames /\ pushing \in -1..CapFrames /\ lined \in 0..Taps
      /\ staged \in 0..PopChunk /\ target \in TargetLatency..MaxTarget /\ fadeLeft \in 0..FadeFrames
      /\ {overruns, underruns, resyncs} \subseteq 0..(CountRange - 1)
      /\ made \in 0..frames /\ sinceFill \in 0..FadeFrames
  BY <1>0, <1>2
<1>4. phase \in Phases /\ eps \in Deviations
  BY <1>0, <1>2 DEF Phases, Deviations
<1>5. TypeOK
  BY <1>1, <1>2, <1>3, <1>4 DEF TypeOK
<1>6. NoOverfill /\ Ramp
  BY <1>0, <1>2 DEF NoOverfill, MaxOf, Ramp
<1> QED BY <1>1, <1>2, <1>5, <1>6 DEF ConverterInv, StagesOfPull, StatusTrue

(* The producer takes no more than there is room for, and the room only     *)
(* grows until it publishes.                                                *)
LEMMA PushStartKeeps ==
  ASSUME ConverterInv, NEW n \in PushSizes, PushStart(n)
  PROVE  ConverterInv'
<1>0. n \in Nat /\ CapFrames \in Nat
  BY BlocksAssumption, ParametersAreCounts
<1>1. /\ pushing' = MinOf(n, CapFrames - ring)
      /\ overruns' = IF pushing' < n THEN CountUp(overruns) ELSE overruns
      /\ UNCHANGED <<ring, lined, staged, phase, primed, target, observed, filling, fadeLeft,
                     pubState, underruns, resyncs, pc, frames, made, adv, eps, occ, sinceFill,
                     ranDry, settled>>
  BY DEF PushStart, resampler, setpoint, call
<1>2. ring \in 0..CapFrames /\ overruns \in 0..(CountRange - 1)
  BY DEF ConverterInv, TypeOK
<1>3. pushing' \in 0..CapFrames /\ ring + pushing' <= CapFrames
  BY <1>0, <1>1, <1>2 DEF MinOf
<1>4. overruns' \in 0..(CountRange - 1)
  BY <1>1, <1>2, CountUpIsCount
<1>5. TypeOK'
  BY <1>0, <1>1, <1>3, <1>4 DEF ConverterInv, TypeOK
<1>6. NoOverfill'
  BY <1>0, <1>1, <1>2, <1>3 DEF NoOverfill, MaxOf
<1> QED BY <1>1, <1>5, <1>6 DEF ConverterInv, StagesOfPull, Ready, Ramp, StatusTrue

LEMMA PushPublishKeeps ==
  ASSUME ConverterInv, PushPublish
  PROVE  ConverterInv'
<1>0. CapFrames \in Nat
  BY ParametersAreCounts
<1>1. /\ pushing # -1 /\ ring' = ring + pushing /\ pushing' = -1
      /\ UNCHANGED <<lined, staged, phase, primed, target, observed, filling, fadeLeft,
                     pubState, overruns, underruns, resyncs, pc, frames, made, adv, eps, occ,
                     sinceFill, ranDry, settled>>
  BY DEF PushPublish, resampler, setpoint, call, counters
<1>2. ring \in 0..CapFrames /\ pushing \in 0..CapFrames /\ ring + pushing <= CapFrames
      /\ staged \in Nat /\ adv \in Nat
  BY <1>0, <1>1 DEF ConverterInv, TypeOK, NoOverfill, MaxOf
<1>3. ring' \in 0..CapFrames /\ ring' >= ring
  BY <1>0, <1>1, <1>2
<1>4. TypeOK'
  BY <1>0, <1>1, <1>3 DEF ConverterInv, TypeOK
<1>5. NoOverfill'
  BY <1>0, <1>1, <1>3 DEF NoOverfill, MaxOf
<1>6. StagesOfPull'
  BY <1>0, <1>1, <1>2, <1>3 DEF ConverterInv, StagesOfPull, Ready
<1> QED BY <1>1, <1>4, <1>5, <1>6 DEF ConverterInv, Ramp, StatusTrue

(* append_one(): one frame leaves the backlog.                              *)
LEMMA AppendOneTakesOne ==
  ASSUME TypeOK, CanAppend, AppendOne
  PROVE  /\ ring' \in 0..CapFrames /\ ring' <= ring
         /\ staged' \in 0..PopChunk /\ lined' \in 0..Taps
         /\ ring' + staged' = ring + staged - 1
         /\ lined' = MinOf(lined + 1, Taps)
<1> DEFINE popped == IF staged = 0 THEN MinOf(PopChunk, ring) ELSE 0
<1>0. /\ Taps \in Nat \ {0} /\ PopChunk \in Nat \ {0} /\ CapFrames \in Nat
      /\ ring \in 0..CapFrames /\ staged \in 0..PopChunk /\ lined \in 0..Taps
  BY ParametersAreCounts DEF TypeOK
<1>1. popped \in 0..PopChunk /\ popped <= ring /\ staged + popped \in 1..PopChunk
  BY <1>0 DEF CanAppend, MinOf
<1>2. ring' = ring - popped /\ staged' = staged + popped - 1 /\ lined' = MinOf(lined + 1, Taps)
  BY DEF AppendOne
<1> HIDE DEF popped
<1> QED BY <1>0, <1>1, <1>2 DEF MinOf

(* A pull() begins: silence, a start-up with all the frames it waited for   *)
(* still on the ring, or a running block.                                   *)
LEMMA PullStartKeeps ==
  ASSUME ConverterInv, NEW n \in PullSizes, PullStart(n)
  PROVE  ConverterInv'
<1>0. n \in Nat /\ CapFrames \in Nat /\ Taps \in Nat \ {0} /\ PopChunk \in Nat
      /\ TargetLatency \in Nat \ {0} /\ PhaseRange \in Nat \ {0}
  BY BlocksAssumption, ParametersAreCounts
<1>1. /\ pc = "idle"
      /\ UNCHANGED <<ring, pushing, filling, fadeLeft, overruns, underruns, resyncs, sinceFill>>
  BY DEF PullStart, counters
<1>2. target' \in TargetLatency..MaxTarget /\ observed' \in Nat
  <2>1. Raise(n)
    BY DEF PullStart
  <2> QED BY <2>1, <1>0, RaisedFits DEF Raise, setpoint, ConverterInv, TypeOK
<1>3. /\ made = 0 /\ ring \in 0..CapFrames /\ staged \in 0..PopChunk
      /\ fadeLeft = FadeFrames - sinceFill
  BY <1>1 DEF ConverterInv, TypeOK, StagesOfPull, Ramp
<1>4. NoOverfill'
  BY <1>1 DEF ConverterInv, NoOverfill
<1>5. CASE filling /\ Return(filling) /\ UNCHANGED <<resampler, ranDry>>
  <2>1. /\ pubState' = "filling" /\ pc' = "idle"
        /\ frames' = 0 /\ made' = 0 /\ adv' = 0 /\ eps' = 0 /\ occ' = 0
        /\ UNCHANGED <<lined, staged, phase, primed, ranDry>>
    BY <1>5 DEF Return, resampler
  <2>2. settled' \in BOOLEAN
    BY <1>5 DEF Return
  <2>3. 0 \in Deviations
    BY <1>0 DEF Deviations
  <2>4. TypeOK'
    BY <1>0, <1>1, <1>2, <2>1, <2>2, <2>3 DEF ConverterInv, TypeOK
  <2> QED BY <1>1, <1>3, <1>4, <1>5, <2>1, <2>4
          DEF ConverterInv, StagesOfPull, Ready, Ramp, StatusTrue
<1>6. CASE /\ filling /\ Backlog >= FillThreshold(target')
           /\ ResamplerReset /\ ranDry' = FALSE
           /\ frames' = n /\ adv' = Taps /\ pc' = "prime"
           /\ UNCHANGED <<made, eps, occ, pubState, settled>>
  <2>1. staged = 0 /\ ring >= Taps
    <3>1. staged = 0
      BY <1>1, <1>6 DEF ConverterInv, StagesOfPull
    <3>2. target' \in Int /\ target' >= 0
      BY <1>0, <1>2, MaxTargetIsNat
    <3>3. ring + staged >= target' + Taps
      BY <1>6 DEF Backlog, FillThreshold
    <3>4. ring \in Int /\ Taps \in Int
      BY <1>0, <1>3
    <3>5. PICK t \in Int : t = target'
      BY <3>2
    <3>6. t >= 0 /\ ring + staged >= t + Taps
      BY <3>2, <3>3, <3>5
    <3>7. ring >= Taps
      BY <3>1, <3>4, <3>6
    <3> QED BY <3>1, <3>7
  <2>2. lined' = 0 /\ staged' = 0 /\ phase' = 0
    BY <1>6 DEF ResamplerReset
  <2>3. ~primed' /\ primed' \in BOOLEAN /\ ~ranDry' /\ ranDry' \in BOOLEAN
    BY <1>6 DEF ResamplerReset
  <2>4. 0 \in Phases
    BY <1>0 DEF Phases
  <2>5. frames' \in Nat /\ adv' \in Nat /\ pc' = "prime"
        /\ UNCHANGED <<made, eps, occ, pubState, settled>>
    BY <1>0, <1>6
  <2>6. TypeOK'
    BY <1>0, <1>1, <1>2, <1>3, <2>2, <2>3, <2>4, <2>5 DEF ConverterInv, TypeOK
  <2>7. StagesOfPull'
    BY <1>0, <1>1, <1>3, <1>6, <2>1, <2>2, <2>3 DEF StagesOfPull
  <2> QED BY <1>1, <1>3, <1>4, <2>5, <2>6, <2>7 DEF ConverterInv, Ramp, StatusTrue
<1>7. CASE /\ ~filling /\ frames' = n /\ occ' = Backlog /\ pc' = Watermark
           /\ UNCHANGED <<resampler, ranDry, made, adv, eps, pubState, settled>>
  <2>1. /\ frames' \in Nat /\ occ' \in Nat /\ pc' \in {"resync", "update"}
        /\ UNCHANGED <<lined, staged, phase, primed, ranDry, made, adv, eps, pubState, settled>>
    BY <1>0, <1>3, <1>7 DEF Watermark, Backlog, resampler
  <2>2. TypeOK'
    BY <1>0, <1>1, <1>2, <1>3, <2>1 DEF ConverterInv, TypeOK
  <2> QED BY <1>1, <1>3, <1>4, <1>7, <2>1, <2>2
          DEF ConverterInv, StagesOfPull, Ready, Ramp, StatusTrue
<1> QED BY <1>5, <1>6, <1>7 DEF PullStart

(* prime() cannot fail: the backlog covers what it still needs.             *)
LEMMA PrimeKeeps ==
  ASSUME ConverterInv, Prime
  PROVE  ConverterInv'
<1>0. CapFrames \in Nat /\ Taps \in Nat \ {0} /\ PopChunk \in Nat
  BY ParametersAreCounts
<1>1. /\ pc = "prime" /\ filling /\ made = 0 /\ adv \in Nat \ {0} /\ ring + staged >= adv
      /\ lined = Taps - adv /\ ~ranDry
      /\ ring \in 0..CapFrames /\ staged \in 0..PopChunk
  BY DEF Prime, ConverterInv, TypeOK, StagesOfPull
<1>2. CanAppend
  BY <1>1 DEF CanAppend
<1>3. /\ AppendOne /\ adv' = adv - 1 /\ primed' = (adv = 1)
      /\ pc' = IF adv = 1 THEN "seed" ELSE "prime"
      /\ UNCHANGED <<pushing, phase, target, observed, filling, fadeLeft, pubState, overruns,
                     underruns, resyncs, frames, made, eps, occ, sinceFill, ranDry, settled>>
  BY <1>2 DEF Prime, setpoint, counters
<1>4. /\ ring' \in 0..CapFrames /\ ring' <= ring
      /\ staged' \in 0..PopChunk /\ lined' \in 0..Taps
      /\ ring' + staged' = ring + staged - 1
      /\ lined' = MinOf(lined + 1, Taps)
  BY <1>2, <1>3, AppendOneTakesOne DEF ConverterInv
<1>5. primed' \in BOOLEAN /\ (primed' <=> adv = 1) /\ adv' \in Nat /\ pc' \in {"prime", "seed"}
  <2>1. primed' = (adv = 1)
    BY <1>3
  <2>2. primed' \in BOOLEAN /\ (primed' <=> adv = 1)
    BY <2>1, Zenon
  <2>3. adv' \in Nat /\ pc' \in {"prime", "seed"}
    BY <1>1, <1>3
  <2> QED BY <2>2, <2>3
<1>6. lined' = Taps - adv'
  BY <1>0, <1>1, <1>3, <1>4 DEF MinOf
<1>7. TypeOK'
  BY <1>3, <1>4, <1>5 DEF ConverterInv, TypeOK
<1>8. NoOverfill'
  <2>1. pushing' = pushing /\ pushing \in -1..CapFrames /\ ring + MaxOf(pushing, 0) <= CapFrames
    BY <1>3 DEF ConverterInv, TypeOK, NoOverfill
  <2>2. ring \in Int /\ ring' \in Int /\ ring' <= ring /\ CapFrames \in Int
    BY <1>0, <1>1, <1>4
  <2>3. PICK r \in Int : r = ring'
    BY <2>2
  <2>4. r <= ring
    BY <2>2, <2>3
  <2>5. r + MaxOf(pushing, 0) <= CapFrames
    BY <2>1, <2>2, <2>4 DEF MaxOf
  <2> QED BY <2>1, <2>3, <2>5 DEF NoOverfill
<1>9. StagesOfPull'
  <2>1. CASE adv = 1
    BY <2>1, <1>0, <1>1, <1>3, <1>5, <1>6 DEF StagesOfPull, Ready
  <2>2. CASE adv # 1
    <3>1. pc' = "prime" /\ adv' > 0 /\ adv' = adv - 1
      BY <2>2, <1>1, <1>3
    <3>2. ring' + staged' >= adv'
      <4>1. ring \in Int /\ staged \in Int /\ adv \in Int
        BY <1>0, <1>1
      <4>2. ring + staged >= adv /\ ring' + staged' = ring + staged - 1
        BY <1>1, <1>4
      <4> QED BY <3>1, <4>1, <4>2
    <3> QED BY <3>1, <3>2, <1>1, <1>3, <1>6 DEF StagesOfPull
  <2> QED BY <2>1, <2>2
<1>10. Ramp' /\ StatusTrue'
  BY <1>1, <1>3, <1>5 DEF ConverterInv, Ramp, StatusTrue
<1> QED BY <1>7, <1>8, <1>9, <1>10 DEF ConverterInv

LEMMA SeedKeeps ==
  ASSUME ConverterInv, Seed
  PROVE  ConverterInv'
<1>0. CapFrames \in Nat /\ PopChunk \in Nat /\ FadeFrames \in Nat
  BY ParametersAreCounts
<1>1. /\ pc = "seed" /\ Ready /\ made = 0
      /\ ring \in 0..CapFrames /\ staged \in 0..PopChunk
  BY DEF Seed, ConverterInv, TypeOK, StagesOfPull
<1>2. /\ occ' = Backlog /\ fadeLeft' = FadeFrames /\ sinceFill' = 0 /\ pc' = Watermark
      /\ UNCHANGED <<target, observed, ring, pushing, lined, staged, phase, primed, pubState,
                     overruns, underruns, resyncs, frames, made, adv, eps, ranDry>>
  BY DEF Seed, setpoint, resampler, counters
<1>3. ~filling' /\ filling' \in BOOLEAN /\ settled' \in BOOLEAN
  BY DEF Seed
<1>4. occ' \in Nat /\ pc' \in {"resync", "update"}
  BY <1>0, <1>1, <1>2 DEF Backlog, Watermark
<1>5. TypeOK'
  BY <1>0, <1>2, <1>3, <1>4 DEF ConverterInv, TypeOK
<1> QED BY <1>0, <1>1, <1>2, <1>3, <1>4, <1>5
        DEF ConverterInv, NoOverfill, StagesOfPull, Ready, Ramp, StatusTrue

LEMMA ResyncKeeps ==
  ASSUME ConverterInv, Resync
  PROVE  ConverterInv'
<1>0. CapFrames \in Nat /\ PopChunk \in Nat /\ TargetLatency \in Nat
  BY ParametersAreCounts
<1>1. /\ pc = "resync" /\ ~filling /\ Ready /\ made = 0
      /\ ring \in 0..CapFrames /\ staged \in 0..PopChunk /\ occ \in Nat /\ target \in Int
      /\ resyncs \in 0..(CountRange - 1)
  BY <1>0 DEF Resync, ConverterInv, TypeOK, StagesOfPull
<1>2. /\ ring' = ring - MinOf(ring, MaxOf(occ - target, 0)) /\ occ' = ring' + staged
      /\ resyncs' = CountUp(resyncs) /\ pc' = "update"
      /\ UNCHANGED <<pushing, lined, staged, phase, primed, target, observed, filling, fadeLeft,
                     pubState, overruns, underruns, frames, made, adv, eps, sinceFill, ranDry>>
  BY DEF Resync, setpoint, resampler
<1>3. settled' \in BOOLEAN
  BY DEF Resync
<1>4. ring' \in 0..CapFrames /\ ring' <= ring /\ occ' \in Nat
  BY <1>0, <1>1, <1>2 DEF MinOf, MaxOf
<1>5. resyncs' \in 0..(CountRange - 1)
  BY <1>1, <1>2, CountUpIsCount
<1>6. TypeOK'
  BY <1>2, <1>3, <1>4, <1>5 DEF ConverterInv, TypeOK
<1>7. NoOverfill'
  BY <1>0, <1>1, <1>2, <1>4 DEF ConverterInv, TypeOK, NoOverfill, MaxOf
<1> QED BY <1>1, <1>2, <1>6, <1>7 DEF ConverterInv, StagesOfPull, Ready, Ramp, StatusTrue

LEMMA UpdateServoKeeps ==
  ASSUME ConverterInv, UpdateServo
  PROVE  ConverterInv'
<1>0. FadeFrames \in Nat
  BY ParametersAreCounts
<1>1. /\ pc = "update" /\ ~filling /\ Ready /\ made = 0 /\ fadeLeft = FadeFrames - sinceFill
      /\ sinceFill \in 0..FadeFrames
  BY DEF UpdateServo, ConverterInv, TypeOK, StagesOfPull, Ramp
<1>2. /\ eps' \in Deviations /\ adv' = Advance(phase, eps') /\ occ' = 0 /\ pc' = "process"
      /\ UNCHANGED <<ring, pushing, lined, staged, phase, primed, target, observed, filling,
                     fadeLeft, pubState, overruns, underruns, resyncs, frames, made, sinceFill,
                     ranDry, settled>>
  BY EpsIsDeviation DEF UpdateServo, resampler, setpoint, counters
<1>3. adv' \in Nat
  BY <1>2, PhaseStepTypes DEF ConverterInv, TypeOK
<1>4. TypeOK'
  BY <1>2, <1>3 DEF ConverterInv, TypeOK
<1>5. Ramp'
  BY <1>0, <1>1, <1>2 DEF Ramp, MinOf
<1> QED BY <1>1, <1>2, <1>4, <1>5 DEF ConverterInv, NoOverfill, StagesOfPull, Ready, StatusTrue

LEMMA ProcessAppendKeeps ==
  ASSUME ConverterInv, ProcessAppend
  PROVE  ConverterInv'
<1>0. CapFrames \in Nat /\ Taps \in Nat \ {0}
  BY ParametersAreCounts
<1>1. /\ pc = "process" /\ CanAppend /\ AppendOne /\ adv' = adv - 1 /\ adv > 0
      /\ UNCHANGED <<pushing, phase, primed, target, observed, filling, fadeLeft, pubState,
                     overruns, underruns, resyncs, pc, frames, made, eps, occ, sinceFill,
                     ranDry, settled>>
  BY DEF ProcessAppend, setpoint, counters
<1>2. ~filling /\ Ready /\ adv \in Nat /\ ring \in 0..CapFrames
  BY <1>1 DEF ConverterInv, TypeOK, StagesOfPull
<1>3. /\ ring' \in 0..CapFrames /\ ring' <= ring
      /\ staged' \in 0..PopChunk /\ lined' \in 0..Taps
      /\ lined' = MinOf(lined + 1, Taps)
  BY <1>1, AppendOneTakesOne DEF ConverterInv
<1>4. adv' \in Nat /\ lined' = Taps
  BY <1>0, <1>1, <1>2, <1>3 DEF Ready, MinOf
<1>5. TypeOK'
  BY <1>1, <1>3, <1>4 DEF ConverterInv, TypeOK
<1>6. NoOverfill'
  <2>1. pushing' = pushing /\ pushing \in -1..CapFrames /\ ring + MaxOf(pushing, 0) <= CapFrames
    BY <1>1 DEF ConverterInv, TypeOK, NoOverfill
  <2>2. ring \in Int /\ ring' \in Int /\ ring' <= ring /\ CapFrames \in Int
    BY <1>0, <1>2, <1>3
  <2>3. PICK r \in Int : r = ring'
    BY <2>2
  <2>4. r <= ring
    BY <2>2, <2>3
  <2>5. r + MaxOf(pushing, 0) <= CapFrames
    BY <2>1, <2>2, <2>4 DEF MaxOf
  <2> QED BY <2>1, <2>3, <2>5 DEF NoOverfill
<1> QED BY <1>1, <1>2, <1>4, <1>5, <1>6 DEF ConverterInv, StagesOfPull, Ready, Ramp, StatusTrue

LEMMA ProcessEmitKeeps ==
  ASSUME ConverterInv, ProcessEmit
  PROVE  ConverterInv'
<1>0. FadeFrames \in Nat
  BY ParametersAreCounts
<1>1. /\ pc = "process" /\ made < frames /\ phase' = NextPhase(phase, eps) /\ made' = made + 1
      /\ adv' = Advance(phase', eps) /\ sinceFill' = MinOf(sinceFill + 1, FadeFrames)
      /\ UNCHANGED <<ring, pushing, lined, staged, primed, target, observed, filling, fadeLeft,
                     pubState, overruns, underruns, resyncs, pc, frames, eps, occ, ranDry, settled>>
  BY DEF ProcessEmit, setpoint, counters
<1>2. /\ ~filling /\ Ready /\ frames \in Nat /\ made \in 0..frames
      /\ phase \in Phases /\ eps \in Deviations
      /\ fadeLeft \in 0..FadeFrames /\ sinceFill \in 0..FadeFrames
      /\ sinceFill = MinOf(FadeFrames - fadeLeft + made, FadeFrames)
  BY <1>1 DEF ConverterInv, TypeOK, StagesOfPull, Ramp
<1>3. phase' \in Phases /\ adv' \in Nat
  BY <1>1, <1>2, PhaseStepTypes
<1>4. made' \in 0..frames /\ sinceFill' \in 0..FadeFrames
      /\ sinceFill' = MinOf(FadeFrames - fadeLeft + made', FadeFrames)
  BY <1>0, <1>1, <1>2 DEF MinOf
<1>5. TypeOK'
  BY <1>1, <1>3, <1>4 DEF ConverterInv, TypeOK
<1> QED BY <1>1, <1>2, <1>4, <1>5
        DEF ConverterInv, NoOverfill, StagesOfPull, Ready, Ramp, StatusTrue

(* The ramp is left where the frames just made have taken it.               *)
LEMMA FadeInIsSettled ==
  ASSUME ConverterInv, pc = "process", ApplyFadeIn
  PROVE  fadeLeft' \in 0..FadeFrames /\ fadeLeft' = FadeFrames - sinceFill
<1>1. /\ FadeFrames \in Nat /\ frames \in Nat /\ made \in 0..frames
      /\ fadeLeft \in 0..FadeFrames
      /\ sinceFill = MinOf(FadeFrames - fadeLeft + made, FadeFrames)
  BY ParametersAreCounts DEF ConverterInv, TypeOK, Ramp
<1>2. fadeLeft' = fadeLeft - MinOf(made, fadeLeft)
  BY DEF ApplyFadeIn
<1> QED BY <1>1, <1>2 DEF MinOf

LEMMA PullDoneKeeps ==
  ASSUME ConverterInv, PullDone
  PROVE  ConverterInv'
<1>1. /\ pc = "process" /\ ApplyFadeIn
      /\ pubState' = IF filling THEN "filling" ELSE "running"
      /\ pc' = "idle" /\ frames' = 0 /\ made' = 0 /\ adv' = 0 /\ eps' = 0 /\ occ' = 0
      /\ UNCHANGED <<ring, pushing, lined, staged, phase, primed, target, observed, filling,
                     overruns, underruns, resyncs, sinceFill, ranDry>>
  BY DEF PullDone, Return, resampler, setpoint, counters
<1>2. settled' \in BOOLEAN
  BY DEF PullDone, Return
<1>3. ~filling /\ Ready /\ fadeLeft' \in 0..FadeFrames /\ fadeLeft' = FadeFrames - sinceFill
  BY <1>1, FadeInIsSettled DEF ConverterInv, StagesOfPull
<1>4. 0 \in Deviations
  BY ParametersAreCounts DEF Deviations
<1>5. TypeOK'
  BY <1>1, <1>2, <1>3, <1>4 DEF ConverterInv, TypeOK
<1> QED BY <1>1, <1>3, <1>5 DEF ConverterInv, NoOverfill, StagesOfPull, Ready, Ramp, StatusTrue

(* The ring and the scratch are empty when the converter goes back to       *)
(* filling.                                                                 *)
LEMMA UnderrunKeeps ==
  ASSUME ConverterInv, Underrun
  PROVE  ConverterInv'
<1>1. /\ pc = "process" /\ ApplyFadeIn /\ ~CanAppend
      /\ underruns' = CountUp(underruns)
      /\ pc' = "idle" /\ frames' = 0 /\ made' = 0 /\ adv' = 0 /\ eps' = 0 /\ occ' = 0
      /\ UNCHANGED <<ring, pushing, lined, staged, phase, primed, target, observed, overruns,
                     resyncs, sinceFill>>
  BY DEF Underrun, Return, resampler, setpoint
<1>2. filling' /\ filling' \in BOOLEAN /\ ranDry' \in BOOLEAN /\ settled' \in BOOLEAN
  BY DEF Underrun, Return
<1>3. pubState' = "filling"
  BY <1>2 DEF Underrun, Return
<1>4. staged = 0
  <2>1. staged \in 0..PopChunk /\ PopChunk \in Nat
    BY ParametersAreCounts DEF ConverterInv, TypeOK
  <2> QED BY <1>1, <2>1 DEF CanAppend
<1>5. fadeLeft' \in 0..FadeFrames /\ fadeLeft' = FadeFrames - sinceFill
  BY <1>1, FadeInIsSettled
<1>6. underruns' \in 0..(CountRange - 1)
  BY <1>1, CountUpIsCount DEF ConverterInv, TypeOK
<1>7. 0 \in Deviations
  BY ParametersAreCounts DEF Deviations
<1>8. TypeOK'
  BY <1>1, <1>2, <1>3, <1>5, <1>6, <1>7 DEF ConverterInv, TypeOK
<1> QED BY <1>1, <1>2, <1>3, <1>4, <1>5, <1>8
        DEF ConverterInv, NoOverfill, StagesOfPull, Ready, Ramp, StatusTrue

LEMMA ResetFromConsumerKeeps ==
  ASSUME ConverterInv, ResetFromConsumer
  PROVE  ConverterInv'
<1>0. CapFrames \in Nat /\ Taps \in Nat /\ PopChunk \in Nat /\ PhaseRange \in Nat \ {0}
  BY ParametersAreCounts
<1>1. /\ pc = "idle" /\ ring' = 0 /\ lined' = 0 /\ staged' = 0 /\ phase' = 0
      /\ pubState' = "filling"
      /\ UNCHANGED <<pushing, target, observed, fadeLeft, overruns, underruns, resyncs, pc,
                     frames, made, adv, eps, occ, sinceFill, settled>>
  BY DEF ResetFromConsumer, ResamplerReset, setpoint, counters, call
<1>2. filling' /\ filling' \in BOOLEAN /\ primed' \in BOOLEAN /\ ranDry' \in BOOLEAN
  BY DEF ResetFromConsumer, ResamplerReset
<1>3. 0 \in Phases
  BY <1>0 DEF Phases
<1>4. TypeOK'
  BY <1>0, <1>1, <1>2, <1>3 DEF ConverterInv, TypeOK
<1>5. NoOverfill'
  BY <1>0, <1>1 DEF ConverterInv, TypeOK, NoOverfill, MaxOf
<1> QED BY <1>1, <1>2, <1>4, <1>5 DEF ConverterInv, StagesOfPull, Ready, Ramp, StatusTrue

-----------------------------------------------------------------------------
LEMMA NextKeepsConverterInv == ConverterInv /\ [Next]_vars => ConverterInv'
<1> SUFFICES ASSUME ConverterInv, [Next]_vars PROVE ConverterInv'
  OBVIOUS
<1>1. CASE Push
  <2>1. CASE \E n \in PushSizes : PushStart(n)
    BY <2>1, PushStartKeeps
  <2>2. CASE PushPublish
    BY <2>2, PushPublishKeeps
  <2> QED BY <1>1, <2>1, <2>2 DEF Push
<1>2. CASE \E n \in PullSizes : PullStart(n)
  BY <1>2, PullStartKeeps
<1>3. CASE PullStep
  BY <1>3, PrimeKeeps, SeedKeeps, ResyncKeeps, UpdateServoKeeps, ProcessAppendKeeps,
     ProcessEmitKeeps, PullDoneKeeps, UnderrunKeeps DEF PullStep
<1>4. CASE ResetFromConsumer
  BY <1>4, ResetFromConsumerKeeps
<1>5. CASE UNCHANGED vars
  <2>1. UNCHANGED <<ring, pushing, lined, staged, phase, primed, target, observed, filling,
                    fadeLeft, pubState, overruns, underruns, resyncs, pc, frames, made, adv,
                    eps, occ, sinceFill, ranDry, settled>>
    BY <1>5 DEF vars, resampler, setpoint, call, counters
  <2>2. TypeOK'
    BY <2>1 DEF ConverterInv, TypeOK
  <2> QED BY <2>1, <2>2 DEF ConverterInv, NoOverfill, StagesOfPull, Ready, Ramp, StatusTrue
<1> QED BY <1>1, <1>2, <1>3, <1>4, <1>5 DEF Next, Pull

(* The inductive invariant: where a pull() stands, what the filter has and  *)
(* what the ring holds agree, with a push() at any point of it.             *)
THEOREM ConverterInvariant == Spec => []ConverterInv
<1> QED BY InitConverterInv, NextKeepsConverterInv, PTL DEF Spec

(* Every count stays in its range, for every accepted configuration: push(),*)
(* pull() and reset_from_consumer().                                        *)
THEOREM ConverterTypeCorrect == Spec => []TypeOK
<1>1. ConverterInv => TypeOK
  BY DEF ConverterInv
<1> QED BY <1>1, ConverterInvariant, PTL

(* push() never publishes more than the ring holds, however late it publishes.*)
THEOREM RingNeverOverfilled == Spec => []NoOverfill
<1>1. ConverterInv => NoOverfill
  BY DEF ConverterInv
<1> QED BY <1>1, ConverterInvariant, PTL

(* The filter is always served: prime() finds its frames, since the backlog *)
(* that ended the filling is all on the ring and nothing takes from it      *)
(* before prime() does; process() runs on a full delay line that was primed *)
(* since it last ran dry or was reset.                                      *)
THEOREM FilterAlwaysServed == Spec => []FilterServed
<1>1. ConverterInv => PrimeNeverDry
  BY DEF ConverterInv, StagesOfPull, Ready, PrimeNeverDry
<1>2. ConverterInv => PreconditionsUpheld
  BY DEF ConverterInv, StagesOfPull, Ready, PreconditionsUpheld
<1>3. ConverterInv => FilterServed
  BY <1>1, <1>2 DEF FilterServed
<1> QED BY <1>3, ConverterInvariant, PTL

(* Whatever blocks raised the setpoint, the start-up level and the resync   *)
(* watermark stay below the ring's capacity: m_max_target_frames is tight   *)
(* enough for every ring size, tap count and configured latency.            *)
THEOREM LevelsAlwaysFit == Spec => []LevelsFit
<1>1. ConverterInv => LevelsFit
  BY AnySetpointFits DEF ConverterInv, TypeOK, LevelsFit
<1> QED BY <1>1, ConverterInvariant, PTL

(* The fade ramp of a (re)fill is, between two calls, as far along as the   *)
(* frames made since: it neither restarts nor skips over a short pull().    *)
THEOREM FadeIsContinuous == Spec => []FadeContinuous
<1>1. ConverterInv => FadeContinuous
  BY DEF ConverterInv, Ramp, FadeContinuous
<1> QED BY <1>1, ConverterInvariant, PTL

(* status() between two pulls tells whether the converter is filling.       *)
THEOREM PublishedStateIsTrue == Spec => []StatusTrue
<1>1. ConverterInv => StatusTrue
  BY DEF ConverterInv
<1> QED BY <1>1, ConverterInvariant, PTL

-----------------------------------------------------------------------------
(* A fresh start delivers.  What process() takes for a block is exact: the  *)
(* frames of its first output and those of the rest from the next phase on. *)

LEMMA AdvanceIsFloor ==
  ASSUME NEW p \in Phases, NEW e \in Deviations
  PROVE  p + e = PhaseRange * (Advance(p, e) - 1) + NextPhase(p, e)
<1> DEFINE R == PhaseRange
<1>1. R \in Nat \ {0} /\ p \in 0..(R - 1) /\ e \in (1 - R)..(R - 1)
  BY ParametersAreCounts DEF Phases, Deviations
<1> HIDE DEF R
<1>2. NextPhase(p, e) = IF p + e >= R THEN p + e - R ELSE IF p + e < 0 THEN p + e + R ELSE p + e
  <2>1. (p + e) % R = IF p + e >= R THEN p + e - R ELSE IF p + e < 0 THEN p + e + R ELSE p + e
    BY <1>1, WrapOnce
  <2> QED BY <2>1 DEF NextPhase, R
<1>3. Advance(p, e) - 1 = IF p + e >= R THEN 1 ELSE IF p + e < 0 THEN -1 ELSE 0
  BY <1>1, <1>2 DEF Advance
<1>4. p + e = R * (Advance(p, e) - 1) + NextPhase(p, e)
  BY <1>1, <1>2, <1>3
<1> QED BY <1>4 DEF R

LEMMA ToGoSteps ==
  ASSUME NEW k \in Nat, NEW p \in Phases, NEW e \in Deviations
  PROVE  ToGo(k + 1, p, e) = Advance(p, e) + ToGo(k, NextPhase(p, e), e)
<1> DEFINE R == PhaseRange
           f == Advance(p, e) - 1
           q == NextPhase(p, e)
           x == q + k * e
           d == x \div R
           r == x % R
<1>1. R \in Nat \ {0} /\ p \in Int /\ e \in Int /\ f \in Int /\ q \in Int /\ p + e = R * f + q
  <2>1. Advance(p, e) \in 0..2 /\ NextPhase(p, e) \in Phases
    BY PhaseStepTypes
  <2>2. p + e = R * f + q
    BY AdvanceIsFloor
  <2> QED BY <2>1, <2>2, ParametersAreCounts DEF Phases, Deviations
<1> HIDE DEF R, f, q
<1>2. k * e \in Int /\ (k + 1) * e = k * e + e
  BY <1>1
<1>3. x \in Int
  BY <1>1, <1>2
<1>4. x = R * d + r /\ d \in Int /\ r \in 0..(R - 1)
  <2> HIDE DEF x
  <2> QED BY <1>1, <1>3, DivParts
<1>5. p + (k + 1) * e = (p + e) + k * e
  BY <1>1, <1>2
<1>6. p + (k + 1) * e = R * f + x
  BY <1>1, <1>2, <1>5
<1> HIDE DEF x, d, r
<1>7. R * f + x = R * (f + d) + r
  <2>1. R * (f + d) = R * f + R * d /\ R * f \in Int /\ R * d \in Int
    BY <1>1, <1>4
  <2> QED BY <1>3, <1>4, <2>1
<1>8. (p + (k + 1) * e) \div R = f + d
  <2> DEFINE a == p + (k + 1) * e
             b == f + d
  <2>1. a \in Int /\ b \in Int /\ a = R * b + r
    BY <1>1, <1>2, <1>3, <1>4, <1>6, <1>7
  <2> HIDE DEF a, b
  <2>2. a \div R = b
    BY <1>1, <1>4, <2>1, DivUnique
  <2> QED BY <2>2 DEF a, b
<1>9. ToGo(k + 1, p, e) = k + 1 + (f + d)
  BY <1>8 DEF ToGo, R
<1>10. ToGo(k, q, e) = k + d
  BY DEF ToGo, d, x, R
<1>11. Advance(p, e) = f + 1
  BY PhaseStepTypes DEF f
<1> QED BY <1>1, <1>4, <1>9, <1>10, <1>11 DEF q

LEMMA ToGoIsNat ==
  ASSUME NEW k \in Nat, NEW p \in Phases, NEW e \in Deviations
  PROVE  ToGo(k, p, e) \in Nat
<1> DEFINE R == PhaseRange
           x == p + k * e
           low == R * (-k)
<1>1. R \in Nat \ {0} /\ p \in Nat /\ e \in Int /\ e >= -R
  BY ParametersAreCounts DEF Phases, Deviations
<1> HIDE DEF R
<1>2. x \in Int /\ low \in Int /\ low <= x
  <2>1. k * e \in Int /\ k * e >= k * (-R)
    BY <1>1
  <2>2. k * (-R) = low
    BY <1>1
  <2> QED BY <1>1, <2>1, <2>2
<1>3. low \div R = -k
  <2>1. low = R * (-k) + 0 /\ -k \in Int /\ 0 \in 0..(R - 1)
    BY <1>1, <1>2
  <2> HIDE DEF low
  <2> QED BY <1>1, <1>2, <2>1, DivUnique
<1> HIDE DEF x, low
<1>4. low \div R <= x \div R
  BY <1>1, <1>2, DivMonotonic
<1>5. x \div R \in Int
  BY <1>1, <1>2, DivParts
<1>6. k + x \div R \in Nat
  BY <1>3, <1>4, <1>5
<1> QED BY <1>6 DEF ToGo, x, R

(* The margin of a setpoint is more than the clamp lets a block take.       *)
LEMMA SetpointCoversBlock ==
  ASSUME NEW n \in Nat, NEW p \in Phases, NEW e \in EpsRange
  PROVE  ToGo(n, p, e) <= Needed(n)
<1> DEFINE R == PhaseRange
           x == p + n * e
           d == x \div R
           h == n \div 2
<1>1. R \in Nat \ {0} /\ p \in 0..(R - 1) /\ e \in Int /\ 4 * e <= R /\ PopChunk \in Nat \ {0}
  BY ParametersAreCounts, EpsAssumption DEF Phases
<1> HIDE DEF R
<1>2. x \in Int /\ 4 * x <= 4 * R - 4 + n * R
  <2>1. n * e \in Int /\ n * R \in Int /\ 4 * (n * e) <= n * R
    <3>1. n * (4 * e) <= n * R
      BY <1>1
    <3>2. n * (4 * e) = 4 * (n * e)
      BY <1>1
    <3> QED BY <1>1, <3>1, <3>2
  <2> QED BY <1>1, <2>1
<1> HIDE DEF x
<1>3. d \in Int /\ R * d <= x
  BY <1>1, <1>2, DivParts
<1> HIDE DEF d
<1>4. 4 * d <= n + 3
  <2> SUFFICES ASSUME 4 * d >= n + 4 PROVE FALSE
    BY <1>3
  <2>1. R * (4 * d) >= R * (n + 4)
    BY <1>1, <1>3
  <2>2. R * (4 * d) = 4 * (R * d) /\ R * (n + 4) = n * R + 4 * R
    BY <1>1, <1>3
  <2>3. R * d \in Int /\ n * R \in Int
    BY <1>1, <1>3
  <2> QED BY <1>1, <1>2, <1>3, <2>1, <2>2, <2>3
<1>5. h \in Int /\ n <= 2 * h + 1
  OBVIOUS
<1> HIDE DEF h
<1>6. d <= h \/ d <= PopChunk
  BY <1>1, <1>3, <1>4, <1>5
<1>7. ToGo(n, p, e) = n + d /\ Needed(n) = n + MaxOf(h, PopChunk)
  BY DEF ToGo, Needed, d, x, h, R
<1> QED BY <1>1, <1>3, <1>5, <1>6, <1>7 DEF MaxOf

LEMMA InitIsFresh == Init => FreshInv
BY DEF Init, FreshInv

LEMMA NextKeepsFresh == ConverterInv /\ FreshInv /\ [Next]_vars => FreshInv'
<1> SUFFICES ASSUME ConverterInv, FreshInv, [Next]_vars PROVE FreshInv'
  OBVIOUS
<1>1. /\ TypeOK /\ StagesOfPull
      /\ ring \in Nat /\ staged \in Nat /\ adv \in Nat /\ occ \in Nat /\ target \in Nat /\ frames \in Nat
      /\ made \in 0..frames /\ phase \in Phases /\ eps \in Deviations /\ Taps \in Nat /\ TargetLatency \in Nat
  <2>1. PopChunk \in Nat /\ CapFrames \in Nat /\ Taps \in Nat /\ TargetLatency \in Nat
    BY ParametersAreCounts
  <2> QED BY <2>1 DEF ConverterInv, TypeOK
<1>2. CASE \E n \in PushSizes : PushStart(n)
  BY <1>2 DEF PushStart, FreshInv, Backlog, resampler, setpoint, call
<1>3. CASE PushPublish
  <2>1. /\ ring' = ring + pushing /\ pushing # -1
        /\ UNCHANGED <<staged, phase, target, pc, frames, made, adv, eps, occ, settled>>
    BY <1>3 DEF PushPublish, resampler, setpoint, call
  <2>2. pushing \in Nat
    BY <2>1, ParametersAreCounts DEF ConverterInv, TypeOK
  <2> DEFINE left == ToGo(frames - made - 1, NextPhase(phase, eps), eps)
  <2>3. left' = left
    BY <2>1 DEF ToGo, NextPhase
  <2>4. made < frames => left \in Nat
    <3> SUFFICES ASSUME made < frames PROVE left \in Nat
      OBVIOUS
    <3>1. frames - made - 1 \in Nat /\ NextPhase(phase, eps) \in Phases
      BY <1>1, PhaseStepTypes
    <3> QED BY <1>1, <3>1, ToGoIsNat
  <2> HIDE DEF left
  <2> QED BY <1>1, <2>1, <2>2, <2>3, <2>4 DEF FreshInv, Backlog, left
<1>4. CASE \E n \in PullSizes : PullStart(n)
  <2>1. PICK n \in PullSizes : PullStart(n)
    BY <1>4
  <2>2. pc = "idle" /\ ring' = ring /\ ~settled
    BY <2>1 DEF PullStart, FreshInv
  <2>3. target' \in Nat
    <3>1. n \in Nat /\ Raise(n)
      BY <2>1, BlocksAssumption DEF PullStart
    <3>2. target' \in TargetLatency..MaxTarget
      BY <3>1, RaisedFits DEF Raise, setpoint, ConverterInv, TypeOK
    <3> QED BY <1>1, <3>2, MaxTargetIsNat
  <2>4. CASE filling /\ Return(filling)
    BY <2>4 DEF Return, FreshInv
  <2>5. CASE /\ filling /\ Backlog >= FillThreshold(target')
             /\ ResamplerReset /\ adv' = Taps /\ pc' = "prime" /\ settled' = settled
    <3>1. staged = 0
      BY <1>1, <2>2, <2>5 DEF StagesOfPull
    <3>2. staged' = 0 /\ ring + staged >= target' + Taps
      BY <2>5 DEF ResamplerReset, Backlog, FillThreshold
    <3>3. PICK t \in Nat : t = target'
      BY <2>3
    <3>4. ring + staged >= t + Taps
      BY <3>2, <3>3
    <3>5. ring + 0 >= Taps + t
      BY <1>1, <3>1, <3>4
    <3>6. ring' + staged' >= adv' + target'
      BY <2>2, <2>5, <3>2, <3>3, <3>5
    <3> QED BY <2>2, <2>5, <3>6 DEF FreshInv, Backlog
  <2>6. CASE /\ ~filling /\ occ' = Backlog /\ pc' = Watermark /\ settled' = settled /\ UNCHANGED resampler
    <3>1. occ' = ring + staged /\ staged' = staged
      BY <2>6 DEF Backlog, resampler
    <3>2. pc' \in {"resync", "update"} /\ (pc' = "resync" => occ' > HighWater(target'))
      BY <2>6 DEF Watermark
    <3>3. occ' > HighWater(target') => target' <= occ'
      <4>1. PICK t \in Nat : t = target'
        BY <2>3
      <4>2. HighWater(t) >= 3 * t /\ HighWater(t) \in Int
        BY <1>1 DEF HighWater, FillThreshold, MaxOf
      <4>3. PICK o \in Nat : o = occ'
        BY <1>1, <3>1
      <4>4. o > HighWater(t) => t <= o
        BY <4>2
      <4> QED BY <4>1, <4>3, <4>4
    <3> QED BY <1>1, <2>2, <2>6, <3>1, <3>2, <3>3 DEF FreshInv, Backlog
  <2> QED BY <2>1, <2>4, <2>5, <2>6 DEF PullStart
<1>5. CASE Prime
  <2>1. pc = "prime" /\ ~settled /\ adv > 0 /\ ring + staged >= adv + target /\ settled' = settled /\ target' = target
    BY <1>1, <1>5 DEF Prime, FreshInv, StagesOfPull, Backlog, setpoint
  <2>2. CanAppend
    BY <1>1, <2>1 DEF CanAppend
  <2>3. ring' + staged' = ring + staged - 1 /\ adv' = adv - 1 /\ pc' = IF adv = 1 THEN "seed" ELSE "prime"
    BY <1>1, <1>5, <2>2, AppendOneTakesOne DEF Prime
  <2> QED BY <1>1, <2>1, <2>3 DEF FreshInv, Backlog
<1>6. CASE Seed
  <2>1. /\ pc = "seed" /\ ring + staged >= target /\ occ' = ring + staged /\ pc' = Watermark
        /\ UNCHANGED <<ring, staged, target>>
    BY <1>6 DEF Seed, FreshInv, Backlog, resampler, setpoint
  <2> QED BY <1>1, <2>1 DEF FreshInv, Backlog, Watermark
<1>7. CASE Resync
  <2>1. /\ target <= occ /\ occ <= ring + staged /\ pc' = "update" /\ target' = target /\ staged' = staged
        /\ ring' = ring - MinOf(ring, MaxOf(occ - target, 0))
    BY <1>7 DEF Resync, FreshInv, Backlog, resampler, setpoint
  <2>2. ring' + staged' >= target'
    BY <1>1, <2>1 DEF MinOf, MaxOf
  <2> QED BY <2>1, <2>2 DEF FreshInv, Backlog
<1>8. CASE UpdateServo
  <2>1. /\ pc = "update" /\ eps' \in EpsRange /\ adv' = Advance(phase, eps') /\ pc' = "process" /\ made = 0
        /\ UNCHANGED <<ring, staged, phase, target, frames, made, settled>>
    BY <1>1, <1>8 DEF UpdateServo, StagesOfPull, resampler, setpoint
  <2> SUFFICES ASSUME settled, target >= Needed(frames), 0 < frames
               PROVE  ring + staged >= adv' + ToGo(frames - 1, NextPhase(phase, eps'), eps')
    BY <1>1, <2>1 DEF FreshInv, Backlog, ToGo, NextPhase, Needed
  <2>2. frames - 1 \in Nat /\ (frames - 1) + 1 = frames /\ eps' \in Deviations
    BY <1>1, <2>1, EpsIsDeviation
  <2>3. ToGo(frames, phase, eps') = adv' + ToGo(frames - 1, NextPhase(phase, eps'), eps')
    BY <1>1, <2>1, <2>2, ToGoSteps
  <2>4. ToGo(frames, phase, eps') <= Needed(frames) /\ ToGo(frames, phase, eps') \in Nat
    BY <1>1, <2>1, <2>2, SetpointCoversBlock, ToGoIsNat
  <2>5. ring + staged >= target
    BY <2>1 DEF FreshInv, Backlog
  <2>6. Needed(frames) \in Int
    BY <1>1, ParametersAreCounts DEF Needed, MaxOf
  <2> QED BY <1>1, <2>3, <2>4, <2>5, <2>6
<1>9. CASE ProcessAppend
  <2>1. /\ pc = "process" /\ pc' = pc /\ made < frames /\ adv > 0 /\ adv' = adv - 1
        /\ UNCHANGED <<phase, target, frames, made, eps, settled>>
    BY <1>9 DEF ProcessAppend, setpoint
  <2>2. ring' + staged' = ring + staged - 1
    BY <1>1, <1>9, AppendOneTakesOne DEF ProcessAppend
  <2> DEFINE left == ToGo(frames - made - 1, NextPhase(phase, eps), eps)
  <2>3. left' = left
    BY <2>1 DEF ToGo, NextPhase
  <2>4. left \in Nat
    <3>1. frames - made - 1 \in Nat /\ NextPhase(phase, eps) \in Phases
      BY <1>1, <2>1, PhaseStepTypes
    <3> QED BY <1>1, <3>1, ToGoIsNat
  <2>5. settled /\ target >= Needed(frames) => ring + staged >= adv + left
    BY <2>1 DEF FreshInv, Backlog
  <2> HIDE DEF left
  <2>6. Needed(frames)' = Needed(frames)
    BY <2>1 DEF Needed
  <2>7. settled /\ target >= Needed(frames) => ring' + staged' >= adv' + left'
    BY <1>1, <2>1, <2>2, <2>3, <2>4, <2>5
  <2> QED BY <2>1, <2>6, <2>7 DEF FreshInv, Backlog, left
<1>10. CASE ProcessEmit
  <2>1. /\ pc = "process" /\ pc' = pc /\ made < frames /\ adv = 0 /\ phase' = NextPhase(phase, eps)
        /\ made' = made + 1 /\ adv' = Advance(phase', eps)
        /\ UNCHANGED <<ring, staged, target, frames, eps, settled>>
    BY <1>10 DEF ProcessEmit, setpoint
  <2>2. Needed(frames)' = Needed(frames)
    BY <2>1 DEF Needed
  <2> SUFFICES ASSUME settled, target >= Needed(frames), made' < frames
               PROVE  ring' + staged' >= adv' + ToGo(frames - made' - 1, NextPhase(phase', eps), eps)
    BY <2>1, <2>2 DEF FreshInv, Backlog, ToGo, NextPhase
  <2>3. phase' \in Phases /\ frames - made' - 1 \in Nat /\ (frames - made' - 1) + 1 = frames - made - 1
    BY <1>1, <2>1, PhaseStepTypes
  <2>4. ToGo(frames - made - 1, phase', eps) = adv' + ToGo(frames - made' - 1, NextPhase(phase', eps), eps)
    BY <1>1, <2>1, <2>3, ToGoSteps
  <2>5. ring + staged >= adv + ToGo(frames - made - 1, phase', eps)
    BY <2>1 DEF FreshInv, Backlog
  <2>6. ToGo(frames - made - 1, phase', eps) \in Nat
    BY <1>1, <2>3, ToGoIsNat
  <2> QED BY <1>1, <2>1, <2>4, <2>5, <2>6
<1>11. CASE PullDone \/ Underrun
  BY <1>11 DEF PullDone, Underrun, Return, FreshInv
<1>12. CASE ResetFromConsumer
  BY <1>12 DEF ResetFromConsumer, call, FreshInv
<1>13. CASE UNCHANGED vars
  BY <1>13 DEF vars, resampler, setpoint, call, FreshInv, Backlog, ToGo, NextPhase, Needed
<1> QED BY <1>2, <1>3, <1>4, <1>5, <1>6, <1>7, <1>8, <1>9, <1>10, <1>11, <1>12, <1>13
        DEF Next, Push, Pull, PullStep

(* A pull() that has just refilled or resynced delivers its whole block, if *)
(* the setpoint covers the block: for every block, phase and deviation      *)
(* within the clamp, whatever the producer does meanwhile.                  *)
THEOREM FreshStartsDeliver == Spec => FreshStartDelivers
<1> DEFINE Delivers == Underrun => ~settled \/ target < Needed(frames)
<1>1. ConverterInv /\ FreshInv /\ [Next]_vars => [Delivers]_vars
  <2> SUFFICES ASSUME ConverterInv, FreshInv, Underrun, settled, ~(target < Needed(frames))
               PROVE  FALSE
    OBVIOUS
  <2>1. /\ pc = "process" /\ made < frames /\ adv > 0 /\ ~CanAppend
    BY DEF Underrun
  <2>2. /\ ring \in Nat /\ staged \in Nat /\ adv \in Nat /\ target \in Nat /\ frames \in Nat
        /\ made \in 0..frames /\ phase \in Phases /\ eps \in Deviations /\ Needed(frames) \in Int
    <3>1. PopChunk \in Nat /\ CapFrames \in Nat /\ Taps \in Nat /\ TargetLatency \in Nat
      BY ParametersAreCounts
    <3>2. /\ ring \in Nat /\ staged \in Nat /\ adv \in Nat /\ target \in Nat /\ frames \in Nat
          /\ made \in 0..frames /\ phase \in Phases /\ eps \in Deviations
      BY <3>1 DEF ConverterInv, TypeOK
    <3> QED BY <3>1, <3>2 DEF Needed, MaxOf
  <2> DEFINE left == ToGo(frames - made - 1, NextPhase(phase, eps), eps)
  <2>3. left \in Nat
    <3>1. frames - made - 1 \in Nat /\ NextPhase(phase, eps) \in Phases
      BY <2>1, <2>2, PhaseStepTypes
    <3> QED BY <2>2, <3>1, ToGoIsNat
  <2>4. target >= Needed(frames)
    BY <2>2
  <2>5. ring + staged >= adv + left
    BY <2>1, <2>4 DEF FreshInv, Backlog
  <2> HIDE DEF left
  <2>6. ring = 0 /\ staged = 0
    BY <2>1, <2>2 DEF CanAppend
  <2> QED BY <2>1, <2>2, <2>3, <2>5, <2>6
<1> HIDE DEF Delivers
<1>2. Spec => []FreshInv
  BY InitIsFresh, NextKeepsFresh, ConverterInvariant, PTL DEF Spec
<1>3. Spec => [][Delivers]_vars
  BY <1>1, <1>2, ConverterInvariant, PTL DEF Spec
<1> QED BY <1>3 DEF FreshStartDelivers, Delivers

-----------------------------------------------------------------------------
(* The servo.                                                               *)

(* A hold under way is shorter than the stage asks for; the last stage has  *)
(* none.                                                                    *)
HoldIsOpen ==
  /\ stage = "acquire" => holdTimer < LockHold
  /\ stage = "track" => holdTimer < QuietHold
  /\ stage = "quiet" => holdTimer = 0

ServoInv == ServoTypeOK /\ HoldIsOpen /\ HoldIsHonest /\ AverageOfHold

-----------------------------------------------------------------------------
LEMMA ClampedIsBounded ==
  ASSUME NEW x \in Int
  PROVE  Clamped(x) \in -Limit..Limit
BY ServoAssumption DEF Clamped

LEMMA BetweenIsBounded ==
  ASSUME NEW a \in Int, NEW b \in Int, NEW x \in Between(a, b)
  PROVE  /\ x \in Int
         /\ (a <= x /\ x <= b) \/ (b <= x /\ x <= a)
BY DEF Between

(* The running average stays between the deviations it was made of.         *)
LEMMA AveragedIsBounded ==
  ASSUME ServoTypeOK, NEW dt \in Nat, Averaged(dt)
  PROVE  epsAvg' \in -Limit..Limit
<1>0. epsAvg \in -Limit..Limit /\ epsHat \in -Limit..Limit /\ Limit \in Nat
  BY ServoAssumption DEF ServoTypeOK
<1>1. epsAvg' \in {epsHat} \/ epsAvg' \in {epsAvg} \/ epsAvg' \in Between(epsAvg, epsHat)
  BY DEF Averaged
<1>2. CASE epsAvg' \in Between(epsAvg, epsHat)
  <2>1. epsAvg' \in Int /\ ((epsAvg <= epsAvg' /\ epsAvg' <= epsHat) \/ (epsHat <= epsAvg' /\ epsAvg' <= epsAvg))
    BY <1>0, <1>2, BetweenIsBounded
  <2> QED BY <1>0, <2>1
<1> QED BY <1>0, <1>1, <1>2

-----------------------------------------------------------------------------
LEMMA InitServoInv == ServoInit => ServoInv
<1> SUFFICES ASSUME ServoInit
             PROVE  ServoInv
  OBVIOUS
<1>1. calm \in BOOLEAN
  BY Zenon DEF ServoInit
<1>2. {epsAvg, integ, epsHat} \subseteq -Limit..Limit
  BY ServoAssumption DEF ServoInit
<1>3. stage = "acquire" /\ holdTimer = 0 /\ calmFor = 0 /\ seen = {}
  BY DEF ServoInit
<1> QED BY <1>1, <1>2, <1>3, ServoAssumption
        DEF ServoInv, ServoTypeOK, Stages, HoldIsOpen, HoldIsHonest, AverageOfHold

LEMMA ResetKeeps ==
  ASSUME ServoInv, NEW keep \in BOOLEAN, Reset(keep)
  PROVE  ServoInv'
<1>1. calm' \in BOOLEAN
  BY Zenon DEF Reset
<1>2. {epsAvg', integ', epsHat'} \subseteq -Limit..Limit
  BY ServoAssumption DEF Reset, ServoInv, ServoTypeOK
<1>3. stage' = "acquire" /\ holdTimer' = 0 /\ calmFor' = 0 /\ seen' = {}
  BY DEF Reset
<1> QED BY <1>1, <1>2, <1>3, ServoAssumption
        DEF ServoInv, ServoTypeOK, Stages, HoldIsOpen, HoldIsHonest, AverageOfHold

(* The clamps: whatever stage is in force and whatever it loads.            *)
LEMMA OutputIsBounded ==
  ASSUME ServoTypeOK, NEW eFast \in Int, NEW eQuiet \in Int, NEW dt \in Nat,
         stage' \in Stages, epsAvg' \in -Limit..Limit, Output(eFast, eQuiet, dt)
  PROVE  integ' \in -Limit..Limit /\ epsHat' \in -Limit..Limit
<1> DEFINE e    == IF stage' = "quiet" THEN eQuiet ELSE eFast
           from == IF Promoted THEN Clamped(epsAvg') ELSE integ
<1>1. e \in Int /\ Ki[stage'] \in Int /\ Kp[stage'] \in Int /\ dt \in Int
  BY ServoAssumption
<1>2. from \in Int
  <2>1. epsAvg' \in Int /\ integ \in Int
    BY ServoAssumption DEF ServoTypeOK
  <2>2. Clamped(epsAvg') \in Int
    BY <2>1, ClampedIsBounded, ServoAssumption
  <2> QED BY <2>1, <2>2
<1>3. integ' = Clamped(from + Ki[stage'] * e * dt) /\ epsHat' = Clamped(Kp[stage'] * e + integ')
  BY DEF Output
<1>4. integ' \in -Limit..Limit
  <2>1. from + Ki[stage'] * e * dt \in Int
    BY <1>1, <1>2
  <2> QED BY <1>3, <2>1, ClampedIsBounded
<1>5. epsHat' \in -Limit..Limit
  <2>1. integ' \in Int
    BY <1>4, ServoAssumption
  <2>2. Kp[stage'] * e + integ' \in Int
    BY <1>1, <2>1
  <2> QED BY <1>3, <2>2, ClampedIsBounded
<1> QED BY <1>4, <1>5

LEMMA ObserverKeepsTypes ==
  ASSUME ServoTypeOK, NEW eFast \in Int, NEW eQuiet \in Int, NEW dt \in Nat,
         ObserveHold(eFast, eQuiet, dt)
  PROVE  calmFor' \in Nat /\ seen' \subseteq -Limit..Limit /\ calm' \in BOOLEAN
<1>1. calm' \in BOOLEAN
  BY Zenon DEF ObserveHold
<1>2. epsHat \in -Limit..Limit /\ seen \subseteq -Limit..Limit /\ calmFor \in Nat
  BY DEF ServoTypeOK
<1>3. calmFor' \in {0, calmFor + dt, LockHold + QuietHold}
  BY DEF ObserveHold
<1>4. seen' \in {{}, {epsHat}, seen \union {epsHat}}
  BY DEF ObserveHold
<1>5. calmFor' \in Nat
  BY <1>2, <1>3, ServoAssumption
<1>6. seen' \subseteq -Limit..Limit
  BY <1>2, <1>4
<1> QED BY <1>1, <1>5, <1>6

(* A hold that goes on: timer and observer add the same block, and the      *)
(* average stays within what the observer has seen.                         *)
LEMMA HoldKeeps ==
  ASSUME ServoInv, NEW eFast \in Int, NEW eQuiet \in Int, NEW dt \in Nat, NEW hold \in Nat,
         \/ stage = "acquire" /\ hold = LockHold
         \/ stage = "track" /\ hold = QuietHold,
         Hold(Watched(eFast, eQuiet), hold, dt),
         ObserveHold(eFast, eQuiet, dt)
  PROVE  HoldIsOpen' /\ HoldIsHonest' /\ AverageOfHold'
<1>1. stage' = stage /\ stage # "quiet" /\ holdTimer' = holdTimer + dt /\ holdTimer' < hold
  BY DEF Hold
<1>2. holdTimer = calmFor /\ holdTimer \in Nat
  BY <1>1 DEF ServoInv, ServoTypeOK, HoldIsHonest
<1>3. /\ calmFor' = IF calmFor + dt < LockHold + QuietHold THEN calmFor + dt ELSE LockHold + QuietHold
      /\ seen' = IF calmFor = 0 THEN {epsHat} ELSE seen \union {epsHat}
  BY <1>1 DEF ObserveHold, Hold
<1>4. hold < LockHold + QuietHold
  BY ServoAssumption
<1>5. HoldIsHonest'
  BY <1>1, <1>2, <1>3, <1>4, ServoAssumption DEF HoldIsHonest
<1>6. HoldIsOpen'
  BY <1>1, ServoAssumption DEF HoldIsOpen
<1>7. AverageOfHold'
  <2>0. epsAvg \in Int /\ epsHat \in Int /\ seen \subseteq Int
    BY ServoAssumption DEF ServoInv, ServoTypeOK
  <2>1. Averaged(dt)
    BY DEF Hold
  <2>2. CASE holdTimer = 0
    <3>1. epsAvg' = epsHat /\ seen' = {epsHat}
      BY <1>2, <1>3, <2>1, <2>2 DEF Averaged
    <3> QED BY <2>0, <3>1 DEF AverageOfHold
  <2>3. CASE holdTimer # 0
    <3>1. PICK lo \in seen, hi \in seen : lo <= epsAvg /\ epsAvg <= hi
      BY <1>2, <2>3 DEF ServoInv, AverageOfHold
    <3>2. seen' = seen \union {epsHat}
      BY <1>2, <1>3, <2>3
    <3>3. epsAvg' = epsAvg \/ epsAvg' \in Between(epsAvg, epsHat)
      BY <2>1, <2>3 DEF Averaged
    <3>4. CASE epsAvg' = epsAvg
      BY <3>1, <3>2, <3>4 DEF AverageOfHold
    <3>5. CASE epsAvg' \in Between(epsAvg, epsHat)
      <4>1. \/ epsAvg <= epsAvg' /\ epsAvg' <= epsHat
            \/ epsHat <= epsAvg' /\ epsAvg' <= epsAvg
        BY <2>0, <3>5, BetweenIsBounded
      <4>2. epsAvg' \in Int /\ lo \in Int /\ hi \in Int
        BY <2>0, <3>1, <3>5, BetweenIsBounded
      <4>3. CASE epsAvg <= epsAvg' /\ epsAvg' <= epsHat
        <5>1. lo \in seen' /\ epsHat \in seen' /\ lo <= epsAvg' /\ epsAvg' <= epsHat
          BY <2>0, <3>1, <3>2, <4>2, <4>3
        <5> QED BY <5>1 DEF AverageOfHold
      <4>4. CASE epsHat <= epsAvg' /\ epsAvg' <= epsAvg
        <5>1. hi \in seen' /\ epsHat \in seen' /\ epsHat <= epsAvg' /\ epsAvg' <= hi
          BY <2>0, <3>1, <3>2, <4>2, <4>4
        <5> QED BY <5>1 DEF AverageOfHold
      <4> QED BY <4>1, <4>3, <4>4
    <3> QED BY <3>3, <3>4, <3>5
  <2> QED BY <2>2, <2>3
<1> QED BY <1>5, <1>6, <1>7

(* Whatever starts a hold over leaves timer and observer at zero.           *)
LEMMA StartOverKeeps ==
  ASSUME ServoTypeOK', holdTimer' = 0, stage' # "quiet" => calmFor' = 0
  PROVE  HoldIsOpen' /\ HoldIsHonest' /\ AverageOfHold'
BY ServoAssumption DEF ServoTypeOK, HoldIsOpen, HoldIsHonest, AverageOfHold

(* advance_hold(), in the stage that calls it.                              *)
LEMMA AdvanceHoldKeeps ==
  ASSUME ServoInv, NEW eFast \in Int, NEW eQuiet \in Int, NEW dt \in Nat, NEW hold \in Nat,
         NEW to \in Stages,
         \/ stage = "acquire" /\ hold = LockHold /\ to = "track"
         \/ stage = "track" /\ hold = QuietHold /\ to = "quiet",
         AdvanceHold(Watched(eFast, eQuiet), hold, dt, to),
         Output(eFast, eQuiet, dt), ObserveHold(eFast, eQuiet, dt)
  PROVE  ServoInv'
<1> DEFINE e == Watched(eFast, eQuiet)
<1>0. ServoTypeOK
  BY DEF ServoInv
<1>1. CASE BreakHold(e)
  <2>1. stage' = stage /\ holdTimer' = 0 /\ epsAvg' = epsAvg /\ Excited(e)
    BY <1>1 DEF BreakHold
  <2>2. epsAvg' \in -Limit..Limit /\ stage' \in Stages
    BY <1>0, <2>1 DEF ServoTypeOK
  <2>3. ServoTypeOK'
    BY <1>0, <2>1, <2>2, OutputIsBounded, ObserverKeepsTypes DEF ServoTypeOK
  <2>4. calmFor' = 0
    BY <2>1 DEF ObserveHold
  <2> QED BY <2>1, <2>3, <2>4, StartOverKeeps DEF ServoInv
<1>2. CASE Hold(e, hold, dt)
  <2>1. stage' = stage /\ holdTimer' = holdTimer + dt /\ Averaged(dt)
    BY <1>2 DEF Hold
  <2>2. epsAvg' \in -Limit..Limit /\ stage' \in Stages /\ holdTimer' \in Nat
    BY <1>0, <2>1, AveragedIsBounded DEF ServoTypeOK
  <2>3. ServoTypeOK'
    BY <1>0, <2>2, OutputIsBounded, ObserverKeepsTypes DEF ServoTypeOK
  <2>4. HoldIsOpen' /\ HoldIsHonest' /\ AverageOfHold'
    BY <1>2, HoldKeeps
  <2> QED BY <2>3, <2>4 DEF ServoInv
<1>3. CASE Promote(e, hold, dt, to)
  <2>1. stage' = to /\ holdTimer' = 0 /\ Averaged(dt)
    BY <1>3 DEF Promote
  <2>2. epsAvg' \in -Limit..Limit /\ stage' \in Stages
    BY <1>0, <2>1, AveragedIsBounded
  <2>3. ServoTypeOK'
    BY <1>0, <2>1, <2>2, OutputIsBounded, ObserverKeepsTypes DEF ServoTypeOK
  <2>4. stage' # stage
    BY <2>1
  <2>5. calmFor' = 0
    BY <2>4 DEF ObserveHold
  <2> QED BY <2>1, <2>3, <2>5, StartOverKeeps DEF ServoInv
<1> QED BY <1>1, <1>2, <1>3 DEF AdvanceHold

LEMMA UpdateKeeps ==
  ASSUME ServoInv, NEW eFast \in Errors, NEW eQuiet \in Errors, NEW dt \in Dts,
         Update(eFast, eQuiet, dt)
  PROVE  ServoInv'
<1>0. eFast \in Int /\ eQuiet \in Int /\ dt \in Nat /\ LockHold \in Nat /\ QuietHold \in Nat
  BY ServoAssumption
<1>1. StageStep(eFast, eQuiet, dt) /\ Output(eFast, eQuiet, dt) /\ ObserveHold(eFast, eQuiet, dt)
  BY DEF Update
<1>2. CASE stage = "acquire" /\ AdvanceHold(eFast, LockHold, dt, "track")
  <2>1. AdvanceHold(Watched(eFast, eQuiet), LockHold, dt, "track")
    BY <1>2 DEF Watched
  <2> QED BY <1>0, <1>1, <1>2, <2>1, AdvanceHoldKeeps DEF Stages
<1>3. CASE stage = "track" /\ AdvanceHold(eQuiet, QuietHold, dt, "quiet")
  <2>1. AdvanceHold(Watched(eFast, eQuiet), QuietHold, dt, "quiet")
    BY <1>3 DEF Watched
  <2> QED BY <1>0, <1>1, <1>3, <2>1, AdvanceHoldKeeps DEF Stages
<1>4. CASE stage \in {"track", "quiet"} /\ \E to \in Stages \ {stage} : Demote(to)
  <2>1. stage' \in Stages /\ stage' # stage /\ holdTimer' = 0 /\ epsAvg' = epsAvg
    BY <1>4 DEF Demote
  <2>2. epsAvg' \in -Limit..Limit
    BY <2>1 DEF ServoInv, ServoTypeOK
  <2>3. ServoTypeOK'
    BY <1>0, <1>1, <2>1, <2>2, OutputIsBounded, ObserverKeepsTypes DEF ServoInv, ServoTypeOK
  <2>4. calmFor' = 0
    BY <1>1, <2>1 DEF ObserveHold
  <2> QED BY <2>1, <2>3, <2>4, StartOverKeeps DEF ServoInv
<1>5. CASE stage = "quiet" /\ UNCHANGED <<stage, holdTimer, epsAvg>>
  <2>1. stage' = "quiet" /\ holdTimer' = 0 /\ epsAvg' = epsAvg
    BY <1>5 DEF ServoInv, HoldIsOpen
  <2>2. epsAvg' \in -Limit..Limit /\ stage' \in Stages
    BY <2>1 DEF ServoInv, ServoTypeOK, Stages
  <2>3. ServoTypeOK'
    BY <1>0, <1>1, <2>1, <2>2, OutputIsBounded, ObserverKeepsTypes DEF ServoInv, ServoTypeOK
  <2> QED BY <2>1, <2>3, StartOverKeeps DEF ServoInv
<1> QED BY <1>1, <1>2, <1>3, <1>4, <1>5 DEF StageStep, Stages

LEMMA NextKeepsServoInv == ServoInv /\ [ServoNext]_servoVars => ServoInv'
<1> SUFFICES ASSUME ServoInv, [ServoNext]_servoVars
             PROVE  ServoInv'
  OBVIOUS
<1>1. ASSUME NEW keep \in BOOLEAN, Reset(keep)
      PROVE  ServoInv'
  BY <1>1, ResetKeeps
<1>2. ASSUME NEW eFast \in Errors, NEW eQuiet \in Errors, NEW dt \in Dts, Update(eFast, eQuiet, dt)
      PROVE  ServoInv'
  BY <1>2, UpdateKeeps
<1>3. CASE UNCHANGED servoVars
  BY <1>3 DEF servoVars, state, ServoInv, ServoTypeOK, HoldIsOpen, HoldIsHonest, AverageOfHold
<1> QED BY <1>1, <1>2, <1>3 DEF ServoNext

-----------------------------------------------------------------------------
(* The inductive invariant of the servo.                                    *)
THEOREM ServoInvariant == ServoSpec => []ServoInv
BY InitServoInv, NextKeepsServoInv, PTL DEF ServoSpec

(* The deviation handed to the resampler and the integrator stay within the *)
(* clamp, whatever the gains and the errors.                                *)
THEOREM ServoTypeCorrect == ServoSpec => []ServoTypeOK
<1>1. ServoInv => ServoTypeOK
  BY DEF ServoInv
<1> QED BY <1>1, ServoInvariant, PTL

(* Every promotion rests on a hold of its own and hands over that hold's    *)
(* average, for all holds, thresholds and block lengths: the timer two      *)
(* stages share is never another stay's.                                    *)
THEOREM PromotionsAreEarned == ServoSpec => []PromotionIsEarned
<1>1. ServoInv => PromotionIsEarned
  BY DEF ServoInv, PromotionIsEarned
<1> QED BY <1>1, ServoInvariant, PTL

=============================================================================
