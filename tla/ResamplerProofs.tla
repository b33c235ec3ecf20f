--------------------------- MODULE ResamplerProofs ---------------------------
(***************************************************************************)
(* Proofs about Resampler, for every phase width, filter bank, chunk size, *)
(* channel count and set of deviations: the read position is exact, a dry  *)
(* return leaves it at most one frame off, and every output interpolates   *)
(* the source at that position.                                            *)
(***************************************************************************)
EXTENDS Resampler, TLAPS

(* Quotient and remainder are unique: what a % b and a \div b are is shown  *)
(* by writing a as a multiple of b and a remainder.                         *)
LEMMA DivUnique ==
  ASSUME NEW a \in Int, NEW b \in Nat \ {0}, NEW q \in Int, NEW r \in 0..(b - 1),
         a = b * q + r
  PROVE  a % b = r /\ a \div b = q
<1>1. a % b = r
  OBVIOUS
<1>2. a \div b = q
  OBVIOUS
<1> QED BY <1>1, <1>2

(* What dividing by a positive number yields.                               *)
LEMMA DivParts ==
  ASSUME NEW a \in Int, NEW b \in Nat \ {0}
  PROVE  /\ a = b * (a \div b) + (a % b)
         /\ a \div b \in Int
         /\ a % b \in 0..(b - 1)
OBVIOUS

(* A wraparound by less than one turn: the sum comes back moved by one      *)
(* modulus, or not at all.                                                  *)
LEMMA WrapOnce ==
  ASSUME NEW m \in Nat \ {0}, NEW p \in 0..(m - 1), NEW e \in (1 - m)..(m - 1)
  PROVE  (p + e) % m = IF p + e >= m THEN p + e - m
                       ELSE IF p + e < 0 THEN p + e + m ELSE p + e
<1>1. CASE p + e >= m
  <2>1. p + e = m * 1 + (p + e - m) /\ p + e - m \in 0..(m - 1) /\ p + e \in Int
    BY <1>1
  <2>2. (p + e) % m = p + e - m
    BY <2>1, DivUnique
  <2> QED BY <1>1, <2>2
<1>2. CASE p + e < 0
  <2>1. p + e = m * (-1) + (p + e + m) /\ p + e + m \in 0..(m - 1) /\ p + e \in Int
    BY <1>2
  <2>2. (p + e) % m = p + e + m
    BY <2>1, DivUnique
  <2> QED BY <1>2, <2>2
<1>3. CASE p + e < m /\ p + e >= 0
  <2>1. p + e = m * 0 + (p + e) /\ p + e \in 0..(m - 1) /\ p + e \in Int
    BY <1>3
  <2>2. (p + e) % m = p + e
    BY <2>1, DivUnique
  <2> QED BY <1>3, <2>2
<1> QED BY <1>1, <1>2, <1>3

-----------------------------------------------------------------------------
(* Where a call under way stands: prime() has appended all but left frames; *)
(* process() has yet to append adv of the Advance(phase, eps) frames its    *)
(* next output takes.  A delay line with frames in it is not primed again.  *)
Position ==
  /\ ~primed => phase = 0 /\ due = 0 /\ ~ranDry
  /\ primed => appended >= Taps
  /\ appended > 0 => hist # <<>>
  /\ pc # "idle" => ~ranDry
  /\ pc = "prime" => ~primed /\ left > 0 /\ appended + left = Taps
  /\ pc = "process" =>
       /\ primed
       /\ adv <= Advance(phase, eps)
       /\ left = 0 => adv = Advance(phase, eps)
       /\ (appended + adv - Advance(phase, eps) - Taps) * PhaseRange + phase = due

ResamplerInv == TypeOK /\ Position /\ PositionExact /\ DryOffset

-----------------------------------------------------------------------------
(* One output: the frames it takes, beyond the one of the nominal rate, are *)
(* exactly the wraparound of its phase.                                     *)
LEMMA AdvanceMatchesWrap ==
  ASSUME NEW p \in Phases, NEW e \in Deviations
  PROVE  /\ NextPhase(p, e) \in Phases
         /\ Advance(p, e) \in 0..2
         /\ (Advance(p, e) - 1) * PhaseRange + NextPhase(p, e) = p + e
<1> DEFINE m == PhaseRange
<1>0. m \in Nat \ {0} /\ p \in 0..(m - 1) /\ e \in (1 - m)..(m - 1)
  BY PhaseAssumption DEF Phases, Deviations
<1>1. NextPhase(p, e) = IF p + e >= m THEN p + e - m
                        ELSE IF p + e < 0 THEN p + e + m ELSE p + e
  BY <1>0, WrapOnce DEF NextPhase
<1> QED BY <1>0, <1>1 DEF Phases, Advance

(* The delay line never outgrows its allocation: a full one is compacted    *)
(* before the push.                                                         *)
LEMMA PushedFits ==
  ASSUME hist \in Seq(Nat), Len(hist) <= HistCap, NEW f \in Nat
  PROVE  Pushed(f) \in Seq(Nat) /\ Len(Pushed(f)) <= HistCap /\ Pushed(f) # <<>>
<1> DEFINE kept == SubSeq(hist, HistCap - Taps + 2, HistCap)
<1>0. Taps \in Nat \ {0} /\ Chunk \in Nat \ {0} /\ HistCap = Taps + Chunk
  BY ResamplerAssumption, TapsAssumption DEF HistCap
<1>1. CASE Len(hist) = HistCap
  <2>1. kept \in Seq(Nat) /\ Len(kept) = Taps - 1
    BY <1>0, <1>1
  <2>2. Pushed(f) = Append(kept, f)
    BY <1>1 DEF Pushed
  <2> HIDE DEF kept
  <2> QED BY <1>0, <2>1, <2>2
<1>2. CASE Len(hist) # HistCap
  <2>1. Pushed(f) = Append(hist, f)
    BY <1>2 DEF Pushed
  <2> QED BY <1>0, <1>2, <2>1
<1> QED BY <1>1, <1>2

(* append_one(), out of the scratch or out of a fresh chunk.                *)
LEMMA AppendOneKeepsTypes ==
  ASSUME TypeOK, AppendOne
  PROVE  /\ hist' \in Seq(Nat) /\ Len(hist') <= HistCap /\ hist' # <<>>
         /\ scratch' \in Seq(Nat) /\ Len(scratch') <= Chunk
         /\ next' \in 0..MaxFrames
         /\ appended' = appended + 1
         /\ sinceCut' \in -Chunk..Taps
<1>0. Taps \in Nat \ {0} /\ Chunk \in Nat \ {0} /\ MaxFrames \in Nat
  BY ResamplerAssumption, TapsAssumption
<1>1. ASSUME NEW staged \in Seq(Nat), staged # <<>>, Len(staged) <= Chunk, Stored(staged)
      PROVE  /\ hist' \in Seq(Nat) /\ Len(hist') <= HistCap /\ hist' # <<>>
             /\ scratch' \in Seq(Nat) /\ Len(scratch') <= Chunk
             /\ appended' = appended + 1
             /\ sinceCut' \in -Chunk..Taps
  <2>1. Head(staged) \in Nat /\ Tail(staged) \in Seq(Nat) /\ Len(Tail(staged)) = Len(staged) - 1
    BY <1>1
  <2>2. hist' \in Seq(Nat) /\ Len(hist') <= HistCap /\ hist' # <<>>
    BY <1>1, <2>1, PushedFits DEF Stored, TypeOK
  <2>3. scratch' \in Seq(Nat) /\ Len(scratch') <= Chunk
    BY <1>0, <1>1, <2>1 DEF Stored
  <2>4. sinceCut' \in -Chunk..Taps
    BY <1>0, <1>1 DEF Stored, TypeOK
  <2> QED BY <1>1, <2>2, <2>3, <2>4 DEF Stored
<1>2. CASE scratch # <<>> /\ Stored(scratch) /\ UNCHANGED next
  BY <1>1, <1>2 DEF TypeOK
<1>3. CASE \E k \in 1..Chunk : Refill(k) /\ Stored([i \in 1..k |-> next + i - 1])
  <2>1. PICK k \in 1..Chunk : Refill(k) /\ Stored([i \in 1..k |-> next + i - 1])
    BY <1>3
  <2> DEFINE fresh == [i \in 1..k |-> next + i - 1]
  <2>2. next \in Nat /\ k \in Nat /\ k <= Chunk
    BY <1>0 DEF TypeOK
  <2>3. \A i \in 1..k : next + i - 1 \in Nat
    BY <2>2
  <2>4. fresh \in Seq(Nat) /\ Len(fresh) = k
    BY <2>2, <2>3
  <2>5. fresh # <<>>
    BY <2>4
  <2>6. Stored(fresh)
    BY <2>1
  <2> HIDE DEF fresh
  <2>7. next' \in 0..MaxFrames
    BY <1>0, <2>1, <2>2 DEF Refill
  <2> QED BY <1>1, <2>2, <2>4, <2>5, <2>6, <2>7
<1> QED BY <1>2, <1>3 DEF AppendOne

-----------------------------------------------------------------------------
LEMMA InitResamplerInv == Init => ResamplerInv
<1> SUFFICES ASSUME Init PROVE ResamplerInv
  OBVIOUS
<1>0. Taps \in Nat \ {0} /\ Chunk \in Nat \ {0} /\ MaxFrames \in Nat /\ PhaseRange \in Nat \ {0}
  BY ResamplerAssumption, TapsAssumption, PhaseAssumption
<1>1. <<>> \in Seq(Nat) /\ Len(<<>>) = 0
  OBVIOUS
<1>2. hist \in Seq(Nat) /\ Len(hist) <= HistCap /\ scratch \in Seq(Nat) /\ Len(scratch) <= Chunk
  BY <1>0, <1>1 DEF Init, HistCap
<1>3. phase \in Phases /\ eps \in Deviations
  BY <1>0 DEF Init, Phases, Deviations
<1>4. primed \in BOOLEAN /\ ranDry \in BOOLEAN
  BY DEF Init
<1>5. next \in 0..MaxFrames /\ pc \in {"idle", "prime", "process"} /\ left \in Nat /\ adv \in 0..2
  BY <1>0 DEF Init
<1>6. appended \in Nat /\ due \in Nat /\ sinceCut \in -Chunk..Taps
  BY <1>0 DEF Init
<1>7. TypeOK
  BY <1>2, <1>3, <1>4, <1>5, <1>6 DEF TypeOK
<1> QED BY <1>0, <1>7 DEF Init, ResamplerInv, Position, PositionExact, DryOffset

LEMMA ResetKeeps ==
  ASSUME ResamplerInv, Reset
  PROVE  ResamplerInv'
<1>0. Taps \in Nat \ {0} /\ Chunk \in Nat \ {0} /\ PhaseRange \in Nat \ {0}
  BY ResamplerAssumption, TapsAssumption, PhaseAssumption
<1>1. <<>> \in Seq(Nat) /\ Len(<<>>) = 0
  OBVIOUS
<1>2. /\ hist' \in Seq(Nat) /\ Len(hist') <= HistCap
      /\ scratch' \in Seq(Nat) /\ Len(scratch') <= Chunk
  BY <1>0, <1>1 DEF Reset, HistCap
<1>3. 0 \in Phases /\ Taps \in -Chunk..Taps
  BY <1>0 DEF Phases
<1>4. TypeOK'
  BY <1>2, <1>3 DEF Reset, ResamplerInv, TypeOK
<1> QED BY <1>0, <1>4 DEF Reset, ResamplerInv, Position, PositionExact, DryOffset

(* Starting, ending and cutting move neither the phase nor the delay line.  *)
LEMMA PrimeStartKeeps ==
  ASSUME ResamplerInv, PrimeStart
  PROVE  ResamplerInv'
<1>0. Taps \in Nat \ {0}
  BY ResamplerAssumption, TapsAssumption
<1>1. appended = 0 /\ ~primed /\ ~ranDry
  BY <1>0 DEF ResamplerInv, TypeOK, Position, PrimeStart
<1>2. TypeOK'
  BY <1>0 DEF PrimeStart, ResamplerInv, TypeOK, HistCap, line, history
<1> QED BY <1>0, <1>1, <1>2
        DEF PrimeStart, ResamplerInv, TypeOK, Position, PositionExact, DryOffset, line, history

LEMMA PrimeAppendKeeps ==
  ASSUME ResamplerInv, PrimeAppend
  PROVE  ResamplerInv'
<1>0. Taps \in Nat \ {0} /\ PhaseRange \in Nat \ {0}
  BY ResamplerAssumption, TapsAssumption, PhaseAssumption
<1>1. /\ hist' \in Seq(Nat) /\ Len(hist') <= HistCap /\ hist' # <<>>
      /\ scratch' \in Seq(Nat) /\ Len(scratch') <= Chunk
      /\ next' \in 0..MaxFrames
      /\ appended' = appended + 1
      /\ sinceCut' \in -Chunk..Taps
  BY AppendOneKeepsTypes DEF ResamplerInv, PrimeAppend
<1>2. /\ pc = "prime" /\ left' = left - 1 /\ primed' = (left = 1)
      /\ pc' = IF left = 1 THEN "idle" ELSE "prime"
      /\ UNCHANGED <<phase, adv, eps, due, ranDry>>
  BY DEF PrimeAppend
<1>3. /\ left \in Nat \ {0} /\ appended \in Nat /\ appended + left = Taps
      /\ phase = 0 /\ due = 0 /\ ~ranDry
  BY <1>2 DEF ResamplerInv, TypeOK, Position
<1>4. TypeOK'
  BY <1>1, <1>2, <1>3 DEF ResamplerInv, TypeOK, HistCap
<1>5. primed' => appended' >= Taps /\ (appended' - Taps) * PhaseRange = 0
  <2> SUFFICES ASSUME left = 1
               PROVE  appended' >= Taps /\ (appended' - Taps) * PhaseRange = 0
    BY <1>2
  <2>1. appended' - Taps = 0
    BY <1>0, <1>1, <1>3
  <2> QED BY <1>0, <1>1, <1>3, <2>1
<1> QED BY <1>0, <1>1, <1>2, <1>3, <1>4, <1>5
        DEF ResamplerInv, TypeOK, Position, PositionExact, DryOffset

LEMMA PrimeDryKeeps ==
  ASSUME ResamplerInv, PrimeDry
  PROVE  ResamplerInv'
<1>1. next' = next
  BY DEF PrimeDry, SourceDry, Refill, ResamplerInv, TypeOK
<1>2. TypeOK'
  BY <1>1 DEF PrimeDry, ResamplerInv, TypeOK, HistCap, line, history
<1> QED BY <1>2
        DEF PrimeDry, ResamplerInv, TypeOK, Position, PositionExact, DryOffset, line, history

LEMMA ProcessStartKeeps ==
  ASSUME ResamplerInv, NEW n \in Blocks, NEW e \in Steps, ProcessStart(n, e)
  PROVE  ResamplerInv'
<1>0. n \in Nat /\ e \in Deviations /\ Taps \in Nat
  BY ResamplerAssumption, TapsAssumption
<1>1. Advance(phase, e) \in 0..2
  BY <1>0, AdvanceMatchesWrap DEF ResamplerInv, TypeOK
<1>2. TypeOK'
  BY <1>0, <1>1 DEF ProcessStart, ResamplerInv, TypeOK, HistCap, line, history
<1>3. /\ adv' = Advance(phase, e) /\ eps' = e /\ phase' = phase /\ due' = due
      /\ appended' = appended /\ primed /\ ~ranDry /\ pc = "idle"
      /\ primed' = primed /\ ranDry' = ranDry /\ hist' = hist /\ pc' = "process"
  BY DEF ProcessStart, line, history
<1>4. Advance(phase', eps') = Advance(phase, e)
  BY <1>3
<1>5. (appended - Taps) * PhaseRange + phase = due
  BY <1>3 DEF ResamplerInv, PositionExact
<1>6. appended' + adv' - Advance(phase', eps') - Taps = appended - Taps
  BY <1>0, <1>1, <1>3, <1>4 DEF ResamplerInv, TypeOK
<1> QED BY <1>1, <1>2, <1>3, <1>4, <1>5, <1>6
        DEF ResamplerInv, Position, PositionExact, DryOffset

LEMMA ProcessAppendKeeps ==
  ASSUME ResamplerInv, ProcessAppend
  PROVE  ResamplerInv'
<1>0. Taps \in Nat
  BY ResamplerAssumption, TapsAssumption
<1>1. /\ hist' \in Seq(Nat) /\ Len(hist') <= HistCap /\ hist' # <<>>
      /\ scratch' \in Seq(Nat) /\ Len(scratch') <= Chunk
      /\ next' \in 0..MaxFrames
      /\ appended' = appended + 1
      /\ sinceCut' \in -Chunk..Taps
  BY AppendOneKeepsTypes DEF ResamplerInv, ProcessAppend
<1>2. /\ pc = "process" /\ adv > 0 /\ adv' = adv - 1
      /\ UNCHANGED <<phase, primed, pc, left, eps, due, ranDry>>
  BY DEF ProcessAppend
<1>3. adv \in 0..2 /\ appended \in Nat /\ Advance(phase, eps) \in 0..2 /\ adv <= Advance(phase, eps)
  BY <1>2, AdvanceMatchesWrap DEF ResamplerInv, TypeOK, Position
<1>4. TypeOK'
  BY <1>1, <1>2, <1>3 DEF ResamplerInv, TypeOK, HistCap
<1>5. Advance(phase', eps') = Advance(phase, eps)
  BY <1>2
<1>6. appended' + adv' - Advance(phase', eps') - Taps = appended + adv - Advance(phase, eps) - Taps
  <2> DEFINE a == Advance(phase, eps)
  <2>1. a \in Int /\ Advance(phase', eps') = a
    BY <1>3, <1>5
  <2> HIDE DEF a
  <2>2. appended' + adv' - a - Taps = appended + adv - a - Taps
    BY <1>0, <1>1, <1>2, <1>3, <2>1
  <2> QED BY <2>1, <2>2 DEF a
<1>7. left # 0
  BY DEF ProcessAppend, ResamplerInv, TypeOK
<1>8. Position'
  BY <1>0, <1>1, <1>2, <1>3, <1>5, <1>6, <1>7 DEF ResamplerInv, Position
<1> QED BY <1>2, <1>4, <1>8 DEF ResamplerInv, Position, PositionExact, DryOffset

(* The phase moves by exactly what the frames it took leave over.           *)
LEMMA ProcessEmitKeeps ==
  ASSUME ResamplerInv, ProcessEmit
  PROVE  ResamplerInv'
<1> DEFINE a == Advance(phase, eps)
<1> DEFINE p == NextPhase(phase, eps)
<1> DEFINE b == Advance(p, eps)
<1> DEFINE R == PhaseRange
<1>0. Taps \in Nat /\ R \in Nat \ {0}
  BY ResamplerAssumption, TapsAssumption, PhaseAssumption
<1>1. /\ pc = "process" /\ left > 0 /\ adv = 0 /\ phase' = p /\ due' = due + R + eps
      /\ left' = left - 1 /\ adv' = Advance(phase', eps)
      /\ UNCHANGED <<hist, scratch, primed, next, pc, eps, appended, sinceCut, ranDry>>
  BY DEF ProcessEmit
<1>2. /\ p \in Phases /\ a \in 0..2 /\ (a - 1) * R + p = phase + eps
      /\ phase \in Phases /\ eps \in Deviations
  BY AdvanceMatchesWrap DEF ResamplerInv, TypeOK
<1>3. b \in 0..2 /\ adv' = b /\ Advance(phase', eps') = b
  BY <1>1, <1>2, AdvanceMatchesWrap
<1>4. /\ appended \in Nat /\ phase \in Int /\ eps \in Int /\ due \in Nat /\ p \in Int
      /\ eps > -R
      /\ (appended + 0 - a - Taps) * R + phase = due
      /\ primed /\ ~ranDry /\ appended >= Taps
  BY <1>0, <1>1, <1>2 DEF ResamplerInv, TypeOK, Position, Phases, Deviations
<1> HIDE DEF a, p, b, R
<1>5. (appended - Taps) * R + p = due + R + eps
  <2>1. (appended - Taps) * R = (appended + 0 - a - Taps) * R + a * R
    BY <1>0, <1>2, <1>4
  <2>2. a * R = (a - 1) * R + R
    BY <1>0, <1>2
  <2>3. /\ (appended - Taps) * R \in Int /\ (appended + 0 - a - Taps) * R \in Int
        /\ a * R \in Int /\ (a - 1) * R \in Int
    BY <1>0, <1>2, <1>4
  <2> QED BY <1>0, <1>2, <1>4, <2>1, <2>2, <2>3
<1>6. TypeOK'
  <2>1. due' \in Nat
    BY <1>0, <1>1, <1>4
  <2>2. adv' \in 0..2 /\ phase' \in Phases /\ left' \in Nat
    BY <1>1, <1>2, <1>3 DEF ResamplerInv, TypeOK
  <2> QED BY <1>1, <2>1, <2>2 DEF ResamplerInv, TypeOK, HistCap
<1>7. appended' + adv' - Advance(phase', eps') - Taps = appended - Taps
  BY <1>0, <1>1, <1>3, <1>4
<1>8. (appended' + adv' - Advance(phase', eps') - Taps) * PhaseRange + phase' = due'
  BY <1>1, <1>5, <1>7 DEF R
<1> QED BY <1>1, <1>3, <1>4, <1>6, <1>8 DEF ResamplerInv, Position, PositionExact, DryOffset

(* A dry return leaves out one or two of the frames the next output takes.  *)
LEMMA ProcessDryKeeps ==
  ASSUME ResamplerInv, ProcessDry
  PROVE  ResamplerInv'
<1> DEFINE a == Advance(phase, eps)
<1> DEFINE R == PhaseRange
<1>0. Taps \in Nat /\ R \in Nat \ {0}
  BY ResamplerAssumption, TapsAssumption, PhaseAssumption
<1>1. /\ pc = "process" /\ adv > 0 /\ ranDry' = TRUE
      /\ pc' = "idle" /\ left' = 0 /\ adv' = 0 /\ eps' = 0 /\ next' = next
      /\ UNCHANGED <<hist, scratch, phase, primed, appended, due, sinceCut>>
  BY DEF ProcessDry, SourceDry, Refill, ResamplerInv, TypeOK, line
<1>2. TypeOK'
  BY <1>0, <1>1 DEF ResamplerInv, TypeOK, HistCap, Deviations
<1>3. /\ a \in 0..2 /\ adv \in 1..2 /\ adv <= a /\ primed
      /\ appended \in Nat /\ phase \in Int /\ due \in Int
      /\ (appended + adv - a - Taps) * R + phase = due
  BY <1>0, <1>1, AdvanceMatchesWrap DEF ResamplerInv, TypeOK, Position, Phases
<1> HIDE DEF a, R
<1>4. a - adv \in {0, 1}
  BY <1>3
<1>5. (appended - Taps) * R = (appended + adv - a - Taps) * R + (a - adv) * R
  BY <1>0, <1>3
<1>6. (appended - Taps) * R + phase - due \in {0, R}
  <2>1. (a - adv) * R \in {0, R}
    BY <1>0, <1>4
  <2>2. (appended - Taps) * R + phase - due = (a - adv) * R
    <3>1. /\ (appended - Taps) * R \in Int /\ (appended + adv - a - Taps) * R \in Int
          /\ (a - adv) * R \in Int
      BY <1>0, <1>3
    <3> QED BY <3>1, <1>3, <1>5
  <2> QED BY <2>1, <2>2
<1> QED BY <1>1, <1>2, <1>3, <1>6 DEF ResamplerInv, Position, PositionExact, DryOffset, R

(* All outputs are made: the frames the next one takes are not appended.    *)
LEMMA ProcessDoneKeeps ==
  ASSUME ResamplerInv, ProcessDone
  PROVE  ResamplerInv'
<1> DEFINE a == Advance(phase, eps)
<1>0. Taps \in Nat /\ PhaseRange \in Nat \ {0}
  BY ResamplerAssumption, TapsAssumption, PhaseAssumption
<1>1. /\ pc = "process" /\ left = 0 /\ pc' = "idle" /\ adv' = 0 /\ eps' = 0
      /\ UNCHANGED <<hist, scratch, phase, primed, next, left, appended, due, sinceCut, ranDry>>
  BY DEF ProcessDone, line, history
<1>2. 0 \in Deviations
  BY <1>0 DEF Deviations
<1>3. TypeOK'
  BY <1>1, <1>2 DEF ResamplerInv, TypeOK, HistCap
<1>4. /\ a \in 0..2 /\ appended \in Nat /\ primed /\ ~ranDry /\ appended >= Taps
      /\ adv = a /\ (appended + adv - a - Taps) * PhaseRange + phase = due
  BY <1>1, AdvanceMatchesWrap DEF ResamplerInv, TypeOK, Position
<1> HIDE DEF a
<1>5. appended + adv - a - Taps = appended - Taps
  BY <1>0, <1>4
<1> QED BY <1>1, <1>3, <1>4, <1>5 DEF ResamplerInv, Position, PositionExact, DryOffset

LEMMA SourceCutKeeps ==
  ASSUME ResamplerInv, NEW d \in Cuts, SourceCut(d)
  PROVE  ResamplerInv'
<1>0. d \in Nat /\ MaxFrames \in Nat /\ Chunk \in Nat /\ Taps \in Nat
  BY ResamplerAssumption, TapsAssumption
<1>1. -Len(scratch) \in -Chunk..Taps
  BY <1>0 DEF ResamplerInv, TypeOK
<1>2. TypeOK'
  BY <1>0, <1>1 DEF SourceCut, ResamplerInv, TypeOK, HistCap, line
<1> QED BY <1>2 DEF SourceCut, ResamplerInv, Position, PositionExact, DryOffset, line

-----------------------------------------------------------------------------
LEMMA NextKeepsResamplerInv == ResamplerInv /\ [Next]_vars => ResamplerInv'
<1> SUFFICES ASSUME ResamplerInv, [Next]_vars PROVE ResamplerInv'
  OBVIOUS
<1>1. CASE Reset
  BY <1>1, ResetKeeps
<1>2. CASE PrimeStart
  BY <1>2, PrimeStartKeeps
<1>3. CASE PrimeAppend
  BY <1>3, PrimeAppendKeeps
<1>4. CASE PrimeDry
  BY <1>4, PrimeDryKeeps
<1>5. CASE \E n \in Blocks, e \in Steps : ProcessStart(n, e)
  BY <1>5, ProcessStartKeeps
<1>6. CASE ProcessAppend
  BY <1>6, ProcessAppendKeeps
<1>7. CASE ProcessEmit
  BY <1>7, ProcessEmitKeeps
<1>8. CASE ProcessDry
  BY <1>8, ProcessDryKeeps
<1>9. CASE ProcessDone
  BY <1>9, ProcessDoneKeeps
<1>10. CASE \E d \in Cuts : SourceCut(d)
  BY <1>10, SourceCutKeeps
<1>11. CASE UNCHANGED vars
  <2>1. TypeOK'
    BY <1>11 DEF vars, line, history, ResamplerInv, TypeOK, HistCap
  <2> QED BY <1>11, <2>1
          DEF vars, line, history, ResamplerInv, Position, PositionExact, DryOffset
<1> QED BY <1>1, <1>2, <1>3, <1>4, <1>5, <1>6, <1>7, <1>8, <1>9, <1>10, <1>11 DEF Next

(* The inductive invariant: at every step of every call, frames appended,   *)
(* frames owed to the next output and phase add up to the position asked    *)
(* for.                                                                     *)
THEOREM ResamplerInvariant == Spec => []ResamplerInv
<1> QED BY InitResamplerInv, NextKeepsResamplerInv, PTL DEF Spec

(* The delay line and the scratch stay within their allocations, the phase  *)
(* within its width: append_one() and process() over any source.            *)
THEOREM ResamplerTypeCorrect == Spec => []TypeOK
<1>1. ResamplerInv => TypeOK
  BY DEF ResamplerInv
<1> QED BY <1>1, ResamplerInvariant, PTL

(* The read position never drifts, for every width of the phase and every   *)
(* deviation process() may be called with; a dry process() leaves the delay *)
(* line level with the phase or one frame ahead, never more: what reset()   *)
(* and prime() have to repair.                                              *)
THEOREM ReadPositionExact == Spec => []ReadPosition
<1>1. ResamplerInv => ReadPosition
  BY DEF ResamplerInv, ReadPosition
<1> QED BY <1>1, ResamplerInvariant, PTL

-----------------------------------------------------------------------------
(* What lies in the line: frames in the order of the source, first those of *)
(* the delay line and then those of the scratch, and no gap among those     *)
(* taken since the source last lost some.  A cut leaves the scratch behind  *)
(* it to be appended first.                                                 *)
Ascending == \A j \in 1..(Len(hist) - 1) : hist[j] < hist[j + 1]

Staged ==
  /\ \A i \in 1..Len(scratch) : scratch[i] = scratch[1] + i - 1
  /\ scratch # <<>> => /\ hist # <<>> /\ hist[Len(hist)] < scratch[1]
                      /\ scratch[Len(scratch)] < next
  /\ hist # <<>> => hist[Len(hist)] < next

Unbroken ==
  /\ \A j \in 1..Len(hist) : Len(hist) - j < sinceCut => hist[j] = hist[Len(hist)] - (Len(hist) - j)
  /\ sinceCut > 0 /\ hist # <<>> =>
       IF scratch = <<>> THEN next = hist[Len(hist)] + 1
       ELSE scratch[1] = hist[Len(hist)] + 1 /\ next = scratch[Len(scratch)] + 1
  /\ sinceCut <= 0 => Len(scratch) = -sinceCut

(* A compaction leaves a window, less the frame about to be pushed.         *)
Filled == Len(hist) >= Taps \/ Len(hist) >= appended

LineInv == Ascending /\ Staged /\ Unbroken /\ Filled

(* A push keeps the newest frames, in place or moved to the front, and      *)
(* never fewer than a window.                                               *)
LEMMA PushedShape ==
  ASSUME hist \in Seq(Nat), Len(hist) <= HistCap, NEW f \in Nat
  PROVE  \E drop \in Nat :
           /\ Pushed(f) \in Seq(Nat) /\ Len(Pushed(f)) = Len(hist) + 1 - drop /\ drop <= Len(hist)
           /\ \A j \in 1..(Len(hist) - drop) : Pushed(f)[j] = hist[j + drop]
           /\ Pushed(f)[Len(Pushed(f))] = f
           /\ drop = 0 \/ Len(Pushed(f)) = Taps
<1> DEFINE kept == SubSeq(hist, HistCap - Taps + 2, HistCap)
<1>0. Taps \in Nat \ {0} /\ Chunk \in Nat \ {0} /\ HistCap = Taps + Chunk
  BY ResamplerAssumption, TapsAssumption DEF HistCap
<1>1. CASE Len(hist) = HistCap
  <2>1. kept = SubSeq(hist, Chunk + 2, Taps + Chunk)
    <3>1. HistCap - Taps + 2 = Chunk + 2
      BY <1>0
    <3> QED BY <1>0, <3>1
  <2>2. Pushed(f) = Append(kept, f)
    BY <1>1 DEF Pushed
  <2> HIDE DEF kept
  <2>4. kept \in Seq(Nat) /\ Len(kept) = Taps - 1
    BY <1>0, <1>1, <2>1
  <2>5. \A j \in 1..(Taps - 1) : kept[j] = hist[j + (Chunk + 1)]
    <3> SUFFICES ASSUME NEW j \in 1..(Taps - 1) PROVE kept[j] = hist[j + (Chunk + 1)]
      OBVIOUS
    <3>1. kept[j] = hist[Chunk + 2 + j - 1]
      BY <1>0, <1>1, <2>1
    <3>2. Chunk + 2 + j - 1 = j + (Chunk + 1)
      BY <1>0
    <3> QED BY <3>1, <3>2
  <2>3. /\ Pushed(f) \in Seq(Nat) /\ Len(Pushed(f)) = Taps
        /\ \A j \in 1..(Taps - 1) : Pushed(f)[j] = kept[j]
        /\ Pushed(f)[Taps] = f
    BY <1>0, <2>4, <2>2
  <2>6. Chunk + 1 \in Nat
    BY <1>0
  <2> WITNESS Chunk + 1 \in Nat
  <2> QED BY <1>0, <1>1, <2>3, <2>4, <2>5
<1>2. CASE Len(hist) # HistCap
  <2>1. Pushed(f) = Append(hist, f)
    BY <1>2 DEF Pushed
  <2> WITNESS 0 \in Nat
  <2> QED BY <2>1
<1> QED BY <1>1, <1>2

(* append_one(): the frame it stores and those it leaves staged continue    *)
(* the line.                                                                *)
LEMMA StoredKeepsLine ==
  ASSUME ResamplerInv, LineInv, next' \in Nat,
         NEW staged \in Seq(Nat), staged # <<>>, Stored(staged),
         \A i \in 1..Len(staged) : staged[i] = staged[1] + i - 1,
         staged[Len(staged)] < next',
         sinceCut >= 0 => next' = staged[Len(staged)] + 1,
         hist # <<>> => hist[Len(hist)] < staged[1],
         hist # <<>> /\ sinceCut > 0 => staged[1] = hist[Len(hist)] + 1,
         sinceCut < 0 => Len(staged) = -sinceCut
  PROVE  LineInv'
<1> DEFINE f == Head(staged)
<1> DEFINE P == Pushed(f)
<1> DEFINE S == Tail(staged)
<1> DEFINE n == Len(hist)
<1> DEFINE c == IF sinceCut < Taps THEN sinceCut + 1 ELSE Taps
<1>0. Taps \in Nat \ {0} /\ sinceCut \in Int /\ sinceCut <= Taps /\ appended \in Nat
  BY ResamplerAssumption, TapsAssumption DEF ResamplerInv, TypeOK
<1>1. /\ hist \in Seq(Nat) /\ n \in Nat /\ n <= HistCap /\ (hist = <<>> <=> n = 0)
      /\ \A j \in 1..n : hist[j] \in Nat
  BY DEF ResamplerInv, TypeOK
<1>2. /\ f \in Nat /\ f = staged[1] /\ S \in Seq(Nat) /\ Len(S) = Len(staged) - 1
      /\ \A i \in 1..Len(S) : S[i] = staged[i + 1]
      /\ Len(staged) \in Nat \ {0}
  OBVIOUS
<1>3. /\ hist' = P /\ scratch' = S /\ appended' = appended + 1 /\ sinceCut' = c
  BY DEF Stored
<1>4. PICK drop \in Nat :
        /\ P \in Seq(Nat) /\ Len(P) = n + 1 - drop /\ drop <= n
        /\ \A j \in 1..(n - drop) : P[j] = hist[j + drop]
        /\ P[Len(P)] = f
        /\ drop = 0 \/ Len(P) = Taps
  BY <1>1, <1>2, PushedShape
<1>5. c \in Int /\ c <= Taps /\ (c <= 0 <=> sinceCut < 0) /\ c <= sinceCut + 1
  BY <1>0
<1> HIDE DEF f, P, S, n, c
<1>6. /\ Len(P) \in Nat \ {0} /\ P # <<>>
  BY <1>1, <1>4
<1>7. \A j \in 1..(Len(P) - 1) : P[j] < P[j + 1]
  <2> SUFFICES ASSUME NEW j \in 1..(Len(P) - 1) PROVE P[j] < P[j + 1]
    OBVIOUS
  <2>1. P[j] = hist[j + drop] /\ j + drop \in 1..n /\ n >= 1
    BY <1>1, <1>4
  <2>2. CASE j + drop < n
    <3>1. P[j + 1] = hist[j + 1 + drop]
      BY <1>1, <1>4, <2>2
    <3>2. hist[j + drop] < hist[j + drop + 1]
      BY <1>1, <1>4, <2>2, <2>1 DEF LineInv, Ascending, n
    <3> QED BY <1>4, <2>1, <3>1, <3>2
  <2>3. CASE j + drop = n
    <3>1. j + 1 = Len(P)
      BY <1>1, <1>4, <2>3
    <3>2. hist[n] < f
      BY <1>1, <1>2, <2>1 DEF n
    <3> QED BY <1>4, <2>1, <2>3, <3>1, <3>2
  <2> QED BY <1>1, <2>1, <2>2, <2>3
<1>8. \A i \in 1..Len(S) : S[i] = S[1] + i - 1 /\ S[1] = f + 1
  <2> SUFFICES ASSUME NEW i \in 1..Len(S) PROVE S[i] = S[1] + i - 1 /\ S[1] = f + 1
    OBVIOUS
  <2>1. Len(S) >= 1 /\ 2 \in 1..Len(staged) /\ i + 1 \in 1..Len(staged)
    BY <1>2
  <2>2. S[1] = staged[2] /\ S[i] = staged[i + 1]
    <3>1. 1 \in 1..Len(S) /\ i \in 1..Len(S) /\ 1 + 1 = 2
      BY <1>2, <2>1
    <3>2. S[1] = staged[1 + 1] /\ S[i] = staged[i + 1]
      BY <1>2, <3>1
    <3> QED BY <3>1, <3>2
  <2>3. staged[2] = staged[1] + 2 - 1 /\ staged[i + 1] = staged[1] + (i + 1) - 1
    BY <2>1
  <2> QED BY <1>2, <2>2, <2>3
<1>9. /\ S # <<>> => Len(S) >= 1 /\ S[1] = f + 1 /\ S[Len(S)] = staged[Len(staged)]
      /\ S = <<>> => f = staged[Len(staged)] /\ Len(staged) = 1
  <2>1. ASSUME S # <<>>
        PROVE  Len(S) >= 1 /\ S[1] = f + 1 /\ S[Len(S)] = staged[Len(staged)]
    <3>1. Len(S) >= 1
      BY <1>2, <2>1
    <3>2. S[Len(S)] = staged[Len(S) + 1] /\ Len(S) + 1 = Len(staged)
      BY <1>2, <3>1
    <3>3. S[1] = f + 1
      BY <1>2, <1>8, <3>1
    <3> QED BY <3>1, <3>2, <3>3
  <2>2. ASSUME S = <<>>
        PROVE  f = staged[Len(staged)] /\ Len(staged) = 1
    <3>1. Len(S) = 0
      BY <2>2
    <3>2. Len(staged) = 1
      BY <1>2, <3>1
    <3> QED BY <1>2, <3>2
  <2> QED BY <2>1, <2>2
<1>10. staged[Len(staged)] \in Nat /\ staged[Len(staged)] = f + Len(staged) - 1
  <2>1. Len(staged) \in 1..Len(staged)
    BY <1>2
  <2> QED BY <1>2, <2>1
<1>11. f < next' /\ (S # <<>> => S[Len(S)] < next')
  BY <1>2, <1>9, <1>10
<1>12. (Ascending /\ Staged)'
  <2>1. Ascending'
    BY <1>3, <1>7 DEF Ascending
  <2>2. \A i \in 1..Len(S) : S[i] = S[1] + i - 1
    BY <1>8
  <2>3. S # <<>> => P # <<>> /\ P[Len(P)] < S[1] /\ S[Len(S)] < next'
    BY <1>2, <1>4, <1>6, <1>9, <1>11
  <2>4. P # <<>> => P[Len(P)] < next'
    BY <1>4, <1>11
  <2>5. Staged'
    BY <1>3, <2>2, <2>3, <2>4 DEF Staged
  <2> QED BY <2>1, <2>5
<1>13. \A j \in 1..Len(P) : Len(P) - j < c => P[j] = f - (Len(P) - j)
  <2> SUFFICES ASSUME NEW j \in 1..Len(P), Len(P) - j < c PROVE P[j] = f - (Len(P) - j)
    OBVIOUS
  <2>1. CASE j = Len(P)
    BY <1>2, <1>4, <1>6, <2>1
  <2>2. CASE j < Len(P)
    <3>1. /\ j + drop \in 1..n /\ P[j] = hist[j + drop] /\ hist # <<>> /\ n >= 1
          /\ Len(P) - j = n - (j + drop) + 1
      <4> DEFINE m == Len(P)
      <4>1. m \in Nat /\ m = n + 1 - drop /\ j \in 1..m /\ j < m
        BY <1>4, <1>6, <2>2
      <4> HIDE DEF m
      <4>2. j \in 1..(n - drop) /\ j + drop \in 1..n /\ n >= 1 /\ m - j = n - (j + drop) + 1
        BY <1>1, <4>1
      <4>3. P[j] = hist[j + drop]
        BY <1>4, <4>2
      <4> QED BY <1>1, <4>2, <4>3 DEF m
    <3>2. sinceCut > 0 /\ n - (j + drop) < sinceCut
      BY <1>0, <1>5, <1>6, <1>1, <1>4, <2>2, <3>1
    <3>3. hist[j + drop] = hist[n] - (n - (j + drop))
      BY <3>1, <3>2 DEF LineInv, Unbroken, n
    <3>4. f = hist[n] + 1 /\ hist[n] \in Nat
      BY <1>1, <1>2, <3>1, <3>2 DEF n
    <3> DEFINE m == Len(P) - j
    <3> DEFINE k == j + drop
    <3>5. m \in Int /\ k \in Int /\ m = n - k + 1
      BY <1>6, <3>1
    <3> HIDE DEF m, k
    <3> DEFINE h == hist[n]
    <3>7. n \in Nat /\ h \in Nat /\ f = h + 1
      BY <1>1, <3>4
    <3> HIDE DEF h
    <3>8. h - (n - k) = f - m
      BY <3>5, <3>7
    <3>6. hist[n] - (n - k) = f - m
      BY <3>8 DEF h
    <3> QED BY <3>1, <3>3, <3>6 DEF m, k
  <2> QED BY <1>6, <2>1, <2>2
<1>14. c > 0 => IF S = <<>> THEN next' = f + 1 ELSE S[1] = f + 1 /\ next' = S[Len(S)] + 1
  <2> SUFFICES ASSUME c > 0 PROVE IF S = <<>> THEN next' = f + 1 ELSE S[1] = f + 1 /\ next' = S[Len(S)] + 1
    OBVIOUS
  <2>1. next' = staged[Len(staged)] + 1
    BY <1>0, <1>5
  <2> QED BY <1>9, <2>1
<1>15. c <= 0 => Len(S) = -c
  <2> SUFFICES ASSUME c <= 0 PROVE Len(S) = -c
    OBVIOUS
  <2>1. sinceCut < 0 /\ c = sinceCut + 1
    BY <1>0, <1>5 DEF c
  <2> QED BY <1>0, <1>2, <2>1
<1>16. Unbroken'
  BY <1>3, <1>4, <1>13, <1>14, <1>15 DEF Unbroken
<1>17. Filled'
  <2>1. n >= Taps \/ n >= appended
    BY DEF LineInv, Filled, n
  <2>2. Len(P) >= Taps \/ Len(P) >= appended + 1
    BY <1>0, <1>1, <1>4, <2>1
  <2> QED BY <1>3, <2>2 DEF Filled
<1> QED BY <1>12, <1>16, <1>17 DEF LineInv

LEMMA AppendOneKeepsLine ==
  ASSUME ResamplerInv, LineInv, AppendOne
  PROVE  LineInv'
<1>0. Taps \in Nat \ {0} /\ Chunk \in Nat \ {0} /\ MaxFrames \in Nat
  BY ResamplerAssumption, TapsAssumption
<1>1. /\ next \in Nat /\ sinceCut \in Int /\ scratch \in Seq(Nat) /\ hist \in Seq(Nat)
      /\ \A j \in 1..Len(hist) : hist[j] \in Nat
      /\ \A j \in 1..Len(scratch) : scratch[j] \in Nat
  BY <1>0 DEF ResamplerInv, TypeOK
<1>2. CASE scratch # <<>> /\ Stored(scratch) /\ UNCHANGED next
  <2>1. next' = next /\ next' \in Nat /\ Len(scratch) >= 1
    BY <1>1, <1>2
  <2>2. /\ \A i \in 1..Len(scratch) : scratch[i] = scratch[1] + i - 1
        /\ hist # <<>> /\ hist[Len(hist)] < scratch[1] /\ scratch[Len(scratch)] < next
        /\ sinceCut > 0 => scratch[1] = hist[Len(hist)] + 1 /\ next = scratch[Len(scratch)] + 1
        /\ sinceCut <= 0 => Len(scratch) = -sinceCut
    BY <1>2 DEF LineInv, Staged, Unbroken
  <2>3. sinceCut # 0
    BY <1>1, <2>1, <2>2
  <2>4. sinceCut >= 0 => next' = scratch[Len(scratch)] + 1
    BY <1>1, <2>1, <2>2, <2>3
  <2>5. sinceCut < 0 => Len(scratch) = -sinceCut
    BY <1>1, <2>2
  <2> QED BY <1>1, <1>2, <2>1, <2>2, <2>4, <2>5, StoredKeepsLine
<1>3. CASE \E k \in 1..Chunk : Refill(k) /\ Stored([i \in 1..k |-> next + i - 1])
  <2>1. PICK k \in 1..Chunk : Refill(k) /\ Stored([i \in 1..k |-> next + i - 1])
    BY <1>3
  <2> DEFINE fresh == [i \in 1..k |-> next + i - 1]
  <2>2. k \in Nat \ {0} /\ next' = next + k /\ next' \in Nat /\ scratch = <<>>
    BY <1>0, <1>1, <2>1 DEF Refill
  <2>3. \A i \in 1..k : next + i - 1 \in Nat
    BY <1>1, <2>2
  <2>4. fresh \in Seq(Nat) /\ Len(fresh) = k /\ \A i \in 1..k : fresh[i] = next + i - 1
    BY <2>2, <2>3
  <2>5. fresh # <<>> /\ Stored(fresh)
    BY <2>1, <2>2, <2>4
  <2> HIDE DEF fresh
  <2>6. fresh[1] = next /\ fresh[Len(fresh)] = next + k - 1
    BY <1>1, <2>2, <2>4
  <2>7. /\ hist # <<>> => hist[Len(hist)] < next
        /\ hist # <<>> /\ sinceCut > 0 => next = hist[Len(hist)] + 1
        /\ sinceCut <= 0 => Len(scratch) = -sinceCut
    BY <2>2 DEF LineInv, Staged, Unbroken
  <2>8. sinceCut >= 0
    <3>1. Len(scratch) = 0
      BY <2>2
    <3> QED BY <1>1, <2>7, <3>1
  <2>9. \A i \in 1..Len(fresh) : fresh[i] = fresh[1] + i - 1
    BY <1>1, <2>4, <2>6
  <2>10. /\ fresh[Len(fresh)] < next' /\ next' = fresh[Len(fresh)] + 1
         /\ sinceCut < 0 => Len(fresh) = -sinceCut
    BY <1>1, <2>2, <2>6, <2>8
  <2> QED BY <2>2, <2>4, <2>5, <2>6, <2>7, <2>9, <2>10, StoredKeepsLine
<1> QED BY <1>2, <1>3 DEF AppendOne

LEMMA InitIsLine == Init => LineInv
<1> SUFFICES ASSUME Init PROVE LineInv
  OBVIOUS
<1>0. Taps \in Nat \ {0} /\ Len(<<>>) = 0
  BY TapsAssumption
<1> QED BY <1>0 DEF Init, LineInv, Ascending, Staged, Unbroken, Filled

LEMMA NextKeepsLine == ResamplerInv /\ LineInv /\ [Next]_vars => LineInv'
<1> SUFFICES ASSUME ResamplerInv, LineInv, [Next]_vars PROVE LineInv'
  OBVIOUS
<1>0. Taps \in Nat \ {0} /\ Len(<<>>) = 0
  BY TapsAssumption
<1>1. ASSUME UNCHANGED <<hist, scratch, next, appended, sinceCut>>
      PROVE  LineInv'
  BY <1>1 DEF LineInv, Ascending, Staged, Unbroken, Filled
<1>2. CASE Reset
  BY <1>0, <1>2 DEF Reset, LineInv, Ascending, Staged, Unbroken, Filled
<1>3. CASE PrimeStart
  BY <1>1, <1>3 DEF PrimeStart, line, history
<1>4. CASE PrimeAppend
  BY <1>4, AppendOneKeepsLine DEF PrimeAppend
<1>5. CASE PrimeDry
  <2>1. next' = next
    BY <1>5 DEF PrimeDry, SourceDry, Refill, ResamplerInv, TypeOK
  <2> QED BY <1>1, <1>5, <2>1 DEF PrimeDry, line, history
<1>6. CASE \E n \in Blocks, e \in Steps : ProcessStart(n, e)
  BY <1>1, <1>6 DEF ProcessStart, line, history
<1>7. CASE ProcessAppend
  BY <1>7, AppendOneKeepsLine DEF ProcessAppend
<1>8. CASE ProcessEmit
  BY <1>1, <1>8 DEF ProcessEmit
<1>9. CASE ProcessDry
  <2>1. next' = next
    BY <1>9 DEF ProcessDry, SourceDry, Refill, ResamplerInv, TypeOK
  <2> QED BY <1>1, <1>9, <2>1 DEF ProcessDry, line
<1>10. CASE ProcessDone
  BY <1>1, <1>10 DEF ProcessDone, line, history
<1>11. CASE \E d \in Cuts : SourceCut(d)
  <2>1. PICK d \in Cuts : SourceCut(d)
    BY <1>11
  <2>2. d \in Nat /\ next \in Nat /\ hist \in Seq(Nat) /\ scratch \in Seq(Nat)
    BY ResamplerAssumption DEF ResamplerInv, TypeOK
  <2>3. next' = next + d /\ sinceCut' = -Len(scratch) /\ UNCHANGED <<hist, scratch, appended>>
    BY <2>1 DEF SourceCut, line
  <2>4. Len(scratch) \in Nat /\ Len(hist) \in Nat /\ (hist # <<>> => hist[Len(hist)] \in Nat)
        /\ (scratch # <<>> => scratch[Len(scratch)] \in Nat)
    BY <2>2
  <2>5. (Ascending /\ Filled)'
    BY <2>3 DEF LineInv, Ascending, Filled
  <2>6. Staged'
    BY <2>2, <2>3, <2>4 DEF LineInv, Staged
  <2>7. Unbroken'
    BY <2>3, <2>4 DEF Unbroken
  <2> QED BY <2>5, <2>6, <2>7 DEF LineInv
<1>12. CASE UNCHANGED vars
  BY <1>1, <1>12 DEF vars, line, history
<1> QED BY <1>2, <1>3, <1>4, <1>5, <1>6, <1>7, <1>8, <1>9, <1>10, <1>11, <1>12 DEF Next

-----------------------------------------------------------------------------
(* A blend factor divides what the branch leaves of the phase: step is the  *)
(* size of one factor's step on the prototype.                              *)
LEMMA BankUnits ==
  ASSUME NEW fraction \in Fractions
  PROVE  /\ Unit \div fraction \in Nat \ {0} /\ Unit \in Nat \ {0}
         /\ fraction \in Nat \ {0} /\ Branches \in Nat \ {0}
         /\ Unit = (Unit \div fraction) * fraction
         /\ PhaseRange = Unit * Branches
         /\ PhaseRange \div fraction = (Unit \div fraction) * Branches
         /\ PhaseRange = (Unit \div fraction) * (Branches * fraction)
<1> DEFINE R == PhaseRange
<1> DEFINE d == Branches * fraction
<1> DEFINE k == R \div d
<1>0. R \in Nat \ {0} /\ Branches \in Nat \ {0} /\ fraction \in Nat \ {0} /\ R % d = 0
  BY PhaseAssumption, BankAssumption
<1>1. d \in Nat \ {0}
  BY <1>0
<1>2. R = d * k + (R % d) /\ k \in Int
  <2>1. R \in Int
    BY <1>0
  <2> HIDE DEF R, d
  <2> QED BY <1>1, <2>1, DivParts
<1> HIDE DEF R, k
<1>3. R = d * k /\ k \in Int /\ k > 0
  <2> HIDE DEF d
  <2>1. R = d * k
    BY <1>0, <1>1, <1>2
  <2> QED BY <1>0, <1>1, <1>2, <2>1
<1>4. /\ R = Branches * (fraction * k) + 0 /\ R = fraction * (k * Branches) + 0
      /\ fraction * k = fraction * k + 0
      /\ fraction * k \in Nat \ {0} /\ k * Branches \in Int
  BY <1>0, <1>3
<1>5. R \div Branches = fraction * k
  <2> DEFINE q == fraction * k
  <2>1. q \in Int /\ R = Branches * q + 0 /\ R \in Int /\ 0 \in 0..(Branches - 1)
    BY <1>0, <1>4
  <2> HIDE DEF q
  <2>2. R \div Branches = q
    BY <1>0, <2>1, DivUnique
  <2> QED BY <2>2 DEF q
<1>6. R \div fraction = k * Branches
  <2> DEFINE q == k * Branches
  <2>1. q \in Int /\ R = fraction * q + 0 /\ R \in Int /\ 0 \in 0..(fraction - 1)
    BY <1>0, <1>4
  <2> HIDE DEF q
  <2>2. R \div fraction = q
    BY <1>0, <2>1, DivUnique
  <2> QED BY <2>2 DEF q
<1>7. (fraction * k) \div fraction = k
  <2> DEFINE a == fraction * k
  <2>1. a \in Int /\ a = fraction * k + 0 /\ 0 \in 0..(fraction - 1)
    BY <1>0, <1>4
  <2> HIDE DEF a
  <2>2. a \div fraction = k
    BY <1>0, <1>3, <2>1, DivUnique
  <2> QED BY <2>2 DEF a
<1>8. Unit = fraction * k /\ Unit \div fraction = k
  BY <1>5, <1>7 DEF Unit, R
<1>9. R = (fraction * k) * Branches /\ R = k * (Branches * fraction) /\ fraction * k = k * fraction
  BY <1>0, <1>3
<1> QED BY <1>0, <1>3, <1>4, <1>6, <1>8, <1>9 DEF R

(* The table is the prototype, the extra row included: its first tap is the *)
(* zero the prototype ends with.                                            *)
LEMMA TableIsPrototype ==
  ASSUME Unit \in Nat, NEW p \in 0..Branches, NEW u \in Slots
  PROVE  Table[p][u] = (Length - (Taps - 1 - u) * Branches - p) * Unit
<1>0. Taps \in Nat \ {0} /\ Branches \in Nat \ {0} /\ u \in 0..(Taps - 1)
  BY TapsAssumption, BankAssumption DEF Slots
<1>1. CASE p # Branches
  <2>1. Table[p] = Branch(p)
    BY <1>1 DEF Table
  <2>2. Table[p][u] = (Length - ((Taps - 1 - u) * Branches + p)) * Unit
    BY <2>1 DEF Branch, Proto
  <2>3. Length - ((Taps - 1 - u) * Branches + p) = Length - (Taps - 1 - u) * Branches - p
    BY <1>0 DEF Length
  <2> QED BY <2>2, <2>3
<1>2. CASE p = Branches
  <2>1. Table[p] = ExtraRow
    BY <1>0, <1>2 DEF Table
  <2>2. CASE u = 0
    <3>1. Table[p][u] = 0
      BY <2>1, <2>2 DEF ExtraRow
    <3>2. Length - (Taps - 1 - u) * Branches - p = 0
      BY <1>0, <1>2, <2>2 DEF Length
    <3> QED BY <3>1, <3>2
  <2>3. CASE u # 0
    <3>1. u - 1 \in Slots
      BY <1>0, <2>3 DEF Slots
    <3>2. Table[p][u] = Branch(0)[u - 1]
      BY <2>1, <2>3 DEF ExtraRow
    <3>3. Branch(0)[u - 1] = (Length - ((Taps - 1 - (u - 1)) * Branches + 0)) * Unit
      BY <3>1 DEF Branch, Proto
    <3>4. Length - ((Taps - 1 - (u - 1)) * Branches + 0) = Length - (Taps - 1 - u) * Branches - p
      BY <1>0, <1>2 DEF Length
    <3> QED BY <3>2, <3>3, <3>4
  <2> QED BY <2>2, <2>3
<1> QED BY <1>1, <1>2

(* Between two rows the blend is the prototype as well, exactly, the rows'  *)
(* difference being a multiple of every factor's steps.                     *)
LEMMA BlendIsPrototype ==
  ASSUME NEW fraction \in Fractions,
         NEW branch \in 0..(Branches - 1), NEW factor \in 0..fraction, NEW u \in Slots
  PROVE  Blended(branch, factor, fraction)[u] =
           (Length - (Taps - 1 - u) * Branches) * Unit
             - (branch * Unit + factor * (Unit \div fraction))
<1> DEFINE g == Unit \div fraction
<1> DEFINE x == Length - (Taps - 1 - u) * Branches
<1>0. /\ g \in Nat \ {0} /\ Unit \in Nat \ {0} /\ fraction \in Nat \ {0} /\ Branches \in Nat \ {0}
      /\ Unit = g * fraction /\ Taps \in Nat \ {0} /\ u \in 0..(Taps - 1)
  BY BankUnits, TapsAssumption DEF Slots
<1>1. x \in Int
  BY <1>0 DEF Length
<1> HIDE DEF g, x
<1>2. branch \in 0..Branches /\ branch + 1 \in 0..Branches /\ branch \in Nat /\ factor \in Nat
  BY <1>0
<1>3. Table[branch][u] = (x - branch) * Unit /\ Table[branch + 1][u] = (x - (branch + 1)) * Unit
  BY <1>0, <1>2, TableIsPrototype DEF x
<1>4. (x - (branch + 1)) * Unit - (x - branch) * Unit = -Unit
  BY <1>0, <1>1, <1>2
<1>5. (factor * (-Unit)) \div fraction = -(factor * g)
  <2>1. factor * (-Unit) = fraction * (-(factor * g)) + 0
    BY <1>0, <1>2
  <2> DEFINE a == factor * (-Unit)
  <2> DEFINE q == -(factor * g)
  <2>2. a \in Int /\ q \in Int /\ a = fraction * q + 0 /\ 0 \in 0..(fraction - 1)
    BY <1>0, <1>2, <2>1
  <2> HIDE DEF a, q
  <2>3. a \div fraction = q
    BY <1>0, <2>2, DivUnique
  <2> QED BY <2>3 DEF a, q
<1>6. Blended(branch, factor, fraction)[u] = (x - branch) * Unit + (-(factor * g))
  BY <1>3, <1>4, <1>5 DEF Blended, Blend
<1>7. (x - branch) * Unit + (-(factor * g)) = x * Unit - (branch * Unit + factor * g)
  BY <1>0, <1>1, <1>2
<1> QED BY <1>6, <1>7 DEF g, x

(* The phase path: branch and factor together are the phase, less what the  *)
(* factor is too coarse to tell.                                            *)
LEMMA PhaseRowIsPrototype ==
  ASSUME NEW fraction \in Fractions, NEW q \in Phases, NEW u \in Slots
  PROVE  BlendRowPhase(q, fraction)[u] =
           (Length - (Taps - 1 - u) * Branches) * Unit
             - (Unit \div fraction) * (q \div (Unit \div fraction))
<1> DEFINE R == PhaseRange
<1> DEFINE g == Unit \div fraction
<1> DEFINE U == Unit
<1> DEFINE B == Branches
<1> DEFINE b == q \div U
<1> DEFINE r == q % U
<1> DEFINE f == r \div g
<1> DEFINE s == r % g
<1>0. /\ g \in Nat \ {0} /\ U \in Nat \ {0} /\ fraction \in Nat \ {0} /\ B \in Nat \ {0}
      /\ U = g * fraction /\ R = U * B /\ R \div fraction = g * B /\ R \in Nat \ {0}
      /\ q \in 0..(R - 1)
  BY BankUnits, PhaseAssumption DEF Phases
<1> HIDE DEF R, g, U, B
<1>1. q \in Int /\ q = U * b + r /\ b \in Int /\ r \in 0..(U - 1)
  <2>1. q \in Int
    BY <1>0
  <2> QED BY <1>0, <2>1, DivParts
<1>2. r \in Int /\ r = g * f + s /\ f \in Int /\ s \in 0..(g - 1)
  <2>1. r \in Int
    BY <1>0, <1>1
  <2> HIDE DEF r
  <2> QED BY <1>0, <2>1, DivParts
<1> HIDE DEF b, r, f, s
<1>3. b \in 0..(B - 1)
  <2>1. b >= 0
    <3> SUFFICES ASSUME b <= -1 PROVE FALSE
      BY <1>1
    <3>1. U * b <= -U
      BY <1>0, <1>1
    <3>2. U * b \in Int
      BY <1>0, <1>1
    <3> QED BY <1>0, <1>1, <3>1, <3>2
  <2>2. b <= B - 1
    <3> SUFFICES ASSUME b >= B PROVE FALSE
      BY <1>0, <1>1
    <3>1. U * b >= U * B
      BY <1>0, <1>1
    <3> QED BY <1>0, <1>1, <3>1
  <2> QED BY <1>0, <1>1, <2>1, <2>2
<1>4. f \in 0..(fraction - 1)
  <2>1. f >= 0
    <3> SUFFICES ASSUME f <= -1 PROVE FALSE
      BY <1>2
    <3>1. g * f <= -g
      BY <1>0, <1>2
    <3>2. g * f \in Int
      BY <1>0, <1>2
    <3> QED BY <1>0, <1>1, <1>2, <3>1, <3>2
  <2>2. f <= fraction - 1
    <3> SUFFICES ASSUME f >= fraction PROVE FALSE
      BY <1>0, <1>2
    <3>1. g * f >= g * fraction
      BY <1>0, <1>2
    <3> QED BY <1>0, <1>1, <1>2, <3>1
  <2> QED BY <1>0, <1>2, <2>1, <2>2
<1>5. r * B \in 0..(R - 1)
  <2>1. r * B >= 0 /\ r * B <= (U - 1) * B
    BY <1>0, <1>1
  <2>2. (U - 1) * B = R - B
    BY <1>0
  <2> QED BY <1>0, <1>1, <2>1, <2>2
<1>6. (q * B) \div R = b /\ (q * B) % R = r * B
  <2> DEFINE a == q * B
  <2> DEFINE z == r * B
  <2>1. a = R * b + z
    BY <1>0, <1>1
  <2>2. a \in Int /\ z \in 0..(R - 1)
    BY <1>0, <1>1, <1>5
  <2> HIDE DEF a, z
  <2>3. R \in Nat \ {0} /\ b \in Int
    BY <1>0, <1>1
  <2>4. a \div R = b /\ a % R = z
    BY <2>1, <2>2, <2>3, DivUnique
  <2> QED BY <2>4 DEF a, z
<1>7. (r * B) \div (g * B) = f
  <2> DEFINE a == r * B
  <2> DEFINE d == g * B
  <2> DEFINE z == s * B
  <2>1. a = d * f + z
    BY <1>0, <1>2
  <2>2. s * B >= 0 /\ s * B <= (g - 1) * B /\ (g - 1) * B = g * B - B
    BY <1>0, <1>2
  <2>3. a \in Int /\ d \in Nat \ {0} /\ z \in 0..(d - 1)
    BY <1>0, <1>1, <1>2, <2>2
  <2> HIDE DEF a, d, z
  <2>4. a \div d = f
    BY <1>2, <2>1, <2>3, DivUnique
  <2> QED BY <2>4 DEF a, d
<1>8. Factor(q, fraction) = f
  BY <1>0, <1>6, <1>7 DEF Factor, R, B
<1>9. BlendRowPhase(q, fraction) = Blended(b, f, fraction)
  BY <1>6, <1>8 DEF BlendRowPhase, R, B
<1>10. f \in 0..fraction /\ b \in 0..(Branches - 1)
  BY <1>0, <1>3, <1>4 DEF B
<1>11. Blended(b, f, fraction)[u] = (Length - (Taps - 1 - u) * Branches) * Unit - (b * U + f * g)
  BY <1>10, BlendIsPrototype DEF U, g
<1>12. b * U + f * g = g * (q \div g)
  <2>1. q = g * (b * fraction + f) + s
    BY <1>0, <1>1, <1>2, <1>3, <1>4
  <2> DEFINE w == b * fraction + f
  <2>2. w \in Int /\ q \in Int
    BY <1>0, <1>1, <1>2
  <2>3. b * U + f * g = g * w
    BY <1>0, <1>1, <1>2
  <2> HIDE DEF w
  <2>4. q = g * w + s
    BY <2>1 DEF w
  <2>5. q \div g = w
    BY <1>0, <1>2, <2>2, <2>4, DivUnique
  <2> QED BY <2>3, <2>5
<1> QED BY <1>9, <1>11, <1>12 DEF U, g

(* What Interpolates asks of the frame that is age frames behind the newest *)
(* of the window.                                                           *)
LEMMA WeightAtAge ==
  ASSUME NEW fraction \in Fractions, NEW q \in Phases, NEW age \in Int
  PROVE  Length * Unit - (Unit \div fraction) * (((age * PhaseRange + q) * Branches * fraction) \div PhaseRange)
           = (Length - age * Branches) * Unit - (Unit \div fraction) * (q \div (Unit \div fraction))
<1> DEFINE R == PhaseRange
<1> DEFINE g == Unit \div fraction
<1> DEFINE U == Unit
<1> DEFINE B == Branches
<1> DEFINE d == B * fraction
<1> DEFINE w == q \div g
<1> DEFINE s == q % g
<1> DEFINE N == Length
<1>0. /\ g \in Nat \ {0} /\ U \in Nat \ {0} /\ fraction \in Nat \ {0} /\ B \in Nat \ {0}
      /\ U = g * fraction /\ R = g * d /\ R \in Nat \ {0} /\ q \in 0..(R - 1)
      /\ N \in Int
  BY BankUnits, PhaseAssumption, TapsAssumption DEF Phases, Length
<1>1. d \in Nat \ {0}
  BY <1>0
<1> HIDE DEF R, g, U, B, d, N
<1>2. q \in Int /\ q = g * w + s /\ w \in Int /\ s \in 0..(g - 1)
  <2>1. q \in Int
    BY <1>0
  <2> QED BY <1>0, <2>1, DivParts
<1> HIDE DEF w, s
<1>3. (age * R + q) * B * fraction = R * (age * d + w) + s * d
  <2>1. (age * R + q) * B * fraction = (age * R + q) * d
    <3>1. age * R + q \in Int
      BY <1>0, <1>2
    <3> QED BY <1>0, <3>1 DEF d
  <2>2. (age * R + q) * d = R * (age * d) + q * d
    BY <1>0, <1>1, <1>2
  <2>3. q * d = R * w + s * d
    BY <1>0, <1>1, <1>2
  <2>4. /\ R * (age * d) \in Int /\ R * w \in Int /\ s * d \in Int /\ age * d \in Int
        /\ R * (age * d + w) = R * (age * d) + R * w
    BY <1>0, <1>1, <1>2
  <2> QED BY <2>1, <2>2, <2>3, <2>4
<1>4. ((age * R + q) * B * fraction) \div R = age * d + w
  <2> DEFINE a == (age * R + q) * B * fraction
  <2> DEFINE x == age * d + w
  <2> DEFINE z == s * d
  <2>1. s * d >= 0 /\ s * d <= (g - 1) * d /\ (g - 1) * d = R - d
    BY <1>0, <1>1, <1>2
  <2>2. a = R * x + z
    BY <1>3
  <2>3. a \in Int /\ x \in Int /\ z \in 0..(R - 1) /\ R \in Nat \ {0}
    BY <1>0, <1>1, <1>2, <2>1
  <2> HIDE DEF a, x, z
  <2>4. a \div R = x
    BY <2>2, <2>3, DivUnique
  <2> QED BY <2>4 DEF a, x
<1>5. N * U - g * (age * d + w) = (N - age * B) * U - g * w
  <2>1. g * (age * d + w) = g * (age * d) + g * w
    BY <1>0, <1>1, <1>2
  <2>2. g * (age * d) = age * B * U
    BY <1>0 DEF d
  <2>3. (N - age * B) * U = N * U - age * B * U
    BY <1>0
  <2>4. g * w \in Int /\ age * B * U \in Int /\ N * U \in Int
    BY <1>0, <1>2
  <2> QED BY <2>1, <2>2, <2>3, <2>4
<1> QED BY <1>4, <1>5 DEF R, g, U, B, N, w

(* The double path: mu is the phase but for half a step, and its branch and *)
(* factor are mu but for a factor's, at a mu of 1 too.                      *)
LEMMA MuRowIsPhaseRow ==
  ASSUME NEW fraction \in Fractions, NEW q \in Phases, NEW u \in Slots,
         NEW slack, slack = (PhaseRange \div MuRange) \div 2 + Unit \div fraction
  PROVE  BlendRow(Mu(q), fraction)[u] - BlendRowPhase(q, fraction)[u] \in -slack..slack
<1> DEFINE R == PhaseRange
<1> DEFINE g == Unit \div fraction
<1> DEFINE U == Unit
<1> DEFINE B == Branches
<1> DEFINE D == MuRange
<1> DEFINE t == R \div D
<1> DEFINE h == t \div 2
<1> DEFINE mu == Mu(q)
<1> DEFINE b == BranchOfMu(mu)
<1> DEFINE f == FactorOfMu(mu, fraction)
<1>0. /\ g \in Nat \ {0} /\ U \in Nat \ {0} /\ fraction \in Nat \ {0} /\ B \in Nat \ {0}
      /\ U = g * fraction /\ R = U * B /\ R \in Nat \ {0} /\ q \in 0..(R - 1)
      /\ D \in Nat \ {0} /\ R % D = 0 /\ q \in Int /\ R \in Int
  BY BankUnits, PhaseAssumption, BankAssumption DEF Phases
<1> HIDE DEF R, g, U, B, D
<1>1. R = D * t /\ t \in Nat \ {0}
  <2>1. R = D * t + (R % D) /\ t \in Int
    BY <1>0, DivParts
  <2> HIDE DEF t
  <2>2. R = D * t
    BY <1>0, <2>1
  <2> QED BY <1>0, <2>1, <2>2
<1> HIDE DEF t
<1>2. h \in Nat /\ t - 1 <= h + h
  BY <1>1
<1> HIDE DEF h
<1>3. mu \in Int /\ mu * t <= q + h /\ mu * t >= q - h
  <2> DEFINE a == q + h
  <2>1. a \in Int /\ t \in Nat \ {0} /\ mu = a \div t
    BY <1>0, <1>1, <1>2 DEF Mu, R, D, t, h
  <2> HIDE DEF a, mu
  <2>2. a = t * (a \div t) + (a % t) /\ a \div t \in Int /\ a % t \in 0..(t - 1)
    BY <2>1, DivParts
  <2>3. mu \in Int /\ t * mu = mu * t
    BY <2>1, <2>2
  <2>4. mu * t \in Int /\ mu * t <= a /\ mu * t >= a - (t - 1)
    BY <2>1, <2>2, <2>3
  <2>5. a = q + h
    BY DEF a
  <2> QED BY <1>0, <1>1, <1>2, <2>3, <2>4, <2>5
<1> HIDE DEF mu
<1>4. mu >= 0 /\ mu <= D
  <2>1. mu >= 0
    <3> SUFFICES ASSUME mu <= -1 PROVE FALSE
      BY <1>3
    <3>1. mu * t <= -t
      BY <1>1, <1>3
    <3>2. mu * t >= -h
      BY <1>0, <1>2, <1>3, <1>1
    <3>3. h < t
      BY <1>1, <1>2 DEF h
    <3> QED BY <1>1, <1>2, <1>3, <3>1, <3>2, <3>3
  <2>2. mu <= D
    <3> SUFFICES ASSUME mu >= D + 1 PROVE FALSE
      BY <1>0, <1>3
    <3>1. mu * t >= (D + 1) * t /\ (D + 1) * t = R + t
      BY <1>0, <1>1, <1>3
    <3>2. h < t
      BY <1>1, <1>2 DEF h
    <3>3. mu * t \in Int
      BY <1>1, <1>3
    <3> QED BY <1>0, <1>1, <1>2, <1>3, <3>1, <3>2, <3>3
  <2> QED BY <2>1, <2>2
<1>5. b \in 0..(B - 1) /\ mu * B - b * D \in 0..D
  <2> DEFINE a == mu * B
  <2> DEFINE k == a \div D
  <2>1. a \in Int /\ a >= 0 /\ a <= D * B
    BY <1>0, <1>3, <1>4
  <2>2. b = IF k >= B THEN B - 1 ELSE k
    BY DEF BranchOfMu, B, D
  <2> HIDE DEF a, b
  <2>3. a = D * k + (a % D) /\ k \in Int /\ a % D \in 0..(D - 1)
    BY <1>0, <2>1, DivParts
  <2> HIDE DEF k
  <2>4. k >= 0
    <3> SUFFICES ASSUME k <= -1 PROVE FALSE
      BY <2>3
    <3>1. D * k <= -D /\ D * k \in Int
      BY <1>0, <2>3
    <3> QED BY <1>0, <2>1, <2>3, <3>1
  <2>5. CASE k >= B
    <3>1. D * k >= D * B /\ D * k \in Int /\ D * B \in Int
      BY <1>0, <2>3, <2>5
    <3>2. a = D * B
      BY <1>0, <2>1, <2>3, <3>1
    <3>3. b = B - 1 /\ b * D = D * B - D
      BY <1>0, <2>2, <2>5
    <3> QED BY <1>0, <2>1, <3>1, <3>2, <3>3 DEF a
  <2>6. CASE k < B
    <3>1. b = k /\ k \in 0..(B - 1)
      BY <1>0, <2>2, <2>3, <2>4, <2>6
    <3>2. a - b * D = a % D
      <4>1. b * D = D * k /\ D * k \in Int
        BY <1>0, <2>3, <3>1
      <4> QED BY <1>0, <2>1, <2>3, <4>1
    <3>3. a - b * D \in 0..D
      BY <1>0, <2>3, <3>2
    <3> QED BY <3>1, <3>3 DEF a
  <2> QED BY <1>0, <2>3, <2>5, <2>6
<1> DEFINE m == mu * B - b * D
<1>6. /\ f \in 0..fraction
      /\ f * D <= m * fraction /\ f * D > m * fraction - D
      /\ m \in 0..D /\ b \in Int
  <2>1. f = (m * fraction) \div D /\ m \in 0..D /\ b \in Int
    BY <1>0, <1>5 DEF FactorOfMu, B, D
  <2> HIDE DEF f, m
  <2> DEFINE a == m * fraction
  <2>2. a \in Int /\ a >= 0 /\ a <= D * fraction
    BY <1>0, <2>1
  <2> HIDE DEF a
  <2>3. a = D * (a \div D) + (a % D) /\ a \div D \in Int /\ a % D \in 0..(D - 1)
    BY <1>0, <2>2, DivParts
  <2>4. f = a \div D
    BY <2>1 DEF a
  <2>5. f \in Int /\ f * D = D * f /\ f * D \in Int /\ a = D * f + (a % D)
    BY <1>0, <2>3, <2>4
  <2>6. f * D <= a /\ f * D > a - D
    BY <1>0, <2>2, <2>3, <2>5
  <2>7. f >= 0
    <3> SUFFICES ASSUME f <= -1 PROVE FALSE
      BY <2>5
    <3>1. f * D <= -D
      BY <1>0, <2>5
    <3> QED BY <1>0, <2>2, <2>5, <2>6, <3>1
  <2>8. f <= fraction
    <3> SUFFICES ASSUME f >= fraction + 1 PROVE FALSE
      BY <1>0, <2>5
    <3>1. f * D >= (fraction + 1) * D /\ (fraction + 1) * D = D * fraction + D
      BY <1>0, <2>5
    <3>2. D * fraction \in Int
      BY <1>0
    <3> QED BY <1>0, <2>2, <2>5, <2>6, <3>1, <3>2
  <2> QED BY <1>0, <2>1, <2>5, <2>6, <2>7, <2>8 DEF a
<1> DEFINE y == b * U + f * g
<1>7. y \in Int /\ y <= mu * t /\ y > mu * t - g
  <2>1. m = mu * B - b * D
    OBVIOUS
  <2> HIDE DEF b, f, m
  <2>2. /\ f \in Int /\ m \in Int /\ b \in Int /\ f * D \in Int /\ m * fraction \in Int
        /\ y \in Int
    BY <1>0, <1>6
  <2>3. (f * D) * g <= (m * fraction) * g /\ (f * D) * g > (m * fraction) * g - D * g
    BY <1>0, <1>6, <2>2
  <2>4. (m * fraction) * g = m * U
    BY <1>0, <2>2
  <2>5. m * U = mu * (B * U) - (b * U) * D
    BY <1>0, <1>3, <2>1, <2>2
  <2>6. mu * (B * U) = (mu * t) * D
    <3>1. B * U = D * t
      BY <1>0, <1>1
    <3> QED BY <1>0, <1>1, <1>3, <3>1
  <2>7. y * D = (b * U) * D + (f * D) * g
    BY <1>0, <2>2
  <2> DEFINE v == mu * t
  <2>8. v \in Int
    BY <1>1, <1>3
  <2>9. /\ (f * D) * g \in Int /\ (m * fraction) * g \in Int /\ D * g \in Int /\ (b * U) * D \in Int
        /\ v * D \in Int /\ y * D \in Int
    BY <1>0, <2>2, <2>8
  <2> HIDE DEF v, y
  <2>10. (m * fraction) * g = v * D - (b * U) * D
    BY <2>4, <2>5, <2>6 DEF v
  <2>11. y * D <= v * D /\ y * D > v * D - D * g
    BY <2>3, <2>7, <2>9, <2>10
  <2>12. v * D - D * g = (v - g) * D
    BY <1>0, <2>8
  <2>13. y <= v
    <3> SUFFICES ASSUME y >= v + 1 PROVE FALSE
      BY <2>2, <2>8
    <3>1. y * D >= (v + 1) * D /\ (v + 1) * D = v * D + D
      BY <1>0, <2>2, <2>8
    <3> QED BY <1>0, <2>9, <2>11, <3>1
  <2>14. y > v - g
    <3> SUFFICES ASSUME y <= v - g PROVE FALSE
      BY <1>0, <2>2, <2>8
    <3>1. y * D <= (v - g) * D
      BY <1>0, <2>2, <2>8
    <3> QED BY <2>9, <2>11, <2>12, <3>1
  <2> QED BY <2>2, <2>13, <2>14 DEF v
<1>8. BlendRow(mu, fraction)[u] = (Length - (Taps - 1 - u) * Branches) * U - y
  BY <1>5, <1>6, BlendIsPrototype DEF BlendRow, U, g, B
<1> DEFINE z == g * (q \div g)
<1>9. BlendRowPhase(q, fraction)[u] = (Length - (Taps - 1 - u) * Branches) * U - z
  BY PhaseRowIsPrototype DEF U, g
<1>10. z \in Int /\ z <= q /\ z > q - g
  <2>1. q = g * (q \div g) + (q % g) /\ q \div g \in Int /\ q % g \in 0..(g - 1)
    BY <1>0, DivParts
  <2> DEFINE k == q \div g
  <2> HIDE DEF k
  <2>2. z = g * k
    BY DEF k
  <2>3. k \in Int /\ q = g * k + (q % g) /\ q % g \in 0..(g - 1)
    BY <2>1 DEF k
  <2>4. g * k \in Int
    BY <1>0, <2>3
  <2> QED BY <1>0, <2>2, <2>3, <2>4
<1>11. (Length - (Taps - 1 - u) * Branches) * U \in Int
  BY <1>0, TapsAssumption DEF Slots, Length, B
<1> HIDE DEF y, z, b, f
<1>12. BlendRow(mu, fraction)[u] - BlendRowPhase(q, fraction)[u] = z - y
  BY <1>7, <1>8, <1>9, <1>10, <1>11
<1>13. slack = h + g
  BY DEF h, t, g, R, D
<1>14. z - y \in -(h + g)..(h + g)
  <2> DEFINE v == mu * t
  <2>1. v \in Int /\ v <= q + h /\ v >= q - h /\ y <= v /\ y > v - g
    BY <1>1, <1>3, <1>7
  <2> HIDE DEF v
  <2> QED BY <1>0, <1>2, <1>7, <1>10, <2>1
<1> QED BY <1>12, <1>13, <1>14 DEF mu

LEMMA WindowOfLine ==
  ASSUME hist \in Seq(Nat), Len(hist) >= Taps
  PROVE  \A i \in 1..Taps : Window[i] = hist[Len(hist) - Taps + i]
<1>0. Taps \in Nat \ {0} /\ Len(hist) \in Nat
  BY TapsAssumption
<1> TAKE i \in 1..Taps
<1> DEFINE b == Len(hist) - Taps
<1>1. b \in Nat /\ Len(hist) = b + Taps
  BY <1>0
<1> HIDE DEF b
<1>2. Window = SubSeq(hist, b + 1, Len(hist))
  BY DEF Window, b
<1>3. Window[i] = hist[b + 1 + i - 1]
  BY <1>0, <1>1, <1>2
<1>4. b + 1 + i - 1 = b + i
  BY <1>0, <1>1
<1> QED BY <1>3, <1>4 DEF b

(* The two layouts hold the same window.                                    *)
LEMMA LayoutsAgree ==
  ASSUME hist \in Seq(Nat), Len(hist) >= Taps,
         NEW channels \in Nat \ {0}, NEW c \in 0..(channels - 1), NEW row
  PROVE  Products(channels, c, row) = [u \in Slots |-> <<<<Window[u + 1], c>>, row[u]>>]
<1>0. Taps \in Nat \ {0} /\ Len(hist) \in Nat
  BY TapsAssumption
<1>1. CASE ~Interleaved(channels)
  BY <1>1 DEF Products
<1>2. CASE Interleaved(channels)
  <2> DEFINE samples == [i \in 0..(Len(hist) * channels - 1) |-> <<hist[i \div channels + 1], i % channels>>]
  <2>1. Products(channels, c, row) = [u \in Slots |-> <<samples[Base(channels) + u * channels + c], row[u]>>]
    BY <1>2 DEF Products
  <2>2. ASSUME NEW u \in Slots
        PROVE  samples[Base(channels) + u * channels + c] = <<Window[u + 1], c>>
    <3> DEFINE i == Base(channels) + u * channels + c
    <3> DEFINE k == Len(hist) - Taps + u
    <3>1. u \in 0..(Taps - 1) /\ k \in 0..(Len(hist) - 1) /\ c \in Nat
      BY <1>0 DEF Slots
    <3>2. i = channels * k + c
      BY <1>0, <3>1 DEF Base
    <3>3. k + 1 = Len(hist) - Taps + (u + 1) /\ u + 1 \in 1..Taps
      BY <1>0, <3>1
    <3> HIDE DEF i, k
    <3>4. i \in Int /\ channels * k \in Int
      BY <1>0, <3>1, <3>2
    <3>9. k \in Int /\ channels \in Nat \ {0} /\ c \in 0..(channels - 1)
      BY <1>0, <3>1
    <3>5. i \div channels = k /\ i % channels = c
      BY <3>2, <3>4, <3>9, DivUnique
    <3>6. i \in 0..(Len(hist) * channels - 1)
      <4>1. channels * k <= channels * (Len(hist) - 1) /\ channels * k >= 0
        BY <1>0, <3>1
      <4>2. channels * (Len(hist) - 1) = Len(hist) * channels - channels /\ Len(hist) * channels \in Int
        BY <1>0
      <4> QED BY <3>1, <3>2, <3>4, <4>1, <4>2
    <3>7. samples[i] = <<hist[i \div channels + 1], i % channels>>
      BY <3>6
    <3> HIDE DEF samples
    <3>8. hist[k + 1] = Window[u + 1]
      BY <3>3, WindowOfLine
    <3> QED BY <3>5, <3>7, <3>8 DEF i
  <2> HIDE DEF samples
  <2> QED BY <2>1, <2>2
<1> QED BY <1>1, <1>2

(* At an output the line holds a whole window, and the frames appended are  *)
(* those the position asks for: what ProcessEmit relies on.                 *)
LEMMA PositionAtOutput ==
  ASSUME ResamplerInv, pc = "process", adv = 0
  PROVE  /\ NextPhase(phase, eps) \in Phases
         /\ due + PhaseRange + eps = (appended - Taps) * PhaseRange + NextPhase(phase, eps)
         /\ appended >= Taps
<1> DEFINE a == Advance(phase, eps)
<1> DEFINE p == NextPhase(phase, eps)
<1> DEFINE R == PhaseRange
<1>0. Taps \in Nat /\ R \in Nat \ {0}
  BY TapsAssumption, PhaseAssumption
<1>1. /\ p \in Phases /\ a \in 0..2 /\ (a - 1) * R + p = phase + eps
      /\ phase \in Int /\ eps \in Int
  BY AdvanceMatchesWrap DEF ResamplerInv, TypeOK, Phases, Deviations
<1>2. p \in Int
  BY <1>1 DEF Phases
<1>3. /\ appended \in Nat /\ due \in Nat /\ appended >= Taps
      /\ (appended + 0 - a - Taps) * R + phase = due
  BY DEF ResamplerInv, TypeOK, Position
<1> HIDE DEF a, p, R
<1>4. (appended - Taps) * R = (appended + 0 - a - Taps) * R + a * R
  BY <1>0, <1>1, <1>3
<1>5. a * R = (a - 1) * R + R
  BY <1>0, <1>1
<1>6. /\ (appended - Taps) * R \in Int /\ (appended + 0 - a - Taps) * R \in Int
      /\ a * R \in Int /\ (a - 1) * R \in Int
  BY <1>0, <1>1, <1>3
<1>7. due + R + eps = (appended - Taps) * R + p
  BY <1>0, <1>1, <1>2, <1>3, <1>4, <1>5, <1>6
<1> QED BY <1>1, <1>3, <1>7 DEF p, R

LEMMA LineInterpolates ==
  ASSUME ResamplerInv, LineInv
  PROVE  Interpolates
<1> DEFINE q == NextPhase(phase, eps)
<1> DEFINE position == due + PhaseRange + eps
<1> DEFINE distance(age) == position + (age + Taps - appended) * PhaseRange
<1> DEFINE weight(age, fraction) ==
  Length * Unit - (Unit \div fraction) * ((distance(age) * Branches * fraction) \div PhaseRange)
<1> DEFINE row(fraction) == BlendRowPhase(q, fraction)
<1> DEFINE last == Window[Taps]
<1> SUFFICES ASSUME pc = "process", left > 0, adv = 0
             PROVE  /\ Len(hist) >= Taps
                    /\ \A i \in 1..(Taps - 1) : Window[i] < Window[i + 1]
                    /\ sinceCut = Taps =>
                         \A fraction \in Fractions :
                           /\ \A channels \in ChannelCounts : \A c \in 0..(channels - 1) :
                                Products(channels, c, row(fraction)) =
                                  [u \in Slots |-> <<<<last - (Taps - 1 - u), c>>, weight(Taps - 1 - u, fraction)>>]
                           /\ \A u \in Slots :
                                BlendRow(Mu(q), fraction)[u] - weight(Taps - 1 - u, fraction)
                                  \in -((PhaseRange \div MuRange) \div 2 + Unit \div fraction)..((PhaseRange \div MuRange) \div 2 + Unit \div fraction)
  BY DEF Interpolates
<1>0. Taps \in Nat \ {0} /\ PhaseRange \in Nat \ {0} /\ ChannelCounts \subseteq Nat \ {0}
  BY TapsAssumption, PhaseAssumption, ResamplerAssumption
<1>1. /\ q \in Phases /\ q \in Int /\ appended >= Taps /\ appended \in Nat
      /\ position = (appended - Taps) * PhaseRange + q
  BY PositionAtOutput DEF ResamplerInv, TypeOK, Phases
<1>2. hist \in Seq(Nat) /\ Len(hist) \in Nat /\ Len(hist) >= Taps
  BY <1>0, <1>1 DEF ResamplerInv, TypeOK, LineInv, Filled
<1>3. \A i \in 1..Taps : Window[i] = hist[Len(hist) - Taps + i]
  BY <1>2, WindowOfLine
<1>4. \A i \in 1..(Taps - 1) : Window[i] < Window[i + 1]
  <2> TAKE i \in 1..(Taps - 1)
  <2> DEFINE j == Len(hist) - Taps + i
  <2>1. /\ j \in 1..(Len(hist) - 1) /\ i \in 1..Taps /\ i + 1 \in 1..Taps
        /\ j + 1 = Len(hist) - Taps + (i + 1)
    BY <1>0, <1>2
  <2>2. Window[i] = hist[j] /\ Window[i + 1] = hist[j + 1]
    BY <1>3, <2>1
  <2> HIDE DEF j
  <2> QED BY <2>1, <2>2 DEF LineInv, Ascending
<1>5. ASSUME NEW age \in Int
      PROVE  distance(age) = age * PhaseRange + q
  <2> DEFINE R == PhaseRange
  <2>1. R \in Int /\ position = (appended - Taps) * R + q
    BY <1>0, <1>1
  <2> HIDE DEF R, q, position
  <2>2. /\ (age + Taps - appended) * R = age * R - (appended - Taps) * R
        /\ age * R \in Int /\ (appended - Taps) * R \in Int
    BY <1>0, <1>1, <2>1
  <2>3. position + (age + Taps - appended) * R = age * R + q
    BY <1>1, <2>1, <2>2
  <2> QED BY <2>3 DEF R
<1>6. ASSUME NEW fraction \in Fractions, NEW u \in Slots
      PROVE  weight(Taps - 1 - u, fraction) = row(fraction)[u]
  <2> DEFINE age == Taps - 1 - u
  <2>1. age \in Int
    BY <1>0 DEF Slots
  <2> HIDE DEF age, q, position
  <2>2. weight(age, fraction) =
          Length * Unit - (Unit \div fraction) * (((age * PhaseRange + q) * Branches * fraction) \div PhaseRange)
    BY <1>5, <2>1
  <2> HIDE DEF weight
  <2>3. weight(age, fraction) = (Length - age * Branches) * Unit - (Unit \div fraction) * (q \div (Unit \div fraction))
    BY <1>1, <2>1, <2>2, WeightAtAge
  <2>4. row(fraction)[u] = (Length - (Taps - 1 - u) * Branches) * Unit - (Unit \div fraction) * (q \div (Unit \div fraction))
    BY <1>1, PhaseRowIsPrototype
  <2> QED BY <2>3, <2>4 DEF age
<1> HIDE DEF q, position, distance, weight, row
<1>7. ASSUME sinceCut = Taps, NEW u \in Slots
      PROVE  Window[u + 1] = last - (Taps - 1 - u)
  <2> DEFINE n == Len(hist)
  <2> DEFINE j == n - Taps + (u + 1)
  <2>1. /\ u \in 0..(Taps - 1) /\ u + 1 \in 1..Taps /\ Taps \in 1..Taps
        /\ j \in 1..n /\ n - Taps + Taps = n /\ n - j = Taps - 1 - u /\ n - j < Taps
    BY <1>0, <1>2 DEF Slots
  <2>2. Window[u + 1] = hist[j] /\ last = hist[n]
    BY <1>3, <2>1
  <2> HIDE DEF j
  <2>3. hist[j] = hist[n] - (n - j)
    BY <1>7, <2>1 DEF LineInv, Unbroken
  <2> QED BY <2>1, <2>2, <2>3
<1> HIDE DEF last
<1>8. ASSUME sinceCut = Taps, NEW fraction \in Fractions, NEW channels \in ChannelCounts, NEW c \in 0..(channels - 1)
      PROVE  Products(channels, c, row(fraction)) =
               [u \in Slots |-> <<<<last - (Taps - 1 - u), c>>, weight(Taps - 1 - u, fraction)>>]
  <2>1. channels \in Nat \ {0}
    BY <1>0
  <2>2. Products(channels, c, row(fraction)) = [u \in Slots |-> <<<<Window[u + 1], c>>, row(fraction)[u]>>]
    BY <1>2, <2>1, LayoutsAgree
  <2>3. \A u \in Slots : /\ Window[u + 1] = last - (Taps - 1 - u)
                         /\ row(fraction)[u] = weight(Taps - 1 - u, fraction)
    BY <1>6, <1>7, <1>8
  <2> QED BY <2>2, <2>3
<1>9. ASSUME NEW fraction \in Fractions, NEW u \in Slots
      PROVE  BlendRow(Mu(q), fraction)[u] - weight(Taps - 1 - u, fraction)
               \in -((PhaseRange \div MuRange) \div 2 + Unit \div fraction)..((PhaseRange \div MuRange) \div 2 + Unit \div fraction)
  <2> DEFINE slack == (PhaseRange \div MuRange) \div 2 + Unit \div fraction
  <2>1. BlendRow(Mu(q), fraction)[u] - BlendRowPhase(q, fraction)[u] \in -slack..slack
    BY <1>1, MuRowIsPhaseRow
  <2>2. weight(Taps - 1 - u, fraction) = BlendRowPhase(q, fraction)[u]
    BY <1>6 DEF row
  <2> QED BY <2>1, <2>2
<1> QED BY <1>2, <1>4, <1>8, <1>9

(* Every output is the prototype's interpolation of the frames at their     *)
(* distance from the read position, for every bank, phase width, chunk,     *)
(* format, channel count and layout: what fractional_resampler::process()   *)
(* computes and from which samples.                                         *)
THEOREM OutputsInterpolate == Spec => []Interpolates
<1>1. ResamplerInv /\ LineInv => Interpolates
  BY LineInterpolates
<1>2. ResamplerInv /\ LineInv /\ [Next]_vars => (ResamplerInv /\ LineInv)'
  BY NextKeepsLine, NextKeepsResamplerInv
<1>3. Init => ResamplerInv /\ LineInv
  BY InitIsLine, InitResamplerInv
<1> QED BY <1>1, <1>2, <1>3, PTL DEF Spec

=============================================================================
