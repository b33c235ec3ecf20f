--------------------------- MODULE RationalProofs ---------------------------
(***************************************************************************)
(* Proofs about RationalStage, for every ratio, filter length, history     *)
(* size and chunking of the pops: both machines, the L-phase one and the   *)
(* decimator, compute the textbook convolution, at exactly the rate L/M,   *)
(* and as much of it as the sizing companions say.                         *)
(***************************************************************************)
EXTENDS RationalStage, ScheduleLemmas

(* Inputs between two samples of one line.                                  *)
LineStep == IF IsDecimator THEN M ELSE 1

(* The input each line has last been dealt, f inputs into the stream and    *)
(* at decimation phase d.                                                   *)
NewestOf(s, f, d) == f - d + s + 1 - (IF s < d THEN 0 ELSE LineStep)

(* The newest RowLen entries of every line ls, whatever was compacted.      *)
Dealt(ls, f, d) ==
  \A s \in Lines : \A i \in 0..(RowLen - 1) :
    ls[s][Len(ls[s]) - i] = NewestOf(s, f, d) - i * LineStep

Pulling == pc = "pull" /\ todo # 0

(* Inputs the next output is short of.  A pull() that has fed an output but *)
(* not yet made it knows by its own count: a decimator's phase is past it.  *)
Short == IF Pulling THEN need ELSE PendingInputs

(* The next output waits for input floor(made M / L) + 1 and for no other,  *)
(* and the last one did not.                                                *)
OnSchedule ==
  /\ pos = made % L
  /\ dphase = (IF IsDecimator THEN fed % M ELSE 0)
  /\ IsDecimator => pending = 1
  /\ fed + Short = Due(made) + 1
  /\ Pulling /\ (need # 0 \/ ~IsDecimator) => need = PendingInputs
  /\ made > 0 => Due(made - 1) < fed

(* What a call under way has still to do is what the sizing arithmetic says *)
(* of the inputs, or the outputs, that are left.                            *)
Owed ==
  /\ pc = "idle" => left = 0 /\ todo = 0 /\ need = 0 /\ (~banked => PendingInputs > 0)
  /\ pc = "process" => /\ todo = (IF IsDecimator THEN 0 ELSE StageOutputsFor(left))
                       /\ promise = made + StageOutputsFor(left)
  /\ pc = "pull" => /\ left <= need /\ banked /\ (todo = 0 => need = 0)
                    /\ promise = fed + FramesNeeded(pos, need, todo)
  /\ pc = "flush" => todo = 0 /\ promise = made + StageOutputsFor(left)
  /\ pc # "pull" => need = 0
  /\ pc \in {"process", "flush"} => ~banked

StageInv ==
  /\ TypeOK /\ IsConvolution
  /\ Dealt(lines, fed, dphase) /\ OnSchedule /\ Owed

-----------------------------------------------------------------------------
(* The parameters of the two machines.                                      *)
LEMMA StageSizes ==
  /\ L \in Nat \ {0} /\ M \in Nat \ {0} /\ FilterTaps \in Nat \ {0} /\ Slack \in Nat \ {0}
  /\ Stride \in Nat \ {0} /\ LineStep \in Nat \ {0} /\ RowLen \in Nat \ {0}
  /\ HistCap \in Nat /\ HistCap = RowLen + Slack
  /\ FilterTaps <= Stride * RowLen /\ Stride * RowLen < FilterTaps + Stride
  /\ 0 \in Lines /\ Lines \subseteq Nat
  /\ IsDecimator => Lines = 0..(M - 1) /\ LineStep = M
  /\ ~IsDecimator => Lines = {0} /\ LineStep = 1
<1>1. L \in Nat \ {0} /\ M \in Nat \ {0} /\ FilterTaps \in Nat \ {0} /\ Slack \in Nat \ {0}
  BY RatioAssumption, StageAssumption
<1>2. Stride \in Nat \ {0} /\ LineStep \in Nat \ {0}
  BY <1>1 DEF Stride, LineStep
<1> DEFINE a == FilterTaps + Stride - 1
<1>3. a = Stride * RowLen + (a % Stride) /\ RowLen \in Int /\ a % Stride \in 0..(Stride - 1)
  <2>1. a \in Int
    BY <1>1, <1>2
  <2> HIDE DEF a
  <2>2. a = Stride * (a \div Stride) + (a % Stride) /\ a \div Stride \in Int /\ a % Stride \in 0..(Stride - 1)
    BY <1>2, <2>1, DivParts
  <2> QED BY <2>2 DEF RowLen, a
<1> DEFINE x == Stride * RowLen
<1>4. x \in Int /\ FilterTaps <= x /\ x < FilterTaps + Stride
  BY <1>1, <1>2, <1>3
<1>5. RowLen > 0
  <2> SUFFICES ASSUME RowLen <= 0 PROVE FALSE
    BY <1>3
  <2>1. x <= 0
    BY <1>2, <1>3
  <2> HIDE DEF x
  <2> QED BY <1>1, <1>4, <2>1
<1> QED BY <1>1, <1>2, <1>3, <1>4, <1>5 DEF HistCap, Lines, LineStep, IsDecimator

(* A line whose newest entries, newest first, are h; h after one more.      *)
Row(line, h) ==
  /\ line \in Seq(Int) /\ Len(line) \in RowLen..HistCap
  /\ \A i \in 0..(RowLen - 1) : line[Len(line) - i] = h[i]
Pushed(h, x) == [i \in 0..(RowLen - 1) |-> IF i = 0 THEN x ELSE h[i - 1]]

(* append_frame() and append_silence() leave the newest entries where the   *)
(* next row looks for them, compacted or not.                               *)
LEMMA AppendKeepsRow ==
  ASSUME NEW line, NEW h, NEW x \in Int, Row(line, h)
  PROVE  Row(Append(Compacted(line), x), Pushed(h, x))
<1> DEFINE new == Append(Compacted(line), x)
<1>b. /\ line \in Seq(Int) /\ Len(line) \in RowLen..HistCap
      /\ \A i \in 0..(RowLen - 1) : line[Len(line) - i] = h[i]
  BY DEF Row
<1> DEFINE kept == Compacted(line)
<1> DEFINE n == Len(kept)
<1>0. RowLen \in Nat \ {0} /\ HistCap \in Nat /\ HistCap > RowLen
  BY StageSizes
<1>1. /\ kept \in Seq(Int) /\ n \in (RowLen - 1)..(HistCap - 1)
      /\ \A i \in 0..(RowLen - 2) : kept[n - i] = h[i]
  <2>1. CASE Len(line) = HistCap
    <3> DEFINE sub == SubSeq(line, HistCap - RowLen + 2, HistCap)
    <3> DEFINE a == HistCap - RowLen + 2
    <3>0. a \in 1..(HistCap + 1) /\ HistCap + 1 - a = RowLen - 1
      BY <1>0
    <3>1. /\ sub \in Seq(Int) /\ Len(sub) = RowLen - 1
          /\ \A i \in 1..(RowLen - 1) : sub[i] = line[HistCap - RowLen + 1 + i]
      BY <1>0, <1>b, <2>1, <3>0
    <3>2. ASSUME NEW i \in 0..(RowLen - 2) PROVE sub[Len(sub) - i] = h[i]
      <4>1. /\ Len(sub) - i \in 1..(RowLen - 1) /\ i \in 0..(RowLen - 1)
            /\ HistCap - RowLen + 1 + (Len(sub) - i) = Len(line) - i
        BY <1>0, <1>b, <2>1, <3>1
      <4> HIDE DEF sub
      <4> QED BY <1>b, <3>1, <4>1
    <3>3. kept = sub
      BY <2>1 DEF Compacted
    <3>4. kept \in Seq(Int) /\ n = RowLen - 1
      BY <3>1, <3>3
    <3>5. \A i \in 0..(RowLen - 2) : kept[n - i] = h[i]
      BY <3>2, <3>3
    <3> HIDE DEF sub, kept, n
    <3>6. n \in (RowLen - 1)..(HistCap - 1)
      BY <1>0, <3>4
    <3> QED BY <3>4, <3>5, <3>6
  <2>2. CASE Len(line) # HistCap
    <3>1. kept = line
      BY <2>2 DEF Compacted
    <3> HIDE DEF kept
    <3>2. \A i \in 0..(RowLen - 2) : kept[n - i] = h[i]
      BY <1>0, <1>b, <3>1
    <3>3. kept \in Seq(Int) /\ n \in (RowLen - 1)..(HistCap - 1)
      BY <1>0, <1>b, <2>2, <3>1
    <3> QED BY <3>2, <3>3
  <2> QED BY <2>1, <2>2
<1> DEFINE grown == Append(kept, x)
<1>a. new = grown
  BY DEF grown
<1> HIDE DEF kept
<1>2. /\ new \in Seq(Int) /\ Len(new) = n + 1 /\ new[n + 1] = x
      /\ \A j \in 1..n : new[j] = kept[j]
  BY <1>1, <1>a
<1>3. ASSUME NEW i \in 1..(RowLen - 1) PROVE new[Len(new) - i] = h[i - 1]
  <2> HIDE DEF n
  <2>1. n \in (RowLen - 1)..(HistCap - 1) /\ Len(new) = n + 1
    BY <1>1, <1>2
  <2>2. i - 1 \in 0..(RowLen - 2) /\ Len(new) - i \in 1..n /\ Len(new) - i = n - (i - 1)
    BY <1>0, <2>1
  <2> QED BY <1>1, <1>2, <2>2
<1>4. new \in Seq(Int) /\ Len(new) \in RowLen..HistCap /\ new[Len(new)] = x
  <2> HIDE DEF n
  <2>1. n \in (RowLen - 1)..(HistCap - 1) /\ Len(new) = n + 1
    BY <1>1, <1>2
  <2>2. Len(new) \in RowLen..HistCap
    BY <1>0, <2>1
  <2> QED BY <1>2, <2>1, <2>2
<1>5. ASSUME NEW i \in 0..(RowLen - 1) PROVE new[Len(new) - i] = Pushed(h, x)[i]
  <2> HIDE DEF new
  <2>1. Pushed(h, x)[i] = IF i = 0 THEN x ELSE h[i - 1]
    BY DEF Pushed
  <2>2. CASE i = 0
    <3>1. Len(new) - i = Len(new)
      BY <1>4, <2>2
    <3> QED BY <1>4, <2>1, <2>2, <3>1
  <2>3. CASE i # 0
    <3>1. i \in 1..(RowLen - 1)
      BY <1>0, <2>3
    <3> QED BY <1>3, <2>1, <2>3, <3>1
  <2> QED BY <2>2, <2>3
<1> QED BY <1>4, <1>5 DEF Row

(* Every line: the input goes to the line whose turn it is, and the phase   *)
(* moves on to the next.                                                    *)
LEMMA TakeKeepsLines ==
  ASSUME TypeOK, Dealt(lines, fed, dphase), ~IsDecimator => dphase = 0, TakeOne, ConsumeOne
  PROVE  /\ lines' \in [Lines -> Seq(Int)]
         /\ \A s \in Lines : Len(lines'[s]) \in RowLen..HistCap
         /\ dphase' \in 0..(M - 1) /\ (~IsDecimator => dphase' = 0)
         /\ Dealt(lines', fed', dphase')
<1> DEFINE sub == IF IsDecimator THEN dphase ELSE 0
<1> DEFINE h == [i \in 0..(RowLen - 1) |-> NewestOf(sub, fed, dphase) - i * LineStep]
<1>0. /\ L \in Nat \ {0} /\ M \in Nat \ {0} /\ RowLen \in Nat \ {0} /\ LineStep \in Nat \ {0}
      /\ HistCap \in Nat
  BY StageSizes
<1>1. /\ lines \in [Lines -> Seq(Int)] /\ \A s \in Lines : Len(lines[s]) \in RowLen..HistCap
      /\ fed \in Nat /\ dphase \in 0..(M - 1)
  BY DEF TypeOK
<1>2. sub \in Lines /\ Lines \subseteq Nat
  BY <1>1, StageSizes
<1>3. fed' = fed + 1 /\ lines' = [lines EXCEPT ![sub] = Append(Compacted(@), fed + 1)]
  BY DEF TakeOne
<1>4. /\ dphase' \in 0..(M - 1)
      /\ ~IsDecimator => dphase' = 0
      /\ IsDecimator => dphase' = IF dphase + 1 = M THEN 0 ELSE dphase + 1
  BY <1>0, <1>1 DEF ConsumeOne
<1> DEFINE line == lines[sub]
<1> DEFINE new == Append(Compacted(line), fed + 1)
<1>5. /\ new \in Seq(Int) /\ Len(new) \in RowLen..HistCap /\ new[Len(new)] = fed + 1
      /\ \A i \in 1..(RowLen - 1) : new[Len(new) - i] = h[i - 1]
  <2>1. Row(line, h)
    <3>1. line \in Seq(Int) /\ Len(line) \in RowLen..HistCap
      BY <1>1, <1>2
    <3>2. \A i \in 0..(RowLen - 1) : line[Len(line) - i] = h[i]
      BY <1>2 DEF Dealt
    <3> HIDE DEF h, sub, line
    <3> QED BY <3>1, <3>2 DEF Row
  <2> HIDE DEF h, sub, line
  <2>2. fed + 1 \in Int
    BY <1>1
  <2>3. Row(new, Pushed(h, fed + 1))
    BY <2>1, <2>2, AppendKeepsRow
  <2>4. \A i \in 0..(RowLen - 1) : Pushed(h, fed + 1)[i] = IF i = 0 THEN fed + 1 ELSE h[i - 1]
    BY DEF Pushed
  <2>5. /\ new \in Seq(Int) /\ Len(new) \in RowLen..HistCap
        /\ \A i \in 0..(RowLen - 1) : new[Len(new) - i] = Pushed(h, fed + 1)[i]
    BY <2>3 DEF Row
  <2> HIDE DEF new
  <2>6. new[Len(new)] = fed + 1
    <3>1. Len(new) - 0 = Len(new) /\ 0 \in 0..(RowLen - 1)
      BY <1>0, <2>5
    <3> QED BY <2>4, <2>5, <3>1
  <2>7. ASSUME NEW i \in 1..(RowLen - 1) PROVE new[Len(new) - i] = h[i - 1]
    <3>1. i \in 0..(RowLen - 1) /\ i # 0
      BY <1>0
    <3> QED BY <2>4, <2>5, <3>1
  <2> QED BY <2>5, <2>6, <2>7
<1>6. lines' \in [Lines -> Seq(Int)] /\ lines'[sub] = new /\ \A s \in Lines \ {sub} : lines'[s] = lines[s]
  <2> HIDE DEF new, sub
  <2>1. lines' = [lines EXCEPT ![sub] = new]
    BY <1>3 DEF new, line
  <2> QED BY <1>1, <1>2, <1>5, <2>1
<1>7. \A s \in Lines : Len(lines'[s]) \in RowLen..HistCap
  BY <1>1, <1>5, <1>6
<1>8. NewestOf(sub, fed', dphase') = fed + 1 /\ NewestOf(sub, fed, dphase) = fed + 1 - LineStep
  <2>1. CASE IsDecimator
    <3>1. LineStep = M /\ sub = dphase
      BY <2>1, StageSizes
    <3>2. dphase' = IF dphase + 1 = M THEN 0 ELSE dphase + 1
      BY <1>4, <2>1
    <3> HIDE DEF sub
    <3> QED BY <1>0, <1>1, <1>3, <3>1, <3>2 DEF NewestOf
  <2>2. CASE ~IsDecimator
    <3>1. LineStep = 1 /\ sub = 0 /\ dphase = 0 /\ dphase' = 0
      BY <1>4, <2>2, StageSizes
    <3> HIDE DEF sub
    <3> QED BY <1>0, <1>1, <1>3, <3>1 DEF NewestOf
  <2> QED BY <2>1, <2>2
<1>9. ASSUME NEW s \in Lines \ {sub} PROVE NewestOf(s, fed', dphase') = NewestOf(s, fed, dphase)
  <2>1. IsDecimator /\ LineStep = M /\ s \in 0..(M - 1) /\ s # dphase
    BY StageSizes
  <2>2. dphase' = IF dphase + 1 = M THEN 0 ELSE dphase + 1
    BY <1>4, <2>1
  <2> QED BY <1>0, <1>1, <1>3, <2>1, <2>2 DEF NewestOf
<1>10. ASSUME NEW s \in Lines, NEW i \in 0..(RowLen - 1)
       PROVE  lines'[s][Len(lines'[s]) - i] = NewestOf(s, fed', dphase') - i * LineStep
  <2>1. CASE s # sub
    <3>1. lines[s][Len(lines[s]) - i] = NewestOf(s, fed, dphase) - i * LineStep
      BY DEF Dealt
    <3> QED BY <1>6, <1>9, <2>1, <3>1
  <2>2. CASE s = sub /\ i = 0
    <3>1. Len(new) - i = Len(new) /\ i * LineStep = 0
      BY <1>0, <1>5, <2>2
    <3> HIDE DEF new, sub
    <3> QED BY <1>1, <1>5, <1>6, <1>8, <2>2, <3>1
  <2>3. CASE s = sub /\ i # 0
    <3>1. i \in 1..(RowLen - 1) /\ i - 1 \in 0..(RowLen - 1)
      BY <1>0, <2>3
    <3>2. lines'[s][Len(lines'[s]) - i] = h[i - 1]
      BY <1>5, <1>6, <2>3, <3>1
    <3>3. h[i - 1] = (fed + 1 - LineStep) - (i - 1) * LineStep
      BY <1>8, <3>1
    <3>4. (i - 1) * LineStep = i * LineStep - LineStep /\ i * LineStep \in Int
      BY <1>0
    <3> HIDE DEF h, sub
    <3>5. h[i - 1] = fed + 1 - i * LineStep
      BY <1>0, <1>1, <3>3, <3>4
    <3>6. NewestOf(s, fed', dphase') = fed + 1
      BY <1>8, <2>3
    <3> DEFINE x == lines'[s][Len(lines'[s]) - i]
    <3>7. x = fed + 1 - i * LineStep
      BY <3>2, <3>5
    <3> HIDE DEF x
    <3> DEFINE m == NewestOf(s, fed', dphase')
    <3>8. m = fed + 1
      BY <3>6
    <3> HIDE DEF m
    <3>9. x = m - i * LineStep
      BY <3>4, <3>7, <3>8, <1>0, <1>1
    <3> QED BY <3>9 DEF x, m
  <2> QED BY <2>1, <2>2, <2>3
<1> QED BY <1>4, <1>6, <1>7, <1>10 DEF Dealt

-----------------------------------------------------------------------------
(* The sizing companions of both machines are the schedule's.               *)
LEMMA DecimatorPhase ==
  ASSUME NEW d \in 0..(M - 1)
  PROVE  1 + ((M - d) % M) = IF d = 0 THEN 1 ELSE 1 + M - d
<1> DEFINE a == M - d
<1>0. M \in Nat \ {0} /\ a \in Int
  BY StageSizes
<1>1. CASE d = 0
  <2>1. a = M * 1 + 0 /\ 0 \in 0..(M - 1)
    BY <1>0, <1>1
  <2> HIDE DEF a
  <2>2. a % M = 0
    BY <1>0, <2>1, DivUnique
  <2> QED BY <1>1, <2>2 DEF a
<1>2. CASE d # 0
  <2>1. a = M * 0 + a /\ a \in 0..(M - 1)
    BY <1>0, <1>2
  <2> HIDE DEF a
  <2>2. a % M = a
    BY <1>0, <2>1, DivUnique
  <2> QED BY <1>0, <1>2, <2>2 DEF a
<1> QED BY <1>1, <1>2

(* A decimator's schedule: every M-th input completes an output.            *)
LEMMA DecimatorSchedule ==
  ASSUME IsDecimator
  PROVE  /\ L = 1 /\ \A n \in Nat : Due(n) = n * M /\ n % L = 0
         /\ Positions = {0} /\ Advance(0) = M /\ NextPos(0) = 0
<1>0. L = 1 /\ M \in Nat \ {0}
  BY StageSizes DEF IsDecimator
<1>1. ASSUME NEW n \in Nat PROVE Due(n) = n * M /\ n % L = 0
  <2> DEFINE a == n * M
  <2>1. a \in Int /\ a = 1 * a + 0 /\ 0 \in 0..(1 - 1) /\ n = 1 * n + 0
    BY <1>0
  <2> HIDE DEF a
  <2>2. a \div 1 = a /\ n % 1 = 0
    BY <2>1, DivUnique
  <2> QED BY <1>0, <2>2 DEF Due, a
<1>2. Due(0) = 0 /\ Due(1) = M
  <2>1. Due(0) = 0 * M /\ Due(1) = 1 * M
    BY <1>1
  <2> QED BY <1>0, <2>1
<1>3. Advance(0) = M
  <2>1. 0 + 1 = 1
    OBVIOUS
  <2> QED BY <1>0, <1>2, <2>1 DEF Advance
<1> QED BY <1>0, <1>1, <1>3 DEF Positions, NextPos

LEMMA DecimatorSizing ==
  ASSUME IsDecimator, NEW p \in Nat, NEW n \in Nat
  PROVE  /\ OutputsFor(0, p, n) = IF n < p THEN 0 ELSE 1 + (n - p) \div M
         /\ FramesNeeded(0, p, n) = IF n = 0 THEN 0 ELSE p + (n - 1) * M
<1>0. M \in Nat \ {0} /\ L = 1 /\ Due(0) = 0
  <2>1. Due(0) = 0 * M
    BY DecimatorSchedule
  <2> QED BY <2>1, StageSizes, DecimatorSchedule
<1>1. OutputsFor(0, p, n) = IF n < p THEN 0 ELSE 1 + (n - p) \div M
  <2>1. L * (Due(0) + n - p + 1) - 1 = n - p
    BY <1>0
  <2>2. n >= p => (n - p) \div M \in Int
    BY <1>0, DivParts
  <2> QED BY <1>0, <2>1, <2>2 DEF OutputsFor
<1>2. CASE n # 0
  <2>1. n - 1 \in Nat /\ 0 + (n - 1) = n - 1
    BY <1>2
  <2>2. Due(n - 1) = (n - 1) * M /\ (n - 1) * M \in Int
    BY <1>0, <2>1, DecimatorSchedule
  <2> QED BY <1>0, <1>1, <1>2, <2>1, <2>2 DEF FramesNeeded, InputsBetween
<1>3. CASE n = 0
  BY <1>1, <1>3 DEF FramesNeeded
<1> QED BY <1>2, <1>3

(* What a machine's state may be, and the state of a decimator.             *)
MachineOK ==
  /\ pos \in Positions /\ pending \in Nat /\ dphase \in 0..(M - 1)
  /\ ~IsDecimator => dphase = 0

LEMMA PendingIsNat ==
  ASSUME MachineOK
  PROVE  PendingInputs \in Nat /\ (IsDecimator => PendingInputs \in 1..M)
<1>1. CASE IsDecimator
  BY <1>1, StageSizes, DecimatorPhase DEF MachineOK, PendingInputs
<1>2. CASE ~IsDecimator
  BY <1>2 DEF MachineOK, PendingInputs
<1> QED BY <1>1, <1>2

LEMMA SizingIsSchedule ==
  ASSUME MachineOK, NEW n \in Nat
  PROVE  /\ StageOutputsFor(n) = OutputsFor(pos, PendingInputs, n)
         /\ StageFramesNeeded(n) = FramesNeeded(pos, PendingInputs, n)
<1> DEFINE p == PendingInputs
<1>1. CASE ~IsDecimator
  BY <1>1 DEF StageOutputsFor, StageFramesNeeded, ScheduleFramesNeeded, FramesNeeded, PendingInputs
<1>2. CASE IsDecimator
  <2>1. p \in Nat /\ pos = 0
    BY <1>2, PendingIsNat, DecimatorSchedule DEF MachineOK
  <2>2. StageOutputsFor(n) = IF n < p THEN 0 ELSE 1 + (n - p) \div M
    BY <1>2 DEF StageOutputsFor
  <2>3. StageFramesNeeded(n) = IF n = 0 THEN 0 ELSE p + (n - 1) * M
    BY <1>2 DEF StageFramesNeeded
  <2> HIDE DEF p
  <2> QED BY <1>2, <2>1, <2>2, <2>3, DecimatorSizing DEF p
<1> QED BY <1>1, <1>2

(* The same after a step.                                                   *)
LEMMA SizingAfter ==
  ASSUME MachineOK', left' \in Nat
  PROVE  /\ PendingInputs' \in Nat /\ (IsDecimator => PendingInputs' \in 1..M)
         /\ StageOutputsFor(left)' = OutputsFor(pos', PendingInputs', left')
<1> DEFINE p == PendingInputs'
<1>1. CASE ~IsDecimator
  BY <1>1 DEF StageOutputsFor, PendingInputs, MachineOK
<1>2. CASE IsDecimator
  <2>0. p \in Nat /\ p \in 1..M
    <3> DEFINE d == dphase'
    <3>1. d \in 0..(M - 1) /\ p = 1 + ((M - d) % M) /\ M \in Nat \ {0}
      BY <1>2, StageSizes DEF MachineOK, PendingInputs
    <3> HIDE DEF d, p
    <3>2. p = IF d = 0 THEN 1 ELSE 1 + M - d
      BY <3>1, DecimatorPhase
    <3> QED BY <3>1, <3>2
  <2>1. pos' = 0
    BY <1>2, DecimatorSchedule DEF MachineOK
  <2>2. StageOutputsFor(left)' = IF left' < p THEN 0 ELSE 1 + (left' - p) \div M
    BY <1>2 DEF StageOutputsFor
  <2> HIDE DEF p
  <2>3. OutputsFor(0, p, left') = IF left' < p THEN 0 ELSE 1 + (left' - p) \div M
    BY <1>2, <2>0, DecimatorSizing
  <2> QED BY <1>2, <2>0, <2>1, <2>2, <2>3 DEF p
<1> QED BY <1>1, <1>2

-----------------------------------------------------------------------------
(* The decimation phase once input n M + 1 is in.                           *)
PhaseAfter == IF IsDecimator /\ M # 1 THEN 1 ELSE 0

(* Tap t of row r, when output n is due, is the input that coefficient      *)
(* r + t Stride weighs in the convolution.                                  *)
LEMMA TapIsInput ==
  ASSUME NEW ls, NEW n \in Nat, pos = n % L, Dealt(ls, Due(n) + 1, PhaseAfter),
         NEW r \in Rows, NEW t \in 0..(RowLen - 1)
  PROVE  /\ (n * M - (r + t * Stride)) % L = 0
         /\ ls[LineOf(r)][Len(ls[LineOf(r)]) - t] = (n * M - (r + t * Stride)) \div L + 1
<1> DEFINE a == n * M
<1> DEFINE e == t * Stride
<1> DEFINE k == r + e
<1> DEFINE x == ls[LineOf(r)][Len(ls[LineOf(r)]) - t]
<1>0. L \in Nat \ {0} /\ M \in Nat \ {0} /\ Stride \in Nat \ {0} /\ a \in Nat /\ e \in Nat
  BY StageSizes
<1>1. CASE IsDecimator
  <2>0. L = 1 /\ Due(n) = a /\ LineStep = M /\ Stride = M /\ Lines = 0..(M - 1)
    BY <1>1, DecimatorSchedule, StageSizes DEF IsDecimator, Stride
  <2>1. r \in 0..(M - 1)
    BY <1>1 DEF Rows
  <2> DEFINE s == LineOf(r)
  <2>2. s = IF r = 0 THEN 0 ELSE M - r
    <3> DEFINE y == M - r
    <3>1. y \in Int /\ s = y % M
      BY <1>0, <1>1, <2>1 DEF LineOf
    <3>2. CASE r = 0
      <4>1. y = M * 1 + 0 /\ 0 \in 0..(M - 1)
        BY <1>0, <3>2
      <4> HIDE DEF y, s
      <4> QED BY <1>0, <3>1, <3>2, <4>1, DivUnique
    <3>3. CASE r # 0
      <4>1. y = M * 0 + y /\ y \in 0..(M - 1)
        BY <1>0, <2>1, <3>3
      <4> HIDE DEF y, s
      <4>2. y % M = y
        BY <1>0, <3>1, <4>1, DivUnique
      <4> QED BY <3>1, <3>3, <4>2 DEF y
    <3> QED BY <3>2, <3>3
  <2> HIDE DEF s
  <2>3. s \in Lines
    BY <1>0, <2>0, <2>1, <2>2
  <2>4. x = NewestOf(s, Due(n) + 1, PhaseAfter) - t * LineStep
    BY <2>3 DEF Dealt, s
  <2> HIDE DEF a, x
  <2>5. NewestOf(s, Due(n) + 1, PhaseAfter) = a - r + 1
    BY <1>0, <1>1, <2>0, <2>1, <2>2 DEF NewestOf, PhaseAfter
  <2>6. t * LineStep = e
    BY <2>0
  <2> HIDE DEF e
  <2> DEFINE y == a - (r + e)
  <2>7. y \in Int /\ x = y + 1
    BY <1>0, <2>1, <2>4, <2>5, <2>6
  <2>8. y = 1 * y + 0 /\ 0 \in 0..(1 - 1)
    BY <2>7
  <2> HIDE DEF y
  <2>9. y % L = 0 /\ y \div L = y
    BY <2>0, <2>7, <2>8, DivUnique
  <2> QED BY <2>7, <2>9 DEF y, a, e, x
<1>2. CASE ~IsDecimator
  <2> DEFINE d == Due(n)
  <2>0. Stride = L /\ LineStep = 1 /\ Lines = {0} /\ LineOf(r) = 0 /\ PhaseAfter = 0
    BY <1>2, StageSizes DEF Stride, LineOf, PhaseAfter
  <2>1. r = a % L
    <3>1. r = (pos * M) % L
      BY <1>2 DEF Rows
    <3>2. (n % L) * M % L = (n * M) % L
      BY PhaseOfPosition DEF PhaseOf
    <3> QED BY <3>1, <3>2
  <2>2. a = L * d + r /\ d \in Int /\ r \in 0..(L - 1)
    <3> HIDE DEF a
    <3>1. a = L * (a \div L) + (a % L) /\ a \div L \in Int /\ a % L \in 0..(L - 1)
      BY <1>0, DivParts
    <3> QED BY <2>1, <3>1 DEF Due, a
  <2>3. x = NewestOf(0, d + 1, 0) - t * LineStep
    BY <2>0 DEF Dealt
  <2> HIDE DEF x, d
  <2>4. x = d + 1 - t
    BY <2>0, <2>2, <2>3 DEF NewestOf
  <2> DEFINE y == a - (r + e)
  <2>5. y = L * (d - t) + 0 /\ y \in Int /\ 0 \in 0..(L - 1) /\ d - t \in Int
    <3>1. e = L * t /\ L * (d - t) = L * d - L * t /\ L * d \in Int /\ L * t \in Int
      BY <1>0, <2>0, <2>2
    <3> HIDE DEF a, e
    <3> QED BY <1>0, <2>2, <3>1
  <2> HIDE DEF y
  <2> DEFINE q == d - t
  <2> HIDE DEF q
  <2>a. y = L * q + 0 /\ q \in Int
    BY <2>5 DEF q
  <2>6. y % L = 0 /\ y \div L = q
    BY <1>0, <2>5, <2>a, DivUnique
  <2>7. x = q + 1
    BY <2>2, <2>4 DEF q
  <2> QED BY <2>6, <2>7 DEF y, a, e, x
<1> QED BY <1>1, <1>2

(* And every coefficient the convolution weighs an input with is one of     *)
(* the row's taps.                                                          *)
LEMMA CoefficientIsTap ==
  ASSUME NEW n \in Nat, pos = n % L,
         NEW k \in 0..(FilterTaps - 1), (n * M - k) % L = 0
  PROVE  \E r \in Rows, t \in 0..(RowLen - 1) : k = r + t * Stride
<1>0. /\ L \in Nat \ {0} /\ M \in Nat \ {0} /\ Stride \in Nat \ {0} /\ FilterTaps \in Nat
      /\ RowLen \in Nat \ {0} /\ FilterTaps <= Stride * RowLen
  BY StageSizes
<1> DEFINE t == k \div Stride
<1> DEFINE r == k % Stride
<1>1. k = Stride * t + r /\ t \in Int /\ r \in 0..(Stride - 1)
  BY <1>0, DivParts
<1> HIDE DEF t, r
<1>2. t \in 0..(RowLen - 1)
  <2>1. t >= 0
    <3> SUFFICES ASSUME t <= -1 PROVE FALSE
      BY <1>1
    <3> DEFINE z == Stride * t
    <3>1. z <= -Stride /\ z \in Int
      BY <1>0, <1>1
    <3> HIDE DEF z
    <3>2. k = z + r
      BY <1>1 DEF z
    <3> QED BY <1>0, <1>1, <3>1, <3>2
  <2>2. t < RowLen
    <3> SUFFICES ASSUME t >= RowLen PROVE FALSE
      BY <1>0, <1>1
    <3> DEFINE z == Stride * t
    <3> DEFINE w == Stride * RowLen
    <3>1. z >= w /\ z \in Int /\ w \in Int
      BY <1>0, <1>1
    <3>2. FilterTaps <= w /\ k = z + r
      BY <1>0, <1>1
    <3> HIDE DEF z, w
    <3> QED BY <1>0, <1>1, <3>1, <3>2
  <2> QED BY <1>0, <1>1, <2>1, <2>2
<1>3. r \in Rows
  <2>1. CASE IsDecimator
    BY <1>1, <2>1 DEF Rows, Stride
  <2>2. CASE ~IsDecimator
    <3> DEFINE a == n * M
    <3> DEFINE c == a - k
    <3> DEFINE q == c \div L
    <3>0. a \in Nat /\ Stride = L
      BY <1>0, <2>2 DEF Stride
    <3>1. c = L * q + (c % L) /\ q \in Int /\ c % L = 0
      <4>1. c \in Int
        BY <1>0, <3>0
      <4> HIDE DEF c
      <4>2. c = L * q + (c % L) /\ q \in Int
        BY <1>0, <4>1, DivParts
      <4> QED BY <4>2 DEF c
    <3> HIDE DEF q
    <3> DEFINE u == q + t
    <3>2. a = L * u + r /\ u \in Int /\ r \in 0..(L - 1)
      <4>1. L * u = L * q + L * t /\ L * q \in Int /\ L * t \in Int /\ u \in Int
        BY <1>0, <1>1, <3>1
      <4>2. c = L * q + 0 /\ k = L * t + r
        BY <1>1, <3>0, <3>1
      <4> HIDE DEF a, u
      <4> QED BY <1>1, <3>0, <4>1, <4>2
    <3> HIDE DEF a, u
    <3>3. a % L = r
      BY <1>0, <3>0, <3>2, DivUnique
    <3>4. (n % L) * M % L = a % L
      BY PhaseOfPosition DEF PhaseOf, a
    <3> QED BY <2>2, <3>3, <3>4 DEF Rows
  <2> QED BY <2>1, <2>2
<1>4. k = r + t * Stride
  <2>1. t * Stride = Stride * t /\ Stride * t \in Int
    BY <1>0, <1>1
  <2> QED BY <1>1, <2>1
<1> QED BY <1>2, <1>3, <1>4

(* emit() on the lines as they are when output n is due computes the        *)
(* textbook sum.                                                            *)
LEMMA OutputConvolves ==
  ASSUME NEW ls, NEW n \in Nat, pos = n % L, Dealt(ls, Due(n) + 1, PhaseAfter)
  PROVE  Products(ls) =
           {<<(n * M - k) \div L + 1, k>> :
              k \in {j \in 0..(FilterTaps - 1) : (n * M - j) % L = 0}}
<1> DEFINE W == {j \in 0..(FilterTaps - 1) : (n * M - j) % L = 0}
<1> DEFINE C == {<<(n * M - k) \div L + 1, k>> : k \in W}
<1>0. /\ Stride \in Nat \ {0} /\ RowLen \in Nat \ {0} /\ FilterTaps \in Nat /\ Rows \subseteq Nat
  <2>1. Rows \subseteq Nat
    <3>1. CASE IsDecimator
      BY <3>1, StageSizes DEF Rows
    <3>2. CASE ~IsDecimator
      <4>1. (n % L) * M % L \in 0..(L - 1)
        BY PhaseOfPosition DEF PhaseOf
      <4> QED BY <3>2, <4>1 DEF Rows
    <3> QED BY <3>1, <3>2
  <2> QED BY <2>1, StageSizes
<1>1. ASSUME NEW rt \in Coefficients
      PROVE  LET line == ls[LineOf(rt[1])]
             IN <<line[Len(line) - rt[2]], rt[1] + rt[2] * Stride>> \in C
  <2>1. PICK r \in Rows, t \in 0..(RowLen - 1) : rt = <<r, t>> /\ r + t * Stride < FilterTaps
    BY DEF Coefficients
  <2> DEFINE k == r + t * Stride
  <2>2. k \in 0..(FilterTaps - 1)
    <3>1. t * Stride \in Nat /\ r \in Nat
      BY <1>0
    <3> QED BY <1>0, <2>1, <3>1
  <2>3. (n * M - k) % L = 0 /\ ls[LineOf(r)][Len(ls[LineOf(r)]) - t] = (n * M - k) \div L + 1
    BY TapIsInput
  <2> HIDE DEF k
  <2>4. <<(n * M - k) \div L + 1, k>> \in C
    BY <2>2, <2>3
  <2> QED BY <2>1, <2>3, <2>4 DEF k
<1>2. ASSUME NEW k \in W
      PROVE  <<(n * M - k) \div L + 1, k>> \in Products(ls)
  <2>1. PICK r \in Rows, t \in 0..(RowLen - 1) : k = r + t * Stride
    BY CoefficientIsTap
  <2>2. ls[LineOf(r)][Len(ls[LineOf(r)]) - t] = (n * M - k) \div L + 1
    BY <2>1, TapIsInput
  <2> DEFINE rt == <<r, t>>
  <2>3. rt \in Coefficients
    BY <1>0, <2>1 DEF Coefficients
  <2>4. <<ls[LineOf(rt[1])][Len(ls[LineOf(rt[1])]) - rt[2]], rt[1] + rt[2] * Stride>> \in Products(ls)
    <3> HIDE DEF rt
    <3> QED BY <2>3 DEF Products
  <2> QED BY <2>1, <2>2, <2>4
<1>3. \A y \in Products(ls) : y \in C
  <2> HIDE DEF C
  <2> QED BY <1>1 DEF Products
<1>4. \A y \in C : y \in Products(ls)
  BY <1>2
<1> QED BY <1>3, <1>4

-----------------------------------------------------------------------------
(* What the steps of every call are made of: one input appended, one output *)
(* made.                                                                    *)
LEMMA InvParts ==
  ASSUME StageInv
  PROVE  /\ MachineOK /\ fed \in Nat /\ made \in Nat /\ left \in Nat /\ todo \in Nat
         /\ need \in Nat /\ promise \in Nat /\ pos \in Nat
         /\ Due(made) \in Nat /\ PendingInputs \in Nat
         /\ fed + Short = Due(made) + 1
BY DueIsFloor, PendingIsNat, StageSizes
   DEF StageInv, TypeOK, OnSchedule, MachineOK, Positions

(* A decimator counts modulo M without dividing.                            *)
LEMMA PhaseStep ==
  ASSUME NEW f \in Nat, NEW d \in 0..(M - 1), d = f % M
  PROVE  /\ (f + 1) % M = IF d + 1 = M THEN 0 ELSE d + 1
         /\ (IF d + 1 = M THEN 0 ELSE d + 1) \in 0..(M - 1)
<1> DEFINE q == f \div M
<1>0. M \in Nat \ {0}
  BY StageSizes
<1>1. f = M * q + d /\ q \in Int
  BY <1>0, DivParts
<1> HIDE DEF q
<1> DEFINE g == f + 1
<1>2. CASE d + 1 = M
  <2> DEFINE u == q + 1
  <2>1. g = M * u + 0 /\ u \in Int /\ g \in Int /\ 0 \in 0..(M - 1)
    <3> DEFINE x == M * q
    <3>1. M * u = x + M /\ x \in Int
      BY <1>0, <1>1
    <3>2. f = x + d /\ u \in Int
      BY <1>1
    <3> HIDE DEF u, x
    <3>3. g = x + M /\ g \in Int /\ 0 \in 0..(M - 1)
      BY <1>0, <1>2, <3>1, <3>2
    <3>4. M * u + 0 = x + M
      BY <1>0, <3>1
    <3> QED BY <3>2, <3>3, <3>4
  <2> HIDE DEF g, u
  <2>2. g % M = 0
    BY <1>0, <2>1, DivUnique
  <2> QED BY <1>0, <1>2, <2>2 DEF g
<1>3. CASE d + 1 # M
  <2> DEFINE e == d + 1
  <2>1. g = M * q + e /\ g \in Int /\ e \in 0..(M - 1)
    BY <1>0, <1>1, <1>3
  <2> HIDE DEF g, e
  <2>2. g % M = e
    BY <1>0, <1>1, <2>1, DivUnique
  <2> QED BY <1>0, <1>3, <2>1, <2>2 DEF g, e
<1> QED BY <1>2, <1>3

(* An input taken: the lines and the phase move on together, and the next   *)
(* output is one input nearer, or, a decimator's at phase 0, due.           *)
LEMMA InputTaken ==
  ASSUME StageInv, left # 0, IsDecimator \/ pending # 0, TakeOne, ConsumeOne
  PROVE  /\ lines' \in [Lines -> Seq(Int)]
         /\ \A s \in Lines : Len(lines'[s]) \in RowLen..HistCap
         /\ Dealt(lines', fed', dphase')
         /\ MachineOK' /\ pos' = pos /\ (IsDecimator => pending' = pending)
         /\ fed' = fed + 1 /\ left' = left - 1 /\ left' \in Nat
         /\ dphase' = (IF IsDecimator THEN fed' % M ELSE 0)
         /\ PendingInputs # 0
         /\ PendingInputs' = IF IsDecimator /\ dphase = 0 THEN M ELSE PendingInputs - 1
         /\ IsDecimator => (dphase = 0 <=> PendingInputs = 1)
         /\ IsDecimator /\ dphase = 0 => dphase' = PhaseAfter
<1>0. M \in Nat \ {0}
  BY StageSizes
<1>1. MachineOK /\ fed \in Nat /\ left \in Nat /\ TypeOK /\ OnSchedule /\ Dealt(lines, fed, dphase)
  BY InvParts DEF StageInv
<1>2. fed' = fed + 1 /\ left' = left - 1 /\ left' \in Nat
  BY <1>1 DEF TakeOne
<1>3. /\ lines' \in [Lines -> Seq(Int)] /\ \A s \in Lines : Len(lines'[s]) \in RowLen..HistCap
      /\ dphase' \in 0..(M - 1) /\ (~IsDecimator => dphase' = 0) /\ Dealt(lines', fed', dphase')
  BY <1>1, TakeKeepsLines DEF MachineOK
<1>4. CASE IsDecimator
  <2>1. /\ dphase \in 0..(M - 1) /\ dphase = fed % M
        /\ dphase' = (IF dphase + 1 = M THEN 0 ELSE dphase + 1) /\ pos' = pos /\ pending' = pending
    BY <1>1, <1>4 DEF MachineOK, OnSchedule, ConsumeOne
  <2>2. dphase' = fed' % M
    BY <1>1, <1>2, <2>1, PhaseStep
  <2>3. PendingInputs = IF dphase = 0 THEN 1 ELSE 1 + M - dphase
    BY <1>4, <2>1, DecimatorPhase DEF PendingInputs
  <2>4. PendingInputs' = IF dphase' = 0 THEN 1 ELSE 1 + M - dphase'
    <3> DEFINE d == dphase'
    <3> DEFINE x == PendingInputs'
    <3>1. x = 1 + ((M - d) % M) /\ d \in 0..(M - 1)
      BY <1>3, <1>4 DEF PendingInputs
    <3> HIDE DEF d, x
    <3> QED BY <3>1, DecimatorPhase DEF d, x
  <2>5. PendingInputs' = IF dphase = 0 THEN M ELSE PendingInputs - 1
    BY <1>0, <2>1, <2>3, <2>4
  <2>6. PendingInputs # 0 /\ (dphase = 0 <=> PendingInputs = 1)
    BY <1>0, <2>1, <2>3
  <2>7. dphase = 0 => dphase' = PhaseAfter
    BY <1>0, <1>4, <2>1 DEF PhaseAfter
  <2> QED BY <1>1, <1>2, <1>3, <1>4, <2>1, <2>2, <2>5, <2>6, <2>7 DEF MachineOK
<1>5. CASE ~IsDecimator
  <2>1. pending' = pending - 1 /\ pos' = pos /\ pending \in Nat \ {0}
    BY <1>1, <1>5 DEF ConsumeOne, MachineOK
  <2> QED BY <1>1, <1>2, <1>3, <1>5, <2>1 DEF MachineOK, PendingInputs
<1> QED BY <1>4, <1>5

(* The output the schedule is at, made from the lines as the step leaves    *)
(* them.                                                                    *)
LEMMA OutputSounds ==
  ASSUME made \in Nat, pos = made % L, Dealt(lines', Due(made) + 1, PhaseAfter), Sound
  PROVE  IsConvolution' /\ heard' \subseteq Int \X Nat /\ made' = made + 1
<1> DEFINE t == made * M
<1> DEFINE C == {<<(t - k) \div L + 1, k>> : k \in {j \in 0..(FilterTaps - 1) : (t - j) % L = 0}}
<1>0. L \in Nat \ {0} /\ M \in Nat \ {0} /\ FilterTaps \in Nat /\ t \in Nat
  BY StageSizes
<1>1. made' = made + 1 /\ heard' = Products(lines')
  BY DEF Sound
<1>2. heard' = C
  BY <1>1, OutputConvolves
<1>3. C \subseteq Int \X Nat
  <2> HIDE DEF t
  <2>1. ASSUME NEW k \in 0..(FilterTaps - 1) PROVE (t - k) \div L + 1 \in Int /\ k \in Nat
    <3> DEFINE y == t - k
    <3>1. y \in Int
      BY <1>0
    <3> HIDE DEF y
    <3>2. y \div L \in Int
      BY <1>0, <3>1, DivParts
    <3> QED BY <1>0, <3>2 DEF y
  <2> QED BY <2>1
<1>4. made' - 1 = made
  BY <1>1
<1>5. IsConvolution'
  <2> HIDE DEF C
  <2>1. (made' - 1) * M = t
    BY <1>4
  <2> HIDE DEF t
  <2> QED BY <1>2, <2>1 DEF IsConvolution, C
<1> QED BY <1>1, <1>2, <1>3, <1>5

(* emit() when no input is pending: the schedule moves on by one output.    *)
LEMMA OutputEmitted ==
  ASSUME StageInv, fed = Due(made) + 1, IsDecimator \/ pending = 0, Emit, fed' = fed
  PROVE  /\ lines' = lines /\ dphase' = dphase /\ made' = made + 1
         /\ IsConvolution' /\ heard' \subseteq Int \X Nat /\ MachineOK'
         /\ pos' = NextPos(pos) /\ pos' = made' % L
         /\ IsDecimator => pending' = pending
         /\ PendingInputs' = Advance(pos)
         /\ fed' + PendingInputs' = Due(made') + 1 /\ Due(made' - 1) < fed'
<1>0. /\ M \in Nat \ {0} /\ MachineOK /\ made \in Nat /\ fed \in Nat /\ Due(made) \in Nat /\ pos = made % L
      /\ pos \in Positions /\ Dealt(lines, fed, dphase)
      /\ dphase = (IF IsDecimator THEN fed % M ELSE 0)
  BY InvParts, StageSizes DEF StageInv, MachineOK, OnSchedule
<1>1. lines' = lines /\ dphase' = dphase /\ Sound
  BY DEF Emit
<1>2. dphase = PhaseAfter
  <2>1. CASE ~IsDecimator
    BY <1>0, <2>1 DEF PhaseAfter
  <2>2. CASE IsDecimator
    <3>1. fed = made * M + 1
      BY <1>0, <2>2, DecimatorSchedule
    <3> DEFINE a == made * M
    <3>2. a \in Nat /\ a = M * made + 0 /\ 0 \in 0..(M - 1)
      BY <1>0
    <3> HIDE DEF a
    <3>3. a % M = 0
      <4>1. M \in Nat \ {0} /\ made \in Int /\ a \in Int
        BY <1>0, <3>2
      <4> QED BY <3>2, <4>1, DivUnique
    <3>4. (a + 1) % M = IF 0 + 1 = M THEN 0 ELSE 0 + 1
      BY <1>0, <3>2, <3>3, PhaseStep
    <3>5. fed % M = (a + 1) % M
      BY <3>1 DEF a
    <3> QED BY <1>0, <2>2, <3>4, <3>5 DEF PhaseAfter
  <2> QED BY <2>1, <2>2
<1>3. IsConvolution' /\ heard' \subseteq Int \X Nat /\ made' = made + 1
  BY <1>0, <1>1, <1>2, OutputSounds
<1>4. Due(made + 1) = Due(made) + Advance(pos) /\ NextPos(pos) = (made + 1) % L /\ Advance(pos) \in Nat
  BY <1>0, NextOutput, NextPosition, AdvanceIsNat
<1>5. pos' = NextPos(pos) /\ MachineOK' /\ PendingInputs' = Advance(pos) /\ (IsDecimator => pending' = pending)
  <2>1. CASE IsDecimator
    <3>1. pos = 0 /\ NextPos(pos) = 0 /\ Advance(pos) = M
      BY <1>0, <2>1, DecimatorSchedule
    <3>2. pos' = pos /\ pending' = pending
      BY <2>1 DEF Emit
    <3>3. dphase' \in 0..(M - 1) /\ PendingInputs' = 1 + ((M - dphase') % M)
      BY <1>0, <1>1, <2>1 DEF MachineOK, PendingInputs
    <3>4. 1 + ((M - dphase) % M) = IF dphase = 0 THEN 1 ELSE 1 + M - dphase
      BY <1>1, <3>3, DecimatorPhase
    <3>5. PendingInputs' = M
      BY <1>0, <1>1, <1>2, <2>1, <3>3, <3>4 DEF PhaseAfter
    <3> QED BY <1>0, <1>1, <2>1, <3>1, <3>2, <3>5 DEF MachineOK
  <2>2. CASE ~IsDecimator
    <3>1. pending' = Advance(pos) /\ pos' = NextPos(pos)
      BY <2>2 DEF Emit
    <3>2. NextPos(pos) \in Positions
      BY <1>0, NextPosition
    <3> QED BY <1>0, <1>1, <1>4, <2>2, <3>1, <3>2 DEF MachineOK, PendingInputs
  <2> QED BY <2>1, <2>2
<1>6. fed' + PendingInputs' = Due(made') + 1
  <2> DEFINE x == PendingInputs'
  <2>1. x = Advance(pos) /\ Due(made') = Due(made) + Advance(pos)
    BY <1>3, <1>4, <1>5
  <2> HIDE DEF x
  <2> QED BY <1>0, <1>4, <2>1 DEF x
<1>7. Due(made' - 1) < fed'
  <2>1. made' - 1 = made
    BY <1>0, <1>3
  <2> QED BY <1>0, <2>1
<1> QED BY <1>1, <1>3, <1>4, <1>5, <1>6, <1>7

-----------------------------------------------------------------------------
(* Every step keeps StageInv.                                               *)
LEMMA FreshHolds ==
  ASSUME NEW ls, ls = Silence
  PROVE  /\ ls \in [Lines -> Seq(Int)] /\ \A s \in Lines : Len(ls[s]) \in RowLen..HistCap
         /\ Dealt(ls, 0, 0)
         /\ 0 \in Positions /\ 0 \in 0..(M - 1) /\ 0 % L = 0 /\ 0 % M = 0 /\ Due(0) = 0
<1>0. /\ L \in Nat \ {0} /\ M \in Nat \ {0} /\ RowLen \in Nat \ {0} /\ LineStep \in Nat \ {0}
      /\ HistCap \in Nat /\ RowLen <= HistCap /\ Lines \subseteq Nat
  BY StageSizes
<1> DEFINE row(s) == [i \in 1..RowLen |-> s + 1 - LineStep * (RowLen - i + 1)]
<1>1. ls = [s \in Lines |-> row(s)]
  BY DEF Silence, LineStep
<1>2. ASSUME NEW s \in Lines
      PROVE  /\ ls[s] \in Seq(Int) /\ Len(ls[s]) = RowLen
             /\ \A i \in 0..(RowLen - 1) : ls[s][Len(ls[s]) - i] = NewestOf(s, 0, 0) - i * LineStep
  <2>0. s \in Nat /\ ls[s] = row(s)
    BY <1>0, <1>1
  <2>1. \A i \in 1..RowLen : s + 1 - LineStep * (RowLen - i + 1) \in Int
    BY <1>0, <2>0
  <2>2. row(s) \in Seq(Int) /\ Len(row(s)) = RowLen
    BY <1>0, <2>1
  <2>3. ASSUME NEW i \in 0..(RowLen - 1) PROVE row(s)[RowLen - i] = NewestOf(s, 0, 0) - i * LineStep
    <3>1. RowLen - i \in 1..RowLen /\ RowLen - (RowLen - i) + 1 = i + 1
      BY <1>0
    <3>2. row(s)[RowLen - i] = s + 1 - LineStep * (i + 1)
      BY <3>1
    <3>3. LineStep * (i + 1) = i * LineStep + LineStep /\ i * LineStep \in Int
      BY <1>0
    <3>4. NewestOf(s, 0, 0) = s + 1 - LineStep
      BY <1>0, <2>0 DEF NewestOf
    <3> HIDE DEF row
    <3> DEFINE x == row(s)[RowLen - i]
    <3> DEFINE y == i * LineStep
    <3> DEFINE z == LineStep * (i + 1)
    <3>5. x = s + 1 - z /\ z = y + LineStep /\ y \in Int
      BY <3>2, <3>3
    <3> HIDE DEF x, y, z
    <3>6. x = (s + 1 - LineStep) - y
      BY <1>0, <2>0, <3>5
    <3> QED BY <3>4, <3>6 DEF x, y
  <2> QED BY <2>0, <2>2, <2>3
<1>3. /\ ls \in [Lines -> Seq(Int)] /\ \A s \in Lines : Len(ls[s]) \in RowLen..HistCap
      /\ Dealt(ls, 0, 0)
  <2> HIDE DEF row
  <2>1. ls \in [Lines -> Seq(Int)]
    BY <1>1, <1>2
  <2>2. Dealt(ls, 0, 0)
    BY <1>2 DEF Dealt
  <2> QED BY <1>0, <1>2, <2>1, <2>2
<1>4. 0 % L = 0 /\ 0 % M = 0
  BY <1>0
<1>5. 0 \in Positions /\ 0 \in 0..(M - 1) /\ Due(0) = 0
  BY <1>0, DueOfSuperblock DEF Positions
<1> HIDE DEF row
<1> QED BY <1>3, <1>4, <1>5

LEMMA InitHolds == Init => StageInv
<1> SUFFICES ASSUME Init PROVE StageInv
  OBVIOUS
<1>1. /\ lines = Silence /\ pos = 0 /\ pending = 1 /\ dphase = 0
      /\ pc = "idle" /\ left = 0 /\ todo = 0 /\ need = 0
      /\ fed = 0 /\ made = 0 /\ heard = {} /\ promise = 0 /\ banked = FALSE
  BY DEF Init
<1>2. PendingInputs = 1
  BY <1>1, FreshHolds, DecimatorPhase DEF PendingInputs
<1>3. TypeOK
  BY <1>1, FreshHolds DEF TypeOK
<1>4. OnSchedule /\ Owed
  BY <1>1, <1>2, FreshHolds DEF OnSchedule, Owed, Short, Pulling
<1> QED BY <1>1, <1>3, <1>4, FreshHolds DEF StageInv, IsConvolution

LEMMA ResetKeeps == StageInv /\ Reset => StageInv'
<1> SUFFICES ASSUME StageInv, Reset PROVE StageInv'
  OBVIOUS
<1>1. /\ lines' = Silence /\ pos' = 0 /\ pending' = 1 /\ dphase' = 0
      /\ fed' = 0 /\ made' = 0 /\ heard' = {} /\ promise' = 0 /\ banked' = FALSE
      /\ pc' = "idle" /\ left' = 0 /\ todo' = 0 /\ need' = 0
  BY DEF Reset, call, StageInv, Owed
<1>2. PendingInputs' = 1
  BY <1>1, FreshHolds, DecimatorPhase DEF PendingInputs
<1>3. TypeOK'
  BY <1>1, FreshHolds DEF TypeOK
<1>4. OnSchedule' /\ Owed'
  BY <1>1, <1>2, FreshHolds DEF OnSchedule, Owed, Short, Pulling
<1> QED BY <1>1, <1>3, <1>4, FreshHolds DEF StageInv, IsConvolution

(* A step that leaves the machine and its lines alone.                      *)
LEMMA MachineStays ==
  ASSUME StageInv, UNCHANGED <<lines, machine, fed, made, heard>>
  PROVE  /\ lines' \in [Lines -> Seq(Int)] /\ \A s \in Lines : Len(lines'[s]) \in RowLen..HistCap
         /\ MachineOK' /\ IsConvolution' /\ Dealt(lines, fed, dphase)'
         /\ fed' = fed /\ made' = made /\ pos' = pos /\ pending' = pending /\ dphase' = dphase
         /\ fed \in Nat /\ made \in Nat /\ heard' \subseteq Int \X Nat
         /\ PendingInputs' = PendingInputs
<1>1. /\ lines' = lines /\ pos' = pos /\ pending' = pending /\ dphase' = dphase
      /\ fed' = fed /\ made' = made /\ heard' = heard
  BY DEF machine
<1>2. MachineOK' /\ IsConvolution' /\ Dealt(lines, fed, dphase)' /\ PendingInputs' = PendingInputs
  BY <1>1, InvParts DEF StageInv, MachineOK, IsConvolution, Dealt, NewestOf, PendingInputs
<1> QED BY <1>1, <1>2 DEF StageInv, TypeOK

LEMMA ProcessStartKeeps ==
  ASSUME StageInv, NEW n \in Nat, ProcessStart(n)
  PROVE  StageInv'
<1>1. /\ pc = "idle" /\ pc' = "process" /\ left' = n /\ promise' = made + StageOutputsFor(n)
      /\ todo' = (IF IsDecimator THEN 0 ELSE StageOutputsFor(n)) /\ banked' = FALSE /\ need' = need
      /\ UNCHANGED <<lines, machine, fed, made, heard>>
  BY DEF ProcessStart, Start
<1>2. need = 0 /\ OnSchedule /\ made \in Nat /\ MachineOK
  BY <1>1, InvParts DEF StageInv, Owed
<1>3. StageOutputsFor(n) = OutputsFor(pos, PendingInputs, n) /\ StageOutputsFor(n) \in Nat
  BY <1>2, InvParts, SizingIsSchedule, OutputsForSign
<1>4. StageOutputsFor(left)' = StageOutputsFor(n)
  BY <1>1, <1>3, MachineStays, SizingAfter
<1>a. todo' \in Nat /\ left' \in Nat /\ need' \in Nat /\ promise' \in Nat
  <2> DEFINE o == StageOutputsFor(n)
  <2>1. o \in Nat /\ promise' = made + o /\ todo' = (IF IsDecimator THEN 0 ELSE o)
    BY <1>1, <1>3
  <2> HIDE DEF o
  <2> QED BY <1>1, <1>2, <2>1
<1>5. TypeOK'
  BY <1>1, <1>a, MachineStays DEF TypeOK, MachineOK
<1>6. OnSchedule'
  BY <1>1, <1>2, MachineStays DEF OnSchedule, Short, Pulling
<1>7. Owed'
  BY <1>1, <1>2, <1>3, <1>4, MachineStays DEF Owed
<1> QED BY <1>1, <1>5, <1>6, <1>7, MachineStays DEF StageInv

LEMMA PullStartKeeps ==
  ASSUME StageInv, NEW n \in Nat, PullStart(n)
  PROVE  StageInv'
<1>1. /\ pc = "idle" /\ pc' = "pull" /\ todo' = n /\ need' = (IF n = 0 THEN 0 ELSE PendingInputs)
      /\ promise' = fed + StageFramesNeeded(n) /\ banked' = TRUE /\ left' = left
      /\ UNCHANGED <<lines, machine, fed, made, heard>>
  BY DEF PullStart, Start
<1>2. left = 0 /\ OnSchedule /\ made \in Nat /\ fed \in Nat /\ MachineOK /\ PendingInputs \in Nat /\ pos \in Nat
  BY <1>1, InvParts DEF StageInv, Owed
<1>3. StageFramesNeeded(n) = FramesNeeded(pos, PendingInputs, n) /\ StageFramesNeeded(n) \in Nat
  BY <1>2, SizingIsSchedule, FramesNeededIsNat
<1>4. FramesNeeded(pos, need', n) = StageFramesNeeded(n)
  BY <1>1, <1>3 DEF FramesNeeded
<1>5. TypeOK'
  BY <1>1, <1>2, <1>3, MachineStays DEF TypeOK, MachineOK
<1>6. OnSchedule'
  BY <1>1, <1>2, MachineStays DEF OnSchedule, Short, Pulling
<1>7. Owed'
  BY <1>1, <1>2, <1>4, MachineStays DEF Owed
<1> QED BY <1>1, <1>5, <1>6, <1>7, MachineStays DEF StageInv

LEMMA FlushStartKeeps ==
  ASSUME StageInv, FlushStart
  PROVE  StageInv'
<1>1. /\ pc = "idle" /\ pc' = "flush" /\ left' = WindowFrames
      /\ promise' = made + StageOutputsFor(WindowFrames)
      /\ banked' = FALSE /\ todo' = todo /\ need' = need
      /\ UNCHANGED <<lines, machine, fed, made, heard>>
  BY DEF FlushStart, Start, FlushOutputFrames
<1>2. need = 0 /\ todo = 0 /\ OnSchedule /\ made \in Nat /\ MachineOK /\ WindowFrames \in Nat
  BY <1>1, InvParts, StageSizes DEF StageInv, Owed, WindowFrames
<1>3. /\ StageOutputsFor(WindowFrames) = OutputsFor(pos, PendingInputs, WindowFrames)
      /\ StageOutputsFor(WindowFrames) \in Nat
  <2>1. StageOutputsFor(WindowFrames) = OutputsFor(pos, PendingInputs, WindowFrames)
    BY <1>2, SizingIsSchedule
  <2>2. pos \in Nat /\ PendingInputs \in Nat
    BY InvParts
  <2> QED BY <1>2, <2>1, <2>2, OutputsForSign
<1>4. StageOutputsFor(left)' = StageOutputsFor(WindowFrames)
  BY <1>1, <1>2, <1>3, MachineStays, SizingAfter
<1>a. todo' \in Nat /\ left' \in Nat /\ need' \in Nat /\ promise' \in Nat
  <2> DEFINE o == StageOutputsFor(WindowFrames)
  <2>1. o \in Nat /\ promise' = made + o
    BY <1>1, <1>3
  <2> HIDE DEF o
  <2> QED BY <1>1, <1>2, <2>1
<1>5. TypeOK'
  BY <1>1, <1>a, MachineStays DEF TypeOK, MachineOK
<1>6. OnSchedule'
  BY <1>1, <1>2, MachineStays DEF OnSchedule, Short, Pulling
<1>7. Owed'
  BY <1>1, <1>2, <1>3, <1>4, MachineStays DEF Owed
<1> QED BY <1>1, <1>5, <1>6, <1>7, MachineStays DEF StageInv

LEMMA PullPopKeeps ==
  ASSUME StageInv, PullPop
  PROVE  StageInv'
<1>1. /\ pc = "pull" /\ pc' = pc /\ todo' = todo /\ need' = need /\ promise' = promise /\ banked' = banked
      /\ left' \in Nat /\ left' <= need
      /\ UNCHANGED <<lines, machine, fed, made, heard>>
  BY InvParts, StageAssumption DEF PullPop, machine
<1>2. OnSchedule /\ Owed /\ todo \in Nat /\ need \in Nat /\ promise \in Nat /\ banked \in BOOLEAN
  BY InvParts DEF StageInv, TypeOK
<1>3. TypeOK'
  BY <1>1, <1>2, MachineStays DEF TypeOK, MachineOK
<1>4. OnSchedule'
  BY <1>1, <1>2, MachineStays DEF OnSchedule, Short, Pulling
<1>5. Owed'
  BY <1>1, <1>2, MachineStays DEF Owed
<1> QED BY <1>1, <1>3, <1>4, <1>5, MachineStays DEF StageInv

(* A call that ends leaves the machine between calls; only a pull() may     *)
(* leave it with an output due already.                                     *)
LEMMA ReturnKeeps ==
  ASSUME StageInv, ProcessDone \/ PullDone \/ PullDry \/ FlushDone
  PROVE  StageInv'
<1>1. /\ pc' = "idle" /\ left' = 0 /\ todo' = 0 /\ need' = 0 /\ promise' = promise /\ banked' = banked
      /\ UNCHANGED <<lines, machine, fed, made, heard>>
  BY DEF ProcessDone, PullDone, PullDry, FlushDone, Return
<1>2. /\ OnSchedule /\ Owed /\ promise \in Nat /\ banked \in BOOLEAN /\ MachineOK
      /\ PendingInputs \in Nat /\ pos \in Nat /\ need \in Nat
  BY InvParts DEF StageInv, TypeOK
<1>3. Short = PendingInputs
  BY <1>2 DEF ProcessDone, PullDone, PullDry, FlushDone, Short, Pulling, OnSchedule, Owed
<1>4. ~banked => PendingInputs > 0
  <2>1. CASE ProcessDone
    <3>1. pc = "process" /\ todo = 0 /\ left = 0
      BY <2>1 DEF ProcessDone
    <3>2. CASE IsDecimator
      BY <1>2, <3>2, PendingIsNat, StageSizes
    <3>3. CASE ~IsDecimator
      <4>1. StageOutputsFor(0) = 0
        BY <1>2, <3>1, <3>3 DEF Owed
      <4>2. OutputsFor(pos, PendingInputs, 0) = 0
        BY <1>2, <4>1, SizingIsSchedule
      <4> QED BY <1>2, <4>2, OutputsForSign
    <3> QED BY <3>2, <3>3
  <2>2. CASE PullDone \/ PullDry
    BY <1>2, <2>2 DEF PullDone, PullDry, Owed
  <2>3. CASE FlushDone
    BY <1>2, <2>3 DEF FlushDone
  <2> QED BY <2>1, <2>2, <2>3
<1>5. TypeOK'
  BY <1>1, <1>2, MachineStays DEF TypeOK, MachineOK
<1>6. OnSchedule'
  BY <1>1, <1>2, <1>3, MachineStays DEF OnSchedule, Short, Pulling
<1>7. Owed'
  BY <1>1, <1>2, <1>4, MachineStays DEF Owed
<1> QED BY <1>1, <1>5, <1>6, <1>7, MachineStays DEF StageInv

(* An input that completes no output, fed by the L-phase machine to its     *)
(* line or by any call to a decimator: the output stays where it was.       *)
LEMMA SilentInput ==
  ASSUME StageInv, left # 0, IsDecimator \/ pending # 0, TakeOne, ConsumeOne, Silent
  PROVE  /\ made' = made /\ heard' \subseteq Int \X Nat /\ IsConvolution'
         /\ pos' = made' % L /\ (IsDecimator => pending' = 1)
         /\ made' > 0 => Due(made' - 1) < fed'
<1>1. /\ made' = made /\ heard' = heard /\ pos' = pos /\ fed' = fed + 1 /\ (IsDecimator => pending' = pending)
      /\ heard \subseteq Int \X Nat /\ IsConvolution /\ OnSchedule /\ fed \in Nat /\ made \in Nat
  BY InputTaken, InvParts DEF Silent, StageInv, TypeOK
<1>2. IsConvolution'
  BY <1>1 DEF IsConvolution
<1>3. ASSUME made > 0 PROVE Due(made - 1) < fed + 1
  <2>1. Due(made - 1) < fed /\ Due(made - 1) \in Nat
    BY <1>1, <1>3, DueIsFloor DEF OnSchedule
  <2> QED BY <1>1, <2>1
<1> QED BY <1>1, <1>2, <1>3 DEF OnSchedule

(* The next output's block, one input shorter.                              *)
LEMMA OwedAfterInput ==
  ASSUME StageInv, left # 0, IsDecimator \/ pending # 0, TakeOne, ConsumeOne,
         ~(IsDecimator /\ dphase = 0)
  PROVE  /\ StageOutputsFor(left)' = StageOutputsFor(left) /\ StageOutputsFor(left) \in Nat
         /\ PendingInputs' = PendingInputs - 1 /\ fed' + PendingInputs' = fed + PendingInputs
<1>1. /\ MachineOK' /\ left' = left - 1 /\ left' \in Nat /\ pos' = pos /\ fed' = fed + 1
      /\ PendingInputs # 0 /\ PendingInputs' = PendingInputs - 1
      /\ MachineOK /\ left \in Nat \ {0} /\ pos \in Nat /\ PendingInputs \in Nat \ {0} /\ fed \in Nat
  BY InputTaken, InvParts
<1>2. StageOutputsFor(left)' = OutputsFor(pos, PendingInputs - 1, left - 1)
  BY <1>1, SizingAfter
<1>3. StageOutputsFor(left) = OutputsFor(pos, PendingInputs, left)
  BY <1>1, SizingIsSchedule
<1>4. OutputsFor(pos, PendingInputs - 1, left - 1) = OutputsFor(pos, PendingInputs, left)
  BY <1>1, TakenInputIsCounted
<1>5. OutputsFor(pos, PendingInputs, left) \in Nat
  <2>1. pos \in Nat /\ PendingInputs \in Nat /\ left \in Nat
    BY <1>1
  <2> QED BY <2>1, OutputsForSign
<1>6. fed' + PendingInputs' = fed + PendingInputs
  <2> DEFINE p == PendingInputs
  <2> DEFINE pp == PendingInputs'
  <2>1. pp = p - 1 /\ p \in Nat
    BY <1>1
  <2> HIDE DEF p, pp
  <2> QED BY <1>1, <2>1 DEF p, pp
<1> QED BY <1>1, <1>2, <1>3, <1>4, <1>5, <1>6

(* ... and the output made on it.                                           *)
LEMMA OwedAfterOutput ==
  ASSUME StageInv, MachineOK', left' \in Nat, NEW k \in Nat, left' = k,
         pos' = NextPos(pos), PendingInputs' = Advance(pos)
  PROVE  /\ StageOutputsFor(left)' = OutputsFor(pos, 0, k) - 1
         /\ OutputsFor(pos, 0, k) \in Nat \ {0}
<1>1. pos \in Positions /\ pos \in Nat
  BY InvParts DEF MachineOK
<1>2. StageOutputsFor(left)' = OutputsFor(NextPos(pos), Advance(pos), k)
  BY SizingAfter
<1>3. OutputsFor(NextPos(pos), Advance(pos), k) = OutputsFor(pos, 0, k) - 1
  BY <1>1, MadeOutputIsCounted
<1>4. OutputsFor(pos, 0, k) \in Nat /\ OutputsFor(pos, 0, k) # 0
  <2>1. pos \in Nat /\ 0 \in Nat /\ ~(k < 0)
    BY <1>1
  <2>2. OutputsFor(pos, 0, k) \in Nat /\ (OutputsFor(pos, 0, k) = 0 <=> k < 0)
    BY <2>1, OutputsForSign
  <2> QED BY <2>1, <2>2
<1> QED BY <1>2, <1>3, <1>4

LEMMA ProcessAppendKeeps ==
  ASSUME StageInv, ProcessAppend
  PROVE  StageInv'
<1>1. /\ ~IsDecimator /\ pc = "process" /\ TakeOne /\ ConsumeOne /\ Silent
      /\ pc' = pc /\ todo' = todo /\ need' = need /\ promise' = promise /\ banked' = banked
  BY DEF ProcessAppend
<1>2. /\ OnSchedule /\ Owed /\ MachineOK /\ todo \in Nat /\ need \in Nat /\ promise \in Nat
      /\ banked \in BOOLEAN /\ pos \in Nat /\ left \in Nat /\ pending \in Nat
      /\ fed \in Nat /\ made \in Nat
  BY InvParts DEF StageInv, TypeOK
<1>3. left # 0 /\ pending # 0
  <2>1. todo = OutputsFor(pos, pending, left)
    BY <1>1, <1>2, SizingIsSchedule DEF Owed, PendingInputs
  <2>2. OutputsFor(pos, pending, left) = 0 <=> left < pending
    BY <1>2, OutputsForSign
  <2> QED BY <1>2, <2>1, <2>2 DEF ProcessAppend
<1>4. StageOutputsFor(left)' = StageOutputsFor(left) /\ fed' + PendingInputs' = fed + PendingInputs
  BY <1>1, <1>3, OwedAfterInput
<1>5. TypeOK'
  BY <1>1, <1>2, <1>3, InputTaken, SilentInput DEF TypeOK, MachineOK
<1>6. OnSchedule'
  <2>1. fed' + PendingInputs' = Due(made') + 1
    BY <1>1, <1>2, <1>3, <1>4, SilentInput DEF OnSchedule, Short, Pulling
  <2> QED BY <1>1, <1>3, <2>1, InputTaken, SilentInput DEF OnSchedule, Short, Pulling
<1>7. Owed'
  BY <1>1, <1>2, <1>3, <1>4, SilentInput DEF Owed
<1> QED BY <1>1, <1>3, <1>5, <1>6, <1>7, InputTaken, SilentInput DEF StageInv

LEMMA FlushAppendKeeps ==
  ASSUME StageInv, FlushAppend
  PROVE  StageInv'
<1>1. /\ ~IsDecimator /\ pc = "flush" /\ TakeOne /\ ConsumeOne /\ Silent /\ left # 0 /\ pending # 0
      /\ pc' = pc /\ todo' = todo /\ need' = need /\ promise' = promise /\ banked' = banked
  BY DEF FlushAppend
<1>2. /\ OnSchedule /\ Owed /\ todo \in Nat /\ need \in Nat /\ promise \in Nat
      /\ banked \in BOOLEAN /\ fed \in Nat /\ made \in Nat
  BY InvParts DEF StageInv, TypeOK
<1>4. StageOutputsFor(left)' = StageOutputsFor(left) /\ fed' + PendingInputs' = fed + PendingInputs
  BY <1>1, OwedAfterInput
<1>5. TypeOK'
  BY <1>1, <1>2, InputTaken, SilentInput DEF TypeOK, MachineOK
<1>6. OnSchedule'
  <2>1. fed' + PendingInputs' = Due(made') + 1
    BY <1>1, <1>2, <1>4, SilentInput DEF OnSchedule, Short, Pulling
  <2> QED BY <1>1, <2>1, InputTaken, SilentInput DEF OnSchedule, Short, Pulling
<1>7. Owed'
  BY <1>1, <1>2, <1>4, SilentInput DEF Owed
<1> QED BY <1>1, <1>5, <1>6, <1>7, InputTaken, SilentInput DEF StageInv

LEMMA PullAppendKeeps ==
  ASSUME StageInv, PullAppend
  PROVE  StageInv'
<1>1. /\ pc = "pull" /\ TakeOne /\ ConsumeOne /\ Silent /\ left # 0 /\ need' = need - 1
      /\ pc' = pc /\ todo' = todo /\ promise' = promise /\ banked' = banked
  BY DEF PullAppend
<1>2. /\ OnSchedule /\ Owed /\ todo \in Nat /\ need \in Nat /\ promise \in Nat /\ pos \in Nat
      /\ banked \in BOOLEAN /\ fed \in Nat /\ made \in Nat /\ left \in Nat /\ PendingInputs \in Nat
      /\ Due(made) \in Nat
  BY InvParts DEF StageInv, TypeOK
<1>3. left <= need /\ need # 0 /\ todo # 0 /\ need = PendingInputs /\ fed + need = Due(made) + 1
  BY <1>1, <1>2 DEF Owed, OnSchedule, Pulling, Short
<1>4. IsDecimator \/ pending # 0
  BY <1>3 DEF PendingInputs
<1>5. /\ left' = left - 1 /\ fed' = fed + 1 /\ left' \in Nat
      /\ PendingInputs' = (IF IsDecimator /\ dphase = 0 THEN M ELSE PendingInputs - 1)
      /\ IsDecimator => (dphase = 0 <=> PendingInputs = 1)
  BY <1>1, <1>4, InputTaken
<1>6. TypeOK'
  BY <1>1, <1>2, <1>3, <1>4, InputTaken, SilentInput DEF TypeOK, MachineOK
<1>7. OnSchedule'
  <2>1. fed' + need' = Due(made') + 1
    BY <1>1, <1>2, <1>3, <1>4, <1>5, SilentInput
  <2>2. need' # 0 \/ ~IsDecimator => need' = PendingInputs'
    <3> DEFINE p == PendingInputs
    <3> DEFINE pp == PendingInputs'
    <3>1. /\ pp = (IF IsDecimator /\ dphase = 0 THEN M ELSE p - 1) /\ p \in Nat /\ need = p
          /\ IsDecimator => (dphase = 0 <=> p = 1)
      BY <1>2, <1>3, <1>5
    <3> HIDE DEF p, pp
    <3> QED BY <1>1, <3>1 DEF pp
  <2>3. Pulling' /\ Short' = need'
    BY <1>1, <1>3 DEF Pulling, Short
  <2>4. /\ pos' = made' % L /\ dphase' = (IF IsDecimator THEN fed' % M ELSE 0)
        /\ (IsDecimator => pending' = 1) /\ (made' > 0 => Due(made' - 1) < fed')
    BY <1>1, <1>4, InputTaken, SilentInput
  <2> QED BY <2>1, <2>2, <2>3, <2>4 DEF OnSchedule
<1>8. Owed'
  <2>1. promise' = fed' + FramesNeeded(pos', need', todo')
    <3>1. FramesNeeded(pos, need - 1, todo) = FramesNeeded(pos, need, todo) - 1
      BY <1>2, <1>3, TakenInputIsCounted
    <3>2. FramesNeeded(pos, need, todo) \in Nat
      BY <1>2, FramesNeededIsNat
    <3>3. promise = fed + FramesNeeded(pos, need, todo)
      BY <1>1, <1>2 DEF Owed
    <3>4. pos' = pos
      BY <1>1, <1>4, InputTaken
    <3> QED BY <1>1, <1>2, <1>5, <3>1, <3>2, <3>3, <3>4
  <2>2. left' <= need' /\ banked' /\ (todo' = 0 => need' = 0) /\ pc' = "pull"
    BY <1>1, <1>2, <1>3, <1>5 DEF Owed
  <2> QED BY <2>1, <2>2 DEF Owed
<1> QED BY <1>1, <1>4, <1>6, <1>7, <1>8, InputTaken, SilentInput DEF StageInv

(* A decimator's input, the same in process() and in flush().               *)
LEMMA DecimateKeeps ==
  ASSUME StageInv, NEW name \in {"process", "flush"}, Decimate(name)
  PROVE  StageInv'
<1>1. /\ IsDecimator /\ pc = name /\ TakeOne /\ ConsumeOne /\ left # 0
      /\ (IF dphase = 0 THEN Sound ELSE Silent)
      /\ pc' = pc /\ todo' = todo /\ need' = need /\ promise' = promise /\ banked' = banked
  BY DEF Decimate
<1>2. /\ OnSchedule /\ Owed /\ todo \in Nat /\ need \in Nat /\ promise \in Nat
      /\ banked \in BOOLEAN /\ fed \in Nat /\ made \in Nat /\ PendingInputs \in Nat
      /\ MachineOK /\ pos \in Positions /\ left \in Nat /\ Due(made) \in Nat
  BY InvParts DEF StageInv, TypeOK
<1>3. fed + PendingInputs = Due(made) + 1
  BY <1>1, <1>2 DEF OnSchedule, Short, Pulling
<1>4. /\ pos = made % L /\ pending = 1 /\ ~banked /\ need = 0 /\ todo = 0
      /\ promise = made + StageOutputsFor(left)
  BY <1>1, <1>2 DEF OnSchedule, Owed
<1>5. CASE dphase # 0
  <2>1. Silent
    BY <1>1, <1>5
  <2>2. StageOutputsFor(left)' = StageOutputsFor(left) /\ fed' + PendingInputs' = fed + PendingInputs
    BY <1>1, <1>5, OwedAfterInput
  <2>3. TypeOK'
    BY <1>1, <1>2, <2>1, InputTaken, SilentInput DEF TypeOK, MachineOK
  <2>4. OnSchedule'
    <3>1. fed' + PendingInputs' = Due(made') + 1
      BY <1>1, <1>3, <2>1, <2>2, SilentInput
    <3> QED BY <1>1, <2>1, <3>1, InputTaken, SilentInput DEF OnSchedule, Short, Pulling
  <2>5. Owed'
    BY <1>1, <1>2, <1>4, <2>1, <2>2, SilentInput DEF Owed
  <2> QED BY <1>1, <2>1, <2>3, <2>4, <2>5, InputTaken, SilentInput DEF StageInv
<1>6. CASE dphase = 0
  <2>1. /\ Sound /\ PendingInputs = 1 /\ fed' = Due(made) + 1 /\ dphase' = PhaseAfter /\ left' = left - 1
        /\ left' \in Nat /\ PendingInputs' = M /\ pos' = pos /\ pending' = pending /\ MachineOK'
        /\ Dealt(lines', fed', dphase')
    <3>1. PendingInputs = 1 /\ fed' = fed + 1
      BY <1>1, <1>6, InputTaken
    <3>2. fed' = Due(made) + 1
      BY <1>2, <1>3, <3>1
    <3> QED BY <1>1, <1>6, <3>1, <3>2, InputTaken
  <2>2. IsConvolution' /\ heard' \subseteq Int \X Nat /\ made' = made + 1
    BY <1>2, <1>4, <2>1, OutputSounds
  <2>3. pos = 0 /\ NextPos(pos) = 0 /\ Advance(pos) = M /\ made' % L = 0
    BY <1>1, <1>2, <2>2, DecimatorSchedule
  <2>4. Due(made') = Due(made) + M
    <3>1. Due(made + 1) = Due(made) + Advance(pos)
      BY <1>2, <1>4, NextOutput
    <3> QED BY <2>2, <2>3, <3>1
  <2>5. TypeOK'
    BY <1>1, <1>2, <2>1, <2>2, InputTaken DEF TypeOK, MachineOK
  <2>6. OnSchedule'
    <3>1. fed' + PendingInputs' = Due(made') + 1
      <4> DEFINE p == PendingInputs'
      <4>1. p = M
        BY <2>1
      <4> HIDE DEF p
      <4> QED BY <1>2, <2>1, <2>4, <4>1, StageSizes DEF p
    <3>2. Due(made' - 1) < fed'
      <4>1. made' - 1 = made
        BY <1>2, <2>2
      <4> QED BY <1>2, <2>1, <4>1
    <3>3. dphase' = (IF IsDecimator THEN fed' % M ELSE 0)
      BY <1>1, InputTaken
    <3> QED BY <1>1, <1>4, <2>1, <2>3, <3>1, <3>2, <3>3 DEF OnSchedule, Short, Pulling
  <2>7. Owed'
    <3> DEFINE o == OutputsFor(pos, 0, left - 1)
    <3>1. StageOutputsFor(left)' = o - 1 /\ o \in Nat \ {0}
      BY <1>2, <2>1, <2>3, OwedAfterOutput
    <3>2. StageOutputsFor(left) = o
      <4>1. StageOutputsFor(left) = OutputsFor(pos, 1, left)
        BY <1>2, <2>1, SizingIsSchedule
      <4>2. pos \in Nat /\ 1 \in Nat \ {0} /\ left \in Nat \ {0} /\ 1 - 1 = 0
        BY <1>1, <1>2, <2>3
      <4>3. OutputsFor(pos, 1 - 1, left - 1) = OutputsFor(pos, 1, left)
        BY <4>2, TakenInputIsCounted
      <4> QED BY <4>1, <4>2, <4>3
    <3> HIDE DEF o
    <3>3. promise' = made' + StageOutputsFor(left)'
      BY <1>1, <1>2, <1>4, <2>2, <3>1, <3>2
    <3> QED BY <1>1, <1>2, <1>4, <3>3 DEF Owed
  <2> QED BY <2>1, <2>2, <2>5, <2>6, <2>7 DEF StageInv
<1> QED BY <1>5, <1>6

(* An output of the L-phase machine, in process() or flush().               *)
LEMMA EmitKeeps ==
  ASSUME StageInv, ProcessEmit \/ FlushEmit
  PROVE  StageInv'
<1>1. /\ pc \in {"process", "flush"} /\ pending = 0 /\ Emit /\ pc' = pc /\ left' = left /\ need' = need
      /\ fed' = fed /\ promise' = promise /\ banked' = banked
      /\ pc = "process" => todo # 0 /\ todo' = todo - 1
      /\ pc = "flush" => todo' = todo
  BY DEF ProcessEmit, FlushEmit, call
<1>2. /\ OnSchedule /\ Owed /\ todo \in Nat /\ need \in Nat /\ promise \in Nat
      /\ banked \in BOOLEAN /\ fed \in Nat /\ made \in Nat /\ left \in Nat /\ Due(made) \in Nat
      /\ MachineOK
  BY InvParts DEF StageInv, TypeOK
<1>3. ~IsDecimator /\ PendingInputs = 0
  BY <1>1, <1>2 DEF OnSchedule, PendingInputs
<1>4. fed = Due(made) + 1
  BY <1>1, <1>2, <1>3 DEF OnSchedule, Short, Pulling
<1>5. /\ lines' = lines /\ dphase' = dphase /\ made' = made + 1 /\ IsConvolution' /\ heard' \subseteq Int \X Nat
      /\ MachineOK' /\ pos' = NextPos(pos) /\ pos' = made' % L /\ PendingInputs' = Advance(pos)
      /\ fed' + PendingInputs' = Due(made') + 1 /\ Due(made' - 1) < fed'
  BY <1>1, <1>4, OutputEmitted
<1> DEFINE o == OutputsFor(pos, 0, left)
<1>6. StageOutputsFor(left)' = o - 1 /\ o \in Nat \ {0}
  BY <1>1, <1>2, <1>5, OwedAfterOutput
<1>7. StageOutputsFor(left) = o
  BY <1>2, <1>3, SizingIsSchedule
<1> HIDE DEF o
<1>8. TypeOK'
  <2>1. todo' \in Nat
    BY <1>1, <1>2
  <2> QED BY <1>1, <1>2, <1>5, <2>1 DEF TypeOK, MachineOK, StageInv
<1>9. OnSchedule'
  BY <1>1, <1>2, <1>3, <1>5 DEF OnSchedule, Short, Pulling
<1>10. Owed'
  <2>1. promise = made + o /\ (pc = "process" => todo = o)
    BY <1>1, <1>2, <1>3, <1>7 DEF Owed
  <2>2. promise' = made' + StageOutputsFor(left)' /\ (pc = "process" => todo' = StageOutputsFor(left)')
    <3> DEFINE oo == StageOutputsFor(left)'
    <3>1. oo = o - 1 /\ o \in Nat \ {0}
      BY <1>6
    <3> HIDE DEF oo
    <3>2. promise' = made' + oo /\ (pc = "process" => todo' = oo)
      BY <1>1, <1>2, <1>5, <2>1, <3>1
    <3> QED BY <3>2 DEF oo
  <2> QED BY <1>1, <1>2, <1>3, <2>2 DEF Owed
<1>11. Dealt(lines, fed, dphase)'
  BY <1>1, <1>5 DEF StageInv
<1> QED BY <1>5, <1>8, <1>9, <1>10, <1>11 DEF StageInv

(* An output of a pull(), and what the next one will need.                  *)
LEMMA PullEmitKeeps ==
  ASSUME StageInv, PullEmit
  PROVE  StageInv'
<1>1. /\ pc = "pull" /\ todo # 0 /\ need = 0 /\ Emit /\ pc' = pc /\ left' = left /\ todo' = todo - 1
      /\ need' = (IF todo = 1 THEN 0 ELSE PendingInputs')
      /\ fed' = fed /\ promise' = promise /\ banked' = banked
  BY DEF PullEmit
<1>2. /\ OnSchedule /\ Owed /\ todo \in Nat \ {0} /\ promise \in Nat
      /\ banked \in BOOLEAN /\ fed \in Nat /\ made \in Nat /\ left \in Nat /\ Due(made) \in Nat
      /\ MachineOK /\ pos \in Positions /\ pos \in Nat
  BY <1>1, InvParts DEF StageInv, TypeOK
<1>3. fed = Due(made) + 1 /\ (IsDecimator \/ pending = 0)
  BY <1>1, <1>2 DEF OnSchedule, Short, Pulling, PendingInputs
<1>4. /\ lines' = lines /\ dphase' = dphase /\ made' = made + 1 /\ IsConvolution' /\ heard' \subseteq Int \X Nat
      /\ MachineOK' /\ pos' = NextPos(pos) /\ pos' = made' % L /\ PendingInputs' = Advance(pos)
      /\ IsDecimator => pending' = pending
      /\ fed' + PendingInputs' = Due(made') + 1 /\ Due(made' - 1) < fed'
  BY <1>1, <1>3, OutputEmitted
<1>5. Advance(pos) \in Nat /\ need' \in Nat /\ todo' \in Nat /\ (todo' = 0 <=> todo = 1)
  <2>1. Advance(pos) \in Nat
    BY <1>2, AdvanceIsNat
  <2> QED BY <1>1, <1>2, <1>4, <2>1
<1>6. TypeOK'
  BY <1>1, <1>2, <1>4, <1>5 DEF TypeOK, MachineOK, StageInv
<1>7. OnSchedule'
  <2>1. dphase' = (IF IsDecimator THEN fed' % M ELSE 0) /\ (IsDecimator => pending' = 1)
    BY <1>1, <1>2, <1>4 DEF OnSchedule
  <2>2. Short' = PendingInputs'
    BY <1>1, <1>5 DEF Short, Pulling
  <2>3. Pulling' => need' = PendingInputs'
    BY <1>1, <1>5 DEF Pulling
  <2> QED BY <1>4, <2>1, <2>2, <2>3 DEF OnSchedule
<1>8. Owed'
  <2>1. left = 0 /\ promise = fed + FramesNeeded(pos, 0, todo) /\ banked
    BY <1>1, <1>2 DEF Owed
  <2>2. FramesNeeded(pos', Advance(pos), todo - 1) = FramesNeeded(pos, 0, todo)
    BY <1>2, <1>4, MadeOutputNeedsNoMore
  <2>3. FramesNeeded(pos', need', todo') = FramesNeeded(pos', Advance(pos), todo - 1)
    BY <1>1, <1>2, <1>4, <1>5 DEF FramesNeeded
  <2> QED BY <1>1, <1>5, <2>1, <2>2, <2>3 DEF Owed
<1>9. Dealt(lines, fed, dphase)'
  BY <1>1, <1>4 DEF StageInv
<1> QED BY <1>4, <1>6, <1>7, <1>8, <1>9 DEF StageInv

LEMMA StutterKeeps ==
  ASSUME StageInv, UNCHANGED vars
  PROVE  StageInv'
<1>1. UNCHANGED <<lines, machine, fed, made, heard>> /\ UNCHANGED <<pc, left, todo, need, promise, banked>>
  BY DEF vars, call
<1>2. MachineOK
  BY InvParts
<1>3. StageOutputsFor(left)' = StageOutputsFor(left)
  <2>1. StageOutputsFor(left) = OutputsFor(pos, PendingInputs, left) /\ left \in Nat
    BY <1>2, InvParts, SizingIsSchedule
  <2> QED BY <1>1, <2>1, MachineStays, SizingAfter
<1> QED BY <1>1, <1>3, MachineStays DEF StageInv, TypeOK, OnSchedule, Owed, Short, Pulling, MachineOK

-----------------------------------------------------------------------------
(* The steps of a stage, whatever the sizes its caller hands it.            *)
Works ==
  \/ ProcessDecimate \/ FlushDecimate
  \/ ProcessAppend \/ ProcessEmit \/ ProcessDone
  \/ PullPop \/ PullDry \/ PullAppend \/ PullEmit \/ PullDone
  \/ FlushAppend \/ FlushEmit \/ FlushDone

Driven ==
  \/ Reset \/ FlushStart \/ Works
  \/ \E n \in Nat : ProcessStart(n) \/ PullStart(n)

LEMMA NextIsDriven == Next => Driven
BY StageAssumption DEF Next, Driven, Works

LEMMA StepKeeps == StageInv /\ [Driven]_vars => StageInv'
<1> SUFFICES ASSUME StageInv, [Driven]_vars PROVE StageInv'
  OBVIOUS
<1>1. CASE Reset
  BY <1>1, ResetKeeps
<1>2. CASE FlushStart
  BY <1>2, FlushStartKeeps
<1>3. ASSUME NEW n \in Nat, ProcessStart(n) PROVE StageInv'
  BY <1>3, ProcessStartKeeps
<1>4. ASSUME NEW n \in Nat, PullStart(n) PROVE StageInv'
  BY <1>4, PullStartKeeps
<1>5. CASE ProcessDecimate \/ FlushDecimate
  BY <1>5, DecimateKeeps DEF ProcessDecimate, FlushDecimate
<1>6. CASE ProcessAppend
  BY <1>6, ProcessAppendKeeps
<1>7. CASE FlushAppend
  BY <1>7, FlushAppendKeeps
<1>8. CASE PullAppend
  BY <1>8, PullAppendKeeps
<1>9. CASE ProcessEmit \/ FlushEmit
  BY <1>9, EmitKeeps
<1>10. CASE PullEmit
  BY <1>10, PullEmitKeeps
<1>11. CASE PullPop
  BY <1>11, PullPopKeeps
<1>12. CASE ProcessDone \/ PullDone \/ PullDry \/ FlushDone
  BY <1>12, ReturnKeeps
<1>13. CASE UNCHANGED vars
  BY <1>13, StutterKeeps
<1> QED BY <1>1, <1>2, <1>3, <1>4, <1>5, <1>6, <1>7, <1>8, <1>9, <1>10, <1>11, <1>12, <1>13
        DEF Driven, Works

(* The inductive invariant, of both machines.                               *)
THEOREM StageInvariant == Spec => []StageInv
<1>1. StageInv /\ [Next]_vars => StageInv'
  BY NextIsDriven, StepKeeps
<1> QED BY <1>1, InitHolds, PTL DEF Spec

(* TypeOK, whose bounds say that no line outgrows its buffer.               *)
THEOREM StageTypeCorrect == Spec => []TypeOK
<1>1. StageInv => TypeOK
  BY DEF StageInv
<1> QED BY <1>1, StageInvariant, PTL

(* IsConvolution: sub-lines, phases, compactions, chunked pops, dry returns *)
(* and flushes do not show in what emit() computes.                         *)
THEOREM StageConvolves == Spec => []IsConvolution
<1>1. StageInv => IsConvolution
  BY DEF StageInv
<1> QED BY <1>1, StageInvariant, PTL

-----------------------------------------------------------------------------
(* What a call that ends has kept.                                          *)
LEMMA PromiseStep ==
  ASSUME StageInv
  PROVE  /\ ProcessDone \/ FlushDone => made = promise
         /\ PullDone => fed = promise
         /\ PullDry => fed < promise
<1>0. /\ Owed /\ MachineOK /\ PendingInputs \in Nat /\ pos \in Nat /\ made \in Nat /\ fed \in Nat
      /\ need \in Nat /\ todo \in Nat
  BY InvParts DEF StageInv
<1>1. StageOutputsFor(0) = OutputsFor(pos, PendingInputs, 0)
  BY <1>0, SizingIsSchedule
<1>2. OutputsFor(pos, PendingInputs, 0) = 0 <=> 0 < PendingInputs
  BY <1>0, OutputsForSign
<1>3. ProcessDone => made = promise
  <2> SUFFICES ASSUME ProcessDone PROVE made = promise
    OBVIOUS
  <2>1. pc = "process" /\ todo = 0 /\ left = 0 /\ promise = made + StageOutputsFor(0)
    BY <1>0 DEF ProcessDone, Owed
  <2>2. StageOutputsFor(0) = 0
    <3>1. CASE IsDecimator
      BY <1>0, <1>1, <1>2, <3>1, PendingIsNat, StageSizes
    <3>2. CASE ~IsDecimator
      BY <1>0, <2>1, <3>2 DEF Owed
    <3> QED BY <3>1, <3>2
  <2> QED BY <1>0, <2>1, <2>2
<1>4. FlushDone => made = promise
  <2> SUFFICES ASSUME FlushDone PROVE made = promise
    OBVIOUS
  <2>1. left = 0 /\ PendingInputs # 0 /\ promise = made + StageOutputsFor(0)
    BY <1>0 DEF FlushDone, Owed
  <2>2. StageOutputsFor(0) = 0
    BY <1>0, <1>1, <1>2, <2>1
  <2> QED BY <1>0, <2>1, <2>2
<1>5. PullDone => fed = promise
  BY <1>0 DEF PullDone, Owed, FramesNeeded
<1>6. PullDry => fed < promise
  <2> SUFFICES ASSUME PullDry PROVE fed < promise
    OBVIOUS
  <2>1. need # 0 /\ todo # 0 /\ promise = fed + FramesNeeded(pos, need, todo)
    BY <1>0 DEF PullDry, Owed
  <2>2. FramesNeeded(pos, need, todo) \in Nat /\ FramesNeeded(pos, need, todo) >= need
    BY <1>0, <2>1, FramesNeededIsNat
  <2> QED BY <1>0, <2>1, <2>2
<1> QED BY <1>3, <1>4, <1>5, <1>6

(* PromisesKept: process() and flush() write what outputs_for() said, and   *)
(* pull() takes what frames_needed() said, or less when its source is dry.  *)
THEOREM StagePromisesKept == Spec => PromisesKept
<1>1. StageInv /\ [Next]_vars =>
        [/\ ProcessDone \/ FlushDone => made = promise
         /\ PullDone => fed = promise
         /\ PullDry => fed < promise]_vars
  BY PromiseStep
<1> QED BY <1>1, StageInvariant, PTL DEF Spec, PromisesKept

(* outputs_for() and frames_needed() of a machine in any state, at any size.*)
LEMMA StageSizing ==
  ASSUME StageInv, NEW k \in Nat
  PROVE  /\ StageOutputsFor(k) \in Nat /\ StageFramesNeeded(k) \in Nat
         /\ k > 0 => /\ StageOutputsFor(StageFramesNeeded(k)) >= k
                     /\ StageFramesNeeded(k) > 0 => StageOutputsFor(StageFramesNeeded(k) - 1) < k
         /\ \A j \in 0..k : StageOutputsFor(j) <= StageOutputsFor(k)
         /\ PendingInputs > 0 => StageOutputsFor(k) <= (k * L) \div M + 2
<1>0. MachineOK /\ PendingInputs \in Nat /\ pos \in Nat
  BY InvParts
<1> DEFINE p == PendingInputs
<1> DEFINE n == StageFramesNeeded(k)
<1>1. n = FramesNeeded(pos, p, k) /\ n \in Nat /\ p \in Nat
  BY <1>0, SizingIsSchedule, FramesNeededIsNat
<1>2. \A j \in Nat : StageOutputsFor(j) = OutputsFor(pos, p, j) /\ OutputsFor(pos, p, j) \in Nat
  BY <1>0, SizingIsSchedule, OutputsForSign
<1> HIDE DEF p, n
<1>3. k > 0 => StageOutputsFor(n) >= k /\ (n > 0 => StageOutputsFor(n - 1) < k)
  <2> SUFFICES ASSUME k > 0 PROVE StageOutputsFor(n) >= k /\ (n > 0 => StageOutputsFor(n - 1) < k)
    OBVIOUS
  <2>1. OutputsFor(pos, p, n) >= k /\ (n > 0 => OutputsFor(pos, p, n - 1) < k)
    BY <1>0, <1>1, FramesNeededIsMinimal
  <2>2. n > 0 => n - 1 \in Nat
    BY <1>1
  <2> QED BY <1>1, <1>2, <2>1, <2>2
<1>4. ASSUME NEW j \in 0..k PROVE StageOutputsFor(j) <= StageOutputsFor(k)
  <2>1. j \in Nat /\ j <= k
    OBVIOUS
  <2>2. OutputsFor(pos, p, j) <= OutputsFor(pos, p, k)
    BY <1>0, <1>1, <2>1, OutputsForMonotonic
  <2> QED BY <1>2, <2>1, <2>2
<1>5. p > 0 => StageOutputsFor(k) <= (k * L) \div M + 2
  <2>1. p > 0 => OutputsFor(pos, p, k) <= (k * L) \div M + 2
    BY <1>0, <1>1, OutputsForBound
  <2> QED BY <1>2, <2>1
<1> QED BY <1>1, <1>2, <1>3, <1>4, <1>5 DEF p, n

LEMMA RestingSizes == StageInv => FramesNeededIsLeast /\ ChainBound
<1>1. ASSUME StageInv, NEW k \in Blocks \ {0}
      PROVE  LET n == StageFramesNeeded(k)
             IN StageOutputsFor(n) >= k /\ (n > 0 => StageOutputsFor(n - 1) < k)
  <2>1. k \in Nat /\ k > 0
    BY StageAssumption
  <2> QED BY <1>1, <2>1, StageSizing
<1>2. ASSUME StageInv, pc = "idle", ~banked, NEW n \in Blocks
      PROVE  StageOutputsFor(n) <= (n * L) \div M + 2
  <2>1. n \in Nat /\ PendingInputs > 0
    BY <1>2, StageAssumption DEF StageInv, Owed
  <2> QED BY <1>2, <2>1, StageSizing
<1> QED BY <1>1, <1>2 DEF FramesNeededIsLeast, ChainBound

(* FramesNeededIsLeast: "the smallest n with outputs_for(n) >= out_frames", *)
(* from every position a call can leave the machine at.                     *)
THEOREM StageNeedsAreLeast == Spec => []FramesNeededIsLeast
BY RestingSizes, StageInvariant, PTL

(* ChainBound: the scratch a chain puts behind a stage is large enough.     *)
THEOREM StageOutputsAreBounded == Spec => []ChainBound
BY RestingSizes, StageInvariant, PTL

-----------------------------------------------------------------------------
(* Every step is the exact-rate engine's or leaves the stream alone.        *)
LEMMA StepIsExact == StageInv /\ [Driven]_vars => [Exact!Next]_<<fed, made>>
<1> SUFFICES ASSUME StageInv, [Driven]_vars PROVE [Exact!Next]_<<fed, made>>
  OBVIOUS
<1>0. /\ fed \in Nat /\ made \in Nat /\ Due(made) \in Nat /\ PendingInputs \in Nat /\ need \in Nat
      /\ OnSchedule /\ Owed /\ MachineOK /\ left \in Nat /\ fed + Short = Due(made) + 1 /\ Short \in Nat
  BY InvParts DEF StageInv, Short
<1>1. CASE UNCHANGED <<fed, made>>
  BY <1>1
<1>2. CASE Reset
  BY <1>2 DEF Reset, Exact!Next, Exact!Reset
<1>3. ASSUME fed' = fed + 1, made' = made, Short # 0 PROVE [Exact!Next]_<<fed, made>>
  <2>1. fed <= Exact!Due(made)
    BY <1>0, <1>3 DEF Exact!Due, Due
  <2> QED BY <1>3, <2>1 DEF Exact!Next, Exact!Step, Exact!TakesInput
<1>4. ASSUME fed' = fed, made' = made + 1, Short = 0 PROVE [Exact!Next]_<<fed, made>>
  <2>1. fed' = Exact!Due(made) + 1
    BY <1>0, <1>4 DEF Exact!Due, Due
  <2> QED BY <1>4, <2>1 DEF Exact!Next, Exact!Step, Exact!MakesOutput
<1>5. CASE ProcessDecimate \/ FlushDecimate
  <2>1. IsDecimator /\ TakeOne /\ ConsumeOne /\ left # 0 /\ (IF dphase = 0 THEN Sound ELSE Silent) /\ ~Pulling
    BY <1>5 DEF ProcessDecimate, FlushDecimate, Decimate, Pulling
  <2>2. fed' = fed + 1 /\ PendingInputs # 0 /\ (dphase = 0 <=> PendingInputs = 1) /\ Short = PendingInputs
    BY <2>1, InputTaken DEF Short
  <2>3. CASE dphase # 0
    BY <1>3, <2>1, <2>2, <2>3 DEF Silent
  <2>4. CASE dphase = 0
    <3>1. made' = made + 1
      BY <2>1, <2>4 DEF Sound
    <3>2. fed <= Exact!Due(made) /\ fed' = Exact!Due(made) + 1
      BY <1>0, <2>2, <2>4 DEF Exact!Due, Due
    <3> QED BY <2>2, <3>1, <3>2 DEF Exact!Next, Exact!Step, Exact!TakesInput, Exact!MakesOutput
  <2> QED BY <2>3, <2>4
<1>6. CASE ProcessAppend \/ FlushAppend
  <2>1. ~IsDecimator /\ ~Pulling /\ fed' = fed + 1 /\ made' = made
    BY <1>6 DEF ProcessAppend, FlushAppend, Pulling, TakeOne, Silent
  <2>2. pending # 0
    <3>1. CASE FlushAppend
      BY <3>1 DEF FlushAppend
    <3>2. CASE ProcessAppend
      <4>1. todo = OutputsFor(pos, pending, left) /\ pos \in Nat /\ pending \in Nat
        BY <1>0, <2>1, <3>2, SizingIsSchedule, InvParts DEF Owed, PendingInputs, ProcessAppend, MachineOK
      <4>2. OutputsFor(pos, pending, left) = 0 <=> left < pending
        BY <1>0, <4>1, OutputsForSign
      <4> QED BY <1>0, <3>2, <4>1, <4>2 DEF ProcessAppend
    <3> QED BY <1>6, <3>1, <3>2
  <2> QED BY <1>3, <2>1, <2>2 DEF Short, PendingInputs
<1>7. CASE PullAppend
  <2>1. left # 0 /\ left <= need /\ pc = "pull" /\ (todo = 0 => need = 0) /\ fed' = fed + 1 /\ made' = made
    BY <1>0, <1>7 DEF PullAppend, Owed, TakeOne, Silent
  <2> QED BY <1>0, <1>3, <2>1 DEF Short, Pulling
<1>8. CASE ProcessEmit \/ FlushEmit
  <2>1. ~Pulling /\ pending = 0 /\ fed' = fed /\ made' = made + 1
    BY <1>8 DEF ProcessEmit, FlushEmit, Pulling, Emit, Sound
  <2>2. ~IsDecimator
    BY <1>0, <2>1 DEF OnSchedule
  <2> QED BY <1>4, <2>1, <2>2 DEF Short, PendingInputs
<1>9. CASE PullEmit
  <2>1. Pulling /\ need = 0 /\ fed' = fed /\ made' = made + 1
    BY <1>9 DEF PullEmit, Pulling, Emit, Sound
  <2> QED BY <1>4, <2>1 DEF Short
<1>10. CASE FlushStart \/ \E n \in Nat : ProcessStart(n) \/ PullStart(n)
  BY <1>1, <1>10 DEF FlushStart, ProcessStart, PullStart, Start
<1>11. CASE PullPop \/ ProcessDone \/ PullDone \/ PullDry \/ FlushDone
  BY <1>1, <1>11 DEF PullPop, ProcessDone, PullDone, PullDry, FlushDone, Return
<1>12. CASE UNCHANGED vars
  BY <1>1, <1>12 DEF vars
<1> QED BY <1>2, <1>5, <1>6, <1>7, <1>8, <1>9, <1>10, <1>11, <1>12 DEF Driven, Works

(* A stage whose caller keeps to the calls but not to Blocks.               *)
DrivenSpec == Init /\ [][Driven]_vars

LEMMA DrivenIsExact == DrivenSpec => []StageInv /\ ImplementsExactRate
<1>1. Init => Exact!Init
  BY DEF Init, Exact!Init
<1>2. DrivenSpec => []StageInv
  BY InitHolds, StepKeeps, PTL DEF DrivenSpec
<1> QED BY <1>1, <1>2, StepIsExact, PTL DEF DrivenSpec, ImplementsExactRate, Exact!Spec, Exact!vars

(* ImplementsExactRate: the detailed machine, either of the two, refines    *)
(* the engine that makes output n on input floor(n M / L).                  *)
THEOREM StageIsExactRate == Spec => ImplementsExactRate
BY NextIsDriven, DrivenIsExact, PTL DEF Spec, DrivenSpec

-----------------------------------------------------------------------------
(* For whoever drives the stage: along a process() or a flush() the inputs  *)
(* are conserved, and so are the outputs that its block, with any r inputs  *)
(* more behind it, comes to.                                                *)
LEMMA CallConserves ==
  ASSUME StageInv, pc \in {"process", "flush"}, Works, NEW r \in Nat
  PROVE  /\ OutputsFor(pos', PendingInputs', left' + r) + made' =
              OutputsFor(pos, PendingInputs, left + r) + made
         /\ fed' + left' = fed + left /\ made' \in Nat /\ made <= made'
         /\ promise' = promise /\ banked' = banked /\ pc' \in {pc, "idle"}
         /\ pc' = "idle" => made' = promise
<1>0. /\ fed \in Nat /\ made \in Nat /\ PendingInputs \in Nat /\ pos \in Nat /\ left \in Nat /\ Owed
      /\ pos \in Positions /\ MachineOK /\ OnSchedule /\ left + r \in Nat
  BY InvParts DEF StageInv, MachineOK
<1>1. CASE \/ ProcessDecimate \/ FlushDecimate \/ ProcessAppend \/ FlushAppend
  <2>1. /\ TakeOne /\ ConsumeOne /\ left # 0 /\ (IsDecimator \/ pending # 0)
        /\ IF IsDecimator /\ dphase = 0 THEN Sound ELSE Silent
        /\ promise' = promise /\ banked' = banked /\ pc' = pc
    <3>1. ProcessAppend => left # 0 /\ pending # 0
      <4> SUFFICES ASSUME ProcessAppend PROVE left # 0 /\ pending # 0
        OBVIOUS
      <4>1. ~IsDecimator /\ todo = OutputsFor(pos, pending, left) /\ pending \in Nat
        BY <1>0, SizingIsSchedule DEF Owed, PendingInputs, ProcessAppend, MachineOK
      <4>2. OutputsFor(pos, pending, left) = 0 <=> left < pending
        BY <1>0, <4>1, OutputsForSign
      <4> QED BY <1>0, <4>1, <4>2 DEF ProcessAppend
    <3> QED BY <1>1, <3>1 DEF ProcessDecimate, FlushDecimate, Decimate, ProcessAppend, FlushAppend
  <2>2. /\ left' = left - 1 /\ fed' = fed + 1 /\ pos' = pos /\ PendingInputs # 0
        /\ PendingInputs' = (IF IsDecimator /\ dphase = 0 THEN M ELSE PendingInputs - 1)
        /\ IsDecimator => (dphase = 0 <=> PendingInputs = 1)
    BY <2>1, InputTaken
  <2> DEFINE p == PendingInputs
  <2> DEFINE pp == PendingInputs'
  <2> DEFINE n == left + r
  <2>3. p \in Nat \ {0} /\ n \in Nat \ {0} /\ left' + r = n - 1
    BY <1>0, <2>1, <2>2
  <2> HIDE DEF p, pp, n
  <2>4. OutputsFor(pos, p - 1, n - 1) = OutputsFor(pos, p, n) /\ OutputsFor(pos, p, n) \in Nat
    BY <1>0, <2>3, TakenInputIsCounted, OutputsForSign
  <2>5. CASE IsDecimator /\ dphase = 0
    <3>1. made' = made + 1 /\ pp = M /\ p = 1
      BY <2>1, <2>2, <2>5 DEF Sound, p, pp
    <3>2. pos = 0 /\ NextPos(pos) = 0 /\ Advance(pos) = M /\ n - 1 \in Nat
      BY <1>0, <2>3, <2>5, DecimatorSchedule
    <3>3. OutputsFor(NextPos(pos), Advance(pos), n - 1) = OutputsFor(pos, 0, n - 1) - 1
      BY <1>0, <3>2, MadeOutputIsCounted
    <3>4. OutputsFor(pos', pp, left' + r) = OutputsFor(pos, p, n) - 1
      <4>1. p - 1 = 0
        BY <3>1
      <4> QED BY <2>2, <2>3, <2>4, <3>1, <3>2, <3>3, <4>1
    <3>5. OutputsFor(pos', pp, left' + r) + made' = OutputsFor(pos, p, n) + made
      BY <1>0, <2>4, <3>1, <3>4
    <3> QED BY <1>0, <2>1, <2>2, <3>1, <3>5 DEF p, pp, n
  <2>6. CASE ~(IsDecimator /\ dphase = 0)
    <3>1. made' = made /\ pp = p - 1
      BY <2>1, <2>2, <2>6 DEF Silent, p, pp
    <3>2. OutputsFor(pos', pp, left' + r) + made' = OutputsFor(pos, p, n) + made
      BY <2>2, <2>3, <2>4, <3>1
    <3> QED BY <1>0, <2>1, <2>2, <3>1, <3>2 DEF p, pp, n
  <2> QED BY <2>5, <2>6
<1>2. CASE ProcessEmit \/ FlushEmit
  <2>1. /\ Emit /\ pending = 0 /\ left' = left /\ fed' = fed /\ promise' = promise /\ banked' = banked /\ pc' = pc
    BY <1>2 DEF ProcessEmit, FlushEmit, call
  <2>2. PendingInputs = 0 /\ fed = Due(made) + 1
    BY <1>0, <2>1 DEF OnSchedule, PendingInputs, Short, Pulling
  <2>3. made' = made + 1 /\ pos' = NextPos(pos) /\ PendingInputs' = Advance(pos)
    BY <2>1, <2>2, OutputEmitted
  <2>4. OutputsFor(NextPos(pos), Advance(pos), left + r) = OutputsFor(pos, 0, left + r) - 1
    BY <1>0, MadeOutputIsCounted
  <2>5. OutputsFor(pos, PendingInputs, left + r) \in Nat
    BY <1>0, OutputsForSign
  <2>6. OutputsFor(pos', PendingInputs', left' + r) = OutputsFor(pos, PendingInputs, left + r) - 1
    BY <2>1, <2>2, <2>3, <2>4
  <2>7. OutputsFor(pos', PendingInputs', left' + r) + made' = OutputsFor(pos, PendingInputs, left + r) + made
    BY <1>0, <2>3, <2>5, <2>6
  <2> QED BY <1>0, <2>1, <2>3, <2>7
<1>3. CASE ProcessDone \/ FlushDone
  <2>1. /\ left' = left /\ promise' = promise /\ banked' = banked /\ pc' = "idle"
        /\ UNCHANGED <<lines, machine, fed, made, heard>>
    BY <1>3 DEF ProcessDone, FlushDone, Return
  <2> QED BY <1>0, <1>3, <2>1, MachineStays, PromiseStep
<1>4. CASE PullPop \/ PullDry \/ PullAppend \/ PullEmit \/ PullDone
  BY <1>4 DEF PullPop, PullDry, PullAppend, PullEmit, PullDone
<1> QED BY <1>1, <1>2, <1>3, <1>4 DEF Works

(* Between calls the newest input is not one an output waits behind, and    *)
(* the last output is.                                                      *)
LEMMA RestingRate ==
  ASSUME StageInv, pc = "idle", ~banked
  PROVE  fed * L <= made * M /\ (made - 1) * M < fed * L
<1>0. /\ L \in Nat \ {0} /\ M \in Nat \ {0} /\ fed \in Nat /\ made \in Nat /\ Due(made) \in Nat
      /\ PendingInputs \in Nat /\ PendingInputs > 0 /\ OnSchedule
  BY InvParts, StageSizes DEF StageInv, Owed
<1>1. fed <= Due(made)
  BY <1>0 DEF OnSchedule, Short, Pulling
<1>2. fed * L <= made * M
  <2> DEFINE x == L * fed
  <2> DEFINE y == L * Due(made)
  <2>1. x <= y /\ x \in Nat /\ y \in Nat /\ fed * L = x /\ made * M \in Nat
    BY <1>0, <1>1
  <2>2. y <= made * M
    BY <1>0, DueIsFloor
  <2> HIDE DEF x, y
  <2> QED BY <2>1, <2>2
<1>3. CASE made = 0
  <2>1. (made - 1) * M = -M /\ fed * L \in Nat
    BY <1>0, <1>3
  <2> QED BY <1>0, <1>2, <2>1
<1>4. CASE made # 0
  <2> DEFINE m == made - 1
  <2> DEFINE d == Due(m)
  <2>1. m \in Nat /\ d \in Nat /\ d + 1 <= fed /\ m * M < L * d + L /\ m * M \in Nat
    <3>1. m \in Nat /\ made > 0
      BY <1>0, <1>4
    <3>2. d \in Nat /\ m * M < L * d + L
      BY <3>1, DueIsFloor
    <3>3. d < fed
      BY <1>0, <3>1 DEF OnSchedule
    <3> QED BY <1>0, <3>1, <3>2, <3>3
  <2> HIDE DEF m, d
  <2> DEFINE e == d + 1
  <2>2. L * e = L * d + L /\ L * d \in Nat /\ e \in Nat /\ e <= fed
    BY <1>0, <2>1
  <2> HIDE DEF e
  <2>3. L * e <= L * fed /\ L * fed \in Nat /\ L * e \in Nat /\ fed * L = L * fed
    BY <1>0, <2>2
  <2>4. m * M < fed * L
    BY <1>0, <2>1, <2>2, <2>3
  <2> QED BY <1>2, <2>4 DEF m
<1> QED BY <1>3, <1>4

=============================================================================
