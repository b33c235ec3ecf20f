---------------------------- MODULE BridgeProofs ----------------------------
(***************************************************************************)
(* Proofs about Schedule and BridgeConverter, for every ratio L/M, tap     *)
(* count and history size: the schedule is exact over any sequence of      *)
(* calls, the calls consume and produce what the sizing companions say,    *)
(* and every output has the newest inputs in its window.                   *)
(***************************************************************************)
EXTENDS BridgeConverter, ScheduleLemmas

(* The newest Taps entries of the delay line, whatever was compacted.       *)
NewestTaps ==
  /\ Len(hist) >= Taps
  /\ \A i \in 1..Taps : hist[Len(hist) - Taps + i] = fed - Taps + i

(* What a call under way has still to do is what the sizing arithmetic says *)
(* of the inputs, or the outputs, that are left.                            *)
Owed ==
  /\ pc = "idle" => left = 0 /\ todo = 0 /\ (~banked => pending > 0)
  /\ pc = "process" => todo = OutputsFor(pos, pending, left) /\ promise = made + todo
  /\ pc = "pull" => /\ left <= pending /\ (left # 0 => todo # 0) /\ banked
                    /\ promise = fed + FramesNeeded(pos, pending, todo)
  /\ pc = "flush" => todo = 0 /\ promise = made + OutputsFor(pos, pending, left)

BridgeInv == TypeOK /\ NewestTaps /\ ScheduleExact /\ Owed

-----------------------------------------------------------------------------
(* The machine, one input and one output at a time.                         *)

(* append_frame() and append_silence(): a compaction on the way leaves the  *)
(* newest entries where the next window looks for them.                     *)
LEMMA TakeOneKeepsHistory ==
  ASSUME TypeOK, NewestTaps, TakeOne
  PROVE  hist' \in Seq(Int) /\ Len(hist') <= HistCap /\ NewestTaps'
<1> DEFINE kept == Compacted
<1> DEFINE n == Len(kept)
<1>0. /\ Taps \in Nat \ {0} /\ Slack \in Nat \ {0} /\ HistCap = Taps + Slack
      /\ hist \in Seq(Int) /\ Len(hist) <= HistCap /\ Len(hist) >= Taps /\ fed \in Nat
      /\ Len(hist) \in Nat
  BY ConverterAssumption, TapsAssumption DEF HistCap, TypeOK, NewestTaps
<1>1. /\ kept \in Seq(Int) /\ n \in Nat /\ n >= Taps - 1 /\ n < HistCap
      /\ \A i \in 1..(Taps - 1) : kept[n - (Taps - 1) + i] = fed - (Taps - 1) + i
  <2>1. CASE Len(hist) = HistCap
    <3> DEFINE sub == SubSeq(hist, HistCap - Taps + 2, HistCap)
    <3>1. /\ sub \in Seq(Int) /\ Len(sub) = Taps - 1
          /\ \A i \in 1..(Taps - 1) : sub[i] = hist[HistCap - Taps + 1 + i]
      BY <1>0, <2>1
    <3>2. \A i \in 1..(Taps - 1) : sub[i] = fed - (Taps - 1) + i
      <4> SUFFICES ASSUME NEW i \in 1..(Taps - 1) PROVE sub[i] = fed - (Taps - 1) + i
        OBVIOUS
      <4>1. i + 1 \in 1..Taps /\ Len(hist) - Taps + (i + 1) = HistCap - Taps + 1 + i
        BY <1>0, <2>1
      <4>2. hist[Len(hist) - Taps + (i + 1)] = fed - Taps + (i + 1)
        BY <4>1 DEF NewestTaps
      <4>3. sub[i] = hist[HistCap - Taps + 1 + i]
        BY <3>1
      <4> QED BY <4>1, <4>2, <4>3, <1>0
    <3>3. kept = sub
      BY <2>1 DEF Compacted
    <3> HIDE DEF sub
    <3>4. /\ sub \in Seq(Int) /\ Len(sub) \in Nat /\ Len(sub) >= Taps - 1 /\ Len(sub) < HistCap
          /\ \A i \in 1..(Taps - 1) : sub[Len(sub) - (Taps - 1) + i] = fed - (Taps - 1) + i
      <4>1. \A i \in 1..(Taps - 1) : Len(sub) - (Taps - 1) + i = i
        BY <1>0, <3>1
      <4> QED BY <1>0, <3>1, <3>2, <4>1
    <3> QED BY <3>3, <3>4
  <2>2. CASE Len(hist) # HistCap
    <3>1. kept = hist
      BY <2>2 DEF Compacted
    <3> SUFFICES \A i \in 1..(Taps - 1) : hist[Len(hist) - (Taps - 1) + i] = fed - (Taps - 1) + i
      BY <1>0, <2>2, <3>1
    <3> SUFFICES ASSUME NEW i \in 1..(Taps - 1)
                 PROVE  hist[Len(hist) - (Taps - 1) + i] = fed - (Taps - 1) + i
      OBVIOUS
    <3>2. i + 1 \in 1..Taps /\ Len(hist) - Taps + (i + 1) = Len(hist) - (Taps - 1) + i
      BY <1>0
    <3>3. hist[Len(hist) - Taps + (i + 1)] = fed - Taps + (i + 1)
      BY <3>2 DEF NewestTaps
    <3> QED BY <1>0, <3>2, <3>3
  <2> QED BY <2>1, <2>2
<1>2. hist' = Append(kept, fed + 1) /\ fed' = fed + 1
  BY DEF TakeOne
<1> HIDE DEF kept
<1>3. /\ hist' \in Seq(Int) /\ Len(hist') = n + 1
      /\ hist'[n + 1] = fed + 1
      /\ \A j \in 1..n : hist'[j] = kept[j]
  BY <1>0, <1>1, <1>2
<1>4. ASSUME NEW i \in 1..Taps PROVE hist'[Len(hist') - Taps + i] = fed' - Taps + i
  <2>1. CASE i = Taps
    <3>1. Len(hist') - Taps + i = n + 1 /\ fed' - Taps + i = fed + 1
      BY <1>0, <1>1, <1>2, <1>3, <2>1
    <3> QED BY <1>3, <3>1
  <2>2. CASE i # Taps
    <3>1. /\ i \in 1..(Taps - 1) /\ n - (Taps - 1) + i \in 1..n
          /\ Len(hist') - Taps + i = n - (Taps - 1) + i
          /\ fed' - Taps + i = fed - (Taps - 1) + i
      BY <1>0, <1>1, <1>2, <1>3, <2>2
    <3>2. hist'[n - (Taps - 1) + i] = kept[n - (Taps - 1) + i]
      BY <1>3, <3>1
    <3> QED BY <1>1, <3>1, <3>2
  <2> QED BY <2>1, <2>2
<1>5. Len(hist') >= Taps /\ Len(hist') <= HistCap
  BY <1>0, <1>1, <1>3
<1> QED BY <1>3, <1>4, <1>5 DEF NewestTaps

(* emit(): the schedule moves to the next output's due input.               *)
LEMMA EmitKeepsSchedule ==
  ASSUME TypeOK, ScheduleExact, pending = 0, Emit, UNCHANGED fed
  PROVE  ScheduleExact' /\ pos' \in Positions /\ pending' \in Nat /\ made' \in Nat
<1>0. /\ made \in Nat /\ fed \in Nat /\ pos \in Positions /\ pos \in Nat
      /\ pos = made % L /\ fed + pending = Due(made) + 1
  BY NextPosition DEF TypeOK, ScheduleExact, Due
<1>1. pending' = Advance(pos) /\ pos' = NextPos(pos) /\ made' = made + 1 /\ fed' = fed
  BY DEF Emit
<1>2. Advance(pos) \in Nat /\ Due(made) \in Nat
  BY <1>0, AdvanceIsNat, DueIsFloor
<1>3. Due(made + 1) = Due(made) + Advance(pos) /\ NextPos(pos) = (made + 1) % L
  BY <1>0, NextOutput
<1>4. fed' + pending' = Due(made') + 1
  BY <1>0, <1>1, <1>2, <1>3
<1>5. pos' = made' % L /\ pos' \in Positions
  BY <1>0, <1>1, <1>3, NextPosition
<1> QED BY <1>0, <1>1, <1>2, <1>4, <1>5 DEF ScheduleExact, Due

-----------------------------------------------------------------------------
(* The calls.                                                               *)

LEMMA InitBridgeInv == Init => BridgeInv
<1> SUFFICES ASSUME Init PROVE BridgeInv
  OBVIOUS
<1>0. Taps \in Nat \ {0} /\ Slack \in Nat \ {0} /\ L \in Nat \ {0} /\ M \in Nat \ {0}
  BY ConverterAssumption, TapsAssumption, RatioAssumption
<1>1. /\ hist \in Seq(Int) /\ Len(hist) = Taps
      /\ \A i \in 1..Taps : hist[i] = i - Taps
  BY <1>0 DEF Init, Silence
<1>2. hist \in Seq(Int) /\ Len(hist) <= HistCap
  BY <1>0, <1>1 DEF HistCap
<1>3. /\ pos = 0 /\ pending = 1 /\ pc = "idle" /\ left = 0 /\ todo = 0
      /\ fed = 0 /\ made = 0 /\ promise = 0
  BY DEF Init
<1>4. ~banked /\ banked \in BOOLEAN
  BY DEF Init
<1>5. TypeOK
  BY <1>0, <1>2, <1>3, <1>4 DEF TypeOK, Positions
<1>6. NewestTaps
  <2>1. ASSUME NEW i \in 1..Taps PROVE hist[Len(hist) - Taps + i] = fed - Taps + i
    <3>1. Len(hist) - Taps + i = i /\ fed - Taps + i = i - Taps
      BY <1>0, <1>1, <1>3
    <3> QED BY <1>1, <3>1
  <2> QED BY <1>0, <1>1, <2>1 DEF NewestTaps
<1>7. ScheduleExact
  <2>1. 0 % L = 0 /\ (0 * M) \div L = 0
    <3>1. 0 = L * 0 + 0 /\ 0 \in 0..(L - 1) /\ 0 * M = 0
      BY <1>0
    <3> QED BY <3>1, <1>0, DivUnique
  <2> QED BY <1>3, <2>1 DEF ScheduleExact
<1> QED BY <1>3, <1>4, <1>5, <1>6, <1>7 DEF BridgeInv, Owed

LEMMA ResetKeeps ==
  ASSUME BridgeInv, Reset
  PROVE  BridgeInv'
<1>0. Taps \in Nat \ {0} /\ Slack \in Nat \ {0} /\ L \in Nat \ {0} /\ M \in Nat \ {0}
  BY ConverterAssumption, TapsAssumption, RatioAssumption
<1>1. /\ hist' \in Seq(Int) /\ Len(hist') = Taps
      /\ \A i \in 1..Taps : hist'[i] = i - Taps
  BY <1>0 DEF Reset, Silence
<1>2. hist' \in Seq(Int) /\ Len(hist') <= HistCap
  BY <1>0, <1>1 DEF HistCap
<1>3. /\ pos' = 0 /\ pending' = 1 /\ pc = "idle" /\ UNCHANGED <<pc, left, todo>>
      /\ fed' = 0 /\ made' = 0 /\ promise' = 0
  BY DEF Reset, call
<1>4. ~banked' /\ banked' \in BOOLEAN
  BY DEF Reset
<1>5. TypeOK'
  BY <1>0, <1>2, <1>3, <1>4 DEF BridgeInv, TypeOK, Positions
<1>6. NewestTaps'
  <2>1. ASSUME NEW i \in 1..Taps PROVE hist'[Len(hist') - Taps + i] = fed' - Taps + i
    <3>1. Len(hist') - Taps + i = i /\ fed' - Taps + i = i - Taps
      BY <1>0, <1>1, <1>3
    <3> QED BY <1>1, <3>1
  <2> QED BY <1>0, <1>1, <2>1 DEF NewestTaps
<1>7. ScheduleExact'
  <2>1. 0 % L = 0 /\ (0 * M) \div L = 0
    <3>1. 0 = L * 0 + 0 /\ 0 \in 0..(L - 1) /\ 0 * M = 0
      BY <1>0
    <3> QED BY <3>1, <1>0, DivUnique
  <2> QED BY <1>3, <2>1 DEF ScheduleExact
<1> QED BY <1>3, <1>4, <1>5, <1>6, <1>7 DEF BridgeInv, Owed

(* Starting and ending a call, and a pop into the scratch, leave the stream *)
(* alone.                                                                   *)
LEMMA StreamUntouched ==
  ASSUME BridgeInv, UNCHANGED <<hist, pos, pending, fed, made>>
  PROVE  /\ NewestTaps' /\ ScheduleExact'
         /\ hist' \in Seq(Int) /\ Len(hist') <= HistCap
         /\ pos' \in Positions /\ pending' \in Nat /\ fed' \in Nat /\ made' \in Nat
         /\ pos \in Nat /\ pending \in Nat /\ fed \in Nat /\ made \in Nat
BY RatioAssumption DEF BridgeInv, TypeOK, NewestTaps, ScheduleExact, HistCap, Positions

LEMMA StartKeeps ==
  ASSUME BridgeInv,
         \/ \E n \in Blocks : ProcessStart(n) \/ PullStart(n)
         \/ FlushStart
  PROVE  BridgeInv'
<1>0. Taps \in Nat
  BY ConverterAssumption, TapsAssumption
<1>1. UNCHANGED <<hist, pos, pending, fed, made>> /\ pc = "idle"
  BY DEF ProcessStart, PullStart, FlushStart, stream
<1>2. /\ NewestTaps' /\ ScheduleExact'
      /\ hist' \in Seq(Int) /\ Len(hist') <= HistCap
      /\ pos' \in Positions /\ pending' \in Nat /\ fed' \in Nat /\ made' \in Nat
      /\ pos \in Nat /\ pending \in Nat /\ fed \in Nat /\ made \in Nat
  BY <1>1, StreamUntouched
<1>3. left = 0 /\ todo = 0
  BY <1>1 DEF BridgeInv, Owed
<1>4. ASSUME NEW n \in Blocks, ProcessStart(n) PROVE BridgeInv'
  <2>1. n \in Nat /\ OutputsFor(pos, pending, n) \in Nat
    BY <1>2, ConverterAssumption, TapsAssumption, OutputsForSign
  <2>2. /\ pc' = "process" /\ left' = n /\ todo' = OutputsFor(pos, pending, n)
        /\ promise' = made + todo'
    BY <1>4 DEF ProcessStart
  <2>3. ~banked' /\ banked' \in BOOLEAN
    BY <1>4 DEF ProcessStart
  <2>4. TypeOK'
    BY <1>1, <1>2, <2>1, <2>2, <2>3 DEF TypeOK
  <2> QED BY <1>1, <1>2, <2>2, <2>3, <2>4 DEF BridgeInv, Owed
<1>5. ASSUME NEW n \in Blocks, PullStart(n) PROVE BridgeInv'
  <2>1. n \in Nat /\ FramesNeeded(pos, pending, n) \in Nat
    BY <1>2, ConverterAssumption, TapsAssumption, FramesNeededIsNat
  <2>2. /\ pc' = "pull" /\ left' = 0 /\ todo' = n
        /\ promise' = fed + FramesNeeded(pos, pending, n)
    BY <1>3, <1>5 DEF PullStart
  <2>3. banked' /\ banked' \in BOOLEAN
    BY <1>5 DEF PullStart
  <2>4. TypeOK'
    BY <1>1, <1>2, <2>1, <2>2, <2>3 DEF TypeOK
  <2> QED BY <1>1, <1>2, <2>2, <2>3, <2>4 DEF BridgeInv, Owed
<1>6. ASSUME FlushStart PROVE BridgeInv'
  <2>1. OutputsFor(pos, pending, Taps) \in Nat
    BY <1>0, <1>2, OutputsForSign
  <2>2. /\ pc' = "flush" /\ left' = Taps /\ todo' = 0
        /\ promise' = made + OutputsFor(pos, pending, Taps)
    BY <1>3, <1>6 DEF FlushStart
  <2>3. ~banked' /\ banked' \in BOOLEAN
    BY <1>6 DEF FlushStart
  <2>4. TypeOK'
    BY <1>0, <1>1, <1>2, <2>1, <2>2, <2>3 DEF TypeOK
  <2> QED BY <1>1, <1>2, <2>2, <2>3, <2>4 DEF BridgeInv, Owed
<1> QED BY <1>4, <1>5, <1>6

(* The leftover of a process() and the zeros of a flush() end short of the  *)
(* next output.                                                             *)
LEMMA EndKeeps ==
  ASSUME BridgeInv, ProcessDone \/ PullDone \/ PullDry \/ FlushDone
  PROVE  BridgeInv'
<1>1. UNCHANGED <<hist, pos, pending, fed, made, promise, banked>>
  BY DEF ProcessDone, PullDone, PullDry, FlushDone, Return, stream
<1>2. pc' = "idle" /\ left' = 0 /\ todo' = 0
  BY DEF ProcessDone, PullDone, PullDry, FlushDone, Return
<1>3. /\ NewestTaps' /\ ScheduleExact'
      /\ hist' \in Seq(Int) /\ Len(hist') <= HistCap
      /\ pos' \in Positions /\ pending' \in Nat /\ fed' \in Nat /\ made' \in Nat
      /\ pos \in Nat /\ pending \in Nat /\ fed \in Nat /\ made \in Nat
  BY <1>1, StreamUntouched
<1>4. banked \/ pending > 0
  <2>1. CASE ProcessDone
    <3>1. pc = "process" /\ todo = 0 /\ left = 0
      BY <2>1 DEF ProcessDone
    <3>2. OutputsFor(pos, pending, 0) = 0
      BY <3>1 DEF BridgeInv, Owed
    <3> QED BY <1>3, <3>2, OutputsForSign
  <2>2. CASE PullDone \/ PullDry
    BY <2>2 DEF PullDone, PullDry, BridgeInv, Owed
  <2>3. CASE FlushDone
    BY <2>3, <1>3 DEF FlushDone
  <2> QED BY <2>1, <2>2, <2>3
<1>5. TypeOK'
  BY <1>1, <1>2, <1>3 DEF BridgeInv, TypeOK
<1> QED BY <1>1, <1>2, <1>3, <1>4, <1>5 DEF BridgeInv, Owed

(* No call takes an input the next output does not wait for, and none more  *)
(* than it was given.                                                       *)
LEMMA AppendIsDue ==
  ASSUME BridgeInv, ProcessAppend \/ PullAppend \/ FlushAppend
  PROVE  pending # 0 /\ left # 0
<1>1. pos \in Nat /\ pending \in Nat /\ left \in Nat /\ todo \in Nat
  BY NextPosition DEF BridgeInv, TypeOK
<1>2. CASE ProcessAppend
  <2>0. \/ todo # 0 /\ pending # 0
        \/ todo = 0 /\ left # 0
    BY <1>2 DEF ProcessAppend
  <2>1. todo = OutputsFor(pos, pending, left)
    BY <1>2 DEF BridgeInv, Owed, ProcessAppend
  <2>2. todo = 0 <=> left < pending
    BY <1>1, <2>1, OutputsForSign
  <2> QED BY <1>1, <2>0, <2>2
<1>3. CASE PullAppend
  BY <1>3, <1>1 DEF PullAppend, BridgeInv, Owed
<1>4. CASE FlushAppend
  BY <1>4 DEF FlushAppend
<1> QED BY <1>2, <1>3, <1>4

(* A call takes one input: process() and pull() for an output they still    *)
(* owe or as leftover, flush() as long as the next output waits.            *)
LEMMA AppendKeeps ==
  ASSUME BridgeInv, ProcessAppend \/ PullAppend \/ FlushAppend
  PROVE  BridgeInv'
<1>1. /\ TakeOne /\ UNCHANGED <<pos, pc, todo, made, promise, banked>>
      /\ pc \in {"process", "pull", "flush"}
  BY DEF ProcessAppend, PullAppend, FlushAppend
<1>2. fed' = fed + 1 /\ pending' = pending - 1 /\ left' = left - 1
  BY <1>1 DEF TakeOne
<1>3. /\ pos \in Positions /\ pos \in Nat /\ pending \in Nat /\ left \in Nat /\ todo \in Nat
      /\ fed \in Nat /\ made \in Nat /\ promise \in Nat
  BY NextPosition DEF BridgeInv, TypeOK
<1>4. pending # 0 /\ left # 0
  BY AppendIsDue
<1>5. hist' \in Seq(Int) /\ Len(hist') <= HistCap /\ NewestTaps'
  BY <1>1, TakeOneKeepsHistory DEF BridgeInv
<1>6. ScheduleExact'
  BY <1>1, <1>2, <1>3 DEF BridgeInv, ScheduleExact
<1>7. TypeOK'
  BY <1>1, <1>2, <1>3, <1>4, <1>5 DEF BridgeInv, TypeOK
<1>8. OutputsFor(pos', pending', left') = OutputsFor(pos, pending, left)
  BY <1>1, <1>2, <1>3, <1>4, TakenInputIsCounted
<1>9. todo # 0 => FramesNeeded(pos', pending', todo') = FramesNeeded(pos, pending, todo) - 1
  BY <1>1, <1>2, <1>3, <1>4, TakenInputIsCounted
<1>10. FramesNeeded(pos, pending, todo) \in Nat
  BY <1>3, FramesNeededIsNat
<1>11. Owed'
  <2>1. CASE pc = "process"
    BY <2>1, <1>1, <1>8 DEF BridgeInv, Owed
  <2>2. CASE pc = "pull"
    BY <2>2, <1>1, <1>2, <1>3, <1>4, <1>9, <1>10 DEF BridgeInv, Owed
  <2>3. CASE pc = "flush"
    BY <2>3, <1>1, <1>8 DEF BridgeInv, Owed
  <2> QED BY <1>1, <2>1, <2>2, <2>3
<1> QED BY <1>5, <1>6, <1>7, <1>11 DEF BridgeInv

(* A call makes one output.                                                 *)
LEMMA EmitKeeps ==
  ASSUME BridgeInv, ProcessEmit \/ PullEmit \/ FlushEmit
  PROVE  BridgeInv'
<1>1. /\ Emit /\ pending = 0 /\ UNCHANGED <<hist, pc, left, fed, promise, banked>>
      /\ pc \in {"process", "pull", "flush"}
      /\ IF pc = "flush" THEN todo' = todo ELSE todo # 0 /\ todo' = todo - 1
  BY DEF ProcessEmit, PullEmit, FlushEmit, call
<1>2. pending' = Advance(pos) /\ pos' = NextPos(pos) /\ made' = made + 1
  BY <1>1 DEF Emit
<1>3. /\ pos \in Positions /\ pos \in Nat /\ pending \in Nat /\ left \in Nat /\ todo \in Nat
      /\ fed \in Nat /\ made \in Nat /\ promise \in Nat
  BY NextPosition DEF BridgeInv, TypeOK
<1>4. ScheduleExact' /\ pos' \in Positions /\ pending' \in Nat /\ made' \in Nat
  BY <1>1, EmitKeepsSchedule DEF BridgeInv
<1>5. NewestTaps'
  BY <1>1 DEF BridgeInv, NewestTaps
<1>6. TypeOK'
  <2>1. todo' \in Nat
    BY <1>1, <1>3
  <2> QED BY <1>1, <1>4, <2>1 DEF BridgeInv, TypeOK, HistCap
<1>7. OutputsFor(pos', pending', left') = OutputsFor(pos, 0, left) - 1
  BY <1>1, <1>2, <1>3, MadeOutputIsCounted
<1>8. pc = "pull" => FramesNeeded(pos', pending', todo') = FramesNeeded(pos, 0, todo)
  BY <1>1, <1>2, <1>3, MadeOutputNeedsNoMore
<1>9. OutputsFor(pos, 0, left) \in Nat
  BY <1>3, OutputsForSign
<1>10. Owed'
  <2>1. CASE pc = "process"
    BY <2>1, <1>1, <1>2, <1>3, <1>7, <1>9 DEF BridgeInv, Owed
  <2>2. CASE pc = "pull"
    BY <2>2, <1>1, <1>2, <1>3, <1>4, <1>8 DEF BridgeInv, Owed
  <2>3. CASE pc = "flush"
    BY <2>3, <1>1, <1>2, <1>3, <1>7, <1>9 DEF BridgeInv, Owed
  <2> QED BY <1>1, <2>1, <2>2, <2>3
<1> QED BY <1>4, <1>5, <1>6, <1>10 DEF BridgeInv

LEMMA PullPopKeeps ==
  ASSUME BridgeInv, PullPop
  PROVE  BridgeInv'
<1>1. /\ pc = "pull" /\ todo # 0 /\ UNCHANGED <<hist, pos, pending, pc, todo, fed, made, promise, banked>>
  BY DEF PullPop, stream
<1>2. left' \in Nat /\ left' <= pending
  BY ConverterAssumption, TapsAssumption DEF PullPop, Want, BridgeInv, TypeOK
<1>3. /\ NewestTaps' /\ ScheduleExact'
      /\ hist' \in Seq(Int) /\ Len(hist') <= HistCap
      /\ pos' \in Positions /\ pending' \in Nat /\ fed' \in Nat /\ made' \in Nat
  BY <1>1, StreamUntouched
<1>4. TypeOK'
  BY <1>1, <1>2, <1>3 DEF BridgeInv, TypeOK
<1> QED BY <1>1, <1>2, <1>3, <1>4 DEF BridgeInv, Owed

LEMMA NextKeepsBridgeInv == BridgeInv /\ [Next]_vars => BridgeInv'
<1> SUFFICES ASSUME BridgeInv, [Next]_vars PROVE BridgeInv'
  OBVIOUS
<1>1. CASE Reset
  BY <1>1, ResetKeeps
<1>2. CASE (\E n \in Blocks : ProcessStart(n) \/ PullStart(n)) \/ FlushStart
  BY <1>2, StartKeeps
<1>3. CASE ProcessAppend \/ PullAppend \/ FlushAppend
  BY <1>3, AppendKeeps
<1>4. CASE ProcessEmit \/ PullEmit \/ FlushEmit
  BY <1>4, EmitKeeps
<1>5. CASE PullPop
  BY <1>5, PullPopKeeps
<1>6. CASE ProcessDone \/ PullDone \/ PullDry \/ FlushDone
  BY <1>6, EndKeeps
<1>7. CASE UNCHANGED vars
  <2>1. TypeOK' /\ NewestTaps' /\ ScheduleExact'
    BY <1>7 DEF vars, stream, call, BridgeInv, TypeOK, HistCap, NewestTaps, ScheduleExact
  <2> QED BY <1>7, <2>1 DEF vars, stream, call, BridgeInv, Owed
<1> QED BY <1>1, <1>2, <1>3, <1>4, <1>5, <1>6, <1>7 DEF Next

-----------------------------------------------------------------------------
(* The inductive invariant: the schedule, the newest window and what the    *)
(* call under way still owes, after any sequence of calls.                  *)
THEOREM BridgeInvariant == Spec => []BridgeInv
<1> QED BY InitBridgeInv, NextKeepsBridgeInv, PTL DEF Spec

(* The delay line stays within its allocation, and no count of append_frame *)
(* or emit() goes below zero.                                               *)
THEOREM BridgeTypeCorrect == Spec => []TypeOK
<1>1. BridgeInv => TypeOK
  BY DEF BridgeInv
<1> QED BY <1>1, BridgeInvariant, PTL

(* "No drift ever", for every ratio: output number n is due exactly when    *)
(* input floor(n M / L) has arrived, across process(), pull() and flush().  *)
THEOREM ScheduleIsExact == Spec => []ScheduleExact
<1>1. BridgeInv => ScheduleExact
  BY DEF BridgeInv
<1> QED BY <1>1, BridgeInvariant, PTL

(* process() settles its output count up front, so its loops need no bound  *)
(* checks: they neither read past the block nor emit out of the leftover.   *)
THEOREM ProcessStaysInBlock == Spec => []NeverOutrunsInput
<1>1. BridgeInv => NeverOutrunsInput
  <2> SUFFICES ASSUME BridgeInv, pc = "process" PROVE NeverOutrunsInput
    BY DEF NeverOutrunsInput
  <2>1. pos \in Nat /\ pending \in Nat /\ left \in Nat /\ todo = OutputsFor(pos, pending, left)
    BY NextPosition DEF BridgeInv, TypeOK, Owed
  <2>2. todo = 0 <=> left < pending
    BY <2>1, OutputsForSign
  <2> QED BY <2>1, <2>2 DEF NeverOutrunsInput
<1> QED BY <1>1, BridgeInvariant, PTL

(* Every output is computed from the newest inputs, in order and none       *)
(* missing, whatever compactions its delay line has been through.           *)
THEOREM WindowIsIntact == Spec => []WindowIntact
<1>1. BridgeInv => WindowIntact
  <2> SUFFICES ASSUME BridgeInv, pending = 0
               PROVE  /\ Len(hist) >= Taps
                      /\ \A i \in 1..Taps :
                           hist[Len(hist) - Taps + i] = (made * M) \div L + 1 - Taps + i
    BY DEF WindowIntact
  <2> DEFINE due == (made * M) \div L
  <2>1. fed \in Nat /\ due \in Int /\ Taps \in Nat
    BY ConverterAssumption, TapsAssumption, DueIsFloor DEF BridgeInv, TypeOK, Due
  <2>2. fed = due + 1
    <3>1. fed + 0 = due + 1
      BY DEF BridgeInv, ScheduleExact
    <3> QED BY <2>1, <3>1
  <2> HIDE DEF due
  <2>3. \A i \in 1..Taps : fed - Taps + i = due + 1 - Taps + i
    BY <2>1, <2>2
  <2>4. /\ Len(hist) >= Taps
        /\ \A i \in 1..Taps : hist[Len(hist) - Taps + i] = due + 1 - Taps + i
    BY <2>3 DEF BridgeInv, NewestTaps
  <2> QED BY <2>4 DEF due
<1> QED BY <1>1, BridgeInvariant, PTL

(* Half a table is a whole one: an upper branch read backward from its      *)
(* partner has the coefficients of the prototype that are its own.          *)
LEMMA HalfTableIsWhole ==
  ASSUME NEW ph \in 0..(L - 1), NEW u \in 0..(Taps - 1)
  PROVE  At(ph, u) = Prototype[ph + (Taps - 1 - u) * L]
<1> DEFINE own == ph + (Taps - 1 - u) * L
<1>0. L \in Nat \ {0} /\ Taps \in Nat \ {0}
  BY RatioAssumption, TapsAssumption
<1>1. CASE ~IsMirrored(ph)
  <2>0. Stored \in Int
    BY <1>0, DivParts DEF Stored
  <2>1. StoredIndex(ph) = ph
    BY <1>1, <2>0 DEF IsMirrored, StoredIndex
  <2>2. (Taps - 1 - u) * L + ph = own
    BY <1>0
  <2> QED BY <1>1, <2>1, <2>2 DEF At, Row
<1>2. CASE IsMirrored(ph)
  <2> DEFINE partner == (Taps - 1 - (Taps - 1 - u)) * L + (L - 1 - ph)
  <2>1. StoredIndex(ph) = L - 1 - ph /\ Taps - 1 - u \in 0..(Taps - 1)
    BY <1>0, <1>2 DEF IsMirrored, StoredIndex, Stored
  <2>2. At(ph, u) = Prototype[partner]
    BY <1>2, <2>1 DEF At, Row
  <2>3. /\ u * L \in Nat /\ (Taps - 1 - u) * L \in Nat
        /\ L * Taps = u * L + (Taps - 1 - u) * L + L
    BY <1>0
  <2>4. Taps - 1 - (Taps - 1 - u) = u
    BY <1>0
  <2>5. partner = L * Taps - 1 - own /\ own \in 0..(L * Taps - 1)
    BY <1>0, <2>3, <2>4
  <2> HIDE DEF partner, own
  <2>6. Prototype[own] = Prototype[L * Taps - 1 - own]
    BY <2>5, PrototypeAssumption
  <2> QED BY <2>2, <2>5, <2>6 DEF own
<1> QED BY <1>1, <1>2

(* The alignment contract of the converter: for every ratio, every number   *)
(* of taps and every linear-phase prototype, output n is the convolution    *)
(* sum of upfirdn, computed from half a table by any sequence of calls.     *)
THEOREM ConverterConvolves == Spec => []IsConvolution
<1>1. ASSUME BridgeInv, WindowIntact PROVE IsConvolution
  <2> SUFFICES ASSUME pc # "idle", pending = 0
               PROVE  /\ Len(hist) >= Taps
                      /\ Products = [i \in 1..Taps |->
                           LET k == Taps - i
                           IN <<(made * M) \div L - k + 1, Prototype[((made * M) % L) + k * L]>>]
    BY DEF IsConvolution
  <2> DEFINE due == (made * M) \div L
  <2> DEFINE ph == (made * M) % L
  <2>0. L \in Nat \ {0} /\ Taps \in Nat \ {0}
    BY RatioAssumption, TapsAssumption
  <2>1. made \in Nat /\ due \in Int
    BY <1>1, DueIsFloor DEF BridgeInv, TypeOK, Due
  <2>2. PhaseOf(pos) = ph /\ ph \in 0..(L - 1)
    BY <1>1, <2>1, PhaseOfPosition DEF BridgeInv, ScheduleExact
  <2>3. Len(hist) >= Taps /\ \A i \in 1..Taps : hist[Len(hist) - Taps + i] = due + 1 - Taps + i
    BY <1>1 DEF WindowIntact
  <2> HIDE DEF due, ph
  <2>4. ASSUME NEW i \in 1..Taps
        PROVE  /\ hist[Len(hist) - Taps + i] = due - (Taps - i) + 1
               /\ At(PhaseOf(pos), i - 1) = Prototype[ph + (Taps - i) * L]
    <3>1. due + 1 - Taps + i = due - (Taps - i) + 1
      BY <2>0, <2>1
    <3>2. i - 1 \in 0..(Taps - 1) /\ Taps - 1 - (i - 1) = Taps - i
      BY <2>0
    <3>3. At(ph, i - 1) = Prototype[ph + (Taps - 1 - (i - 1)) * L]
      BY <2>2, <3>2, HalfTableIsWhole
    <3> QED BY <2>2, <2>3, <3>1, <3>2, <3>3
  <2>5. Products = [i \in 1..Taps |-> <<due - (Taps - i) + 1, Prototype[ph + (Taps - i) * L]>>]
    BY <2>4 DEF Products
  <2> QED BY <2>3, <2>5 DEF due, ph
<1> QED BY <1>1, BridgeInvariant, WindowIsIntact, PTL

(* process() and flush() write exactly what outputs_for() said, pull()      *)
(* consumes exactly what frames_needed() said, or less when its source runs *)
(* dry: for every ratio, block size and chunking of the pops.               *)
THEOREM SizingIsTrue == Spec => PromisesKept
<1>1. ASSUME BridgeInv
      PROVE  /\ ProcessDone \/ FlushDone => made = promise
             /\ PullDone => fed = promise
             /\ PullDry => fed < promise
  <2>0. /\ pos \in Nat /\ pending \in Nat /\ left \in Nat /\ todo \in Nat
        /\ fed \in Nat /\ made \in Nat /\ promise \in Nat
    BY <1>1, NextPosition DEF BridgeInv, TypeOK
  <2>1. ProcessDone => made = promise
    BY <1>1, <2>0 DEF BridgeInv, Owed, ProcessDone
  <2>2. FlushDone => made = promise
    <3> SUFFICES ASSUME FlushDone PROVE made = promise
      OBVIOUS
    <3>1. pc = "flush" /\ left = 0 /\ pending # 0
      BY DEF FlushDone
    <3>2. OutputsFor(pos, pending, left) = 0
      BY <2>0, <3>1, OutputsForSign
    <3> QED BY <1>1, <2>0, <3>1, <3>2 DEF BridgeInv, Owed
  <2>3. PullDone => fed = promise
    <3> SUFFICES ASSUME PullDone PROVE fed = promise
      OBVIOUS
    <3>1. FramesNeeded(pos, pending, todo) = 0 /\ pc = "pull"
      BY DEF PullDone, FramesNeeded
    <3> QED BY <1>1, <2>0, <3>1 DEF BridgeInv, Owed
  <2>4. PullDry => fed < promise
    <3> SUFFICES ASSUME PullDry PROVE fed < promise
      OBVIOUS
    <3>1. pc = "pull" /\ todo # 0 /\ pending # 0
      BY DEF PullDry
    <3>2. FramesNeeded(pos, pending, todo) \in Nat /\ FramesNeeded(pos, pending, todo) >= pending
      BY <2>0, <3>1, FramesNeededIsNat
    <3> QED BY <1>1, <2>0, <3>1, <3>2 DEF BridgeInv, Owed
  <2> QED BY <2>1, <2>2, <2>3, <2>4
<1>2. BridgeInv => [/\ ProcessDone \/ FlushDone => made = promise
                    /\ PullDone => fed = promise
                    /\ PullDry => fed < promise]_vars
  BY <1>1
<1> QED BY <1>2, BridgeInvariant, PTL DEF PromisesKept

(* What a chain's scratch is sized by: a block of n inputs yields at most   *)
(* floor(n L / M) + 2 outputs, wherever in the superblock it starts.        *)
THEOREM ChainBoundHolds == Spec => []ChainBound
<1>1. BridgeInv => ChainBound
  <2> SUFFICES ASSUME BridgeInv, pc = "idle", ~banked, NEW n \in Blocks
               PROVE  OutputsFor(pos, pending, n) <= (n * L) \div M + 2
    BY DEF ChainBound
  <2>1. pos \in Nat /\ pending \in Nat \ {0} /\ n \in Nat
    BY NextPosition, ConverterAssumption DEF BridgeInv, TypeOK, Owed
  <2> QED BY <2>1, OutputsForBound
<1> QED BY <1>1, BridgeInvariant, PTL

(* process(), pull() and flush() in any chunking all implement the one      *)
(* abstract engine: an output is computed when its due input has arrived,   *)
(* and an input is taken only while the next output waits for it.           *)
THEOREM ConverterIsExactRate == Spec => ImplementsExactRate
<1>1. Init => Exact!Init
  BY DEF Init, Exact!Init
<1>2. BridgeInv /\ [Next]_vars => [Exact!Next]_<<fed, made>>
  <2> SUFFICES ASSUME BridgeInv, [Next]_vars PROVE [Exact!Next]_<<fed, made>>
    OBVIOUS
  <2>0. /\ pending \in Nat /\ fed \in Nat /\ made \in Nat
        /\ fed + pending = (made * M) \div L + 1 /\ (made * M) \div L \in Int
    <3>1. Due(made) \in Nat
      BY DueIsFloor DEF BridgeInv, TypeOK
    <3> QED BY <3>1 DEF BridgeInv, TypeOK, ScheduleExact, Due
  <2>1. CASE Reset
    BY <2>1 DEF Reset, Exact!Next, Exact!Reset
  <2>2. CASE ProcessAppend \/ PullAppend \/ FlushAppend
    <3>1. pending # 0 /\ fed' = fed + 1 /\ UNCHANGED made
      BY <2>2, AppendIsDue DEF ProcessAppend, PullAppend, FlushAppend, TakeOne
    <3>2. fed <= Exact!Due(made)
      BY <2>0, <3>1 DEF Exact!Due
    <3> QED BY <3>1, <3>2 DEF Exact!Next, Exact!Step, Exact!TakesInput
  <2>3. CASE ProcessEmit \/ PullEmit \/ FlushEmit
    <3>1. pending = 0 /\ made' = made + 1 /\ UNCHANGED fed
      BY <2>3 DEF ProcessEmit, PullEmit, FlushEmit, Emit
    <3>2. fed = Exact!Due(made) + 1
      BY <2>0, <3>1 DEF Exact!Due
    <3> QED BY <3>1, <3>2 DEF Exact!Next, Exact!Step, Exact!MakesOutput
  <2>4. CASE UNCHANGED <<fed, made>>
    BY <2>4
  <2>5. CASE \/ \E n \in Blocks : ProcessStart(n) \/ PullStart(n)
             \/ FlushStart \/ PullPop \/ ProcessDone \/ PullDone \/ PullDry \/ FlushDone
             \/ UNCHANGED vars
    BY <2>5 DEF ProcessStart, PullStart, FlushStart, PullPop, ProcessDone, PullDone, PullDry,
       FlushDone, Return, vars
  <2> QED BY <2>1, <2>2, <2>3, <2>5 DEF Next
<1> QED BY <1>1, <1>2, BridgeInvariant, PTL DEF Spec, ImplementsExactRate, Exact!Spec, Exact!vars

=============================================================================
