----------------------------- MODULE ChainProofs -----------------------------
(***************************************************************************)
(* Proofs about Chain, for every pair of ratios and filter lengths, every  *)
(* chunk and every state the stages are composed from: each stage is what  *)
(* RationalProofs shows it to be, whoever drives it; the two together keep *)
(* the chain's sizing, its scratch, its rate and its flush.                *)
(*                                                                         *)
(* S is RationalProofs for the second stage's state: its theorems hold of  *)
(* that stage once the chain is seen to drive it like any caller.          *)
(***************************************************************************)
EXTENDS Chain, RationalProofs

S == INSTANCE RationalProofs WITH
  L <- L2, M <- M2, FilterTaps <- FilterTaps2, MaxFrames <- MaxFrames2,
  lines <- lines2, pos <- pos2, pending <- pending2, dphase <- dphase2, pc <- pc2,
  left <- left2, todo <- todo2, need <- need2, fed <- fed2, made <- made2,
  heard <- heard2, promise <- promise2, banked <- banked2

(* What a call under way in the chain will bring the second stage to.       *)
Coming == S!OutputsFor(pos2, S!PendingInputs,
            left2 + (made - passed) + OutputsFor(pos, PendingInputs, left + rest))

ChainTypes ==
  /\ used \in {"first", "second", "chain"} /\ at \in {"idle", "process", "flush", "drain"}
  /\ rest \in Nat /\ passed \in Nat /\ vow \in Nat /\ base \in Nat /\ padded \in Nat
  /\ whole \in BOOLEAN

(* Whose turn it is: one stage works at a time, the first before the second,*)
(* and what is handed on has been made.                                     *)
Turns ==
  /\ used # "chain" => at = "idle" /\ whole
  /\ used = "first" => pc2 = "idle" /\ ~banked2 /\ fed2 = 0
  /\ used = "chain" => /\ ~banked /\ ~banked2 /\ passed <= made
                       /\ pc = "idle" \/ pc2 = "idle"
                       /\ at = "idle" => pc = "idle" /\ pc2 = "idle" /\ passed = made
                       /\ at = "process" => pc \in {"idle", "process"} /\ pc2 \in {"idle", "process"}
                       /\ at = "flush" => pc \in {"idle", "flush"} /\ pc2 \in {"idle", "process"}
                       /\ at = "drain" => pc = "idle" /\ pc2 \in {"idle", "flush"} /\ passed = made

(* process() is on its way to what outputs_for() said, and the scratch has  *)
(* room for what the chunk under way comes to.                              *)
Owing ==
  at = "process" =>
    /\ base + vow = made2 + Coming
    /\ (IF pc = "idle" THEN made ELSE promise) <= passed + Scratch

(* Without a flush the second stage is fed the first one's outputs and      *)
(* nothing else.                                                            *)
Passing == used = "chain" /\ whole => fed2 + left2 = passed

Padding == at \in {"flush", "drain"} => ~whole /\ fed + left = padded + WindowFrames

ChainInv ==
  /\ StageInv /\ S!StageInv
  /\ ChainTypes /\ Turns /\ Owing /\ Passing /\ Padding

-----------------------------------------------------------------------------
LEMMA SecondSizes == S!RatioAssumption /\ S!StageAssumption
BY ChainAssumption, StageAssumption DEF S!RatioAssumption, S!StageAssumption

(* What S proves of the second stage is said of Chain's Second.             *)
LEMMA SameSizing ==
  /\ Second!IsDecimator <=> S!IsDecimator
  /\ Second!PendingInputs = S!PendingInputs
  /\ \A n : Second!StageOutputsFor(n) = S!StageOutputsFor(n)
  /\ \A n : Second!StageFramesNeeded(n) = S!StageFramesNeeded(n)
  /\ Second!Silence = S!Silence /\ Second!WindowFrames = S!WindowFrames
BY DEF Second!IsDecimator, S!IsDecimator, Second!PendingInputs, S!PendingInputs,
       Second!StageOutputsFor, S!StageOutputsFor, Second!StageFramesNeeded, S!StageFramesNeeded,
       Second!ScheduleFramesNeeded, S!ScheduleFramesNeeded, Second!InputsBetween, S!InputsBetween,
       Second!OutputsFor, S!OutputsFor, Second!Due, S!Due,
       Second!Silence, S!Silence, Second!WindowFrames, S!WindowFrames,
       Second!Lines, S!Lines, Second!RowLen, S!RowLen, Second!Stride, S!Stride

LEMMA SameParts ==
  /\ Second!TakeOne <=> S!TakeOne
  /\ Second!ConsumeOne <=> S!ConsumeOne
  /\ Second!Sound <=> S!Sound
  /\ Second!Silent <=> S!Silent
  /\ Second!Emit <=> S!Emit
  /\ Second!vars = S!vars /\ Second!machine = S!machine /\ Second!call = S!call
  /\ Second!Return <=> S!Return
  /\ \A name : Second!Start(name) <=> S!Start(name)
BY DEF Second!IsDecimator, S!IsDecimator,
       Second!TakeOne, S!TakeOne, Second!ConsumeOne, S!ConsumeOne, Second!Sound, S!Sound,
       Second!Silent, S!Silent, Second!Emit, S!Emit, Second!Products, S!Products,
       Second!Coefficients, S!Coefficients, Second!Rows, S!Rows, Second!LineOf, S!LineOf,
       Second!Compacted, S!Compacted, Second!HistCap, S!HistCap,
       Second!Lines, S!Lines, Second!RowLen, S!RowLen, Second!Stride, S!Stride,
       Second!Advance, S!Advance, Second!NextPos, S!NextPos, Second!Due, S!Due,
       Second!vars, S!vars, Second!machine, S!machine, Second!call, S!call,
       Second!Return, S!Return, Second!Start, S!Start

LEMMA SameActions ==
  /\ Second!Init <=> S!Init
  /\ Second!Reset <=> S!Reset
  /\ \A n : Second!ProcessStart(n) <=> S!ProcessStart(n)
  /\ \A n : Second!PullStart(n) <=> S!PullStart(n)
  /\ Second!FlushStart <=> S!FlushStart
  /\ Second!ProcessDecimate <=> S!ProcessDecimate
  /\ Second!FlushDecimate <=> S!FlushDecimate
  /\ Second!ProcessDone <=> S!ProcessDone
  /\ Second!FlushDone <=> S!FlushDone
  /\ Second!PullDone <=> S!PullDone
  /\ Second!PullDry <=> S!PullDry
<1>1. Second!Init <=> S!Init
  BY SameSizing DEF Second!Init, S!Init
<1>2. Second!Reset <=> S!Reset
  BY SameSizing DEF Second!Reset, S!Reset, Second!call, S!call
<1>3. \A n : Second!ProcessStart(n) <=> S!ProcessStart(n)
  BY SameSizing, SameParts DEF Second!ProcessStart, S!ProcessStart
<1>4. \A n : Second!PullStart(n) <=> S!PullStart(n)
  BY SameSizing, SameParts DEF Second!PullStart, S!PullStart
<1>5. Second!FlushStart <=> S!FlushStart
  BY SameSizing, SameParts
     DEF Second!FlushStart, S!FlushStart, Second!FlushOutputFrames, S!FlushOutputFrames
<1>6. \A name : Second!Decimate(name) <=> S!Decimate(name)
  BY SameSizing, SameParts DEF Second!Decimate, S!Decimate
<1>7. (Second!ProcessDecimate <=> S!ProcessDecimate) /\ (Second!FlushDecimate <=> S!FlushDecimate)
  BY <1>6 DEF Second!ProcessDecimate, S!ProcessDecimate, Second!FlushDecimate, S!FlushDecimate
<1>8. /\ Second!ProcessDone <=> S!ProcessDone
      /\ Second!FlushDone <=> S!FlushDone
      /\ Second!PullDone <=> S!PullDone
      /\ Second!PullDry <=> S!PullDry
  BY SameSizing, SameParts
     DEF Second!ProcessDone, S!ProcessDone, Second!FlushDone, S!FlushDone,
         Second!PullDone, S!PullDone, Second!PullDry, S!PullDry
<1> QED BY <1>1, <1>2, <1>3, <1>4, <1>5, <1>7, <1>8

LEMMA SameNext == Second!Next <=> S!Next
<1>1. /\ Second!ProcessAppend <=> S!ProcessAppend
      /\ Second!FlushAppend <=> S!FlushAppend
      /\ Second!PullAppend <=> S!PullAppend
  BY SameSizing, SameParts
     DEF Second!ProcessAppend, S!ProcessAppend, Second!FlushAppend, S!FlushAppend,
         Second!PullAppend, S!PullAppend
<1>2. /\ Second!ProcessEmit <=> S!ProcessEmit
      /\ Second!FlushEmit <=> S!FlushEmit
  BY SameSizing, SameParts
     DEF Second!ProcessEmit, S!ProcessEmit, Second!FlushEmit, S!FlushEmit, Second!call, S!call
<1>3. Second!PullPop <=> S!PullPop
  BY DEF Second!PullPop, S!PullPop, Second!machine, S!machine
<1>4. Second!PullEmit <=> S!PullEmit
  BY SameParts
     DEF Second!PullEmit, S!PullEmit, Second!PendingInputs, S!PendingInputs,
         Second!IsDecimator, S!IsDecimator
<1> QED BY <1>1, <1>2, <1>3, <1>4, SameActions DEF Second!Next, S!Next

LEMMA SameProperties ==
  /\ Second!IsConvolution <=> S!IsConvolution
  /\ Second!FramesNeededIsLeast <=> S!FramesNeededIsLeast
  /\ Second!ChainBound <=> S!ChainBound
  /\ Second!Exact!Init <=> S!Exact!Init
  /\ Second!Exact!Next <=> S!Exact!Next
<1>1. Second!IsConvolution <=> S!IsConvolution
  BY DEF Second!IsConvolution, S!IsConvolution
<1>2. (Second!FramesNeededIsLeast <=> S!FramesNeededIsLeast) /\ (Second!ChainBound <=> S!ChainBound)
  BY SameSizing DEF Second!FramesNeededIsLeast, S!FramesNeededIsLeast, Second!ChainBound, S!ChainBound
<1>3. (Second!Exact!Init <=> S!Exact!Init) /\ (Second!Exact!Next <=> S!Exact!Next)
  BY DEF Second!Exact!Init, S!Exact!Init, Second!Exact!Next, S!Exact!Next,
         Second!Exact!Step, S!Exact!Step, Second!Exact!Reset, S!Exact!Reset,
         Second!Exact!TakesInput, S!Exact!TakesInput, Second!Exact!MakesOutput, S!Exact!MakesOutput,
         Second!Exact!Due, S!Exact!Due
<1> QED BY <1>1, <1>2, <1>3

-----------------------------------------------------------------------------
LEMMA ChainParts ==
  ASSUME ChainInv
  PROVE  /\ fed \in Nat /\ made \in Nat /\ left \in Nat /\ promise \in Nat /\ pos \in Nat
         /\ PendingInputs \in Nat
         /\ fed2 \in Nat /\ made2 \in Nat /\ left2 \in Nat /\ pos2 \in Nat /\ S!PendingInputs \in Nat
         /\ rest \in Nat /\ passed \in Nat /\ Scratch \in Nat /\ WindowFrames \in Nat
         /\ pc = "idle" => left = 0
         /\ pc2 = "idle" => left2 = 0
<1>1. /\ fed \in Nat /\ made \in Nat /\ left \in Nat /\ promise \in Nat /\ pos \in Nat
      /\ PendingInputs \in Nat
  BY InvParts DEF ChainInv
<1>2. /\ fed2 \in Nat /\ made2 \in Nat /\ left2 \in Nat /\ pos2 \in Nat /\ S!PendingInputs \in Nat
  BY SecondSizes, S!InvParts DEF ChainInv
<1>3. rest \in Nat /\ passed \in Nat
  BY DEF ChainInv, ChainTypes
<1>4. Scratch \in Nat /\ WindowFrames \in Nat
  <2>1. L \in Nat \ {0} /\ M \in Nat \ {0} /\ Chunk \in Nat \ {0} /\ WindowFrames \in Nat
    BY ChainAssumption, StageSizes DEF WindowFrames
  <2> DEFINE x == Chunk * L
  <2>2. x \in Nat
    BY <2>1
  <2> HIDE DEF x
  <2>3. x \div M \in Nat
    BY <2>1, <2>2, DivMonotonic, DivUnique
  <2> QED BY <2>1, <2>3 DEF Scratch, x
<1>5. (pc = "idle" => left = 0) /\ (pc2 = "idle" => left2 = 0)
  BY DEF ChainInv, StageInv, Owed, S!StageInv, S!Owed
<1> QED BY <1>1, <1>2, <1>3, <1>4, <1>5

LEMMA FirstStays ==
  ASSUME StageInv, UNCHANGED vars
  PROVE  /\ StageInv' /\ PendingInputs' = PendingInputs
         /\ UNCHANGED <<lines, pos, pending, dphase, pc, left, todo, need, fed, made, heard, promise, banked>>
<1>1. UNCHANGED <<lines, pos, pending, dphase, pc, left, todo, need, fed, made, heard, promise, banked>>
  BY DEF vars, machine, call
<1> QED BY <1>1, StutterKeeps DEF PendingInputs

LEMMA SecondStays ==
  ASSUME S!StageInv, UNCHANGED second
  PROVE  /\ S!StageInv' /\ S!PendingInputs' = S!PendingInputs
         /\ UNCHANGED <<lines2, pos2, pending2, dphase2, pc2, left2, todo2, need2,
                        fed2, made2, heard2, promise2, banked2>>
<1>1. UNCHANGED <<lines2, pos2, pending2, dphase2, pc2, left2, todo2, need2,
                  fed2, made2, heard2, promise2, banked2>>
  BY DEF second
<1>2. UNCHANGED S!vars
  BY <1>1 DEF S!vars, S!machine, S!call
<1> QED BY <1>1, <1>2, SecondSizes, S!StutterKeeps DEF S!PendingInputs

(* A stage driven on its own, and the chain's constructor and reset().      *)
LEMMA AloneKeeps ==
  ASSUME ChainInv,
         \/ used = "first" /\ Next /\ UNCHANGED <<second, used, chain>>
         \/ used = "second" /\ Second!Next /\ UNCHANGED <<vars, used, chain>>
  PROVE  ChainInv'
<1>1. StageInv /\ S!StageInv /\ ChainTypes /\ Turns
  BY DEF ChainInv
<1>2. UNCHANGED <<used, at, rest, passed, vow, base, padded, whole>> /\ used # "chain" /\ at = "idle"
  BY <1>1 DEF chain, Turns
<1>3. ChainTypes' /\ Owing' /\ Passing' /\ Padding'
  BY <1>1, <1>2 DEF ChainTypes, Owing, Passing, Padding
<1>4. CASE used = "first" /\ Next /\ UNCHANGED <<second, used, chain>>
  <2>1. StageInv' /\ S!StageInv' /\ pc2' = pc2 /\ banked2' = banked2 /\ fed2' = fed2
    BY <1>1, <1>4, NextIsDriven, StepKeeps, SecondStays
  <2>2. Turns'
    BY <1>1, <1>2, <1>4, <2>1 DEF Turns
  <2> QED BY <1>3, <2>1, <2>2 DEF ChainInv
<1>5. CASE used = "second" /\ Second!Next /\ UNCHANGED <<vars, used, chain>>
  <2>1. StageInv' /\ S!StageInv'
    BY <1>1, <1>5, SameNext, SecondSizes, FirstStays, S!NextIsDriven, S!StepKeeps
  <2>2. Turns'
    BY <1>1, <1>2, <1>5 DEF Turns
  <2> QED BY <1>3, <2>1, <2>2 DEF ChainInv
<1> QED BY <1>4, <1>5

LEMMA ComposeKeeps ==
  ASSUME ChainInv, Compose \/ ChainReset
  PROVE  ChainInv'
<1>1. StageInv /\ S!StageInv /\ ChainTypes /\ Turns
  BY DEF ChainInv
<1>2. /\ Reset /\ passed' = 0 /\ used' = "chain" /\ at' = "idle" /\ at = "idle"
      /\ UNCHANGED <<at, rest>> /\ ChainTypes' /\ whole' = TRUE
  <2>1. CASE Compose
    BY <1>1, <2>1 DEF Compose, Turns, ChainTypes
  <2>2. CASE ChainReset
    BY <1>1, <2>2 DEF ChainReset, ChainTypes
  <2> QED BY <2>1, <2>2
<1>3. StageInv' /\ pc' = "idle" /\ made' = 0 /\ ~banked'
  BY <1>1, <1>2, ResetKeeps DEF Reset, call
<1>4. S!StageInv' /\ pc2' = "idle" /\ ~banked2' /\ fed2' = 0 /\ left2' = 0
  <2>1. CASE Compose
    <3>1. S!StageInv' /\ pc2' = pc2 /\ banked2' = banked2 /\ fed2' = fed2 /\ left2' = left2
      BY <1>1, <2>1, SecondStays DEF Compose
    <3>2. left2 = 0 /\ pc2 = "idle" /\ ~banked2 /\ fed2 = 0
      BY <1>1, <2>1, ChainParts DEF Turns, Compose
    <3> QED BY <3>1, <3>2
  <2>2. CASE ChainReset
    <3>1. S!Reset
      BY <2>2, SameActions DEF ChainReset
    <3>2. S!StageInv'
      BY <1>1, <3>1, SecondSizes, S!ResetKeeps
    <3>3. pc2' = "idle" /\ ~banked2' /\ fed2' = 0
      BY <3>1 DEF S!Reset, S!call
    <3> QED BY <3>2, <3>3 DEF S!StageInv, S!Owed
  <2> QED BY <1>2, <2>1, <2>2
<1>5. Turns' /\ Owing' /\ Passing' /\ Padding'
  BY <1>2, <1>3, <1>4 DEF Turns, Owing, Passing, Padding
<1> QED BY <1>2, <1>3, <1>4, <1>5 DEF ChainInv

-----------------------------------------------------------------------------
LEMMA ChainProcessKeeps ==
  ASSUME ChainInv, NEW n \in Nat, ChainProcess(n)
  PROVE  ChainInv'
<1>1. /\ StageInv /\ S!StageInv /\ ChainTypes /\ Turns /\ Passing
      /\ used = "chain" /\ at = "idle" /\ at' = "process" /\ rest' = n
      /\ vow' = ChainOutputsFor(n) /\ base' = made2
      /\ UNCHANGED <<vars, second, used, passed, padded, whole>>
  BY DEF ChainInv, ChainProcess
<1>2. /\ pc = "idle" /\ pc2 = "idle" /\ passed = made /\ left = 0 /\ left2 = 0
      /\ made \in Nat /\ made2 \in Nat /\ Scratch \in Nat /\ passed \in Nat
  BY <1>1, ChainParts DEF Turns
<1> DEFINE o == StageOutputsFor(n)
<1>3. o = OutputsFor(pos, PendingInputs, n) /\ o \in Nat
  BY <1>1, InvParts, SizingIsSchedule, StageSizing
<1>4. vow' = S!OutputsFor(pos2, S!PendingInputs, o) /\ vow' \in Nat
  <2>1. vow' = S!StageOutputsFor(o)
    BY <1>1, SameSizing DEF ChainOutputsFor
  <2> HIDE DEF o
  <2>2. S!StageOutputsFor(o) = S!OutputsFor(pos2, S!PendingInputs, o)
    BY <1>1, <1>3, SecondSizes, S!InvParts, S!SizingIsSchedule
  <2>3. S!StageOutputsFor(o) \in Nat
    BY <1>1, <1>3, SecondSizes, S!StageSizing
  <2> QED BY <2>1, <2>2, <2>3
<1>5. /\ StageInv' /\ S!StageInv' /\ PendingInputs' = PendingInputs /\ S!PendingInputs' = S!PendingInputs
      /\ pos' = pos /\ left' = left /\ made' = made /\ pc' = pc /\ banked' = banked
      /\ pos2' = pos2 /\ left2' = left2 /\ made2' = made2 /\ pc2' = pc2 /\ banked2' = banked2 /\ fed2' = fed2
  BY <1>1, FirstStays, SecondStays
<1>6. Coming' = S!OutputsFor(pos2, S!PendingInputs, o)
  <2>1. left' + rest' = n
    BY <1>1, <1>2, <1>5
  <2>2. OutputsFor(pos', PendingInputs', left' + rest') = o
    BY <1>3, <1>5, <2>1
  <2> HIDE DEF o
  <2>3. left2' + (made' - passed') + o = o
    BY <1>1, <1>2, <1>3, <1>5
  <2> QED BY <1>5, <2>2, <2>3 DEF Coming
<1>7. Owing'
  BY <1>1, <1>2, <1>4, <1>5, <1>6 DEF Owing
<1>8. ChainTypes' /\ Turns' /\ Passing' /\ Padding'
  BY <1>1, <1>2, <1>4, <1>5 DEF ChainTypes, Turns, Passing, Padding
<1> QED BY <1>5, <1>7, <1>8 DEF ChainInv

(* A chunk: no more inputs than the scratch was sized for.                  *)
LEMMA NextChunkKeeps ==
  ASSUME ChainInv, NextChunk
  PROVE  ChainInv'
<1> DEFINE n == IF rest < Chunk THEN rest ELSE Chunk
<1>1. /\ StageInv /\ S!StageInv /\ ChainTypes /\ Turns /\ Owing /\ Passing
      /\ at = "process" /\ pc = "idle" /\ pc2 = "idle" /\ passed = made
      /\ ProcessStart(n) /\ rest' = rest - n
      /\ UNCHANGED <<second, used, at, passed, vow, base, padded, whole>>
  BY DEF ChainInv, NextChunk, AtRest
<1>2. n \in Nat /\ n <= Chunk /\ n <= rest /\ rest \in Nat /\ Chunk \in Nat /\ rest' \in Nat
  BY <1>1, ChainAssumption DEF ChainTypes
<1> HIDE DEF n
<1>3. /\ left = 0 /\ left2 = 0 /\ made \in Nat /\ Scratch \in Nat /\ used = "chain" /\ PendingInputs > 0
  BY <1>1, ChainParts DEF Turns, StageInv, Owed
<1>4. /\ S!StageInv' /\ S!PendingInputs' = S!PendingInputs
      /\ pos2' = pos2 /\ left2' = left2 /\ made2' = made2 /\ pc2' = pc2 /\ banked2' = banked2 /\ fed2' = fed2
  BY <1>1, SecondStays
<1>5. /\ StageInv' /\ PendingInputs' = PendingInputs /\ pos' = pos /\ made' = made /\ fed' = fed
      /\ left' = n /\ pc' = "process" /\ ~banked' /\ promise' = made + StageOutputsFor(n)
  <2>1. StageInv'
    BY <1>1, <1>2, ProcessStartKeeps
  <2>2. /\ left' = n /\ pc' = "process" /\ ~banked' /\ promise' = made + StageOutputsFor(n)
        /\ UNCHANGED <<lines, machine, fed, made, heard>>
    BY <1>1 DEF ProcessStart, Start
  <2> QED BY <1>1, <2>1, <2>2, MachineStays
<1>6. promise' <= passed' + Scratch
  <2> DEFINE o == StageOutputsFor(n)
  <2> DEFINE x == n * L
  <2> DEFINE y == Chunk * L
  <2>0. L \in Nat \ {0} /\ M \in Nat \ {0}
    BY StageSizes
  <2>1. o \in Nat /\ o <= x \div M + 2
    BY <1>1, <1>2, <1>3, StageSizing
  <2>2. x \in Int /\ y \in Int /\ x <= y
    BY <1>2, <2>0
  <2> HIDE DEF o, x, y
  <2>3. x \div M <= y \div M /\ x \div M \in Int /\ y \div M \in Int
    BY <2>0, <2>2, DivMonotonic, DivParts
  <2>4. Scratch = y \div M + 2
    BY DEF Scratch, y
  <2>5. promise' = made + o /\ passed' = made
    BY <1>1, <1>5 DEF o
  <2> QED BY <1>3, <2>1, <2>3, <2>4, <2>5
<1>7. Coming' = Coming
  <2>1. left' + rest' = left + rest
    BY <1>1, <1>2, <1>3, <1>5
  <2> QED BY <1>1, <1>4, <1>5, <2>1 DEF Coming
<1>8. Owing'
  BY <1>1, <1>4, <1>5, <1>6, <1>7 DEF Owing
<1>9. ChainTypes' /\ Turns' /\ Passing' /\ Padding'
  BY <1>1, <1>2, <1>3, <1>4, <1>5 DEF ChainTypes, Turns, Passing, Padding
<1> QED BY <1>4, <1>5, <1>8, <1>9 DEF ChainInv

(* The scratch handed on.                                                   *)
LEMMA HandOnKeeps ==
  ASSUME ChainInv, HandOn
  PROVE  ChainInv'
<1> DEFINE n == made - passed
<1>1. /\ StageInv /\ S!StageInv /\ ChainTypes /\ Turns /\ Owing /\ Passing /\ Padding
      /\ at # "idle" /\ pc = "idle" /\ pc2 = "idle" /\ passed # made
      /\ Second!ProcessStart(n) /\ passed' = made
      /\ UNCHANGED <<vars, used, at, rest, vow, base, padded, whole>>
  BY DEF ChainInv, HandOn, AtRest
<1>2. /\ left = 0 /\ left2 = 0 /\ made \in Nat /\ passed \in Nat /\ Scratch \in Nat /\ fed2 \in Nat
      /\ used = "chain" /\ at \in {"process", "flush"} /\ passed <= made
  BY <1>1, ChainParts DEF Turns, ChainTypes
<1>3. n \in Nat
  BY <1>2
<1>4. /\ StageInv' /\ PendingInputs' = PendingInputs /\ pos' = pos /\ made' = made /\ fed' = fed
      /\ left' = left /\ pc' = pc /\ banked' = banked
  BY <1>1, FirstStays
<1>5. /\ S!StageInv' /\ S!PendingInputs' = S!PendingInputs /\ pos2' = pos2 /\ made2' = made2 /\ fed2' = fed2
      /\ left2' = n /\ pc2' = "process" /\ ~banked2'
  <2> HIDE DEF n
  <2>1. S!ProcessStart(n)
    BY <1>1, SameActions
  <2>2. S!StageInv'
    BY <1>1, <1>3, <2>1, SecondSizes, S!ProcessStartKeeps
  <2>3. /\ left2' = n /\ pc2' = "process" /\ ~banked2'
        /\ UNCHANGED <<lines2, S!machine, fed2, made2, heard2>>
    BY <2>1 DEF S!ProcessStart, S!Start
  <2> QED BY <1>1, <2>2, <2>3, SecondSizes, S!MachineStays
<1>6. Coming' = Coming
  <2> DEFINE o == OutputsFor(pos, PendingInputs, left + rest)
  <2>1. left2' + (made' - passed') = left2 + (made - passed)
    BY <1>1, <1>2, <1>4, <1>5
  <2> QED BY <1>1, <1>4, <1>5, <2>1 DEF Coming
<1>7. Owing'
  BY <1>1, <1>2, <1>4, <1>5, <1>6 DEF Owing
<1>8. Passing'
  BY <1>1, <1>2, <1>5 DEF Passing
<1>9. ChainTypes' /\ Turns' /\ Padding'
  BY <1>1, <1>2, <1>4, <1>5 DEF ChainTypes, Turns, Padding, WindowFrames
<1> QED BY <1>4, <1>5, <1>7, <1>8, <1>9 DEF ChainInv

(* Padding the first stage, then the second; and the end of a call.         *)
LEMMA ChainFlushKeeps ==
  ASSUME ChainInv, ChainFlush
  PROVE  ChainInv'
<1>1. /\ StageInv /\ S!StageInv /\ ChainTypes /\ Turns
      /\ used = "chain" /\ at = "idle" /\ FlushStart /\ at' = "flush" /\ padded' = fed /\ whole' = FALSE
      /\ UNCHANGED <<second, used, rest, passed, vow, base>>
  BY DEF ChainInv, ChainFlush
<1>2. pc2 = "idle" /\ passed = made /\ fed \in Nat /\ WindowFrames \in Nat
  BY <1>1, ChainParts DEF Turns
<1>3. S!StageInv' /\ pc2' = pc2 /\ banked2' = banked2
  BY <1>1, SecondStays
<1>4. /\ StageInv' /\ made' = made /\ fed' = fed /\ left' = WindowFrames /\ pc' = "flush" /\ ~banked'
  <2>1. StageInv'
    BY <1>1, FlushStartKeeps
  <2>2. /\ left' = WindowFrames /\ pc' = "flush" /\ ~banked' /\ fed' = fed /\ made' = made
    BY <1>1 DEF FlushStart, Start
  <2> QED BY <2>1, <2>2
<1>5. ChainTypes' /\ Turns' /\ Passing' /\ Owing'
  BY <1>1, <1>2, <1>3, <1>4 DEF ChainTypes, Turns, Passing, Owing
<1>6. Padding'
  BY <1>1, <1>4 DEF Padding, WindowFrames, RowLen, Stride, IsDecimator
<1> QED BY <1>3, <1>4, <1>5, <1>6 DEF ChainInv

LEMMA DrainKeeps ==
  ASSUME ChainInv, Drain
  PROVE  ChainInv'
<1>1. /\ StageInv /\ S!StageInv /\ ChainTypes /\ Turns /\ Padding
      /\ at = "flush" /\ pc = "idle" /\ pc2 = "idle" /\ passed = made /\ Second!FlushStart /\ at' = "drain"
      /\ UNCHANGED <<vars, used, rest, passed, vow, base, padded, whole>>
  BY DEF ChainInv, Drain, AtRest
<1>2. used = "chain"
  BY <1>1 DEF Turns
<1>3. StageInv' /\ UNCHANGED <<pc, banked, made, fed, left>>
  BY <1>1, FirstStays
<1>4. S!StageInv' /\ pc2' = "flush" /\ ~banked2'
  <2>1. S!FlushStart
    BY <1>1, SameActions
  <2>2. S!StageInv'
    BY <1>1, <2>1, SecondSizes, S!FlushStartKeeps
  <2>3. pc2' = "flush" /\ ~banked2'
    BY <2>1 DEF S!FlushStart, S!Start
  <2> QED BY <2>2, <2>3
<1>5. ChainTypes' /\ Turns' /\ Passing' /\ Owing'
  BY <1>1, <1>2, <1>3, <1>4 DEF ChainTypes, Turns, Passing, Owing, Padding
<1>6. Padding'
  BY <1>1, <1>3 DEF Padding, WindowFrames, RowLen, Stride, IsDecimator
<1> QED BY <1>3, <1>4, <1>5, <1>6 DEF ChainInv

LEMMA ChainReturnKeeps ==
  ASSUME ChainInv, ChainReturn
  PROVE  ChainInv'
<1>1. /\ StageInv /\ S!StageInv /\ ChainTypes /\ Turns /\ Passing
      /\ at # "idle" /\ pc = "idle" /\ pc2 = "idle" /\ passed = made /\ at' = "idle"
      /\ UNCHANGED <<vars, second, used, rest, passed, vow, base, padded, whole>>
  BY DEF ChainInv, ChainReturn, AtRest
<1>2. used = "chain"
  BY <1>1 DEF Turns
<1>3. StageInv' /\ UNCHANGED <<pc, banked, made>>
  BY <1>1, FirstStays
<1>4. S!StageInv' /\ UNCHANGED <<pc2, banked2, fed2, left2>>
  BY <1>1, SecondStays
<1>5. ChainTypes' /\ Turns' /\ Passing' /\ Owing' /\ Padding'
  BY <1>1, <1>2, <1>3, <1>4 DEF ChainTypes, Turns, Passing, Owing, Padding
<1> QED BY <1>3, <1>4, <1>5 DEF ChainInv

-----------------------------------------------------------------------------
(* The calls under way inside the stages conserve what is coming.           *)
LEMMA FirstWorksKeeps ==
  ASSUME ChainInv, FirstWorks
  PROVE  ChainInv'
<1>1. /\ StageInv /\ S!StageInv /\ ChainTypes /\ Turns /\ Owing /\ Passing /\ Padding
      /\ used = "chain" /\ pc # "idle" /\ Works
      /\ UNCHANGED <<second, used, at, rest, passed, vow, base, padded, whole>>
  BY DEF ChainInv, FirstWorks, Works, chain
<1>2. /\ pc \in {"process", "flush"} /\ at \in {"process", "flush"} /\ pc2 = "idle" /\ ~banked
      /\ passed <= made /\ (at = "process" <=> pc = "process") /\ rest \in Nat
      /\ made \in Nat /\ passed \in Nat /\ promise \in Nat /\ Scratch \in Nat /\ fed \in Nat /\ left \in Nat
  BY <1>1, ChainParts DEF Turns, ChainTypes
<1>3. StageInv'
  BY <1>1, StepKeeps DEF Driven
<1>4. /\ OutputsFor(pos', PendingInputs', left' + rest) + made' =
           OutputsFor(pos, PendingInputs, left + rest) + made
      /\ fed' + left' = fed + left /\ made' \in Nat /\ made <= made'
      /\ promise' = promise /\ banked' = banked /\ pc' \in {pc, "idle"} /\ (pc' = "idle" => made' = promise)
  BY <1>1, <1>2, CallConserves
<1>5. /\ S!StageInv' /\ S!PendingInputs' = S!PendingInputs
      /\ pos2' = pos2 /\ left2' = left2 /\ made2' = made2 /\ pc2' = pc2 /\ banked2' = banked2 /\ fed2' = fed2
  BY <1>1, SecondStays
<1>6. Coming' = Coming
  <2> DEFINE o == OutputsFor(pos, PendingInputs, left + rest)
  <2> DEFINE oo == OutputsFor(pos', PendingInputs', left' + rest')
  <2>1. oo + made' = o + made
    BY <1>1, <1>4
  <2>2. o \in Nat /\ oo \in Nat
    <3>1. pos \in Nat /\ PendingInputs \in Nat /\ left + rest \in Nat
      BY <1>2, ChainParts
    <3>2. o \in Nat
      BY <3>1, OutputsForSign
    <3>3. /\ pos' \in Nat /\ PendingInputs' \in Nat /\ left' + rest' \in Nat
      <4>1. MachineOK' /\ left' \in Nat
        BY <1>3 DEF StageInv, TypeOK, MachineOK, OnSchedule
      <4>2. PendingInputs' \in Nat
        BY <4>1, SizingAfter
      <4>3. pos' \in Nat
        BY <4>1, StageSizes DEF MachineOK, Positions
      <4>4. left' + rest' \in Nat
        <5> DEFINE m == left'
        <5>1. m \in Nat /\ rest' = rest /\ rest \in Nat
          BY <1>1, <1>2, <4>1
        <5> HIDE DEF m
        <5>2. m + rest \in Nat
          BY <5>1
        <5> QED BY <5>1, <5>2 DEF m
      <4> QED BY <4>2, <4>3, <4>4
    <3>4. oo \in Nat
      BY <3>3, OutputsForSign
    <3> QED BY <3>2, <3>4
  <2>3. left2 \in Nat
    BY ChainParts
  <2> HIDE DEF o, oo
  <2>4. left2 + (made' - passed) + oo = left2 + (made - passed) + o
    <3> DEFINE m == made'
    <3>1. m \in Nat /\ oo + m = o + made /\ made \in Nat /\ passed \in Nat
      BY <1>2, <1>4, <2>1
    <3> HIDE DEF m
    <3>2. left2 + (m - passed) + oo = left2 + (made - passed) + o
      BY <2>2, <2>3, <3>1
    <3> QED BY <3>2 DEF m
  <2> QED BY <1>1, <1>5, <2>4 DEF Coming, o, oo
<1>7. Owing'
  BY <1>1, <1>2, <1>4, <1>5, <1>6 DEF Owing
<1>8. ChainTypes' /\ Passing' /\ Turns'
  BY <1>1, <1>2, <1>4, <1>5 DEF ChainTypes, Turns, Passing
<1>9. Padding'
  BY <1>1, <1>4 DEF Padding, WindowFrames, RowLen, Stride, IsDecimator
<1> QED BY <1>3, <1>5, <1>7, <1>8, <1>9 DEF ChainInv

LEMMA SecondWorksKeeps ==
  ASSUME ChainInv, SecondWorks
  PROVE  ChainInv'
<1>1. /\ StageInv /\ S!StageInv /\ ChainTypes /\ Turns /\ Owing /\ Passing /\ Padding
      /\ used = "chain" /\ pc2 # "idle" /\ S!Works
      /\ UNCHANGED <<vars, used, at, rest, passed, vow, base, padded, whole>>
  BY SameActions DEF ChainInv, SecondWorks, S!Works, chain
<1>2. /\ pc2 \in {"process", "flush"} /\ at # "idle" /\ pc = "idle" /\ ~banked2 /\ left \in Nat /\ rest \in Nat
      /\ made \in Nat /\ passed \in Nat /\ passed <= made /\ fed2 \in Nat /\ left2 \in Nat /\ made2 \in Nat
      /\ pos \in Nat /\ PendingInputs \in Nat
  BY <1>1, ChainParts DEF Turns, ChainTypes
<1> DEFINE r == (made - passed) + OutputsFor(pos, PendingInputs, left + rest)
<1>3. r \in Nat
  <2>1. left + rest \in Nat
    BY <1>2
  <2>2. OutputsFor(pos, PendingInputs, left + rest) \in Nat
    BY <1>2, <2>1, OutputsForSign
  <2> QED BY <1>2, <2>2
<1>4. /\ StageInv' /\ PendingInputs' = PendingInputs /\ pos' = pos /\ made' = made /\ fed' = fed
      /\ left' = left /\ pc' = pc /\ banked' = banked
  BY <1>1, FirstStays
<1>5. S!StageInv'
  BY <1>1, SecondSizes, S!StepKeeps DEF S!Driven
<1> HIDE DEF r
<1>6. /\ S!OutputsFor(pos2', S!PendingInputs', left2' + r) + made2' =
           S!OutputsFor(pos2, S!PendingInputs, left2 + r) + made2
      /\ fed2' + left2' = fed2 + left2
      /\ banked2' = banked2 /\ pc2' \in {pc2, "idle"}
  BY <1>1, <1>2, <1>3, SecondSizes, S!CallConserves
<1>7. /\ Coming = S!OutputsFor(pos2, S!PendingInputs, left2 + r)
      /\ Coming' = S!OutputsFor(pos2', S!PendingInputs', left2' + r)
  <2> DEFINE o == OutputsFor(pos, PendingInputs, left + rest)
  <2>1. o \in Int /\ r = (made - passed) + o
    <3>1. left + rest \in Nat
      BY <1>2
    <3>2. o \in Nat
      BY <1>2, <3>1, OutputsForSign
    <3> QED BY <3>2 DEF r
  <2>2. left2' \in Nat
    BY <1>5 DEF S!StageInv, S!TypeOK
  <2>3. OutputsFor(pos', PendingInputs', left' + rest') = o
    BY <1>1, <1>4
  <2> HIDE DEF o
  <2>4. left2 + (made - passed) + o = left2 + r /\ left2' + (made' - passed') + o = left2' + r
    BY <1>1, <1>2, <1>4, <2>1, <2>2
  <2> QED BY <2>3, <2>4 DEF Coming, o
<1>8. Owing'
  <2> DEFINE x == Coming
  <2> DEFINE y == Coming'
  <2>1. x \in Nat /\ y \in Nat /\ made2' \in Nat
    <3>1. /\ pos2 \in Nat /\ S!PendingInputs \in Nat /\ left2 + r \in Nat
      BY <1>2, <1>3, ChainParts
    <3>2. S!MachineOK' /\ left2' \in Nat /\ made2' \in Nat
      BY <1>5 DEF S!StageInv, S!TypeOK, S!MachineOK, S!OnSchedule
    <3>3. S!PendingInputs' \in Nat
      BY <3>2, SecondSizes, S!SizingAfter
    <3>4. pos2' \in Nat
      BY <3>2, ChainAssumption DEF S!MachineOK, S!Positions
    <3>5. left2' + r \in Nat
      <4> DEFINE m == left2'
      <4>1. m \in Nat
        BY <3>2
      <4> HIDE DEF m
      <4>2. m + r \in Nat
        BY <1>3, <4>1
      <4> QED BY <4>2 DEF m
    <3>6. x \in Nat
      BY <1>7, <3>1, SecondSizes, S!OutputsForSign
    <3>7. y \in Nat
      BY <1>7, <3>3, <3>4, <3>5, SecondSizes, S!OutputsForSign
    <3> QED BY <3>2, <3>6, <3>7
  <2>2. y + made2' = x + made2
    BY <1>6, <1>7
  <2> HIDE DEF x, y
  <2>3. at = "process" => base + vow = made2' + y
    <3> SUFFICES ASSUME at = "process" PROVE base + vow = made2' + y
      OBVIOUS
    <3>1. base + vow = made2 + x
      BY <1>1 DEF Owing, x
    <3>2. made2 + x = x + made2 /\ made2' + y = y + made2'
      BY <1>2, <2>1
    <3> QED BY <2>2, <3>1, <3>2
  <2> QED BY <1>1, <1>2, <1>4, <2>3 DEF Owing, y
<1>9. ChainTypes' /\ Passing' /\ Turns'
  BY <1>1, <1>2, <1>4, <1>6 DEF ChainTypes, Turns, Passing
<1>10. Padding'
  BY <1>1, <1>4 DEF Padding, WindowFrames, RowLen, Stride, IsDecimator
<1> QED BY <1>4, <1>5, <1>8, <1>9, <1>10 DEF ChainInv

-----------------------------------------------------------------------------
LEMMA ChainStepKeeps == ChainInv /\ [ChainNext]_all => ChainInv'
<1> SUFFICES ASSUME ChainInv, [ChainNext]_all PROVE ChainInv'
  OBVIOUS
<1>1. CASE \/ used = "first" /\ Next /\ UNCHANGED <<second, used, chain>>
           \/ used = "second" /\ Second!Next /\ UNCHANGED <<vars, used, chain>>
  BY <1>1, AloneKeeps
<1>2. CASE Compose \/ ChainReset
  BY <1>2, ComposeKeeps
<1>3. CASE \E n \in Blocks : ChainProcess(n)
  BY <1>3, StageAssumption, ChainProcessKeeps
<1>4. CASE NextChunk \/ HandOn
  BY <1>4, NextChunkKeeps, HandOnKeeps
<1>5. CASE ChainFlush \/ Drain \/ ChainReturn
  BY <1>5, ChainFlushKeeps, DrainKeeps, ChainReturnKeeps
<1>6. CASE FirstWorks \/ SecondWorks
  BY <1>6, FirstWorksKeeps, SecondWorksKeeps
<1>7. CASE UNCHANGED all
  <2>1. /\ UNCHANGED vars /\ UNCHANGED second
        /\ UNCHANGED <<used, at, rest, passed, vow, base, padded, whole>>
    BY <1>7 DEF all, chain
  <2>2. /\ StageInv' /\ PendingInputs' = PendingInputs
        /\ UNCHANGED <<pos, pc, left, fed, made, promise, banked>>
    BY <2>1, FirstStays DEF ChainInv
  <2>3. /\ S!StageInv' /\ S!PendingInputs' = S!PendingInputs
        /\ UNCHANGED <<pos2, pc2, left2, fed2, made2, banked2>>
    BY <2>1, SecondStays DEF ChainInv
  <2>4. ChainTypes' /\ Turns' /\ Passing'
    BY <2>1, <2>2, <2>3 DEF ChainInv, ChainTypes, Turns, Passing
  <2>5. Owing' /\ Padding'
    BY <2>1, <2>2, <2>3 DEF ChainInv, Owing, Coming, Scratch, Padding, WindowFrames, RowLen, Stride, IsDecimator
  <2> QED BY <2>2, <2>3, <2>4, <2>5 DEF ChainInv
<1> QED BY <1>1, <1>2, <1>3, <1>4, <1>5, <1>6, <1>7 DEF ChainNext

LEMMA ChainInitHolds == ChainInit => ChainInv /\ Init /\ S!Init
<1> SUFFICES ASSUME ChainInit PROVE ChainInv /\ Init /\ S!Init
  OBVIOUS
<1>1. Init /\ S!Init
  BY SameActions DEF ChainInit
<1>2. StageInv /\ S!StageInv
  BY <1>1, InitHolds, SecondSizes, S!InitHolds
<1>3. ChainTypes /\ Turns /\ Owing /\ Passing /\ Padding
  BY <1>1 DEF ChainInit, Init, S!Init, ChainTypes, Turns, Owing, Passing, Padding
<1> QED BY <1>1, <1>2, <1>3 DEF ChainInv

(* The inductive invariant of the composition.                              *)
THEOREM ChainInvariant == ChainSpec => []ChainInv
BY ChainInitHolds, ChainStepKeeps, PTL DEF ChainSpec

(* Each stage, alone or in the chain, makes a stage's steps, with chunks of *)
(* any size.                                                                *)
LEMMA ChainDrives == ChainInv /\ [ChainNext]_all => [Driven]_vars /\ [S!Driven]_(S!vars)
<1> SUFFICES ASSUME ChainInv, [ChainNext]_all PROVE [Driven]_vars /\ [S!Driven]_(S!vars)
  OBVIOUS
<1>1. UNCHANGED second => UNCHANGED S!vars
  BY DEF second, S!vars, S!machine, S!call
<1>2. CASE used = "first" /\ Next /\ UNCHANGED <<second, used, chain>>
  BY <1>1, <1>2, NextIsDriven
<1>3. CASE used = "second" /\ Second!Next /\ UNCHANGED <<vars, used, chain>>
  BY <1>3, SameNext, SecondSizes, S!NextIsDriven
<1>4. CASE Compose
  BY <1>1, <1>4 DEF Compose, Driven
<1>5. CASE ChainReset
  BY <1>5, SameActions DEF ChainReset, Driven, S!Driven
<1>6. CASE NextChunk
  <2> DEFINE n == IF rest < Chunk THEN rest ELSE Chunk
  <2>1. n \in Nat /\ ProcessStart(n) /\ UNCHANGED second
    BY <1>6, ChainAssumption DEF NextChunk, ChainInv, ChainTypes
  <2> HIDE DEF n
  <2> QED BY <1>1, <2>1 DEF Driven
<1>7. CASE HandOn
  <2> DEFINE n == made - passed
  <2>1. n \in Nat
    BY <1>7, ChainParts DEF HandOn, ChainInv, Turns
  <2>2. S!ProcessStart(n) /\ UNCHANGED vars
    BY <1>7, SameActions DEF HandOn
  <2> HIDE DEF n
  <2> QED BY <2>1, <2>2 DEF S!Driven
<1>8. CASE ChainFlush
  BY <1>1, <1>8 DEF ChainFlush, Driven
<1>9. CASE Drain
  BY <1>9, SameActions DEF Drain, S!Driven
<1>10. CASE FirstWorks
  BY <1>1, <1>10 DEF FirstWorks, Driven, Works
<1>11. CASE SecondWorks
  BY <1>11, SameActions DEF SecondWorks, S!Driven, S!Works
<1>12. CASE (\E n \in Blocks : ChainProcess(n)) \/ ChainReturn
  BY <1>1, <1>12 DEF ChainProcess, ChainReturn
<1>13. CASE UNCHANGED all
  BY <1>1, <1>13 DEF all
<1> QED BY <1>2, <1>3, <1>4, <1>5, <1>6, <1>7, <1>8, <1>9, <1>10, <1>11, <1>12, <1>13 DEF ChainNext

-----------------------------------------------------------------------------
(* StagesConvolve: in a chain as alone, each stage's outputs are the        *)
(* textbook convolution of its inputs.                                      *)
THEOREM ChainStagesConvolve == ChainSpec => []StagesConvolve
<1>1. ChainInv => StagesConvolve
  BY SameProperties DEF ChainInv, StageInv, S!StageInv, StagesConvolve
<1> QED BY <1>1, ChainInvariant, PTL

(* StagesAreExactRate: each stage refines the exact-rate engine, whoever    *)
(* drives it and with whatever chunks.                                      *)
THEOREM ChainStagesAreExactRate == ChainSpec => StagesAreExactRate
<1>1. ChainSpec => DrivenSpec /\ S!DrivenSpec
  BY ChainInitHolds, ChainDrives, ChainInvariant, PTL DEF ChainSpec, DrivenSpec, S!DrivenSpec
<1>2. DrivenSpec => ImplementsExactRate
  BY DrivenIsExact, PTL
<1>3. S!DrivenSpec => S!ImplementsExactRate
  BY SecondSizes, S!DrivenIsExact, PTL
<1>4. S!ImplementsExactRate => Second!ImplementsExactRate
  BY SameProperties, PTL
     DEF S!ImplementsExactRate, Second!ImplementsExactRate, S!Exact!Spec, Second!Exact!Spec,
         S!Exact!vars, Second!Exact!vars
<1> QED BY <1>1, <1>2, <1>3, <1>4, PTL DEF StagesAreExactRate

(* AllPromisesKept: the stages' calls come to what their companions said,   *)
(* and the chain's process() to what outputs_for() said, whatever the       *)
(* chunks it was cut into.                                                  *)
THEOREM ChainPromisesKept == ChainSpec => AllPromisesKept
<1>1. ASSUME ChainInv, ChainReturn, at = "process" PROVE made2 = base + vow
  <2>1. /\ pc = "idle" /\ pc2 = "idle" /\ passed = made /\ rest = 0 /\ ~banked /\ ~banked2
        /\ base + vow = made2 + Coming /\ left = 0 /\ left2 = 0
        /\ made \in Nat /\ made2 \in Nat /\ pos \in Nat /\ pos2 \in Nat
        /\ PendingInputs \in Nat /\ S!PendingInputs \in Nat /\ PendingInputs > 0 /\ S!PendingInputs > 0
    BY <1>1, ChainParts
       DEF ChainReturn, AtRest, ChainInv, Turns, Owing, StageInv, Owed, S!StageInv, S!Owed
  <2>2. OutputsFor(pos, PendingInputs, 0) = 0
    BY <2>1, OutputsForSign
  <2>3. S!OutputsFor(pos2, S!PendingInputs, 0) = 0
    BY <2>1, SecondSizes, S!OutputsForSign
  <2>4. left + rest = 0 /\ left2 + (made - passed) + 0 = 0
    BY <2>1
  <2>5. Coming = 0
    BY <2>2, <2>3, <2>4 DEF Coming
  <2> QED BY <2>1, <2>5
<1>2. ChainInv => /\ ProcessDone \/ FlushDone => made = promise
                  /\ PullDone => fed = promise
                  /\ PullDry => fed < promise
  BY PromiseStep DEF ChainInv
<1>3. ChainInv => /\ Second!ProcessDone \/ Second!FlushDone => made2 = promise2
                  /\ Second!PullDone => fed2 = promise2
                  /\ Second!PullDry => fed2 < promise2
  BY SecondSizes, S!PromiseStep, SameActions DEF ChainInv
<1>4. ChainSpec => PromisesKept
  <2>1. ChainInv => [/\ ProcessDone \/ FlushDone => made = promise
                     /\ PullDone => fed = promise
                     /\ PullDry => fed < promise]_vars
    BY <1>2
  <2> QED BY <2>1, ChainInvariant, PTL DEF PromisesKept
<1>5. ChainSpec => Second!PromisesKept
  <2>1. ChainInv => [/\ Second!ProcessDone \/ Second!FlushDone => made2 = promise2
                     /\ Second!PullDone => fed2 = promise2
                     /\ Second!PullDry => fed2 < promise2]_(Second!vars)
    BY <1>3
  <2> QED BY <2>1, ChainInvariant, PTL DEF Second!PromisesKept
<1>6. ChainSpec => [][ChainReturn /\ at = "process" => made2 = base + vow]_all
  <2>1. ChainInv => [ChainReturn /\ at = "process" => made2 = base + vow]_all
    BY <1>1
  <2> QED BY <2>1, ChainInvariant, PTL
<1> QED BY <1>4, <1>5, <1>6, PTL DEF AllPromisesKept

-----------------------------------------------------------------------------
(* SizingIsTight: frames_needed() is the smallest block that yields the     *)
(* outputs asked for, for the stages and for the two composed, and no chunk *)
(* overruns the scratch.                                                    *)
THEOREM ChainSizingIsTight == ChainSpec => []SizingIsTight
<1>1. ASSUME ChainInv, NEW k \in Nat \ {0}
      PROVE  LET n == ChainFramesNeeded(k)
             IN ChainOutputsFor(n) >= k /\ (n > 0 => ChainOutputsFor(n - 1) < k)
  <2> DEFINE j == S!StageFramesNeeded(k)
  <2> DEFINE n == StageFramesNeeded(j)
  <2>0. StageInv /\ S!StageInv /\ k \in Nat /\ k > 0
    BY <1>1 DEF ChainInv
  <2>1. /\ j \in Nat /\ S!StageOutputsFor(j) >= k /\ S!StageOutputsFor(j) \in Nat
        /\ j > 0 => S!StageOutputsFor(j - 1) < k /\ S!StageOutputsFor(j - 1) \in Nat
    <3>1. j \in Nat /\ S!StageOutputsFor(j) >= k /\ (j > 0 => S!StageOutputsFor(j - 1) < k)
      BY <2>0, SecondSizes, S!StageSizing
    <3>2. j > 0 => j - 1 \in Nat
      BY <3>1
    <3> HIDE DEF j
    <3> QED BY <2>0, <3>1, <3>2, SecondSizes, S!StageSizing
  <2> HIDE DEF j
  <2>2. /\ n \in Nat /\ StageOutputsFor(n) \in Nat /\ StageOutputsFor(n) >= j
        /\ n > 0 => j > 0 /\ StageOutputsFor(n - 1) < j /\ StageOutputsFor(n - 1) \in Nat
    <3>1. n \in Nat /\ (j > 0 => StageOutputsFor(n) >= j /\ (n > 0 => StageOutputsFor(n - 1) < j))
      BY <2>0, <2>1, StageSizing
    <3>2. j = 0 => n = 0
      BY DEF StageFramesNeeded
    <3>3. n > 0 => n - 1 \in Nat
      BY <3>1
    <3> HIDE DEF n
    <3>4. StageOutputsFor(n) \in Nat /\ (n > 0 => StageOutputsFor(n - 1) \in Nat)
      BY <2>0, <3>1, <3>3, StageSizing
    <3> QED BY <2>1, <3>1, <3>2, <3>4
  <2> HIDE DEF n
  <2>3. S!StageOutputsFor(StageOutputsFor(n)) >= k
    <3> DEFINE o == StageOutputsFor(n)
    <3>1. o \in Nat /\ j \in 0..o
      BY <2>1, <2>2
    <3> HIDE DEF o
    <3>2. S!StageOutputsFor(j) <= S!StageOutputsFor(o) /\ S!StageOutputsFor(o) \in Nat
      BY <2>0, <3>1, SecondSizes, S!StageSizing
    <3> QED BY <2>0, <2>1, <3>2 DEF o
  <2>4. ASSUME n > 0 PROVE S!StageOutputsFor(StageOutputsFor(n - 1)) < k
    <3> DEFINE o == StageOutputsFor(n - 1)
    <3> DEFINE i == j - 1
    <3>1. o \in Nat /\ i \in Nat /\ o \in 0..i /\ S!StageOutputsFor(i) < k
      BY <2>1, <2>2, <2>4
    <3> HIDE DEF o, i
    <3>2. S!StageOutputsFor(o) <= S!StageOutputsFor(i) /\ S!StageOutputsFor(i) \in Nat /\ S!StageOutputsFor(o) \in Nat
      BY <2>0, <3>1, SecondSizes, S!StageSizing
    <3> QED BY <2>0, <3>1, <3>2 DEF o
  <2>5. ChainFramesNeeded(k) = n
    BY SameSizing DEF ChainFramesNeeded, n, j
  <2> QED BY <2>3, <2>4, <2>5, SameSizing DEF ChainOutputsFor
<1>2. ASSUME StageInv PROVE FramesNeededIsLeast /\ ChainBound
  BY <1>2, RestingSizes
<1>3. ASSUME ChainInv PROVE AllNeedsAreLeast
  <2>1. FramesNeededIsLeast
    BY <1>2, <1>3 DEF ChainInv
  <2>2. S!StageInv
    BY <1>3 DEF ChainInv
  <2>3. Second!FramesNeededIsLeast
    BY <2>2, SecondSizes, S!RestingSizes, SameProperties
  <2>4. \A k \in Blocks \ {0} : k \in Nat \ {0}
    BY StageAssumption
  <2> QED BY <1>1, <1>3, <2>1, <2>3, <2>4 DEF AllNeedsAreLeast
<1>4. ASSUME ChainInv PROVE ScratchFits
  <2>1. ChainBound
    BY <1>2, <1>4 DEF ChainInv
  <2>2. S!StageInv
    BY <1>4 DEF ChainInv
  <2>3. Second!ChainBound
    BY <2>2, SecondSizes, S!RestingSizes, SameProperties
  <2>4. at = "process" => made - passed <= Scratch
    <3> SUFFICES ASSUME at = "process" PROVE made - passed <= Scratch
      OBVIOUS
    <3>1. /\ (IF pc = "idle" THEN made ELSE promise) <= passed + Scratch
          /\ pc \in {"idle", "process"} /\ pos \in Nat /\ PendingInputs \in Nat /\ left \in Nat
          /\ made \in Nat /\ promise \in Nat /\ passed \in Nat /\ Scratch \in Nat
      BY <1>4, ChainParts DEF ChainInv, Owing, Turns
    <3>2. pc = "process" => made <= promise
      <4>1. StageInv /\ (pc = "process" => promise = made + StageOutputsFor(left))
        BY <1>4 DEF ChainInv, StageInv, Owed
      <4>2. StageOutputsFor(left) \in Nat
        BY <3>1, <4>1, StageSizing
      <4> QED BY <3>1, <4>1, <4>2
    <3> QED BY <3>1, <3>2
  <2> QED BY <2>1, <2>3, <2>4 DEF ScratchFits
<1>5. ChainInv => SizingIsTight
  BY <1>3, <1>4 DEF SizingIsTight
<1> QED BY <1>5, ChainInvariant, PTL

-----------------------------------------------------------------------------
(* Two ceilings are one.                                                    *)
LEMMA CeilingsCompose ==
  ASSUME NEW x \in Nat, NEW m \in Nat \ {0}, NEW m2 \in Nat \ {0}, NEW k \in Nat, NEW k2 \in Nat,
         x <= k * m, (k - 1) * m < x, k <= k2 * m2, (k2 - 1) * m2 < k
  PROVE  k2 = (x + m * m2 - 1) \div (m * m2)
<1> DEFINE d == m * m2
<1> DEFINE y == k2 * d
<1> DEFINE u == (k2 - 1) * m2
<1>1. d \in Nat \ {0} /\ y \in Nat /\ u \in Int
  OBVIOUS
<1>2. x <= y
  <2> DEFINE v == k2 * m2
  <2>1. v \in Nat /\ k <= v
    OBVIOUS
  <2>2. y = v * m
    OBVIOUS
  <2> HIDE DEF v, y
  <2>3. k * m <= v * m /\ k * m \in Nat /\ v * m \in Nat
    BY <2>1
  <2> QED BY <2>2, <2>3
<1>3. y - d < x
  <2>1. u * m = y - d
    <3>1. u = k2 * m2 - m2 /\ k2 * m2 \in Nat
      OBVIOUS
    <3> DEFINE v == k2 * m2
    <3>2. u = v - m2 /\ v \in Nat
      BY <3>1
    <3>3. y = v * m
      OBVIOUS
    <3> HIDE DEF u, v, y
    <3>4. u * m = v * m - m2 * m /\ v * m \in Nat /\ m2 * m = d
      BY <3>2
    <3> QED BY <3>3, <3>4
  <2>2. u <= k - 1
    BY <1>1
  <2> HIDE DEF u, y, d
  <2>3. u * m <= (k - 1) * m /\ u * m \in Int /\ (k - 1) * m \in Int
    BY <1>1, <2>2
  <2> QED BY <1>1, <2>1, <2>3
<1> DEFINE n == x + d - 1
<1> DEFINE r == n - y
<1> HIDE DEF y, u, d
<1>4. n \in Int /\ r \in 0..(d - 1) /\ n = y + r
  BY <1>1, <1>2, <1>3
<1>5. y = d * k2
  BY DEF y, d
<1> HIDE DEF n, r
<1>6. n \div d = k2
  <2>1. n = d * k2 + r /\ k2 \in Int
    BY <1>4, <1>5
  <2> QED BY <1>1, <1>4, <2>1, DivUnique
<1> QED BY <1>6 DEF n, d

(* ChainIsExactRate: the two stages are together as exact as each is alone, *)
(* at any ratio of theirs (the second one's L being 1), however process()   *)
(* was cut and wherever it stopped.                                         *)
THEOREM ChainConvertsExactly == ChainSpec => []ChainIsExactRate
<1>1. ASSUME ChainInv, used = "chain", at = "idle", whole, L2 = 1
      PROVE  made2 = (fed * L + M * M2 - 1) \div (M * M2)
  <2>1. /\ pc = "idle" /\ pc2 = "idle" /\ ~banked /\ ~banked2 /\ passed = made
        /\ left2 = 0 /\ fed2 = made /\ StageInv /\ S!StageInv
        /\ fed \in Nat /\ made \in Nat /\ made2 \in Nat /\ fed2 \in Nat
    BY <1>1, ChainParts DEF ChainInv, Turns, Passing
  <2>2. fed * L <= made * M /\ (made - 1) * M < fed * L
    BY <2>1, RestingRate
  <2>3. fed2 * L2 <= made2 * M2 /\ (made2 - 1) * M2 < fed2 * L2
    BY <2>1, SecondSizes, S!RestingRate
  <2>4. made <= made2 * M2 /\ (made2 - 1) * M2 < made
    BY <1>1, <2>1, <2>3
  <2>5. L \in Nat \ {0} /\ M \in Nat \ {0} /\ M2 \in Nat \ {0}
    BY StageSizes, ChainAssumption
  <2> DEFINE x == fed * L
  <2>6. x \in Nat /\ x <= made * M /\ (made - 1) * M < x
    BY <2>1, <2>2, <2>5
  <2> HIDE DEF x
  <2>7. made2 = (x + M * M2 - 1) \div (M * M2)
    BY <2>1, <2>4, <2>5, <2>6, CeilingsCompose
  <2> QED BY <2>7 DEF x
<1>2. ChainInv => ChainIsExactRate
  BY <1>1 DEF ChainIsExactRate
<1> QED BY <1>2, ChainInvariant, PTL

(* FlushIsZeroPadding: window_frames() zeros are as many as drive the last  *)
(* sample of the stream out of the first stage's reach.                     *)
THEOREM ChainFlushPads == ChainSpec => []FlushIsZeroPadding
<1>1. ASSUME ChainInv, at = "drain", NEW i \in 0..(RowLen - 2)
      PROVE  lines[0][Len(lines[0]) - i] > padded
  <2>0. /\ L \in Nat \ {0} /\ M \in Nat \ {0} /\ RowLen \in Nat \ {0} /\ FilterTaps \in Nat \ {0}
        /\ FilterTaps <= Stride * RowLen /\ Stride * RowLen < FilterTaps + Stride /\ Stride \in Nat \ {0}
        /\ 0 \in Lines
    BY StageSizes
  <2>1. /\ Dealt(lines, fed, dphase) /\ MachineOK /\ left = 0 /\ fed \in Nat /\ padded \in Nat
        /\ fed = padded + WindowFrames
    <3>1. /\ StageInv /\ left = 0 /\ fed \in Nat /\ padded \in Nat /\ WindowFrames \in Nat
          /\ fed + left = padded + WindowFrames
      BY <1>1, ChainParts DEF ChainInv, Turns, Padding, ChainTypes
    <3> QED BY <3>1, InvParts DEF StageInv
  <2> DEFINE x == lines[0][Len(lines[0]) - i]
  <2>2. x = NewestOf(0, fed, dphase) - i * LineStep
    <3>1. i \in 0..(RowLen - 1)
      BY <2>0
    <3> QED BY <2>0, <2>1, <3>1 DEF Dealt
  <2> HIDE DEF x
  <2>3. CASE ~IsDecimator
    <3>1. LineStep = 1 /\ dphase = 0 /\ WindowFrames = RowLen
      BY <2>1, <2>3 DEF LineStep, MachineOK, WindowFrames
    <3>2. x = fed - i
      BY <2>0, <2>1, <2>2, <3>1 DEF NewestOf
    <3>3. x > padded
      BY <2>0, <2>1, <3>1, <3>2
    <3> QED BY <3>3 DEF x
  <2>4. CASE IsDecimator
    <3>1. LineStep = M /\ Stride = M /\ dphase \in 0..(M - 1) /\ WindowFrames = FilterTaps - 1
      BY <2>1, <2>4 DEF LineStep, Stride, MachineOK, WindowFrames
    <3> DEFINE s == i * M
    <3> DEFINE j == RowLen - 2
    <3> DEFINE t == j * M
    <3> DEFINE w == M * RowLen
    <3>2. s \in Nat /\ s <= t /\ t \in Int /\ w \in Nat /\ t = w - 2 * M
      <4>1. i \in Nat /\ i <= j /\ j \in Int
        BY <2>0
      <4>2. t = w - 2 * M /\ w \in Nat /\ t \in Int
        BY <2>0
      <4> HIDE DEF j, w
      <4>3. s \in Nat /\ s <= t
        BY <2>0, <4>1
      <4> QED BY <4>2, <4>3
    <3>3. w < FilterTaps + M
      BY <2>0, <3>1
    <3> HIDE DEF s, j, t, w
    <3>4. x = NewestOf(0, fed, dphase) - s
      BY <2>2, <3>1 DEF s
    <3>5. NewestOf(0, fed, dphase) = IF 0 < dphase THEN fed - dphase + 1 ELSE fed + 1 - M
      BY <2>0, <2>1, <3>1 DEF NewestOf
    <3>6. x > padded
      BY <2>0, <2>1, <3>1, <3>2, <3>3, <3>4, <3>5
    <3> QED BY <3>6 DEF x
  <2> QED BY <2>3, <2>4
<1>2. ChainInv => FlushIsZeroPadding
  BY <1>1 DEF FlushIsZeroPadding
<1> QED BY <1>2, ChainInvariant, PTL

=============================================================================
