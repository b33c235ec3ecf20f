---------------------------- MODULE RationalStage ----------------------------
(***************************************************************************)
(* tap::sr::rational::basic_stage (rational/stage.h): one Nyquist stage.   *)
(* Two machines behind one interface, chosen by the ratio: with L > 1 a    *)
(* single delay line walked by the L-phase schedule, with L = 1 a          *)
(* decimator dealing its input to M sub-lines and summing one branch of    *)
(* the filter from each.                                                   *)
(*                                                                         *)
(* One thread; a call is one step per input frame and one per output       *)
(* frame.  A frame is its number in the stream, as in BridgeConverter; a   *)
(* coefficient is its index in the design, k_rows x row_len of them.       *)
(***************************************************************************)
EXTENDS Schedule, Sequences

CONSTANTS
  FilterTaps, \* m_taps, the design's length N
  Slack,      \* k_hist_slack (64)
  PopChunk,   \* k_pop_chunk (16)
  Blocks,     \* bound: sizes process() and pull() are called with
  MaxFrames   \* bound: inputs of one stream

ASSUME StageAssumption ==
  /\ FilterTaps \in Nat \ {0} /\ Slack \in Nat \ {0} /\ PopChunk \in Nat \ {0}
  /\ Blocks \subseteq Nat /\ MaxFrames \in Nat

VARIABLES
  lines,    \* m_hist and m_end: one channel's delay lines, each up to its end
  pos,      \* m_pos      (L-phase machine)
  pending,  \* m_pending  (L-phase machine)
  dphase,   \* m_dphase   (decimator)
  pc,       \* the call under way: "process", "pull", "flush" or none, "idle"
  left,     \* its inputs to come: the rest of the block, what is left in m_scratch,
            \* the zeros to feed
  todo,     \* its outputs to come: pull(), and process() on the L-phase machine
  need,     \* pull(): inputs before its next output
  fed,      \* history: inputs appended since the last reset
  made,     \* history: outputs since the last reset
  heard,    \* history: the <<input, coefficient>> products of the newest output
  promise,  \* history: what the sizing companion said when the call began
  banked    \* history: the last call was a pull()

machine == <<pos, pending, dphase>>
call    == <<pc, left, todo, need>>
vars    == <<lines, machine, call, fed, made, heard, promise, banked>>

IsDecimator == L = 1

(* k_lines, the taps a row skips between two of its own, and their number.  *)
Lines   == IF IsDecimator THEN 0..(M - 1) ELSE {0}
Stride  == IF IsDecimator THEN M ELSE L
RowLen  == (FilterTaps + Stride - 1) \div Stride
HistCap == RowLen + Slack

(* Fault: the latency in place of the window.                               *)
WindowFramesLatency == IF IsDecimator THEN FilterTaps \div 2 ELSE RowLen \div 2

WindowFrames == IF IsDecimator THEN FilterTaps - 1 ELSE RowLen

(* The zeros of a fresh line; line s of a decimator is dealt the inputs     *)
(* s + 1, s + 1 + M, ...                                                    *)
Silence ==
  [s \in Lines |-> [i \in 1..RowLen |->
     s + 1 - (IF IsDecimator THEN M ELSE 1) * (RowLen - i + 1)]]

Init ==
  /\ lines = Silence /\ pos = 0 /\ pending = 1 /\ dphase = 0
  /\ pc = "idle" /\ left = 0 /\ todo = 0 /\ need = 0
  /\ fed = 0 /\ made = 0 /\ heard = {} /\ promise = 0 /\ banked = FALSE

-----------------------------------------------------------------------------
(* pending_inputs(), outputs_for(n), frames_needed(k).                      *)
PendingInputs == IF IsDecimator THEN 1 + ((M - dphase) % M) ELSE pending

(* Fault: the decimation phase left out.                                    *)
StageOutputsNoPhase(n) ==
  IF IsDecimator THEN (n + M - 1) \div M ELSE OutputsForNoPos(pos, pending, n)

StageOutputsFor(n) ==
  IF ~IsDecimator THEN OutputsFor(pos, pending, n)
  ELSE IF n < PendingInputs THEN 0 ELSE 1 + (n - PendingInputs) \div M

(* Fault: the first output charged a whole period.                          *)
StageFramesWhole(k) ==
  IF k = 0 THEN 0 ELSE IF IsDecimator THEN k * M ELSE pending + Due(k - 1)

(* schedule_frames_needed() at the machine's position.                      *)
ScheduleFramesNeeded(k) == InputsBetween(pos, k)

StageFramesNeeded(k) ==
  IF k = 0 THEN 0
  ELSE PendingInputs + (IF IsDecimator THEN (k - 1) * M ELSE ScheduleFramesNeeded(k - 1))

-----------------------------------------------------------------------------
(* compact(): a full line keeps its newest row_len - 1 samples.             *)
Compacted(line) ==
  IF Len(line) = HistCap THEN SubSeq(line, HistCap - RowLen + 2, HistCap) ELSE line

(* append_frame() / append_silence(), on the current sub-line.              *)
TakeOne ==
  LET sub == IF IsDecimator THEN dphase ELSE 0 IN
  /\ fed' = fed + 1
  /\ left' = left - 1
  /\ lines' = [lines EXCEPT ![sub] = Append(Compacted(@), fed + 1)]

(* Fault: a decimator's phase wraps one input late.                         *)
ConsumeOneLate ==
  IF IsDecimator
  THEN dphase' = (IF dphase = M - 1 THEN 1 % M ELSE dphase + 1) /\ UNCHANGED <<pos, pending>>
  ELSE pending' = pending - 1 /\ UNCHANGED <<pos, dphase>>

(* consume_one(); process() and flush() do the same inline.                 *)
ConsumeOne ==
  IF IsDecimator
  THEN dphase' = (IF dphase + 1 = M THEN 0 ELSE dphase + 1) /\ UNCHANGED <<pos, pending>>
  ELSE pending' = pending - 1 /\ UNCHANGED <<pos, dphase>>

-----------------------------------------------------------------------------
(* Faults: branch j taken from sub-line j; the phase stepped by one.        *)
LineOfStraight(r) == IF IsDecimator THEN r ELSE 0
RowsInOrder       == IF IsDecimator THEN 0..(M - 1) ELSE {pos}

(* The rows an output is summed over, the line each reads, the coefficients *)
(* build_table() puts in it: r, r + Stride, ... from the newest sample on.  *)
Rows         == IF IsDecimator THEN 0..(M - 1) ELSE {(pos * M) % L}
LineOf(r)    == IF IsDecimator THEN (M - r) % M ELSE 0
Coefficients == {rt \in Rows \X (0..(RowLen - 1)) : rt[1] + rt[2] * Stride < FilterTaps}

(* emit()'s multiply-accumulates over the delay lines ls.                   *)
Products(ls) ==
  {LET line == ls[LineOf(rt[1])] IN <<line[Len(line) - rt[2]], rt[1] + rt[2] * Stride>> :
     rt \in Coefficients}

(* emit() on the lines as they will be: one output, and on the L-phase      *)
(* machine the schedule's step.                                             *)
Sound == made' = made + 1 /\ heard' = Products(lines')

Emit ==
  /\ UNCHANGED <<lines, dphase>>
  /\ Sound
  /\ IF IsDecimator THEN UNCHANGED <<pos, pending>>
     ELSE pending' = Advance(pos) /\ pos' = NextPos(pos)

Silent == UNCHANGED <<made, heard>>

-----------------------------------------------------------------------------
Start(name) ==
  /\ pc = "idle"
  /\ pc' = name
  /\ UNCHANGED <<lines, machine, fed, made, heard>>

Return ==
  /\ pc' = "idle" /\ left' = 0 /\ todo' = 0 /\ need' = 0
  /\ UNCHANGED <<lines, machine, fed, made, heard, promise, banked>>

Reset ==
  /\ pc = "idle"
  /\ lines' = Silence /\ pos' = 0 /\ pending' = 1 /\ dphase' = 0
  /\ fed' = 0 /\ made' = 0 /\ heard' = {} /\ promise' = 0 /\ banked' = FALSE
  /\ UNCHANGED call

(* A decimator's loop body, the same in process() and in flush(): the input *)
(* at phase 0 completes an output.                                          *)
Decimate(name) ==
  /\ IsDecimator /\ pc = name /\ left # 0
  /\ TakeOne
  /\ IF dphase = 0 THEN Sound ELSE Silent
  /\ ConsumeOne
  /\ UNCHANGED <<pc, todo, need, promise, banked>>

-----------------------------------------------------------------------------
(* process(in, n, out).                                                     *)
ProcessDecimate == Decimate("process")

ProcessStart(n) ==
  /\ fed + n <= MaxFrames
  /\ Start("process")
  /\ left' = n
  /\ todo' = IF IsDecimator THEN 0 ELSE StageOutputsFor(n)
  /\ promise' = made + StageOutputsFor(n)
  /\ banked' = FALSE
  /\ UNCHANGED need

ProcessAppend ==
  /\ ~IsDecimator /\ pc = "process"
  /\ \/ todo # 0 /\ pending # 0
     \/ todo = 0 /\ left # 0
  /\ TakeOne /\ ConsumeOne /\ Silent
  /\ UNCHANGED <<pc, todo, need, promise, banked>>

ProcessEmit ==
  /\ pc = "process" /\ todo # 0 /\ pending = 0
  /\ Emit
  /\ todo' = todo - 1
  /\ UNCHANGED <<pc, left, need, fed, promise, banked>>

ProcessDone == pc = "process" /\ todo = 0 /\ left = 0 /\ Return

-----------------------------------------------------------------------------
(* pull(out, n, pop): need is read once per output; the source delivers any *)
(* part of what is asked, or nothing, which ends the call.                  *)
PullStart(n) ==
  /\ Start("pull")
  /\ todo' = n
  /\ need' = IF n = 0 THEN 0 ELSE PendingInputs
  /\ promise' = fed + StageFramesNeeded(n)
  /\ banked' = TRUE
  /\ UNCHANGED left

PullPop ==
  /\ pc = "pull" /\ need # 0 /\ left = 0
  /\ \E got \in 1..(IF need < PopChunk THEN need ELSE PopChunk) :
        fed + got <= MaxFrames /\ left' = got
  /\ UNCHANGED <<lines, machine, pc, todo, need, fed, made, heard, promise, banked>>

PullDry == pc = "pull" /\ need # 0 /\ left = 0 /\ Return

PullAppend ==
  /\ pc = "pull" /\ left # 0
  /\ TakeOne /\ ConsumeOne /\ Silent
  /\ need' = need - 1
  /\ UNCHANGED <<pc, todo, promise, banked>>

PullEmit ==
  /\ pc = "pull" /\ todo # 0 /\ need = 0
  /\ Emit
  /\ todo' = todo - 1
  /\ need' = IF todo = 1 THEN 0 ELSE PendingInputs'
  /\ UNCHANGED <<pc, left, fed, promise, banked>>

PullDone == pc = "pull" /\ todo = 0 /\ Return

-----------------------------------------------------------------------------
(* flush(out): window_frames() zeros.                                       *)
FlushOutputFrames == StageOutputsFor(WindowFrames)

FlushStart ==
  /\ fed + WindowFrames <= MaxFrames
  /\ Start("flush")
  /\ left' = WindowFrames
  /\ promise' = made + FlushOutputFrames
  /\ banked' = FALSE
  /\ UNCHANGED <<todo, need>>

FlushDecimate == Decimate("flush")

FlushAppend ==
  /\ ~IsDecimator /\ pc = "flush" /\ pending # 0 /\ left # 0
  /\ TakeOne /\ ConsumeOne /\ Silent
  /\ UNCHANGED <<pc, todo, need, promise, banked>>

FlushEmit ==
  /\ pc = "flush" /\ pending = 0
  /\ Emit
  /\ UNCHANGED <<call, fed, promise, banked>>

FlushDone == pc = "flush" /\ left = 0 /\ PendingInputs # 0 /\ Return

-----------------------------------------------------------------------------
Next ==
  \/ Reset
  \/ \E n \in Blocks : ProcessStart(n) \/ PullStart(n)
  \/ ProcessDecimate \/ FlushDecimate
  \/ ProcessAppend \/ ProcessEmit \/ ProcessDone
  \/ PullPop \/ PullDry \/ PullAppend \/ PullEmit \/ PullDone
  \/ FlushStart \/ FlushAppend \/ FlushEmit \/ FlushDone

Spec == Init /\ [][Next]_vars

-----------------------------------------------------------------------------
TypeOK ==
  /\ lines \in [Lines -> Seq(Int)]
  /\ \A s \in Lines : Len(lines[s]) \in RowLen..HistCap
  /\ pos \in Positions /\ pending \in Nat /\ dphase \in 0..(M - 1)
  /\ pc \in {"idle", "process", "pull", "flush"}
  /\ left \in Nat /\ todo \in Nat /\ need \in Nat
  /\ fed \in Nat /\ made \in Nat /\ heard \subseteq Int \X Nat
  /\ promise \in Nat /\ banked \in BOOLEAN

(* The polyphase machine is the textbook one: output n is the sum, over     *)
(* every coefficient k with L dividing n M - k, of h[k] times the input at  *)
(* composite time n M - k.  Sub-lines, schedule phases, compactions, pops   *)
(* in chunks, dry returns and flushes in between do not show.               *)
IsConvolution ==
  made > 0 =>
    LET t == (made - 1) * M
    IN heard = {<<(t - k) \div L + 1, k>> : k \in {j \in 0..(FilterTaps - 1) : (t - j) % L = 0}}

(* The sizing companions tell the truth: process() and flush() write what   *)
(* outputs_for() said, a pull() that is not cut short consumes exactly      *)
(* frames_needed(), and one that is was given less.                         *)
PromisesKept ==
  [][/\ ProcessDone \/ FlushDone => made = promise
     /\ PullDone => fed = promise
     /\ PullDry => fed < promise]_vars

(* "The smallest n with outputs_for(n) >= out_frames", from every position. *)
FramesNeededIsLeast ==
  pc = "idle" =>
    \A k \in Blocks \ {0} :
      LET n == StageFramesNeeded(k)
      IN StageOutputsFor(n) >= k /\ (n > 0 => StageOutputsFor(n - 1) < k)

(* The bound tap::dsp::chain sizes its scratch by: after a process() or a   *)
(* flush(), no block of n inputs yields more than floor(n L / M) + 2.       *)
ChainBound ==
  pc = "idle" /\ ~banked =>
    \A n \in Blocks : StageOutputsFor(n) <= (n * L) \div M + 2

Exact == INSTANCE ExactRate

(* Driven in any way, the stage is the exact-rate engine: output n when     *)
(* input floor(n M / L) has arrived, and never with a later one.            *)
ImplementsExactRate == Exact!Spec

=============================================================================
