--------------------------- MODULE BridgeConverter ---------------------------
(***************************************************************************)
(* tap::sr::bridge::basic_converter (bridge/converter.h): the synchronous  *)
(* L/M engine with its three ways of driving it, process(), pull() and     *)
(* flush(), in any order on one stream.                                    *)
(*                                                                         *)
(* One thread; a call is one step per input frame and one per output       *)
(* frame.  A frame is its number in the stream: the silence the histories  *)
(* are primed with ends at number 0, the zeros of a flush() are numbered   *)
(* like real input.                                                        *)
(***************************************************************************)
EXTENDS PhaseTable, Sequences

CONSTANTS
  Slack,     \* k_hist_slack (64)
  PopChunk,  \* k_pop_chunk (16)
  Blocks,    \* bound: sizes process() and pull() are called with
  MaxFrames  \* bound: inputs of one stream

ASSUME ConverterAssumption ==
  /\ Slack \in Nat \ {0} /\ PopChunk \in Nat \ {0}
  /\ Blocks \subseteq Nat /\ MaxFrames \in Nat

VARIABLES
  hist,      \* one channel's delay line, up to m_end
  pos,       \* m_pos
  pending,   \* m_pending
  pc,        \* the call under way: "process", "pull", "flush" or none, "idle"
  left,      \* its inputs to come: process() the rest of the block, pull() what is
             \* left in m_scratch, flush() the zeros to feed
  todo,      \* its outputs to come: process() and pull()
  fed,       \* history: inputs appended since the last reset
  made,      \* history: outputs since the last reset
  promise,   \* history: what the sizing companion said when the call began
  banked     \* history: the last call was a pull()

stream  == <<hist, pos, pending>>
call    == <<pc, left, todo>>
vars    == <<stream, call, fed, made, promise, banked>>

HistCap == Taps + Slack

(* The zeros a fresh history is primed with; output 0 needs one input more. *)
Silence == [i \in 1..Taps |-> i - Taps]

Init ==
  /\ hist = Silence /\ pos = 0 /\ pending = 1
  /\ pc = "idle" /\ left = 0 /\ todo = 0
  /\ fed = 0 /\ made = 0 /\ promise = 0 /\ banked = FALSE

-----------------------------------------------------------------------------
(* Fault: the compaction keeps one frame too few.                           *)
CompactedShort == IF Len(hist) = HistCap THEN SubSeq(hist, HistCap - Taps + 3, HistCap) ELSE hist

(* append_frame() / append_silence(): a full history is compacted to its    *)
(* newest Taps - 1 frames first.                                            *)
Compacted == IF Len(hist) = HistCap THEN SubSeq(hist, HistCap - Taps + 2, HistCap) ELSE hist

(* One input enters; pending counts down to the next output.                *)
TakeOne ==
  /\ fed' = fed + 1
  /\ hist' = Append(Compacted, fed')
  /\ pending' = pending - 1
  /\ left' = left - 1

(* emit(): one output at the current schedule position.                     *)
Emit ==
  /\ pending' = Advance(pos)
  /\ pos' = NextPos(pos)
  /\ made' = made + 1

(* What the dot product of an output is made of: each input of the window   *)
(* with its coefficient.                                                    *)
Products ==
  [i \in 1..Taps |-> <<hist[Len(hist) - Taps + i], At(PhaseOf(pos), i - 1)>>]

Return ==
  /\ pc' = "idle" /\ left' = 0 /\ todo' = 0
  /\ UNCHANGED <<stream, fed, made, promise, banked>>

Reset ==
  /\ pc = "idle"
  /\ hist' = Silence /\ pos' = 0 /\ pending' = 1
  /\ fed' = 0 /\ made' = 0 /\ promise' = 0 /\ banked' = FALSE
  /\ UNCHANGED call

-----------------------------------------------------------------------------
(* process(in, n, out): the output count is settled up front, then the walk *)
(* appends what each output needs without looking at how much is left, and  *)
(* at the end the leftover.                                                 *)
ProcessStart(n) ==
  /\ pc = "idle"
  /\ fed + n <= MaxFrames
  /\ pc' = "process"
  /\ left' = n
  /\ todo' = OutputsFor(pos, pending, n)
  /\ promise' = made + todo'
  /\ banked' = FALSE
  /\ UNCHANGED <<stream, fed, made>>

ProcessAppend ==
  /\ pc = "process"
  /\ \/ todo # 0 /\ pending # 0
     \/ todo = 0 /\ left # 0
  /\ TakeOne
  /\ UNCHANGED <<pos, pc, todo, made, promise, banked>>

ProcessEmit ==
  /\ pc = "process" /\ todo # 0 /\ pending = 0
  /\ Emit
  /\ todo' = todo - 1
  /\ UNCHANGED <<hist, pc, left, fed, promise, banked>>

ProcessDone ==
  /\ pc = "process" /\ todo = 0 /\ left = 0
  /\ Return

-----------------------------------------------------------------------------
(* pull(out, n, pop): the source may deliver any part of what is asked, or  *)
(* nothing, which ends the call.                                            *)
PullStart(n) ==
  /\ pc = "idle"
  /\ pc' = "pull"
  /\ todo' = n
  /\ promise' = fed + FramesNeeded(pos, pending, n)
  /\ banked' = TRUE
  /\ UNCHANGED <<stream, left, fed, made>>

Want == IF pending < PopChunk THEN pending ELSE PopChunk

PullPop ==
  /\ pc = "pull" /\ todo # 0 /\ pending # 0 /\ left = 0
  /\ \E got \in 1..Want : fed + got <= MaxFrames /\ left' = got
  /\ UNCHANGED <<stream, pc, todo, fed, made, promise, banked>>

PullDry ==
  /\ pc = "pull" /\ todo # 0 /\ pending # 0 /\ left = 0
  /\ Return

PullAppend ==
  /\ pc = "pull" /\ left # 0
  /\ TakeOne
  /\ UNCHANGED <<pos, pc, todo, made, promise, banked>>

PullEmit ==
  /\ pc = "pull" /\ todo # 0 /\ pending = 0
  /\ Emit
  /\ todo' = todo - 1
  /\ UNCHANGED <<hist, pc, left, fed, promise, banked>>

PullDone ==
  /\ pc = "pull" /\ todo = 0
  /\ Return

-----------------------------------------------------------------------------
(* flush(out): Taps zeros; no count is settled up front, the zeros that     *)
(* remain end it.                                                           *)
FlushStart ==
  /\ pc = "idle"
  /\ fed + Taps <= MaxFrames
  /\ pc' = "flush"
  /\ left' = Taps
  /\ promise' = made + OutputsFor(pos, pending, Taps)
  /\ banked' = FALSE
  /\ UNCHANGED <<stream, todo, fed, made>>

FlushAppend ==
  /\ pc = "flush" /\ pending # 0 /\ left # 0
  /\ TakeOne
  /\ UNCHANGED <<pos, pc, todo, made, promise, banked>>

FlushEmit ==
  /\ pc = "flush" /\ pending = 0
  /\ Emit
  /\ UNCHANGED <<hist, call, fed, promise, banked>>

FlushDone ==
  /\ pc = "flush" /\ pending # 0 /\ left = 0
  /\ Return

-----------------------------------------------------------------------------
Next ==
  \/ Reset
  \/ \E n \in Blocks : ProcessStart(n) \/ PullStart(n)
  \/ ProcessAppend \/ ProcessEmit \/ ProcessDone
  \/ PullPop \/ PullDry \/ PullAppend \/ PullEmit \/ PullDone
  \/ FlushStart \/ FlushAppend \/ FlushEmit \/ FlushDone

Spec == Init /\ [][Next]_vars

-----------------------------------------------------------------------------
TypeOK ==
  /\ hist \in Seq(Int) /\ Len(hist) <= HistCap
  /\ pos \in Positions /\ pending \in Nat
  /\ pc \in {"idle", "process", "pull", "flush"} /\ left \in Nat /\ todo \in Nat
  /\ fed \in Nat /\ made \in Nat /\ promise \in Nat /\ banked \in BOOLEAN

(* "No drift ever": over any sequence of calls, dry pulls and mid-superblock *)
(* switches between them included, the machine is short exactly the inputs  *)
(* that output number made, due at input floor(made M / L), still needs.    *)
ScheduleExact ==
  /\ pos = made % L
  /\ fed + pending = (made * M) \div L + 1

(* process() never reads past its block and its leftover never runs the gap *)
(* below zero, though neither loop tests for it ("total is exact").         *)
NeverOutrunsInput ==
  pc = "process" =>
    /\ todo # 0 /\ pending # 0 => left > 0
    /\ todo = 0 /\ left # 0 => pending > 0

(* Every output is computed from the Taps newest inputs in order, the last  *)
(* of them floor(made M / L): compaction, chunked pops and flushes between  *)
(* do not show.                                                             *)
WindowIntact ==
  pc # "idle" /\ pending = 0 =>
    /\ Len(hist) >= Taps
    /\ \A i \in 1..Taps : hist[Len(hist) - Taps + i] = (made * M) \div L + 1 - Taps + i

(* The alignment contract: y[n] = sum_k x[floor(nM/L) - k] h[phase(n) + kL], *)
(* from n = 0, over any sequence of calls and out of half a table.  Input x *)
(* is frame x + 1.                                                          *)
IsConvolution ==
  pc # "idle" /\ pending = 0 =>
    /\ Len(hist) >= Taps
    /\ Products = [i \in 1..Taps |->
         LET k == Taps - i
         IN <<(made * M) \div L - k + 1, Prototype[((made * M) % L) + k * L]>>]

(* The sizing companions tell the truth: process() and flush() write what   *)
(* outputs_for() said, a pull() that is not cut short consumes exactly      *)
(* frames_needed(), and one that is was given less.                         *)
PromisesKept ==
  [][/\ ProcessDone \/ FlushDone => made = promise
     /\ PullDone => fed = promise
     /\ PullDry => fed < promise]_vars

(* What a chain sizes its scratch by (rational/stage.h, R9): outside a      *)
(* pull(), no block of n inputs yields more than floor(n L / M) + 2.        *)
ChainBound ==
  pc = "idle" /\ ~banked =>
    \A n \in Blocks : OutputsFor(pos, pending, n) <= (n * L) \div M + 2

Exact == INSTANCE ExactRate

(* Driven in any way, the converter is the exact-rate engine: output n when *)
(* input floor(n M / L) has arrived, and never with a later one.            *)
ImplementsExactRate == Exact!Spec

=============================================================================
