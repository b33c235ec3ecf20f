--------------------------- MODULE AsyncConverter ---------------------------
(***************************************************************************)
(* tap::sr::async::basic_converter (converter.h) with the                  *)
(* fractional_resampler it drives (polyphase_filter.h): a producer thread  *)
(* in push() and a consumer thread in pull(), the ring between them.       *)
(*                                                                         *)
(* A pull() is several steps: one per access to the ring, one per input    *)
(* frame that enters the filter's history, one per output frame.  The      *)
(* producer runs between any two of them.  push() is two steps, the        *)
(* decision how much fits and the publication.                             *)
(*                                                                         *)
(* The ring is the FIFO of module SpscFifo at frame granularity (both      *)
(* sides move whole frames, SpscRing shows the ring is that FIFO), so only *)
(* its length is kept.  Of the resampler's delay line only how far it is    *)
(* filled is kept: module Resampler follows the frames through it.         *)
(*                                                                         *)
(* The servo (module PiServo) is left open here: a pull() may see any      *)
(* deviation of EpsRange.                                                  *)
(***************************************************************************)
EXTENDS ConverterSizing, PhaseStep

CONSTANTS
  EpsRange,    \* eps_fix: the deviations the servo's clamp lets through
  FadeFrames,  \* k_fade_frames (64)
  CountRange,  \* 2^32: the telemetry counters wrap
  PushSizes,   \* bound: block sizes push() is called with
  PullSizes    \* bound: block sizes pull() is called with

(* config::validate lets max_deviation_ppm be 0.1 at most, the servo clamps *)
(* its estimate at 1.5 times that.                                          *)
ASSUME EpsAssumption == \A e \in EpsRange : e \in Int /\ 4 * e \in -PhaseRange..PhaseRange
ASSUME BlocksAssumption ==
  /\ PushSizes \subseteq Nat \ {0} /\ PullSizes \subseteq Nat
  /\ FadeFrames \in Nat \ {0} /\ CountRange \in Nat \ {0}
(* The constructor took the configuration; its ring fits the address space. *)
ASSUME ConfigAccepted == CapFrames \in Nat /\ FifoLargeEnough

VARIABLES
  ring,      \* frames in m_ring
  pushing,   \* push() under way: frames it found room for; -1 when none
  lined,     \* frames in the delay line since the last reset(), up to Taps
  staged,    \* m_scratch_frames - m_scratch_pos: popped, not yet filtered
  phase,     \* m_phase
  primed,    \* m_primed
  target,    \* m_target_frames
  observed,  \* m_observed_max_pull
  filling,   \* m_filling
  fadeLeft,  \* m_fade_frames_left
  pubState,  \* m_state, filling or not
  overruns,  \* m_overruns
  underruns, \* m_underruns
  resyncs,   \* m_resyncs
  pc,        \* where pull() stands
  frames,    \* pull(): the block asked for
  made,      \* pull(): output frames synthesized so far
  adv,       \* process(): input frames the current output frame still needs
  eps,       \* process(): eps_fix
  occ,       \* pull(): the backlog it acts on
  sinceFill, \* history: frames made since the last (re)fill, up to FadeFrames
  ranDry,    \* history: process() returned short since the last reset()
  settled    \* history: this pull() refilled or resynced

resampler == <<lined, staged, phase, primed>>
setpoint  == <<target, observed>>
call      == <<pc, frames, made, adv, eps, occ>>
counters  == <<overruns, underruns, resyncs>>
vars == <<ring, pushing, resampler, setpoint, filling, fadeLeft, pubState, counters, call,
          sinceFill, ranDry, settled>>

-----------------------------------------------------------------------------
Init ==
  /\ ring = 0 /\ pushing = -1
  /\ lined = 0 /\ staged = 0 /\ phase = 0 /\ primed = FALSE
  /\ target = TargetLatency /\ observed = 0
  /\ filling = TRUE /\ fadeLeft = 0 /\ pubState = "filling"
  /\ overruns = 0 /\ underruns = 0 /\ resyncs = 0
  /\ pc = "idle" /\ frames = 0 /\ made = 0 /\ adv = 0 /\ eps = 0 /\ occ = 0
  /\ sinceFill = FadeFrames /\ ranDry = FALSE /\ settled = FALSE

CountUp(c) == (c + 1) % CountRange

(* backlog_frames(): on the ring, or popped and not yet through the filter. *)
Backlog == ring + staged

-----------------------------------------------------------------------------
(* Producer: push(n).                                                       *)
PushStart(n) ==
  /\ pushing = -1
  /\ pushing' = MinOf(n, CapFrames - ring)
  /\ overruns' = IF pushing' < n THEN CountUp(overruns) ELSE overruns
  /\ UNCHANGED <<ring, resampler, setpoint, filling, fadeLeft, pubState, underruns, resyncs,
                 call, sinceFill, ranDry, settled>>

PushPublish ==
  /\ pushing # -1
  /\ ring' = ring + pushing
  /\ pushing' = -1
  /\ UNCHANGED <<resampler, setpoint, filling, fadeLeft, pubState, counters, call,
                 sinceFill, ranDry, settled>>

-----------------------------------------------------------------------------
(* The resampler.                                                           *)

(* fractional_resampler::reset().                                           *)
ResamplerReset ==
  /\ lined' = 0 /\ staged' = 0 /\ phase' = 0 /\ primed' = FALSE

CanAppend == staged > 0 \/ ring > 0

(* append_one(): one input frame enters the delay line.  An empty scratch   *)
(* is refilled from the ring, up to PopChunk frames at once.                *)
AppendOne ==
  LET popped == IF staged = 0 THEN MinOf(PopChunk, ring) ELSE 0
  IN /\ ring' = ring - popped
     /\ staged' = staged + popped - 1
     /\ lined' = MinOf(lined + 1, Taps)

-----------------------------------------------------------------------------
(* Consumer: pull(n).                                                       *)

(* The end of pull(): what status() reports, and back to the caller; the    *)
(* locals of the call are gone.                                             *)
Return(fill) ==
  /\ pubState' = IF fill THEN "filling" ELSE "running"
  /\ pc' = "idle"
  /\ frames' = 0 /\ made' = 0 /\ adv' = 0 /\ eps' = 0 /\ occ' = 0
  /\ settled' = FALSE

(* What follows once the backlog is known and the converter is running.     *)
Watermark == IF occ' > HighWater(target') THEN "resync" ELSE "update"

(* The setpoint rises with the largest block seen.                          *)
Raise(n) ==
  IF n > observed
  THEN observed' = n /\ target' = Raised(target, n)
  ELSE UNCHANGED setpoint

PullStart(n) ==
  /\ pc = "idle"
  /\ Raise(n)
  /\ \/ /\ filling
        /\ Backlog < FillThreshold(target')
        /\ Return(filling)
        /\ UNCHANGED <<resampler, ranDry>>
     \/ /\ filling
        /\ Backlog >= FillThreshold(target')
        /\ ResamplerReset
        /\ ranDry' = FALSE
        /\ frames' = n /\ adv' = Taps /\ pc' = "prime"
        /\ UNCHANGED <<made, eps, occ, pubState, settled>>
     \/ /\ ~filling
        /\ frames' = n /\ occ' = Backlog /\ pc' = Watermark
        /\ UNCHANGED <<resampler, ranDry, made, adv, eps, pubState, settled>>
  /\ UNCHANGED <<ring, pushing, filling, fadeLeft, counters, sinceFill>>

(* prime(): Taps frames, or none and the delay line stays unprimed; pull()  *)
(* goes on either way.                                                      *)
Prime ==
  /\ pc = "prime"
  /\ IF CanAppend
     THEN /\ AppendOne
          /\ adv' = adv - 1
          /\ primed' = (adv = 1)
          /\ pc' = IF adv = 1 THEN "seed" ELSE "prime"
     ELSE /\ pc' = "seed"
          /\ UNCHANGED <<ring, lined, staged, adv, primed>>
  /\ UNCHANGED <<pushing, phase, setpoint, filling, fadeLeft, pubState, counters, frames, made,
                 eps, occ, sinceFill, ranDry, settled>>

Seed ==
  /\ pc = "seed"
  /\ occ' = Backlog
  /\ filling' = FALSE
  /\ fadeLeft' = FadeFrames
  /\ sinceFill' = 0
  /\ settled' = TRUE
  /\ UNCHANGED setpoint
  /\ pc' = Watermark
  /\ UNCHANGED <<ring, pushing, resampler, pubState, counters, frames, made, adv, eps, ranDry>>

(* Fault: the whole backlog is dropped, not the excess.                     *)
ResyncAll ==
  /\ pc = "resync"
  /\ ring' = ring - MinOf(ring, occ)
  /\ occ' = ring' + staged
  /\ resyncs' = CountUp(resyncs)
  /\ settled' = TRUE
  /\ pc' = "update"
  /\ UNCHANGED <<pushing, resampler, setpoint, filling, fadeLeft, pubState, overruns,
                 underruns, frames, made, adv, eps, sinceFill, ranDry>>

(* Hard resync: drop the excess over the setpoint, as far as it is on the   *)
(* ring.                                                                    *)
Resync ==
  /\ pc = "resync"
  /\ ring' = ring - MinOf(ring, MaxOf(occ - target, 0))
  /\ occ' = ring' + staged
  /\ resyncs' = CountUp(resyncs)
  /\ settled' = TRUE
  /\ pc' = "update"
  /\ UNCHANGED <<pushing, resampler, setpoint, filling, fadeLeft, pubState, overruns,
                 underruns, frames, made, adv, eps, sinceFill, ranDry>>

(* m_servo.update(), then process() looks at its first output frame.        *)
UpdateServo ==
  /\ pc = "update"
  /\ eps' \in EpsRange
  /\ adv' = Advance(phase, eps')
  /\ occ' = 0
  /\ pc' = "process"
  /\ UNCHANGED <<ring, pushing, resampler, setpoint, filling, fadeLeft, pubState, counters,
                 frames, made, sinceFill, ranDry, settled>>

ProcessAppend ==
  /\ pc = "process" /\ made < frames /\ adv > 0
  /\ CanAppend
  /\ AppendOne
  /\ adv' = adv - 1
  /\ UNCHANGED <<pushing, phase, primed, setpoint, filling, fadeLeft, pubState, counters, pc,
                 frames, made, eps, occ, sinceFill, ranDry, settled>>

ProcessEmit ==
  /\ pc = "process" /\ made < frames /\ adv = 0
  /\ phase' = NextPhase(phase, eps)
  /\ made' = made + 1
  /\ adv' = Advance(phase', eps)
  /\ sinceFill' = MinOf(sinceFill + 1, FadeFrames)
  /\ UNCHANGED <<ring, pushing, lined, staged, primed, setpoint, filling, fadeLeft, pubState,
                 counters, pc, frames, eps, occ, ranDry, settled>>

(* Fault: a short pull() counts as full.                                    *)
FadeWholeBlock == fadeLeft' = fadeLeft - MinOf(frames, fadeLeft)

(* apply_fade_in(interleaved, made).                                        *)
ApplyFadeIn == fadeLeft' = fadeLeft - MinOf(made, fadeLeft)

(* process() delivered the block.                                           *)
PullDone ==
  /\ pc = "process" /\ made = frames
  /\ ApplyFadeIn
  /\ Return(filling)
  /\ UNCHANGED <<ring, pushing, resampler, setpoint, filling, counters, sinceFill, ranDry>>

(* Fault: silence is padded, but the converter does not refill.             *)
UnderrunRunsOn ==
  /\ pc = "process" /\ made < frames /\ adv > 0
  /\ ~CanAppend
  /\ ApplyFadeIn
  /\ underruns' = CountUp(underruns)
  /\ ranDry' = TRUE
  /\ Return(filling)
  /\ UNCHANGED <<ring, pushing, resampler, setpoint, filling, overruns, resyncs, sinceFill>>

(* process() ran dry: the failed pop leaves the scratch empty, the rest of  *)
(* the block is silence, the converter refills.                             *)
Underrun ==
  /\ pc = "process" /\ made < frames /\ adv > 0
  /\ ~CanAppend
  /\ ApplyFadeIn
  /\ filling' = TRUE
  /\ underruns' = CountUp(underruns)
  /\ ranDry' = TRUE
  /\ Return(filling')
  /\ UNCHANGED <<ring, pushing, resampler, setpoint, overruns, resyncs, sinceFill>>

(* reset_from_consumer(): between two pulls.                                *)
ResetFromConsumer ==
  /\ pc = "idle"
  /\ ring' = 0
  /\ ResamplerReset
  /\ ranDry' = FALSE
  /\ filling' = TRUE
  /\ pubState' = "filling"
  /\ UNCHANGED <<pushing, setpoint, fadeLeft, counters, call, sinceFill, settled>>

-----------------------------------------------------------------------------
Push == (\E n \in PushSizes : PushStart(n)) \/ PushPublish

PullStep == Prime \/ Seed \/ Resync \/ UpdateServo \/ ProcessAppend \/ ProcessEmit
            \/ PullDone \/ Underrun

Pull == (\E n \in PullSizes : PullStart(n)) \/ PullStep

Next == Push \/ Pull \/ ResetFromConsumer

Spec == Init /\ [][Next]_vars

(* Both clocks keep ticking: the input callback keeps pushing, the output   *)
(* callback keeps pulling and each call returns.                            *)
FairSpec == Spec /\ WF_vars(Push) /\ WF_vars(Pull)

-----------------------------------------------------------------------------
TypeOK ==
  /\ ring \in 0..CapFrames /\ pushing \in -1..CapFrames
  /\ lined \in 0..Taps /\ staged \in 0..PopChunk /\ phase \in Phases
  /\ primed \in BOOLEAN
  /\ target \in TargetLatency..MaxTarget /\ observed \in Nat
  /\ filling \in BOOLEAN /\ fadeLeft \in 0..FadeFrames
  /\ pubState \in {"filling", "running"}
  /\ {overruns, underruns, resyncs} \subseteq 0..(CountRange - 1)
  /\ pc \in {"idle", "prime", "seed", "resync", "update", "process"}
  /\ frames \in Nat /\ made \in 0..frames /\ adv \in Nat
  /\ eps \in Deviations /\ occ \in Nat
  /\ sinceFill \in 0..FadeFrames /\ ranDry \in BOOLEAN /\ settled \in BOOLEAN

(* The ring never holds more than its capacity, counting the frames a       *)
(* push() has decided on but not published.                                 *)
NoOverfill == ring + MaxOf(pushing, 0) <= CapFrames

(* prime() finds all its frames ("guaranteed: occ >= target + taps"): what  *)
(* the backlog counted while filling is all on the ring, nothing of it in   *)
(* the scratch that reset() throws away.                                    *)
PrimeNeverDry == pc = "seed" => primed

(* The preconditions of fractional_resampler::process(): a primed delay     *)
(* line, and after a dry return a reset and a new prime before the next     *)
(* frame is made.                                                           *)
PreconditionsUpheld == pc = "process" => primed /\ lined = Taps /\ ~ranDry

(* The filter is served in any order of underruns, refills, resyncs and     *)
(* restarts: a start-up always primes, process() never runs unprimed or on. *)
FilterServed == PrimeNeverDry /\ PreconditionsUpheld

(* Whatever the setpoint was raised to, the ring can hold the fill level a  *)
(* start-up waits for and the watermark that ends an overrun.               *)
LevelsFit == FillThreshold(target) <= HighWater(target) /\ HighWater(target) < CapFrames

(* Feasibility: a pull() that has just refilled or resynced delivers its    *)
(* whole block, unless the ring is too small for the setpoint the block     *)
(* needs.                                                                   *)
FreshStartDelivers == [][Underrun => ~settled \/ target < Needed(frames)]_vars

(* The fade ramp continues from pull to pull and starts afresh at each      *)
(* (re)fill: it is as far along as the frames made since then say.          *)
FadeContinuous == pc = "idle" => fadeLeft = FadeFrames - sinceFill

(* status() between two pulls tells whether the converter is filling, and   *)
(* it stops running only at a counted underrun or a restart.                *)
StatusTrue == pc = "idle" => (pubState = "filling" <=> filling)

(* A start-up ends, unless the converter is restarted again and again:      *)
(* whatever blocks are pulled, the fill level they call for is reached.     *)
FillEnds == []<>~filling \/ []<><<ResetFromConsumer>>_vars

(* The comment at the resync: clamped, the discard does not drain the ring. *)
ResyncKeepsRing == [][Resync /\ ring > 0 => ring' > 0]_vars

=============================================================================
