------------------------------ MODULE Resampler ------------------------------
(***************************************************************************)
(* tap::sr::async::fractional_resampler (polyphase_filter.h): the delay    *)
(* line, the pop scratch in front of it and the read position, driven by   *)
(* the consumer through reset(), prime() and process().                    *)
(*                                                                         *)
(* The source is whatever the caller's PopFn reads: it delivers any part   *)
(* of what is asked, and frames may be removed behind the resampler's back *)
(* between two calls (the converter's hard resync).  A frame is its number *)
(* in the source.                                                          *)
(***************************************************************************)
EXTENDS FilterBank, Sequences

CONSTANTS
  Chunk,      \* m_chunk
  ChannelCounts, \* bound: the m_channels of the resamplers looked at side by side
  MinInterleaved, \* TAP_SR_ASYNC_CP_MIN_CHANNELS
  Steps,      \* eps_fix: the deviations process() is called with
  Blocks,     \* bound: block sizes process() is called with
  Cuts,       \* bound: how many frames the source may lose at once
  MaxFrames   \* bound: frames the source ever delivers

ASSUME ResamplerAssumption ==
  /\ Chunk \in Nat \ {0}
  /\ ChannelCounts \subseteq Nat \ {0} /\ MinInterleaved \in Nat
  /\ Steps \subseteq Deviations
  /\ Blocks \subseteq Nat /\ Cuts \subseteq Nat /\ MaxFrames \in Nat

HistCap == Taps + Chunk \* m_hist_cap

VARIABLES
  hist,     \* m_hist[0..m_end-1], oldest first
  scratch,  \* m_scratch[m_scratch_pos..m_scratch_frames-1]
  phase,    \* m_phase
  primed,   \* m_primed
  next,     \* the source's next frame
  pc,       \* "idle", or in "prime", or in "process"
  left,     \* prime(): frames to append; process(): outputs to make
  adv,      \* process(): frames to append before the next output
  eps,      \* process(): eps_fix
  appended, \* history: frames appended since reset()
  due,      \* history: the read position the outputs so far ask for, in phase steps
  sinceCut, \* history: frames appended since the source last lost some, up to Taps
  ranDry    \* history: process() found the source dry since reset()

line    == <<hist, scratch, phase, primed>>
history == <<appended, due, sinceCut, ranDry>>
vars == <<line, next, pc, left, adv, eps, history>>

Init ==
  /\ hist = <<>> /\ scratch = <<>> /\ phase = 0 /\ primed = FALSE
  /\ next = 0
  /\ pc = "idle" /\ left = 0 /\ adv = 0 /\ eps = 0
  /\ appended = 0 /\ due = 0 /\ sinceCut = Taps /\ ranDry = FALSE

(* The window of the next output.                                           *)
Window == SubSeq(hist, Len(hist) - Taps + 1, Len(hist))

(* How the frames lie in memory: one line per channel, or all interleaved   *)
(* in one line.                                                             *)
Interleaved(channels) == channels >= MinInterleaved

(* Fault: the window of an interleaved line is found in frames.             *)
BaseInFrames(channels) == Len(hist) - Taps

Base(channels) == (Len(hist) - Taps) * channels

(* What the dot product of channel c is made of: the samples of its window, *)
(* each with its coefficient.                                               *)
Products(channels, c, row) ==
  IF Interleaved(channels)
  THEN LET samples == [i \in 0..(Len(hist) * channels - 1) |-> <<hist[i \div channels + 1], i % channels>>]
       IN [u \in Slots |-> <<samples[Base(channels) + u * channels + c], row[u]>>]
  ELSE [u \in Slots |-> <<<<Window[u + 1], c>>, row[u]>>]

-----------------------------------------------------------------------------
(* append_one(): an empty scratch is filled with what PopFn delivers, up to *)
(* Chunk frames; a full delay line keeps its newest Taps - 1 frames.        *)
Refill(k) ==
  /\ scratch = <<>>
  /\ k <= Chunk
  /\ next + k <= MaxFrames
  /\ next' = next + k

(* Fault: one frame too few is kept.                                        *)
PushedShort(f) ==
  Append(IF Len(hist) = HistCap THEN SubSeq(hist, HistCap - Taps + 3, HistCap) ELSE hist, f)

Pushed(f) ==
  Append(IF Len(hist) = HistCap THEN SubSeq(hist, HistCap - Taps + 2, HistCap) ELSE hist, f)

Stored(staged) ==
  /\ hist' = Pushed(Head(staged))
  /\ scratch' = Tail(staged)
  /\ appended' = appended + 1
  /\ sinceCut' = IF sinceCut < Taps THEN sinceCut + 1 ELSE Taps

AppendOne ==
  \/ /\ scratch # <<>>
     /\ Stored(scratch)
     /\ UNCHANGED next
  \/ \E k \in 1..Chunk :
       /\ Refill(k)
       /\ Stored([i \in 1..k |-> next + i - 1])

(* PopFn delivered nothing: the call under way ends.                        *)
SourceDry == Refill(0)

-----------------------------------------------------------------------------
Reset ==
  /\ pc = "idle"
  /\ hist' = <<>> /\ scratch' = <<>> /\ phase' = 0 /\ primed' = FALSE
  /\ appended' = 0 /\ due' = 0 /\ sinceCut' = Taps /\ ranDry' = FALSE
  /\ UNCHANGED <<next, pc, left, adv, eps>>

(* The converter primes what it has just reset.                             *)
PrimeStart ==
  /\ pc = "idle"
  /\ hist = <<>> /\ scratch = <<>>
  /\ pc' = "prime" /\ left' = Taps
  /\ UNCHANGED <<line, next, adv, eps, history>>

PrimeAppend ==
  /\ pc = "prime"
  /\ AppendOne
  /\ left' = left - 1
  /\ primed' = (left = 1)
  /\ pc' = IF left = 1 THEN "idle" ELSE "prime"
  /\ UNCHANGED <<phase, adv, eps, due, ranDry>>

PrimeDry ==
  /\ pc = "prime"
  /\ SourceDry
  /\ pc' = "idle" /\ left' = 0
  /\ UNCHANGED <<line, adv, eps, history>>

(* process(out, n, e), under its precondition.                              *)
ProcessStart(n, e) ==
  /\ pc = "idle"
  /\ primed /\ ~ranDry
  /\ pc' = "process"
  /\ left' = n
  /\ eps' = e
  /\ adv' = Advance(phase, e)
  /\ UNCHANGED <<line, next, history>>

ProcessAppend ==
  /\ pc = "process" /\ left > 0 /\ adv > 0
  /\ AppendOne
  /\ adv' = adv - 1
  /\ UNCHANGED <<phase, primed, pc, left, eps, due, ranDry>>

ProcessEmit ==
  /\ pc = "process" /\ left > 0 /\ adv = 0
  /\ phase' = NextPhase(phase, eps)
  /\ due' = due + PhaseRange + eps
  /\ left' = left - 1
  /\ adv' = Advance(phase', eps)
  /\ UNCHANGED <<hist, scratch, primed, next, pc, eps, appended, sinceCut, ranDry>>

(* Fault: the phase moves on with the frame that was not made.              *)
DryAdvances ==
  /\ pc = "process" /\ left > 0 /\ adv > 0
  /\ SourceDry
  /\ phase' = NextPhase(phase, eps)
  /\ ranDry' = TRUE
  /\ pc' = "idle" /\ left' = 0 /\ adv' = 0 /\ eps' = 0
  /\ UNCHANGED <<hist, scratch, primed, appended, due, sinceCut>>

ProcessDry ==
  /\ pc = "process" /\ left > 0 /\ adv > 0
  /\ SourceDry
  /\ ranDry' = TRUE
  /\ pc' = "idle" /\ left' = 0 /\ adv' = 0 /\ eps' = 0
  /\ UNCHANGED <<line, appended, due, sinceCut>>

ProcessDone ==
  /\ pc = "process" /\ left = 0
  /\ pc' = "idle" /\ adv' = 0 /\ eps' = 0
  /\ UNCHANGED <<line, next, left, history>>

(* Frames the caller's ring discards between two calls.  Those in the       *)
(* scratch are off the ring and still come.                                 *)
SourceCut(d) ==
  /\ pc = "idle"
  /\ next + d <= MaxFrames
  /\ next' = next + d
  /\ sinceCut' = -Len(scratch)
  /\ UNCHANGED <<line, pc, left, adv, eps, appended, due, ranDry>>

Next ==
  \/ Reset \/ PrimeStart \/ PrimeAppend \/ PrimeDry
  \/ \E n \in Blocks, e \in Steps : ProcessStart(n, e)
  \/ ProcessAppend \/ ProcessEmit \/ ProcessDry \/ ProcessDone
  \/ \E d \in Cuts : SourceCut(d)

Spec == Init /\ [][Next]_vars

-----------------------------------------------------------------------------
TypeOK ==
  /\ hist \in Seq(Nat) /\ Len(hist) <= HistCap
  /\ scratch \in Seq(Nat) /\ Len(scratch) <= Chunk
  /\ phase \in Phases /\ primed \in BOOLEAN
  /\ next \in 0..MaxFrames
  /\ pc \in {"idle", "prime", "process"} /\ left \in Nat /\ adv \in 0..2
  /\ eps \in Deviations
  /\ appended \in Nat /\ due \in Nat /\ sinceCut \in -Chunk..Taps /\ ranDry \in BOOLEAN

(* Every output is computed from a full window, in source order, and weighs *)
(* each frame by the prototype at its distance from the read position that  *)
(* the outputs so far add up to, in every format, for every channel and in  *)
(* both layouts: compactions, chunked pops, slips, the seam between the     *)
(* last row and the first do not show.  Only frames the source itself lost  *)
(* may be missing, and only until the cut has left the window.  The double  *)
(* path, interpolate() at mu(), is off by half a step of mu and a factor's. *)
Interpolates ==
  pc = "process" /\ left > 0 /\ adv = 0 =>
    LET position == due + PhaseRange + eps
        distance(age) == position + (age + Taps - appended) * PhaseRange
        weight(age, fraction) ==
          Length * Unit - (Unit \div fraction) * ((distance(age) * Branches * fraction) \div PhaseRange)
        mu == Mu(NextPhase(phase, eps))
    IN /\ Len(hist) >= Taps
       /\ \A i \in 1..(Taps - 1) : Window[i] < Window[i + 1]
       /\ sinceCut = Taps =>
            \A fraction \in Fractions :
              /\ \A channels \in ChannelCounts : \A c \in 0..(channels - 1) :
                   Products(channels, c, BlendRowPhase(NextPhase(phase, eps), fraction)) =
                     [u \in Slots |-> <<<<Window[Taps] - (Taps - 1 - u), c>>, weight(Taps - 1 - u, fraction)>>]
              /\ \A u \in Slots :
                   LET slack == (PhaseRange \div MuRange) \div 2 + Unit \div fraction
                   IN BlendRow(mu, fraction)[u] - weight(Taps - 1 - u, fraction) \in -slack..slack

(* The read position never drifts from the rate asked for: whole frames     *)
(* consumed and phase together are the sum of the 1 + eps of the outputs.   *)
PositionExact ==
  primed /\ ~ranDry /\ pc = "idle" =>
    (appended - Taps) * PhaseRange + phase = due

(* What the doc comment of process() warns of, and no more: a dry return    *)
(* leaves the delay line at most one frame ahead of the phase.              *)
DryOffset ==
  primed /\ ranDry => (appended - Taps) * PhaseRange + phase - due \in {0, PhaseRange}

(* Both, so that reset() and prime() find at most that one frame to repair. *)
ReadPosition == PositionExact /\ DryOffset

=============================================================================
