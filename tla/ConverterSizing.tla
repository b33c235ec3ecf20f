--------------------------- MODULE ConverterSizing ---------------------------
(***************************************************************************)
(* How tap::sr::async::basic_converter sizes itself                        *)
(* (async/include/tap/sr/async/converter.h): the ring it allocates, the    *)
(* setpoint it aims at, the fill level a start-up waits for, the watermark *)
(* of a hard resync, and how far the setpoint may be raised for large pull *)
(* blocks.  All in frames; a frame is Channels ring elements.              *)
(***************************************************************************)
EXTENDS Integers

CONSTANTS
  Channels,      \* cfg.channels
  TargetLatency, \* cfg.target_latency_frames
  FifoFrames,    \* cfg.fifo_frames; 0 => automatic
  Taps,          \* bank.taps()
  PopChunk,      \* k_pop_chunk_frames (16)
  FloorFrames    \* the automatic ring's floor (1024)

ASSUME SizesAssumption ==
  /\ Channels \in Nat \ {0} /\ TargetLatency \in Nat \ {0} /\ Taps \in Nat \ {0}
  /\ FifoFrames \in Nat /\ PopChunk \in Nat \ {0} /\ FloorFrames \in Nat \ {0}

MinOf(a, b) == IF a < b THEN a ELSE b
MaxOf(a, b) == IF a < b THEN b ELSE a

(* std::bit_ceil.                                                           *)
BitCeil(n) == 2 ^ (CHOOSE k \in 0..n : 2 ^ k >= n /\ (k = 0 \/ 2 ^ (k - 1) < n))

(* Fault: the filter's taps are left out of the fill level.                 *)
FillWithoutTaps(t) == t

(* The levels that go with a setpoint t.                                    *)
FillThreshold(t) == t + Taps
HighWater(t) == MaxOf(3 * t, FillThreshold(t) + t)

(* detail::ring_capacity_elems.                                             *)
RingElems ==
  BitCeil((IF FifoFrames # 0 THEN FifoFrames
           ELSE MaxOf(FloorFrames, 4 * FillThreshold(TargetLatency))) * Channels)

CapFrames == RingElems \div Channels

(* config::validate's last check, run again by the constructor.             *)
FifoLargeEnough == CapFrames > HighWater(TargetLatency)

(* Fault: the watermark may equal the capacity.                             *)
MaxTargetOffByOne ==
  MaxOf(TargetLatency,
        MinOf(CapFrames \div 3,
              IF CapFrames > Taps THEN (CapFrames - Taps) \div 2 ELSE TargetLatency))

(* m_max_target_frames.                                                     *)
MaxTarget ==
  MaxOf(TargetLatency,
        MinOf((CapFrames - 1) \div 3,
              IF CapFrames > Taps + 1 THEN (CapFrames - Taps - 1) \div 2 ELSE TargetLatency))

(* What a pull block of n frames needs buffered, with the margin.           *)
Needed(n) == n + MaxOf(n \div 2, PopChunk)

(* Fault: the setpoint is raised past what the ring can hold.               *)
ClampBelow(x, lo, hi) == MaxOf(lo, x)

Clamp(x, lo, hi) == MaxOf(lo, MinOf(x, hi))

(* The setpoint in force once a block of n frames has been observed at      *)
(* setpoint t: it only grows.                                               *)
Raised(t, n) == MaxOf(t, Clamp(Needed(n), TargetLatency, MaxTarget))

=============================================================================
