------------------------------ MODULE Uac2Device ------------------------------
(***************************************************************************)
(* The USB audio device on a clock of its own                              *)
(* (async/examples/pico2_uac2/main.cpp).  Capture sends, before each       *)
(* packet, the frames its clock produced by a filtered time of the poll;   *)
(* playback drains the endpoint's FIFO at that clock; a status line a      *)
(* second goes to the other core through a queue that may be full.         *)
(*                                                                         *)
(* The directions share nothing but the main loop: `uses' picks one, so    *)
(* that their states do not multiply.  Times are the code's, the loop's    *)
(* state in ns rather than doubles; frames of playback are counted from    *)
(* the clock, whose arithmetic is capture's.                               *)
(***************************************************************************)
EXTENDS Integers, Sequences, FiniteSetsExt

CONSTANTS
  MaxPacket, BacklogLimit, \* frames: kMaxFramesPerPacket, kInBacklogLimit
  ResyncUs,                \* kDllResyncUs
  MaxPpm,                  \* the largest offset built in; the runs take it, none, and its opposite
  Gaps, Lates,             \* USB frames between polls, and how late the callback may be
  Polls,                   \* bound: packets of a behaviour
  Wrap,                    \* values of the unsigned arithmetic
  Fifo, Chunk, Lines,      \* kOutFifoFrames, kChunkFrames, the status queue's length
  Seconds                  \* bound: status lines made

ASSUME DeviceAssumption ==
  /\ {MaxPacket, BacklogLimit, ResyncUs, Polls, Wrap, Fifo, Chunk, Lines, Seconds} \subseteq Nat \ {0}
  /\ MaxPpm \in 0..1000 /\ Gaps \subseteq Nat \ {0} /\ Lates \subseteq Nat
  /\ MaxPacket < BacklogLimit /\ BacklogLimit < Wrap

VARIABLES
  uses,   \* the direction of this behaviour
  ppm,    \* PICO2_UAC2_PPM
  now,    \* time_us_64()
  in,     \* in_state: started, base_us, the DLL's next and period, sent, frames, skipped, resyncs
  packet, \* the last packet's frames, -1 before any; and whether it was its stream's first
  host,   \* history: packets; USB frames left out and the latest callback of the stream;
          \* frames and skipped as it began; whether the clock was lost or frames skipped in it
  out,    \* out_state: streaming, started, frames owed, those missed since primed,
          \* fifo_min, fifo_max
  level,  \* frames in the endpoint's FIFO
  played, \* history: frames drained since the stream was primed, up to a full FIFO
  lines,  \* the status queue: fifo_min and fifo_max, and (history) the levels they are of
  levels, \* history: levels seen this second
  made    \* history: status lines made, dropped or not

inVars  == <<now, in, packet, host>>
outVars == <<out, level, played, lines, levels, made>>
deviceVars == <<uses, ppm, inVars, outVars>>

Prime     == Fifo \div 2
EmptyRange(o) == [o EXCEPT !.lo = Fifo, !.hi = 0]

NewStream(i) == [packets |-> 0, out |-> 0, late |-> 0, before |-> i.frames + i.skipped, upset |-> FALSE]

DeviceInit ==
  /\ uses \in {"capture", "playback"}
  /\ ppm \in IF uses = "capture" THEN {-MaxPpm, 0, MaxPpm} ELSE {0}
  /\ now = 0 /\ packet = [frames |-> -1, first |-> FALSE]
  /\ in = [started |-> FALSE, base |-> 0, next |-> 0, period |-> 0, sent |-> 0, frames |-> 0, skipped |-> 0]
  /\ host = NewStream(in)
  /\ out = [on |-> FALSE, started |-> FALSE, owed |-> 0, missed |-> 0, lo |-> Fifo, hi |-> 0]
  /\ level = 0 /\ played = 0
  /\ lines = <<>> /\ levels = {} /\ made = 0

-----------------------------------------------------------------------------
(* Capture.                                                                 *)

(* device_frames(): us * 6 * (10^6 + ppm) / (125 * 10^6), reduced by 1000.  *)
DeviceFrames(us) == (us * 6 * (1000 + ppm \div 1000)) \div 125000

(* Fault: the stream restarts, its count of frames does not.                *)
DllStartKeepsSent(i, t) ==
  [dll |-> [i EXCEPT !.started = TRUE, !.base = t, !.next = 1000000, !.period = 1000000],
   at |-> 0, lost |-> FALSE]

(* A first poll starts the filter; kDllB and kDllC are 0.008886 and         *)
(* 0.0000395 a microsecond.  `at' is dll_now.                               *)
DllStart(i, t) == [dll |-> [i EXCEPT !.started = TRUE, !.base = t, !.next = 1000000, !.period = 1000000, !.sent = 0],
                   at |-> 0, lost |-> FALSE]

(* Fault: a bandwidth of 10 Hz.                                             *)
DllFollowFast(i, error) ==
  [dll |-> [i EXCEPT !.next = @ + (error * 88858) \div 1000 + i.period, !.period = @ + (error * 3948) \div 1000],
   at |-> i.next, lost |-> FALSE]

DllFollow(i, error) ==
  [dll |-> [i EXCEPT !.next = @ + (error * 8886) \div 1000 + i.period, !.period = @ + (error * 39) \div 1000],
   at |-> i.next, lost |-> FALSE]

DllResync(i, measured) ==
  [dll |-> [i EXCEPT !.next = (measured + 1000) * 1000, !.period = 1000000],
   at |-> measured * 1000, lost |-> TRUE]

Dll(i, t) ==
  LET measured == t - i.base
      error    == (measured * 1000 - i.next) \div 1000
  IN IF ~i.started THEN DllStart(i, t)
     ELSE IF error > ResyncUs \/ error < -ResyncUs THEN DllResync(i, measured)
     ELSE DllFollow(i, error)

(* Fault: the whole backlog is skipped, and a packet of it sent.            *)
PacketOfSkipped(i, due) ==
  LET owed == (due - i.sent) % Wrap
      n    == IF owed > MaxPacket THEN MaxPacket ELSE owed
  IN IF owed > BacklogLimit
     THEN [i EXCEPT !.skipped = @ + owed, !.sent = due, !.frames = @ + MaxPacket]
     ELSE [i EXCEPT !.sent = @ + n, !.frames = @ + n]

(* What is owed, unsigned; past the limit all but a packet of it is skipped.*)
Packet(i, due) ==
  LET owed == (due - i.sent) % Wrap
      n    == IF owed > MaxPacket THEN MaxPacket ELSE owed
  IN IF owed > BacklogLimit
     THEN [i EXCEPT !.skipped = @ + owed - MaxPacket, !.sent = due, !.frames = @ + MaxPacket]
     ELSE [i EXCEPT !.sent = @ + n, !.frames = @ + n]

(* tud_audio_tx_done_pre_load_cb(): once the last packet is sent, a USB     *)
(* frame or more after its callback, the next is asked for.                 *)
Preload(gap, late) ==
  LET t   == 1000 * (now \div 1000 + gap) + late
      d   == Dll(in, t)
      due == DeviceFrames((IF d.at > 0 THEN d.at ELSE 0) \div 1000)
      i   == Packet(d.dll, due)
  IN /\ uses = "capture" /\ host.packets < Polls
     /\ now' = t /\ in' = i
     /\ packet' = [frames |-> i.frames - in.frames, first |-> ~in.started]
     /\ host' = [host EXCEPT !.packets = @ + 1,
                   !.out = IF in.started THEN @ + gap - 1 ELSE 0,
                   !.late = IF in.started THEN Max({@, late}) ELSE late,
                   !.upset = @ \/ d.lost \/ i.skipped # in.skipped]
     /\ UNCHANGED <<uses, ppm, outVars>>

(* set_streaming() of the capture interface.                                *)
AlternateIn ==
  /\ uses = "capture" /\ in.started /\ host.packets < Polls
  /\ in' = [in EXCEPT !.started = FALSE]
  /\ host' = [NewStream(in) EXCEPT !.packets = host.packets]
  /\ UNCHANGED <<uses, ppm, now, packet, outVars>>

-----------------------------------------------------------------------------
(* Playback.                                                                *)

(* The host's packets go into the FIFO as far as it has room.               *)
HostPacket(n) ==
  /\ uses = "playback" /\ level + n <= Fifo
  /\ level' = level + n
  /\ UNCHANGED <<uses, ppm, inVars, out, played, lines, levels, made>>

Elapse ==
  /\ uses = "playback" /\ out.started /\ out.owed <= Fifo
  /\ out' = [out EXCEPT !.owed = @ + 1]
  /\ UNCHANGED <<uses, ppm, inVars, level, played, lines, levels, made>>

Seen(o) == [o EXCEPT !.lo = Min({@, level}), !.hi = Max({@, level})]

(* Fault: draining begins with the first frame.                             *)
StartUnprimed(o) == IF level > 0 THEN [o EXCEPT !.started = TRUE, !.owed = 0, !.missed = 0] ELSE o

StartPrimed(o) == IF level >= Prime THEN [o EXCEPT !.started = TRUE, !.owed = 0, !.missed = 0] ELSE o

(* Drained by the chunk: the one that finds the FIFO dry counts what it     *)
(* missed and ends the stream.  What is owed past it is in no count.        *)
Drained(o) ==
  LET whole == Chunk * (level \div Chunk)
  IN IF o.owed <= level THEN [o EXCEPT !.owed = 0]
     ELSE [o EXCEPT !.owed = 0, !.started = FALSE, !.missed = Min({Chunk, o.owed - whole}) - (level - whole)]

(* service_out(), which runs as long as the host streams.                   *)
Service ==
  /\ uses = "playback" /\ out.on
  /\ levels' = levels \cup {level}
  /\ IF out.started
     THEN LET taken == Min({out.owed, level})
          IN /\ out' = Drained(Seen(out))
             /\ level' = level - taken
             /\ played' = Min({Fifo, played + taken})
     ELSE out' = StartPrimed(Seen(out)) /\ played' = 0 /\ UNCHANGED level
  /\ UNCHANGED <<uses, ppm, inVars, lines, made>>

(* Fault: the stream goes on in a FIFO that was emptied.                    *)
AlternateOutDrains ==
  /\ uses = "playback"
  /\ \E on \in BOOLEAN : out' = [out EXCEPT !.on = on]
  /\ level' \in {0, level}
  /\ UNCHANGED <<uses, ppm, inVars, played, lines, levels, made>>

(* set_streaming() of the playback interface; the USB stack may have        *)
(* emptied the FIFO.                                                        *)
AlternateOut ==
  /\ uses = "playback"
  /\ \E on \in BOOLEAN : out' = [out EXCEPT !.on = on, !.started = FALSE]
  /\ level' \in {0, level} /\ played' = 0
  /\ UNCHANGED <<uses, ppm, inVars, lines, levels, made>>

(* Fault: the range goes on when its line was dropped.                      *)
StatusKeeps ==
  /\ uses = "playback" /\ made < Seconds
  /\ made' = made + 1
  /\ IF Len(lines) < Lines
     THEN /\ lines' = Append(lines, [lo |-> out.lo, hi |-> out.hi, of |-> levels])
          /\ out' = EmptyRange(out)
     ELSE UNCHANGED <<lines, out>>
  /\ levels' = {}
  /\ UNCHANGED <<uses, ppm, inVars, level, played>>

(* Once a second: a full queue drops the line; the range starts anew.       *)
Status ==
  /\ uses = "playback" /\ made < Seconds
  /\ made' = made + 1
  /\ lines' = IF Len(lines) < Lines
              THEN Append(lines, [lo |-> out.lo, hi |-> out.hi, of |-> levels]) ELSE lines
  /\ out' = EmptyRange(out) /\ levels' = {}
  /\ UNCHANGED <<uses, ppm, inVars, level, played>>

(* status_core(), on the other core.                                        *)
StatusCore ==
  /\ lines # <<>>
  /\ lines' = Tail(lines)
  /\ UNCHANGED <<uses, ppm, inVars, out, level, played, levels, made>>

-----------------------------------------------------------------------------
Capture  == (\E gap \in Gaps, late \in Lates : Preload(gap, late)) \/ AlternateIn
Playback == \/ \E n \in 1..Chunk : HostPacket(n)
            \/ Elapse \/ Service \/ AlternateOut \/ Status \/ StatusCore

DeviceNext == Capture \/ Playback

DeviceSpec == DeviceInit /\ [][DeviceNext]_deviceVars

-----------------------------------------------------------------------------
(* Every frame of the device's clock is sent once or skipped once, and the  *)
(* unsigned difference of what is due and what was sent never wraps,        *)
(* however polls come and streams restart.                                  *)
EveryFrameOnce ==
  /\ in.started => in.frames + in.skipped = host.before + in.sent
  /\ in.frames + in.skipped < Wrap

(* "Every packet was 47, 48 or 49 frames, with none skipped and no resync": *)
(* so it is from a stream's second packet on with callbacks up to 0.4 ms    *)
(* late and up to 3 ms stalled, at the rates within 1000 ppm.               *)
SteadyPackets ==
  in.started /\ ~packet.first /\ host.out <= 3 /\ host.late <= 400
    => packet.frames \in 47..49 /\ ~host.upset

(* "Re-primes, so the feedback starts again from half full": a FIFO is only *)
(* found dry after half of it was played since draining began.              *)
PrimeIsPlayed == [][out'.missed > out.missed => played' >= Prime]_deviceVars

(* A status line's FIFO range is that of its own second, also when the      *)
(* queue was full and lines before it were dropped.                         *)
RangeIsOfItsSecond ==
  \A k \in 1..Len(lines) :
    lines[k].of # {} => lines[k].lo = Min(lines[k].of) /\ lines[k].hi = Max(lines[k].of)

=============================================================================
