------------------------------ MODULE AlsaBridge ------------------------------
(***************************************************************************)
(* The ALSA bridge (async/examples/alsa_bridge.cpp): a capture thread and  *)
(* a playback thread around one converter, and main, which sets up, writes *)
(* a row per second and joins.  The transfers block; ALSA lets a blocked   *)
(* transfer return at last, with an error if the device has gone silent.   *)
(*                                                                         *)
(* A publication through the sequence lock is one step: Seqlock shows that *)
(* its reader sees one publication, whole.  The converter between the      *)
(* threads is AsyncConverter's; here push() and pull() only have their     *)
(* place in the order of things.                                           *)
(***************************************************************************)
EXTENDS Integers

CONSTANTS
  Period,  \* frames per transfer asked for
  Buffer,  \* frames of a device's buffer
  Life     \* bound: frames either device transfers before it fails for good

ASSUME BridgeAssumption ==
  Period \in Nat \ {0} /\ Buffer \in Nat \ {0} /\ Life \in Nat

VARIABLES
  args,    \* the command line: --rt, and whether --seconds is given
  main,    \* where main stands: a stage of its set-up, "capture" or "playback" to start,
           \* "loop", "join in", "join out", "exited"
  code,    \* its exit code, -1 if std::terminate() ended the process
  opened,  \* devices and files that are open
  gStop, gFailed,    \* g_stop, g_failed
  thread,  \* where each audio thread stands
  granted, \* history: threads that became real-time
  device,  \* each device: its PCM state, frames in its buffer, and (history) frames
           \* the hardware has moved
  tel,     \* each device_telemetry: frames, whether a recovery was counted, the
           \* published position less (history) the hardware's own at that instant
  done,    \* playback: frames of its block written; before the first, a whole one
  pulled,  \* history: frames of the stream pulled, the block under way included
  given    \* history: the newest frame of the stream the device was given

setup == <<args, code, opened>>
vars  == <<setup, main, gStop, gFailed, thread, granted, device, tel, done, pulled, given>>

Sides == {"in", "out"}

(* The stages of the set-up, and what follows each.                         *)
Stages == {"arguments", "lock", "in", "out", "converter", "csv", "dump"}

AfterStage ==
  [arguments |-> "lock", lock |-> "in", in |-> "out", out |-> "converter",
   converter |-> "csv", csv |-> "dump", dump |-> "capture"]

Init ==
  /\ args \in [rt : BOOLEAN, timed : BOOLEAN]
  /\ main = "arguments" /\ code = 0 /\ opened = {}
  /\ gStop = FALSE /\ gFailed = FALSE
  /\ thread = [d \in Sides |-> "none"] /\ granted = {}
  /\ device = [d \in Sides |-> [state |-> "prepared", frames |-> 0, moved |-> 0]]
  /\ tel = [d \in Sides |-> [frames |-> 0, counted |-> FALSE, hw |-> 0]]
  /\ done = Period /\ pulled = 0 /\ given = 0

-----------------------------------------------------------------------------
(* main, up to the threads.  Returning closes the devices, whatever else is *)
(* open.                                                                    *)
Leave(c) ==
  /\ main' = "exited" /\ code' = c
  /\ opened' = opened \ Sides

(* The exit codes of the stages: parse_args() and the checks after it, or   *)
(* --help; mlockall; open_device() twice; fopen() twice.  The converter's   *)
(* constructor throws instead (Uncaught).                                   *)
FailureCodes(s) ==
  CASE s = "arguments" -> {0, 2}
    [] s = "lock"      -> IF args.rt THEN {1} ELSE {}
    [] s = "converter" -> {}
    [] s \in {"in", "out", "csv", "dump"} -> {1}

(* A device is open from snd_pcm_open() on, also if open_device() fails     *)
(* later; a file only if fopen() succeeds.                                  *)
SetUp ==
  /\ main \in Stages
  /\ \/ /\ main' = AfterStage[main]
        /\ opened' = opened \cup ({main} \cap {"in", "out", "csv", "dump"})
        /\ UNCHANGED code
     \/ \E c \in FailureCodes(main) : Leave(c)
  /\ UNCHANGED <<args, gStop, gFailed, thread, granted, device, tel, done, pulled, given>>

(* The two std::thread constructors: the capture thread is at work before   *)
(* the playback thread is there.                                            *)
StartThread(d, after) ==
  /\ main' = after
  /\ thread' = [thread EXCEPT ![d] = IF args.rt THEN "realtime" ELSE "top"]
  /\ UNCHANGED <<setup, gStop, gFailed, granted, device, tel, done, pulled, given>>

StartCapture  == main = "capture"  /\ StartThread("in", "playback")
StartPlayback == main = "playback" /\ StartThread("out", "loop")

(* What main calls may throw where nobody catches it: the converter's       *)
(* constructor and the two threads'.  std::terminate() ends the process and *)
(* the threads in it.  The devices are closed on the way if the stack is    *)
(* unwound, which the standard leaves open; with the capture thread there   *)
(* its destructor terminates first, as it is not joined.                    *)
Uncaught ==
  /\ main \in {"converter", "capture", "playback"}
  /\ main' = "exited" /\ code' = -1
  /\ thread' = [d \in Sides |-> IF thread[d] = "none" THEN "none" ELSE "gone"]
  /\ opened' \in {opened} \cup (IF main = "playback" THEN {} ELSE {opened \ Sides})
  /\ UNCHANGED <<args, gStop, gFailed, granted, device, tel, done, pulled, given>>

(* The per-second loop, whose rows change nothing here: it ends at the      *)
(* flag, which it looks at once a second, or as the time asked for is up.   *)
EndLoop ==
  /\ main = "loop"
  /\ gStop \/ args.timed
  /\ main' = "join in" /\ gStop' = TRUE
  /\ UNCHANGED <<setup, gFailed, thread, granted, device, tel, done, pulled, given>>

JoinCapture ==
  /\ main = "join in" /\ thread["in"] = "gone"
  /\ main' = "join out"
  /\ UNCHANGED <<setup, gStop, gFailed, thread, granted, device, tel, done, pulled, given>>

(* Fault: main returns without waiting for the playback thread.             *)
FinishUnjoined ==
  /\ main = "join out"
  /\ main' = "exited" /\ code' = IF gFailed THEN 1 ELSE 0
  /\ opened' = {}
  /\ UNCHANGED <<args, gStop, gFailed, thread, granted, device, tel, done, pulled, given>>

(* The second join, the files closed, the exit code, the devices.           *)
Finish == thread["out"] = "gone" /\ FinishUnjoined

(* on_sigint().                                                             *)
Sigint ==
  /\ main \in {"capture", "playback", "loop"} /\ ~gStop
  /\ gStop' = TRUE
  /\ UNCHANGED <<setup, main, gFailed, thread, granted, device, tel, done, pulled, given>>

-----------------------------------------------------------------------------
(* The hardware: a running stream moves a frame; a capture buffer that is   *)
(* full, or a playback buffer that is empty, is an xrun.                    *)
Ticked(d, dev) ==
  IF dev.frames = (IF d = "in" THEN Buffer ELSE 0) THEN [dev EXCEPT !.state = "xrun"]
  ELSE [dev EXCEPT !.frames = @ + (IF d = "in" THEN 1 ELSE -1), !.moved = @ + 1]

Tick(d) ==
  /\ d \in opened /\ device[d].state = "running" /\ device[d].moved < Life
  /\ device' = [device EXCEPT ![d] = Ticked(d, @)]
  /\ UNCHANGED <<setup, main, gStop, gFailed, thread, granted, tel, done, pulled, given>>

-----------------------------------------------------------------------------
Goes(d, to) == thread' = [thread EXCEPT ![d] = to]

(* Fault: a refusal stops the run and is forgotten.                         *)
MakeRealtimeSilently(d) ==
  /\ thread[d] = "realtime"
  /\ \/ Goes(d, "top") /\ granted' = granted \cup {d} /\ UNCHANGED gStop
     \/ Goes(d, "gone") /\ gStop' = TRUE /\ UNCHANGED granted
  /\ UNCHANGED <<setup, main, gFailed, device, tel, done, pulled, given>>

(* make_realtime().                                                         *)
MakeRealtime(d) ==
  /\ thread[d] = "realtime"
  /\ \/ Goes(d, "top") /\ granted' = granted \cup {d} /\ UNCHANGED <<gStop, gFailed>>
     \/ Goes(d, "gone") /\ gStop' = TRUE /\ gFailed' = TRUE /\ UNCHANGED granted
  /\ UNCHANGED <<setup, main, device, tel, done, pulled, given>>

(* A transfer that returns an error: counted, then recovered from.  An xrun *)
(* is -EPIPE; any other error may come at any time.                         *)
TransferFails(d) ==
  /\ thread[d] = "transfer"
  /\ Goes(d, "recover")
  /\ tel' = [tel EXCEPT ![d].counted = TRUE]
  /\ UNCHANGED <<setup, main, gStop, gFailed, granted, device, done, pulled, given>>

(* snd_pcm_recover() restores the stream: after an xrun it is prepared      *)
(* again and its buffer dropped; after an interrupted or a resumed transfer *)
(* it is left as it is, even if an xrun came meanwhile.                     *)
Recovered(d) ==
  /\ tel[d].frames < Life
  /\ \/ device' = [device EXCEPT ![d].frames = 0, ![d].state = "prepared"]
     \/ UNCHANGED device

(* Fault: the thread that cannot go on ends alone.                          *)
RecoverAlone(d) ==
  /\ thread[d] = "recover"
  /\ \/ Recovered(d) /\ Goes(d, IF d = "in" THEN "top" ELSE "write")
     \/ Goes(d, "gone") /\ UNCHANGED device
  /\ UNCHANGED <<setup, main, gStop, gFailed, granted, tel, done, pulled, given>>

(* Fault: a recovery leaves the loop over the block's rest.                 *)
RecoverAndPull(d) ==
  /\ thread[d] = "recover"
  /\ \/ Recovered(d) /\ Goes(d, "top") /\ UNCHANGED gStop
     \/ Goes(d, "gone") /\ gStop' = TRUE /\ UNCHANGED device
  /\ UNCHANGED <<setup, main, gFailed, granted, tel, done, pulled, given>>

(* The stream is recovered and the transfer asked for again; or the thread  *)
(* stops the run and returns.                                               *)
Recover(d) ==
  /\ thread[d] = "recover"
  /\ \/ Recovered(d) /\ Goes(d, IF d = "in" THEN "top" ELSE "write") /\ UNCHANGED gStop
     \/ Goes(d, "gone") /\ gStop' = TRUE /\ UNCHANGED device
  /\ UNCHANGED <<setup, main, gFailed, granted, tel, done, pulled, given>>

(* Fault: the free space taken for what is queued.                          *)
PositionOfAvail(d) ==
  IF d = "in" THEN tel[d].frames + device[d].frames
  ELSE LET avail == Buffer - device[d].frames
       IN IF tel[d].frames > avail THEN tel[d].frames - avail ELSE 0

(* record_hw_position(): frames read plus those waiting, or written less    *)
(* those queued.                                                            *)
Position(d) ==
  IF d = "in" THEN tel[d].frames + device[d].frames
  ELSE IF tel[d].frames > device[d].frames THEN tel[d].frames - device[d].frames ELSE 0

(* The driver may have no timestamp to give, or fail: nothing is published. *)
(* The capture thread goes on to push() what it read.                       *)
Record(d) ==
  /\ thread[d] = "moved"
  /\ Goes(d, IF d = "in" THEN "top" ELSE "write")
  /\ \/ UNCHANGED tel
     \/ device[d].state = "running" /\ tel' = [tel EXCEPT ![d].hw = Position(d) - device[d].moved]
  /\ UNCHANGED <<setup, main, gStop, gFailed, granted, device, done, pulled, given>>

-----------------------------------------------------------------------------
(* A transfer starts a prepared stream.                                     *)
Started(dev) == [dev EXCEPT !.state = IF @ = "prepared" THEN "running" ELSE @]

Filled(dev, n) == [dev EXCEPT !.frames = @ + n]

(* The capture thread: the flag, then a read of up to a period.             *)
CaptureTop ==
  /\ thread["in"] = "top"
  /\ IF gStop THEN Goes("in", "gone") /\ UNCHANGED device
     ELSE Goes("in", "transfer") /\ device' = [device EXCEPT !["in"] = Started(@)]
  /\ UNCHANGED <<setup, main, gStop, gFailed, granted, tel, done, pulled, given>>

Read ==
  /\ thread["in"] = "transfer" /\ device["in"].state = "running"
  /\ \E n \in 0..(IF device["in"].frames < Period THEN device["in"].frames ELSE Period) :
       /\ Goes("in", IF n = 0 THEN "top" ELSE "moved")
       /\ device' = [device EXCEPT !["in"].frames = @ - n]
       /\ tel' = [tel EXCEPT !["in"].frames = @ + n]
  /\ UNCHANGED <<setup, main, gStop, gFailed, granted, done, pulled, given>>

-----------------------------------------------------------------------------
(* The playback thread: the flag, a block pulled, and written in as many    *)
(* transfers as it takes; the flag again before each.                       *)
PlaybackTop ==
  /\ thread["out"] = "top"
  /\ IF gStop THEN Goes("out", "drain") /\ UNCHANGED <<pulled, done>>
     ELSE Goes("out", "write") /\ pulled' = pulled + Period /\ done' = 0
  /\ UNCHANGED <<setup, main, gStop, gFailed, granted, device, tel, given>>

WriteOn ==
  /\ thread["out"] = "write"
  /\ Goes("out", IF done < Period /\ ~gStop THEN "transfer" ELSE "top")
  /\ UNCHANGED <<setup, main, gStop, gFailed, granted, device, tel, done, pulled, given>>

(* Fault: a short write taken for the whole block.                          *)
WriteAllDone ==
  /\ thread["out"] = "transfer" /\ device["out"].state # "xrun"
  /\ \E n \in 1..(Period - done) :
       /\ device["out"].frames + n <= Buffer /\ tel["out"].frames + n <= Life
       /\ device' = [device EXCEPT !["out"] = Started(Filled(@, n))]
       /\ tel' = [tel EXCEPT !["out"].frames = @ + n]
       /\ given' = pulled - Period + done + n
       /\ done' = Period
  /\ Goes("out", "moved")
  /\ UNCHANGED <<setup, main, gStop, gFailed, granted, pulled>>

Write ==
  /\ thread["out"] = "transfer" /\ device["out"].state # "xrun"
  /\ \E n \in 1..(Period - done) :
       /\ device["out"].frames + n <= Buffer /\ tel["out"].frames + n <= Life
       /\ device' = [device EXCEPT !["out"] = Started(Filled(@, n))]
       /\ tel' = [tel EXCEPT !["out"].frames = @ + n]
       /\ given' = pulled - Period + done + n
       /\ done' = done + n
  /\ Goes("out", "moved")
  /\ UNCHANGED <<setup, main, gStop, gFailed, granted, pulled>>

Drain ==
  /\ thread["out"] = "drain"
  /\ Goes("out", "gone")
  /\ device' = [device EXCEPT !["out"].frames = 0, !["out"].state = "prepared"]
  /\ UNCHANGED <<setup, main, gStop, gFailed, granted, tel, done, pulled, given>>

-----------------------------------------------------------------------------
Main == SetUp \/ StartCapture \/ StartPlayback \/ Uncaught \/ EndLoop \/ JoinCapture \/ Finish

Either(d) == MakeRealtime(d) \/ TransferFails(d) \/ Recover(d) \/ Record(d)

CaptureThread  == Either("in") \/ CaptureTop \/ Read
PlaybackThread == Either("out") \/ PlaybackTop \/ WriteOn \/ Write \/ Drain

Next == Main \/ Sigint \/ CaptureThread \/ PlaybackThread \/ \E d \in Sides : Tick(d)

(* Threads are scheduled and blocking transfers return; nothing makes the   *)
(* hardware move.                                                           *)
Spec ==
  /\ Init /\ [][Next]_vars
  /\ WF_vars(StartCapture \/ StartPlayback \/ EndLoop \/ JoinCapture \/ Finish)
  /\ WF_vars(CaptureThread) /\ WF_vars(PlaybackThread)

-----------------------------------------------------------------------------
ThreadStates == {"none", "realtime", "top", "transfer", "recover", "moved", "write", "drain", "gone"}
DeviceStates == [state : {"prepared", "running", "xrun"}, frames : 0..Buffer, moved : 0..Life]
Telemetries  == [frames : Nat, counted : BOOLEAN, hw : Int]

(* Types; buffers within their size, and writes within the pulled block.    *)
TypeOK ==
  /\ args \in [rt : BOOLEAN, timed : BOOLEAN]
  /\ main \in Stages \cup {"capture", "playback", "loop", "join in", "join out", "exited"}
  /\ code \in {-1, 0, 1, 2} /\ opened \subseteq Sides \cup {"csv", "dump"}
  /\ gStop \in BOOLEAN /\ gFailed \in BOOLEAN /\ granted \subseteq Sides
  /\ thread \in [Sides -> ThreadStates]
  /\ device \in [Sides -> DeviceStates] /\ tel \in [Sides -> Telemetries]
  /\ done \in 0..Period /\ pulled \in Nat /\ given \in Nat

(* "The frames the hardware had moved at that instant": as long as no       *)
(* recovery was counted, the published position is the hardware's own,      *)
(* short transfers and all; what a recovery drops is in no count but its.   *)
PositionsAreTrue ==
  \A d \in Sides : tel[d].counted \/ tel[d].hw = 0

(* The frames the playback device is given are the pulled stream, in order, *)
(* none twice and none left out: through short writes and recoveries, each  *)
(* block is written to its end before the next one is pulled.               *)
StreamIsWhole == given = tel["out"].frames

(* An audio thread never outlives the devices, and main never returns with  *)
(* one open; what std::terminate() left open the system closes.             *)
DevicesOutliveThreads ==
  /\ \A d \in Sides : thread[d] \notin {"none", "gone"} => Sides \subseteq opened
  /\ main = "exited" /\ code # -1 => opened \cap Sides = {}

(* "--rt: fail if the system refuses": a run that exits with 0 had both     *)
(* threads real-time, whenever and in whichever thread it was stopped.      *)
RtOrFailure ==
  main = "exited" /\ code = 0 /\ args.rt /\ thread["in"] # "none" => granted = Sides

(* However a run ends: no thread without its devices, nothing left open,    *)
(* and no success without what --rt asked for.                              *)
ExitIsClean == DevicesOutliveThreads /\ RtOrFailure

(* A stop, or either thread's end, ends the program: both threads return    *)
(* and are joined.                                                          *)
EndsOnceStopped ==
  (gStop \/ \E d \in Sides : thread[d] = "gone")
    ~> (main = "exited" /\ \A d \in Sides : thread[d] \in {"none", "gone"})

=============================================================================
