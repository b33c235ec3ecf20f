-------------------------- MODULE PeripheryProofs --------------------------
(***************************************************************************)
(* Proofs about what is built around the converters: the examples, the C   *)
(* ABIs and the search for chains.                                         *)
(*                                                                         *)
(* AlsaBridge, for every period, buffer size and life of the devices: the  *)
(* published positions, the stream the playback device is given, and what  *)
(* main leaves behind when it returns.                                     *)
(*                                                                         *)
(* Seqlock and DualCore, for any payload, number of phases and reads: a    *)
(* snapshot that is returned is one publication, core1 pulls only from a   *)
(* converter that lives, and the last line of a phase shows core1's last   *)
(* word.  None of it needs ReportOutlastsSpin.                             *)
(*                                                                         *)
(* The playback side of Uac2Device, for every size of FIFO, chunk and      *)
(* status queue: what was played before the FIFO ran dry, and the range of *)
(* fill levels a status line tells.                                        *)
(*                                                                         *)
(* CAbi, for all arguments create may be given: what is on the heap, what  *)
(* a handle answers to, and that only memory refused ends a program; what  *)
(* the tables of chains and pinned lengths say is a named hypothesis.      *)
(*                                                                         *)
(* CoverageMatrix, for every pair of rates, number of stages and order of  *)
(* equal entries: what a search has settled is the least work there is.    *)
(***************************************************************************)
EXTENDS AlsaBridge, DualCore, Uac2Device, CAbi, CoverageMatrix,
        FiniteSetTheorems, WellFoundedInduction, TLAPS

-----------------------------------------------------------------------------
(* The ALSA bridge.                                                         *)

Early  == Stages \cup {"capture"}
Joined == {"loop", "join in", "join out"}
Alive  == {"playback"} \cup Joined

(* Where main stands says which devices are open and whether there are      *)
(* threads: none before they are started, only ended ones when it has       *)
(* exited, by std::terminate() between the two or after both.               *)
MainAndThreads ==
  /\ main = "out" => "in" \in opened
  /\ main \in {"converter", "csv", "dump", "capture"} \cup Alive => Sides \subseteq opened
  /\ main = "exited" /\ code # -1 => opened \cap Sides = {}
  /\ main \in Early => \A d \in Sides : thread[d] = "none"
  /\ main = "playback" => thread["in"] # "none" /\ thread["out"] = "none"
  /\ main \in Joined => \A d \in Sides : thread[d] # "none"
  /\ main = "join out" => thread["in"] = "gone"
  /\ main = "exited" => /\ \A d \in Sides : thread[d] \in {"none", "gone"}
                        /\ code # -1 => thread["in"] = thread["out"]

(* A thread that got past make_realtime() was granted what it asked for, or *)
(* has said so, unless std::terminate() cut it off; an exit with 0 after    *)
(* the threads means that nobody did.                                       *)
RtIsKnown ==
  /\ args.rt /\ ~(main = "exited" /\ code = -1) =>
       \A d \in Sides : thread[d] \in {"none", "realtime"} \/ d \in granted \/ gFailed
  /\ main = "exited" /\ code = 0 /\ thread["in"] = "gone" => ~gFailed

(* The block under way continues the stream where the device's count ends,  *)
(* and the thread comes back for another only with that one done, or to     *)
(* end.                                                                     *)
StreamInv ==
  /\ given = tel["out"].frames /\ pulled - Period + done = tel["out"].frames
  /\ thread["out"] \in {"none", "realtime", "top"} => done = Period \/ gStop

(* Until a recovery is counted, what the application moved, what waits in   *)
(* the buffer and what the hardware moved add up; a drain comes last.       *)
PositionInv ==
  /\ \A d \in Sides : thread[d] = "recover" => tel[d].counted
  /\ tel["in"].counted \/ tel["in"].frames + device["in"].frames = device["in"].moved
  /\ \/ tel["out"].counted \/ thread["out"] = "gone"
     \/ tel["out"].frames = device["out"].frames + device["out"].moved

AlsaInv == TypeOK /\ MainAndThreads /\ RtIsKnown /\ StreamInv /\ PositionInv /\ PositionsAreTrue

-----------------------------------------------------------------------------
LEMMA InitIsAlsa == Init => AlsaInv
<1> SUFFICES ASSUME Init PROVE AlsaInv
  OBVIOUS
<1>1. TypeOK
  <2>1. /\ [state |-> "prepared", frames |-> 0, moved |-> 0]
             \in DeviceStates
        /\ [frames |-> 0, counted |-> FALSE, hw |-> 0] \in Telemetries
    BY BridgeAssumption DEF DeviceStates, Telemetries
  <2>2. thread \in [Sides -> {"none"}] /\ args \in [rt : BOOLEAN, timed : BOOLEAN]
    BY DEF Init
  <2>3. /\ device \in [Sides -> DeviceStates]
        /\ tel \in [Sides -> Telemetries]
    BY <2>1 DEF Init
  <2>4. /\ main \in Stages /\ code \in {-1, 0, 1, 2} /\ opened = {} /\ granted = {}
        /\ done \in 0..Period /\ pulled \in Nat /\ given \in Nat
    BY BridgeAssumption DEF Init, Stages
  <2>5. gStop \in BOOLEAN /\ gFailed \in BOOLEAN
    BY DEF Init
  <2>6. thread \in [Sides -> ThreadStates]
    BY <2>2 DEF ThreadStates
  <2> QED BY <2>2, <2>3, <2>4, <2>5, <2>6 DEF TypeOK
<1>2. MainAndThreads /\ RtIsKnown /\ StreamInv /\ PositionInv /\ PositionsAreTrue
  BY BridgeAssumption DEF Init, MainAndThreads, RtIsKnown, StreamInv, PositionInv, PositionsAreTrue, Sides,
     Alive, Joined, Early, Stages
<1> QED BY <1>1, <1>2 DEF AlsaInv

(* What the steps of the set-up do to main and the devices.                 *)
LEMMA SetUpKeeps == ASSUME AlsaInv, SetUp PROVE AlsaInv'
<1> USE DEF AlsaInv
<1>1. CASE main' = AfterStage[main] /\ main \in Stages
           /\ opened' = opened \cup ({main} \cap {"in", "out", "csv", "dump"}) /\ UNCHANGED code
  <2>1. /\ main = "arguments" => main' = "lock"
        /\ main = "lock" => main' = "in"
        /\ main = "in" => main' = "out"
        /\ main = "out" => main' = "converter"
        /\ main = "converter" => main' = "csv"
        /\ main = "csv" => main' = "dump"
        /\ main = "dump" => main' = "capture"
    BY <1>1 DEF AfterStage
  <2>2. main' \in {"lock", "in", "out", "converter", "csv", "dump", "capture"}
    BY <1>1, <2>1 DEF Stages
  <2>3. TypeOK'
    BY <1>1, <2>2 DEF SetUp, TypeOK, Stages, Sides
  <2>4. MainAndThreads'
    BY <1>1, <2>1, <2>2 DEF SetUp, MainAndThreads, TypeOK, Stages, Sides, Alive, Joined, Early
  <2>5. (RtIsKnown /\ StreamInv /\ PositionInv /\ PositionsAreTrue)'
    BY <1>1, <2>2 DEF SetUp, RtIsKnown, StreamInv, PositionInv, PositionsAreTrue, Stages
  <2> QED BY <2>3, <2>4, <2>5
<1>2. CASE \E c \in FailureCodes(main) : Leave(c)
  <2>1. PICK c \in FailureCodes(main) : Leave(c)
    BY <1>2
  <2>2. c \in {-1, 0, 1, 2} /\ \A d \in Sides : thread[d] = "none"
    BY <2>1 DEF FailureCodes, SetUp, Stages, MainAndThreads, Early
  <2>3. TypeOK'
    BY <2>1, <2>2 DEF SetUp, Leave, TypeOK
  <2>4. MainAndThreads'
    BY <2>1, <2>2 DEF SetUp, Leave, MainAndThreads, Alive, Joined, Early, Stages, Sides
  <2>5. (RtIsKnown /\ StreamInv /\ PositionInv /\ PositionsAreTrue)'
    BY <2>1, <2>2 DEF SetUp, Leave, RtIsKnown, StreamInv, PositionInv, PositionsAreTrue, Sides
  <2> QED BY <2>3, <2>4, <2>5
<1> QED BY <1>1, <1>2 DEF SetUp

(* A thread is started where there was none.                                *)
LEMMA StartKeepsAlsa ==
  ASSUME AlsaInv, NEW d \in Sides, NEW after \in Alive, StartThread(d, after), thread[d] = "none",
         main # "exited", MainAndThreads'
  PROVE  AlsaInv'
<1> USE DEF AlsaInv
<1>1. /\ thread'[d] = IF args.rt THEN "realtime" ELSE "top"
      /\ \A e \in Sides : e # d => thread'[e] = thread[e]
  BY DEF StartThread, TypeOK
<1>2. TypeOK'
  <2>1. thread' \in [Sides -> ThreadStates]
    BY DEF StartThread, TypeOK, ThreadStates
  <2> QED BY <2>1 DEF StartThread, setup, TypeOK, Alive, Joined
<1>3. RtIsKnown'
  <2>1. args' = args /\ main' # "exited" /\ granted' = granted /\ gFailed' = gFailed
    BY DEF StartThread, setup, Alive, Joined
  <2> QED BY <1>1, <2>1 DEF RtIsKnown
<1>4. (StreamInv /\ PositionInv /\ PositionsAreTrue)'
  BY <1>1 DEF StartThread, setup, StreamInv, PositionInv, PositionsAreTrue, Sides
<1> QED BY <1>2, <1>3, <1>4

(* std::terminate() takes the threads with it, and perhaps the devices.     *)
LEMMA UncaughtKeeps == ASSUME AlsaInv, Uncaught PROVE AlsaInv'
<1> USE DEF AlsaInv
<1>1. \A d \in Sides : thread'[d] = IF thread[d] = "none" THEN "none" ELSE "gone"
  BY DEF Uncaught
<1>2. main' = "exited" /\ code' = -1 /\ opened' \subseteq opened
  BY DEF Uncaught
<1>3. TypeOK'
  <2>1. thread' \in [Sides -> ThreadStates]
    BY DEF Uncaught, ThreadStates
  <2> QED BY <1>2, <2>1 DEF Uncaught, TypeOK
<1>4. MainAndThreads'
  BY <1>1, <1>2 DEF MainAndThreads, Alive, Joined, Early, Stages
<1>5. (RtIsKnown /\ StreamInv /\ PositionInv /\ PositionsAreTrue)'
  <2>1. PositionInv'
    BY <1>1 DEF Uncaught, PositionInv, Sides
  <2>3. StreamInv'
    <3>1. thread'["out"] \in {"none", "realtime", "top"} => thread["out"] = "none"
      BY <1>1 DEF Sides
    <3> QED BY <3>1 DEF Uncaught, StreamInv
  <2>4. RtIsKnown'
    BY <1>2 DEF RtIsKnown
  <2> QED BY <2>1, <2>3, <2>4 DEF Uncaught, PositionsAreTrue
<1> QED BY <1>3, <1>4, <1>5

LEMMA MainKeeps ==
  ASSUME AlsaInv, StartCapture \/ StartPlayback \/ EndLoop \/ JoinCapture \/ Finish \/ Sigint
  PROVE  AlsaInv'
<1> USE DEF AlsaInv
<1>0. CASE StartCapture
  <2>1. thread["in"] = "none" /\ thread'["in"] # "none" /\ thread'["out"] = "none"
    BY <1>0 DEF StartCapture, StartThread, MainAndThreads, TypeOK, Early, Sides
  <2>2. MainAndThreads'
    BY <1>0, <2>1 DEF StartCapture, StartThread, setup, MainAndThreads, Alive, Joined, Early, Stages
  <2> QED BY <1>0, <2>1, <2>2, StartKeepsAlsa DEF StartCapture, Sides, Alive
<1>1. CASE StartPlayback
  <2>1. thread["out"] = "none" /\ thread'["out"] # "none" /\ thread'["in"] # "none"
    BY <1>1 DEF StartPlayback, StartThread, MainAndThreads, TypeOK, Sides
  <2>2. MainAndThreads'
    BY <1>1, <2>1 DEF StartPlayback, StartThread, setup, MainAndThreads, Alive, Joined, Early, Stages, Sides
  <2> QED BY <1>1, <2>1, <2>2, StartKeepsAlsa DEF StartPlayback, Sides, Alive, Joined
<1>2. CASE EndLoop
  BY <1>2 DEF EndLoop, setup, TypeOK, MainAndThreads, RtIsKnown, StreamInv, PositionInv,
     PositionsAreTrue, Alive, Joined, Early, Stages
<1>3. CASE JoinCapture
  BY <1>3 DEF JoinCapture, setup, TypeOK, MainAndThreads, RtIsKnown, StreamInv, PositionInv,
     PositionsAreTrue, Alive, Joined, Early, Stages
<1>4. CASE Finish
  <2>1. \A d \in Sides : thread'[d] = "gone"
    BY <1>4 DEF Finish, FinishUnjoined, MainAndThreads, Sides
  <2>2. opened' = {} /\ main' = "exited" /\ code' \in {0, 1} /\ (code' = 0 => ~gFailed')
    <3>1. opened' = {} /\ main' = "exited" /\ code' = (IF gFailed THEN 1 ELSE 0) /\ gFailed' = gFailed
      BY <1>4 DEF Finish, FinishUnjoined
    <3>2. CASE gFailed
      BY <3>1, <3>2
    <3>3. CASE ~gFailed
      BY <3>1, <3>3
    <3> QED BY <3>2, <3>3
  <2>3. TypeOK'
    BY <1>4, <2>2 DEF Finish, FinishUnjoined, TypeOK
  <2>4. MainAndThreads'
    BY <2>1, <2>2 DEF MainAndThreads, Alive, Joined, Early, Stages, Sides
  <2>5. (RtIsKnown /\ StreamInv /\ PositionInv /\ PositionsAreTrue)'
    BY <1>4, <2>2 DEF Finish, FinishUnjoined, RtIsKnown, StreamInv, PositionInv, PositionsAreTrue
  <2> QED BY <2>3, <2>4, <2>5
<1>5. CASE Sigint
  <2>1. TypeOK' /\ MainAndThreads'
    BY <1>5 DEF Sigint, setup, TypeOK, MainAndThreads
  <2>2. (RtIsKnown /\ StreamInv /\ PositionInv /\ PositionsAreTrue)'
    BY <1>5 DEF Sigint, setup, RtIsKnown, StreamInv, PositionInv, PositionsAreTrue
  <2> QED BY <2>1, <2>2
<1> QED BY <1>0, <1>1, <1>2, <1>3, <1>4, <1>5

-----------------------------------------------------------------------------
(* A thread that is neither absent nor gone is one of a running program.    *)
LEMMA ThreadsNeedMain ==
  ASSUME AlsaInv, NEW d \in Sides, thread[d] \notin {"none", "gone"}
  PROVE  main \in Alive
BY DEF AlsaInv, MainAndThreads, TypeOK, Alive, Joined, Early

(* A thread that moves on, within the program, keeps what main's position   *)
(* says.                                                                    *)
LEMMA MovingKeepsMain ==
  ASSUME AlsaInv, NEW d \in Sides, thread[d] \notin {"none", "gone"}, UNCHANGED <<main, opened>>,
         thread'[d] # "none", \A e \in Sides : e # d => thread'[e] = thread[e]
  PROVE  MainAndThreads'
<1>1. main \in Alive
  BY ThreadsNeedMain
<1>2. \A e \in Sides : thread[e] # "none" => thread'[e] # "none"
  OBVIOUS
<1>4. main = "playback" => thread'["in"] # "none" /\ thread'["out"] = "none"
  BY <1>2 DEF AlsaInv, MainAndThreads, Sides
<1>3. main = "join out" => thread'["in"] = "gone"
  BY DEF AlsaInv, MainAndThreads, Sides
<1> QED BY <1>1, <1>2, <1>3, <1>4 DEF AlsaInv, MainAndThreads, Alive, Joined, Early, Stages

(* ... and what is known of the real-time class, once past it.              *)
LEMMA MovingKeepsRt ==
  ASSUME AlsaInv, NEW d \in Sides, thread[d] \notin {"none", "gone", "realtime"},
         UNCHANGED <<main, args, granted, gFailed, code>>,
         \A e \in Sides : e # d => thread'[e] = thread[e]
  PROVE  RtIsKnown'
<1>1. main \in Alive
  BY ThreadsNeedMain
<1> QED BY <1>1 DEF AlsaInv, RtIsKnown, Alive, Joined

LEMMA TickKeeps == ASSUME AlsaInv, NEW d \in Sides, Tick(d) PROVE AlsaInv'
<1> USE DEF AlsaInv
<1> DEFINE dev == device[d]
<1>1. dev \in DeviceStates
  BY DEF TypeOK, DeviceStates
<1>2. \A e \in Sides : e # d => device'[e] = device[e]
  BY DEF Tick, TypeOK
<1>3. \/ device'[d] = [dev EXCEPT !.state = "xrun"]
      \/ /\ dev.frames # (IF d = "in" THEN Buffer ELSE 0) /\ dev.moved < Life
         /\ device'[d] = [dev EXCEPT !.frames = @ + (IF d = "in" THEN 1 ELSE -1), !.moved = @ + 1]
  BY DEF Tick, Ticked, TypeOK
<1>4. \/ device'[d].frames = dev.frames /\ device'[d].moved = dev.moved
      \/ /\ device'[d].frames = dev.frames + (IF d = "in" THEN 1 ELSE -1)
         /\ device'[d].moved = dev.moved + 1
  BY <1>1, <1>3 DEF DeviceStates
<1>5. device'[d] \in DeviceStates
  <2> DEFINE k == IF d = "in" THEN 1 ELSE -1
  <2> DEFINE edge == IF d = "in" THEN Buffer ELSE 0
  <2>1. /\ Buffer \in Nat /\ Life \in Nat /\ dev.frames \in 0..Buffer /\ dev.moved \in 0..Life
        /\ dev.state \in {"prepared", "running", "xrun"}
    BY <1>1, BridgeAssumption DEF DeviceStates
  <2>2. CASE device'[d] = [dev EXCEPT !.state = "xrun"]
    BY <1>1, <2>2 DEF DeviceStates
  <2>3. CASE /\ dev.frames # edge /\ dev.moved < Life
             /\ device'[d] = [dev EXCEPT !.frames = @ + k, !.moved = @ + 1]
    <3>1. dev.frames + k \in 0..Buffer /\ dev.moved + 1 \in 0..Life
      BY <2>1, <2>3
    <3> QED BY <1>1, <2>3, <3>1 DEF DeviceStates
  <2> QED BY <1>3, <2>2, <2>3
<1>6. TypeOK'
  BY <1>5 DEF Tick, setup, TypeOK
<1>7. (MainAndThreads /\ RtIsKnown /\ StreamInv /\ PositionsAreTrue)'
  BY DEF Tick, setup, MainAndThreads, RtIsKnown, StreamInv, PositionsAreTrue
<1>8. PositionInv'
  <2>1. /\ tel["in"].frames \in Nat /\ tel["out"].frames \in Nat
        /\ \A e \in Sides : device[e].frames \in Nat /\ device[e].moved \in Nat
    <3>1. \A e \in Sides : device[e].frames \in 0..Buffer /\ device[e].moved \in 0..Life /\ tel[e].frames \in Nat
      BY DEF TypeOK, DeviceStates, Telemetries
    <3> QED BY <3>1, BridgeAssumption DEF Sides
  <2> QED BY <1>2, <1>4, <2>1 DEF Tick, setup, PositionInv, Sides
<1> QED BY <1>6, <1>7, <1>8

-----------------------------------------------------------------------------
(* The threads.                                                             *)
LEMMA TypesOfSides ==
  ASSUME TypeOK, NEW d \in Sides
  PROVE  /\ device[d] \in DeviceStates /\ tel[d] \in Telemetries
         /\ device[d].frames \in 0..Buffer /\ device[d].moved \in 0..Life /\ device[d].frames \in Nat
         /\ device[d].moved \in Nat /\ tel[d].frames \in Nat /\ tel[d].hw \in Int
<1>1. device[d] \in DeviceStates /\ tel[d] \in Telemetries
  BY DEF TypeOK
<1>2. device[d].frames \in 0..Buffer /\ device[d].moved \in 0..Life
  BY <1>1 DEF DeviceStates
<1>3. tel[d].frames \in Nat /\ tel[d].hw \in Int
  BY <1>1 DEF Telemetries
<1> QED BY <1>1, <1>2, <1>3, BridgeAssumption

(* A stream prepared again: its buffer dropped.                             *)
LEMMA EmptiedIsADevice ==
  ASSUME TypeOK, NEW d \in Sides
  PROVE  /\ [device EXCEPT ![d].frames = 0, ![d].state = "prepared"] \in [Sides -> DeviceStates]
         /\ [device EXCEPT ![d].frames = 0, ![d].state = "prepared"][d].moved = device[d].moved
<1> DEFINE dev == [device[d] EXCEPT !.frames = 0, !.state = "prepared"]
<1>1. dev \in DeviceStates /\ dev.moved = device[d].moved
  <2>1. device[d] \in DeviceStates /\ 0 \in 0..Buffer
    BY TypesOfSides, BridgeAssumption
  <2>2. [device[d] EXCEPT !.frames = 0] \in DeviceStates
    BY <2>1 DEF DeviceStates
  <2> QED BY <2>1, <2>2 DEF DeviceStates
<1>2. [device EXCEPT ![d].frames = 0, ![d].state = "prepared"] = [device EXCEPT ![d] = dev]
  BY TypesOfSides DEF TypeOK, DeviceStates
<1> QED BY <1>1, <1>2 DEF TypeOK

LEMMA MakeRealtimeKeeps == ASSUME AlsaInv, NEW d \in Sides, MakeRealtime(d) PROVE AlsaInv'
<1> USE DEF AlsaInv
<1>1. thread' \in [Sides -> ThreadStates] /\ thread'[d] \in {"top", "gone"} /\ thread[d] = "realtime"
      /\ \A e \in Sides : e # d => thread'[e] = thread[e]
  <2>1. CASE Goes(d, "top")
    BY <2>1 DEF MakeRealtime, Goes, TypeOK, ThreadStates
  <2>2. CASE Goes(d, "gone")
    BY <2>2 DEF MakeRealtime, Goes, TypeOK, ThreadStates
  <2> QED BY <2>1, <2>2 DEF MakeRealtime
<1>2. main \in Alive /\ UNCHANGED <<main, opened, code, args, device, tel, done, pulled, given>>
  BY <1>1, ThreadsNeedMain DEF MakeRealtime, setup
<1>3. gStop' \in BOOLEAN /\ gFailed' \in BOOLEAN
  BY DEF MakeRealtime, TypeOK
<1>4. granted' \subseteq Sides
  BY DEF MakeRealtime, TypeOK
<1>5. TypeOK'
  BY <1>1, <1>2, <1>3, <1>4 DEF TypeOK, ThreadStates
<1>6. MainAndThreads'
  BY <1>1, <1>2, MovingKeepsMain
<1>7. RtIsKnown'
  <2>1. d \in granted' \/ gFailed'
    BY DEF MakeRealtime
  <2>2. granted \subseteq granted' /\ (gFailed => gFailed')
    BY DEF MakeRealtime
  <2> QED BY <1>1, <1>2, <2>1, <2>2 DEF RtIsKnown, Alive, Joined
<1>8. (StreamInv /\ PositionInv /\ PositionsAreTrue)'
  BY <1>1, <1>2 DEF MakeRealtime, StreamInv, PositionInv, PositionsAreTrue, Sides
<1> QED BY <1>5, <1>6, <1>7, <1>8

(* A step of a thread that is past make_realtime().                         *)
LEMMA ThreadStepKeeps ==
  ASSUME AlsaInv, NEW d \in Sides, thread[d] \notin {"none", "gone", "realtime"}, NEW to \in ThreadStates \ {"none"},
         Goes(d, to), UNCHANGED <<setup, main, gFailed, granted>>
  PROVE  (MainAndThreads /\ RtIsKnown)' /\ thread' \in [Sides -> ThreadStates] /\ thread'[d] = to
         /\ \A e \in Sides : e # d => thread'[e] = thread[e]
<1>1. thread' \in [Sides -> ThreadStates] /\ thread'[d] = to /\ \A e \in Sides : e # d => thread'[e] = thread[e]
  BY DEF Goes, AlsaInv, TypeOK, ThreadStates
<1>2. UNCHANGED <<main, opened, args, granted, gFailed, code>>
  BY DEF setup
<1> QED BY <1>1, <1>2, MovingKeepsMain, MovingKeepsRt

LEMMA TransferFailsKeeps == ASSUME AlsaInv, NEW d \in Sides, TransferFails(d) PROVE AlsaInv'
<1> USE DEF AlsaInv
<1>1. /\ (MainAndThreads /\ RtIsKnown)' /\ thread' \in [Sides -> ThreadStates] /\ thread'[d] = "recover"
      /\ \A e \in Sides : e # d => thread'[e] = thread[e]
  <2>1. "recover" \in ThreadStates \ {"none"}
    BY DEF ThreadStates
  <2> QED BY <2>1, ThreadStepKeeps DEF TransferFails
<1>2. /\ tel' \in [Sides -> Telemetries]
      /\ tel'[d].counted /\ tel'[d].frames = tel[d].frames /\ \A e \in Sides : e # d => tel'[e] = tel[e]
  <2>1. [tel[d] EXCEPT !.counted = TRUE] \in Telemetries
    <3>1. tel[d] \in Telemetries
      BY DEF TypeOK
    <3> QED BY <3>1, Zenon DEF Telemetries
  <2>2. /\ [tel[d] EXCEPT !.counted = TRUE].counted
        /\ [tel[d] EXCEPT !.counted = TRUE].frames = tel[d].frames
    BY TypesOfSides DEF Telemetries
  <2>3. tel' = [tel EXCEPT ![d] = [tel[d] EXCEPT !.counted = TRUE]]
    BY DEF TransferFails
  <2> QED BY <2>1, <2>2, <2>3 DEF TypeOK
<1>3. TypeOK'
  BY <1>1, <1>2 DEF TransferFails, setup, TypeOK, ThreadStates
<1>4. (StreamInv /\ PositionInv /\ PositionsAreTrue)'
  BY <1>1, <1>2 DEF TransferFails, StreamInv, PositionInv, PositionsAreTrue, Sides
<1> QED BY <1>1, <1>3, <1>4

LEMMA RecoverKeeps == ASSUME AlsaInv, NEW d \in Sides, Recover(d) PROVE AlsaInv'
<1> USE DEF AlsaInv
<1>1. PICK to \in {"gone", "top", "write"} : Goes(d, to)
  BY DEF Recover
<1>2. /\ (MainAndThreads /\ RtIsKnown)' /\ thread' \in [Sides -> ThreadStates] /\ thread'[d] = to
      /\ \A e \in Sides : e # d => thread'[e] = thread[e]
  <2>1. to \in ThreadStates \ {"none"}
    BY <1>1 DEF ThreadStates
  <2> QED BY <1>1, <2>1, ThreadStepKeeps DEF Recover
<1>3. tel[d].counted /\ tel' = tel
  BY DEF Recover, PositionInv
<1>4. device' \in [Sides -> DeviceStates] /\ \A e \in Sides : e # d => device'[e] = device[e]
  <2>1. CASE UNCHANGED device
    BY <2>1 DEF TypeOK
  <2>2. CASE device' = [device EXCEPT ![d].frames = 0, ![d].state = "prepared"]
    BY <2>2, TypesOfSides, EmptiedIsADevice DEF TypeOK
  <2> QED BY <2>1, <2>2 DEF Recover, Recovered
<1>5. gStop' \in BOOLEAN
  BY DEF Recover, TypeOK
<1>6. TypeOK'
  BY <1>2, <1>3, <1>4, <1>5 DEF Recover, setup, TypeOK, ThreadStates, DeviceStates
<1>7. (StreamInv /\ PositionInv /\ PositionsAreTrue)'
  <2>1. thread'["out"] \in {"none", "realtime", "top"} => thread'["out"] = thread["out"]
    <3>1. CASE d = "in"
      BY <3>1, <1>2 DEF Sides
    <3>2. CASE d = "out"
      BY <3>2, <1>2 DEF Recover, Goes, Sides, TypeOK
    <3> QED BY <3>1, <3>2 DEF Sides
  <2> QED BY <2>1, <1>1, <1>2, <1>3, <1>4 DEF Recover, StreamInv, PositionInv, PositionsAreTrue, Sides
<1> QED BY <1>2, <1>6, <1>7

(* A published position is the hardware's own, if nothing was dropped.      *)
LEMMA RecordKeeps == ASSUME AlsaInv, NEW d \in Sides, Record(d) PROVE AlsaInv'
<1> USE DEF AlsaInv
<1>1. PICK to \in {"top", "write"} : Goes(d, to)
  BY DEF Record
<1>2. /\ (MainAndThreads /\ RtIsKnown)' /\ thread' \in [Sides -> ThreadStates] /\ thread'[d] = to
      /\ \A e \in Sides : e # d => thread'[e] = thread[e]
  <2>1. to \in ThreadStates \ {"none"}
    BY <1>1 DEF ThreadStates
  <2> QED BY <1>1, <2>1, ThreadStepKeeps DEF Record
<1>3. Position(d) - device[d].moved \in Int /\ (tel[d].counted \/ Position(d) - device[d].moved = 0)
  BY TypesOfSides DEF Position, PositionInv, Record, Sides
<1>4. /\ tel' \in [Sides -> Telemetries]
      /\ \A e \in Sides : /\ tel'[e].frames = tel[e].frames /\ tel'[e].counted = tel[e].counted
                          /\ tel'[e].hw = tel[e].hw \/ tel'[e].counted \/ tel'[e].hw = 0
  <2>1. CASE UNCHANGED tel
    BY <2>1 DEF TypeOK
  <2>2. CASE tel' = [tel EXCEPT ![d].hw = Position(d) - device[d].moved]
    <3> DEFINE hw == Position(d) - device[d].moved
    <3> DEFINE new == [tel[d] EXCEPT !.hw = hw]
    <3>1. tel' = [tel EXCEPT ![d] = new]
      BY <2>2
    <3>2. new \in Telemetries /\ new.frames = tel[d].frames /\ new.counted = tel[d].counted /\ new.hw = hw
      <4> HIDE DEF hw
      <4> QED BY <1>3, TypesOfSides DEF Telemetries, hw
    <3>3. tel'[d] = new /\ (\A e \in Sides : e # d => tel'[e] = tel[e]) /\ tel' \in [Sides -> Telemetries]
      <4> HIDE DEF new
      <4> QED BY <3>1, <3>2 DEF TypeOK
    <3> HIDE DEF new
    <3> QED BY <1>3, <3>2, <3>3
  <2> QED BY <2>1, <2>2 DEF Record
<1>5. TypeOK'
  BY <1>2, <1>4 DEF Record, setup, TypeOK, ThreadStates
<1>6. (StreamInv /\ PositionInv /\ PositionsAreTrue)'
  <2>1. thread'["out"] \in {"none", "realtime", "top"} => thread'["out"] = thread["out"]
    <3>1. CASE d = "in"
      BY <3>1, <1>2 DEF Sides
    <3>2. CASE d = "out"
      BY <3>2, <1>2 DEF Record, Goes, Sides, TypeOK
    <3> QED BY <3>1, <3>2 DEF Sides
  <2> QED BY <2>1, <1>1, <1>2, <1>4 DEF Record, StreamInv, PositionInv, PositionsAreTrue, Sides
<1> QED BY <1>2, <1>5, <1>6

-----------------------------------------------------------------------------
(* The capture thread.                                                      *)
LEMMA StartedIsADevice ==
  ASSUME NEW dev \in DeviceStates
  PROVE  Started(dev) \in DeviceStates /\ Started(dev).frames = dev.frames /\ Started(dev).moved = dev.moved
BY DEF Started, DeviceStates

LEMMA CaptureTopKeeps == ASSUME AlsaInv, CaptureTop PROVE AlsaInv'
<1> USE DEF AlsaInv
<1> DEFINE d == "in"
<1>0. d \in Sides
  BY DEF Sides
<1>1. PICK to \in {"gone", "transfer"} : Goes(d, to)
  BY DEF CaptureTop
<1>2. /\ (MainAndThreads /\ RtIsKnown)' /\ thread' \in [Sides -> ThreadStates] /\ thread'[d] = to
      /\ \A e \in Sides : e # d => thread'[e] = thread[e]
  <2>1. to \in ThreadStates \ {"none"}
    BY <1>1 DEF ThreadStates
  <2> QED BY <1>0, <1>1, <2>1, ThreadStepKeeps DEF CaptureTop
<1>3. /\ device' \in [Sides -> DeviceStates]
      /\ \A e \in Sides : device'[e].frames = device[e].frames /\ device'[e].moved = device[e].moved
  <2>1. CASE UNCHANGED device
    BY <2>1 DEF TypeOK
  <2>2. CASE device' = [device EXCEPT ![d] = Started(device[d])]
    BY <2>2, TypesOfSides, StartedIsADevice, <1>0 DEF TypeOK
  <2> QED BY <2>1, <2>2 DEF CaptureTop
<1>4. TypeOK'
  BY <1>2, <1>3 DEF CaptureTop, setup, TypeOK
<1>5. (StreamInv /\ PositionInv /\ PositionsAreTrue)'
  BY <1>1, <1>2, <1>3, <1>0 DEF CaptureTop, StreamInv, PositionInv, PositionsAreTrue, Sides
<1> QED BY <1>2, <1>4, <1>5

LEMMA ReadKeeps == ASSUME AlsaInv, Read PROVE AlsaInv'
<1> USE DEF AlsaInv
<1> DEFINE d == "in"
<1>0. d \in Sides
  BY DEF Sides
<1>1. PICK n \in 0..(IF device[d].frames < Period THEN device[d].frames ELSE Period) :
        /\ Goes(d, IF n = 0 THEN "top" ELSE "moved")
        /\ device' = [device EXCEPT ![d].frames = @ - n]
        /\ tel' = [tel EXCEPT ![d].frames = @ + n]
  BY DEF Read
<1>2. PICK to \in {"top", "moved"} : Goes(d, to)
  BY <1>1
<1>3. /\ (MainAndThreads /\ RtIsKnown)' /\ thread' \in [Sides -> ThreadStates] /\ thread'[d] = to
      /\ \A e \in Sides : e # d => thread'[e] = thread[e]
  <2>1. to \in ThreadStates \ {"none"}
    BY <1>2 DEF ThreadStates
  <2> QED BY <1>0, <1>2, <2>1, ThreadStepKeeps DEF Read
<1>4. n \in Nat /\ n <= device[d].frames /\ device[d].frames \in 0..Buffer /\ Buffer \in Nat
  BY <1>0, <1>1, TypesOfSides, BridgeAssumption
<1> DEFINE dev == [device[d] EXCEPT !.frames = @ - n]
<1> DEFINE new == [tel[d] EXCEPT !.frames = @ + n]
<1>5. dev \in DeviceStates /\ dev.frames = device[d].frames - n /\ dev.moved = device[d].moved
  <2>1. device[d].frames - n \in 0..Buffer /\ device[d] \in DeviceStates
    BY <1>4, <1>0, TypesOfSides
  <2> QED BY <2>1 DEF DeviceStates
<1>6. new \in Telemetries /\ new.frames = tel[d].frames + n /\ new.counted = tel[d].counted /\ new.hw = tel[d].hw
  BY <1>4, <1>0, TypesOfSides DEF Telemetries
<1>7. device' = [device EXCEPT ![d] = dev] /\ tel' = [tel EXCEPT ![d] = new]
  BY <1>1
<1> HIDE DEF dev, new
<1>8. /\ device' \in [Sides -> DeviceStates] /\ tel' \in [Sides -> Telemetries] /\ device'[d] = dev /\ tel'[d] = new
      /\ \A e \in Sides : e # d => device'[e] = device[e] /\ tel'[e] = tel[e]
  BY <1>0, <1>5, <1>6, <1>7 DEF TypeOK
<1>9. TypeOK'
  BY <1>3, <1>8 DEF Read, setup, TypeOK
<1>10. tel[d].frames \in Nat /\ device[d].moved \in Nat
  BY <1>0, TypesOfSides
<1>11. (StreamInv /\ PositionInv /\ PositionsAreTrue)'
  BY <1>2, <1>3, <1>4, <1>5, <1>6, <1>8, <1>10 DEF Read, StreamInv, PositionInv, PositionsAreTrue, Sides
<1> QED BY <1>3, <1>9, <1>11

-----------------------------------------------------------------------------
(* The playback thread.                                                     *)
LEMMA PlaybackTopKeeps == ASSUME AlsaInv, PlaybackTop \/ WriteOn PROVE AlsaInv'
<1> USE DEF AlsaInv
<1> DEFINE d == "out"
<1>0. d \in Sides
  BY DEF Sides
<1>1. PICK to \in {"drain", "write", "transfer", "top"} : Goes(d, to)
  BY DEF PlaybackTop, WriteOn
<1>2. /\ (MainAndThreads /\ RtIsKnown)' /\ thread' \in [Sides -> ThreadStates] /\ thread'[d] = to
      /\ \A e \in Sides : e # d => thread'[e] = thread[e]
  <2>1. to \in ThreadStates \ {"none"}
    BY <1>1 DEF ThreadStates
  <2> QED BY <1>0, <1>1, <2>1, ThreadStepKeeps DEF PlaybackTop, WriteOn
<1>3. /\ done' \in 0..Period /\ pulled' \in Nat /\ pulled' - Period + done' = pulled - Period + done
      /\ to = "top" => done' = Period \/ gStop'
  <2>1. done \in 0..Period /\ pulled \in Nat /\ Period \in Nat
    BY BridgeAssumption DEF TypeOK
  <2>2. CASE PlaybackTop
    <3>1. thread["out"] = "top" /\ to # "top"
      BY <1>2, <2>2 DEF PlaybackTop, Goes, TypeOK, Sides
    <3>2. \/ done' = done /\ pulled' = pulled
          \/ done = Period /\ done' = 0 /\ pulled' = pulled + Period
      BY <2>2, <3>1 DEF PlaybackTop, StreamInv
    <3> QED BY <2>1, <3>1, <3>2
  <2>3. CASE WriteOn
    <3>1. done' = done /\ pulled' = pulled /\ gStop' = gStop
      BY <2>3 DEF WriteOn
    <3>2. to = "top" => ~(done < Period) \/ gStop
      BY <1>2, <2>3 DEF WriteOn, Goes, TypeOK, Sides
    <3> QED BY <2>1, <3>1, <3>2
  <2> QED BY <2>2, <2>3
<1>4. TypeOK'
  BY <1>2, <1>3 DEF PlaybackTop, WriteOn, setup, TypeOK
<1>5. (StreamInv /\ PositionInv /\ PositionsAreTrue)'
  BY <1>1, <1>2, <1>3, <1>0 DEF PlaybackTop, WriteOn, StreamInv, PositionInv, PositionsAreTrue, Sides
<1> QED BY <1>2, <1>4, <1>5

LEMMA WriteKeeps == ASSUME AlsaInv, Write PROVE AlsaInv'
<1> USE DEF AlsaInv
<1> DEFINE d == "out"
<1>0. d \in Sides
  BY DEF Sides
<1>1. PICK n \in 1..(Period - done) :
        /\ device[d].frames + n <= Buffer
        /\ device' = [device EXCEPT ![d] = Started(Filled(device[d], n))]
        /\ tel' = [tel EXCEPT ![d].frames = @ + n]
        /\ given' = pulled - Period + done + n
        /\ done' = done + n
  BY DEF Write
<1>2. /\ (MainAndThreads /\ RtIsKnown)' /\ thread' \in [Sides -> ThreadStates] /\ thread'[d] = "moved"
      /\ \A e \in Sides : e # d => thread'[e] = thread[e]
  <2>1. "moved" \in ThreadStates \ {"none"}
    BY DEF ThreadStates
  <2> QED BY <1>0, <2>1, ThreadStepKeeps DEF Write
<1>3. /\ n \in Nat /\ n <= Period - done /\ done \in 0..Period /\ pulled \in Nat /\ Buffer \in Nat /\ Period \in Nat
      /\ device[d].frames \in Nat /\ device[d].moved \in Nat /\ tel[d].frames \in Nat /\ given \in Nat
  <2>1. done \in 0..Period /\ pulled \in Nat /\ given \in Nat
    BY DEF TypeOK
  <2> QED BY <1>0, <1>1, <2>1, TypesOfSides, BridgeAssumption
<1> DEFINE filled == Filled(device[d], n)
<1> DEFINE dev == Started(filled)
<1> DEFINE new == [tel[d] EXCEPT !.frames = @ + n]
<1>4. filled \in DeviceStates /\ filled.frames = device[d].frames + n /\ filled.moved = device[d].moved
  <2>1. device[d].frames + n \in 0..Buffer /\ device[d] \in DeviceStates
    BY <1>0, <1>1, <1>3, TypesOfSides
  <2> QED BY <2>1 DEF DeviceStates, Filled
<1>5. dev \in DeviceStates /\ dev.frames = device[d].frames + n /\ dev.moved = device[d].moved
  <2> HIDE DEF filled
  <2> QED BY <1>4, StartedIsADevice
<1>6. new \in Telemetries /\ new.frames = tel[d].frames + n /\ new.counted = tel[d].counted /\ new.hw = tel[d].hw
  BY <1>3, <1>0, TypesOfSides DEF Telemetries
<1>7. device' = [device EXCEPT ![d] = dev] /\ tel' = [tel EXCEPT ![d] = new]
  BY <1>1
<1> HIDE DEF dev, new
<1>8. /\ device' \in [Sides -> DeviceStates] /\ tel' \in [Sides -> Telemetries] /\ device'[d] = dev /\ tel'[d] = new
      /\ \A e \in Sides : e # d => device'[e] = device[e] /\ tel'[e] = tel[e]
  BY <1>0, <1>5, <1>6, <1>7 DEF TypeOK
<1>9. TypeOK'
  <2>1. done' \in 0..Period /\ given' \in Nat
    BY <1>0, <1>1, <1>3 DEF StreamInv
  <2> QED BY <1>2, <1>8, <2>1 DEF Write, setup, TypeOK
<1>10. (StreamInv /\ PositionInv /\ PositionsAreTrue)'
  BY <1>1, <1>2, <1>3, <1>5, <1>6, <1>8 DEF Write, StreamInv, PositionInv, PositionsAreTrue, Sides
<1> QED BY <1>2, <1>9, <1>10

LEMMA DrainKeeps == ASSUME AlsaInv, Drain PROVE AlsaInv'
<1> USE DEF AlsaInv
<1> DEFINE d == "out"
<1>0. d \in Sides
  BY DEF Sides
<1>1. /\ (MainAndThreads /\ RtIsKnown)' /\ thread' \in [Sides -> ThreadStates] /\ thread'[d] = "gone"
      /\ \A e \in Sides : e # d => thread'[e] = thread[e]
  <2>1. "gone" \in ThreadStates \ {"none"}
    BY DEF ThreadStates
  <2> QED BY <1>0, <2>1, ThreadStepKeeps DEF Drain
<1>2. device' \in [Sides -> DeviceStates] /\ \A e \in Sides : e # d => device'[e] = device[e]
  <2>1. device' = [device EXCEPT ![d].frames = 0, ![d].state = "prepared"]
    BY DEF Drain
  <2> QED BY <1>0, <2>1, EmptiedIsADevice DEF TypeOK
<1>3. TypeOK'
  BY <1>1, <1>2 DEF Drain, setup, TypeOK
<1>4. (StreamInv /\ PositionInv /\ PositionsAreTrue)'
  BY <1>1, <1>2 DEF Drain, StreamInv, PositionInv, PositionsAreTrue, Sides
<1> QED BY <1>1, <1>3, <1>4

-----------------------------------------------------------------------------
LEMMA NextKeepsAlsa == AlsaInv /\ [Next]_vars => AlsaInv'
<1> SUFFICES ASSUME AlsaInv, [Next]_vars PROVE AlsaInv'
  OBVIOUS
<1>1. CASE SetUp
  BY <1>1, SetUpKeeps
<1>2. CASE StartCapture \/ StartPlayback \/ EndLoop \/ JoinCapture \/ Finish \/ Sigint
  BY <1>2, MainKeeps
<1>8. CASE Uncaught
  BY <1>8, UncaughtKeeps
<1>3. ASSUME NEW d \in Sides, Either(d) PROVE AlsaInv'
  BY <1>3, MakeRealtimeKeeps, TransferFailsKeeps, RecoverKeeps, RecordKeeps DEF Either
<1>4. CASE CaptureTop \/ Read
  BY <1>4, CaptureTopKeeps, ReadKeeps
<1>5. CASE PlaybackTop \/ WriteOn \/ Write \/ Drain
  BY <1>5, PlaybackTopKeeps, WriteKeeps, DrainKeeps
<1>6. CASE \E d \in Sides : Tick(d)
  BY <1>6, TickKeeps
<1>7. CASE UNCHANGED vars
  <2>1. TypeOK'
    BY <1>7 DEF vars, setup, AlsaInv, TypeOK
  <2>2. (MainAndThreads /\ StreamInv /\ PositionInv /\ PositionsAreTrue)'
    BY <1>7 DEF vars, setup, AlsaInv, MainAndThreads, StreamInv, PositionInv, PositionsAreTrue
  <2>3. RtIsKnown'
    BY <1>7 DEF vars, setup, AlsaInv, RtIsKnown
  <2> QED BY <2>1, <2>2, <2>3 DEF AlsaInv
<1> QED BY <1>1, <1>2, <1>3, <1>4, <1>5, <1>6, <1>7, <1>8 DEF Next, Main, CaptureThread, PlaybackThread, Sides

(* The inductive invariant: types, where main and the threads stand, what   *)
(* is known of --rt, the stream and the positions.                          *)
THEOREM AlsaInvariant == Spec => []AlsaInv
BY InitIsAlsa, NextKeepsAlsa, PTL DEF Spec

(* Every variable keeps its type.                                           *)
THEOREM AlsaTypeCorrect == Spec => []TypeOK
<1>1. AlsaInv => TypeOK
  BY DEF AlsaInv
<1> QED BY <1>1, AlsaInvariant, PTL

(* Without a counted recovery the published position is the hardware's.     *)
THEOREM PublishedPositionsAreTrue == Spec => []PositionsAreTrue
<1>1. AlsaInv => PositionsAreTrue
  BY DEF AlsaInv
<1> QED BY <1>1, AlsaInvariant, PTL

(* The playback device is given the pulled stream, in order and whole.      *)
THEOREM DeviceIsGivenTheStream == Spec => []StreamIsWhole
<1>1. AlsaInv => StreamIsWhole
  BY DEF AlsaInv, StreamInv, StreamIsWhole
<1> QED BY <1>1, AlsaInvariant, PTL

(* However the program ends, no thread is without its devices, none is left *)
(* open, and a success had what --rt asked for.                             *)
THEOREM ProgramExitsCleanly == Spec => []ExitIsClean
<1>1. AlsaInv => DevicesOutliveThreads
  <2> SUFFICES ASSUME AlsaInv PROVE DevicesOutliveThreads
    OBVIOUS
  <2>1. ASSUME NEW d \in Sides, thread[d] \notin {"none", "gone"} PROVE Sides \subseteq opened
    BY <2>1, ThreadsNeedMain DEF AlsaInv, MainAndThreads
  <2> QED BY <2>1 DEF AlsaInv, MainAndThreads, DevicesOutliveThreads
<1>2. AlsaInv => RtOrFailure
  <2> SUFFICES ASSUME AlsaInv, main = "exited", code = 0, args.rt, thread["in"] # "none"
               PROVE  granted = Sides
    BY DEF RtOrFailure
  <2>1. thread["in"] = "gone" /\ thread["out"] = "gone"
    BY DEF AlsaInv, MainAndThreads, Sides
  <2>2. \A d \in Sides : d \in granted
    BY <2>1 DEF AlsaInv, RtIsKnown, Sides
  <2> QED BY <2>2 DEF AlsaInv, TypeOK
<1> QED BY <1>1, <1>2, AlsaInvariant, PTL DEF ExitIsClean

-----------------------------------------------------------------------------
(* The two cores.                                                           *)

(* The writer: the fields are of the publication before, or of this one.    *)
WriterInv ==
  /\ wpc = "idle" => unwritten = {} /\ \A f \in Fields : 2 * field[f] = seq
  /\ wpc = "payload" => \A f \in Fields :
       (f \in unwritten => 2 * field[f] = seq - 1) /\ (f \notin unwritten => 2 * field[f] = seq + 1)

(* The reader: it knows of its even mark's publication, and a field it has  *)
(* loaded is of that one or shows in `fenced' that it is later.  What it    *)
(* returned last is one publication, not after the mark.                    *)
ReaderInv ==
  /\ \A f, e \in Fields : got[f] = got[e]
  /\ \A f \in Fields : 2 * got[f] <= seqFloor
  /\ rpc = "payload" =>
       /\ q0 % 2 = 0 /\ q0 <= seqFloor
       /\ \A f \in Fields : q0 <= 2 * fieldFloor[f] /\ 2 * got[f] <= q0
       /\ \A f \in Fields \ unread :
            q0 <= 2 * copy[f] /\ 2 * copy[f] - 1 <= fenced /\ copy[f] <= fieldFloor[f]

LockInv == LockTypeOK /\ WriterInv /\ ReaderInv

(* The hand-over: who may run when, and what the flags and the pointer say. *)
Cores ==
  /\ c0 \in {"launch", "setup"} => alive = 0
  /\ c0 \notin {"launch", "setup"} => alive = phase /\ phase # 0
  /\ asrc = IF c0 \in {"run", "waitDone", "final"} THEN phase ELSE 0
  /\ c0 \in {"handOver", "run", "waitDone", "final"} => params = phase
  /\ c0 \in {"handOver", "run"} => ~stop /\ ~consumerDone
  /\ c1 \in {"zero", "loop", "pull", "digest"} => c0 \in {"run", "waitDone"} /\ pace = phase
  /\ c1 \in {"final", "done"} => c0 = "waitDone"
  /\ c1 \in {"zero", "loop", "pull", "digest", "final", "done"} => held = phase /\ ~consumerDone
  /\ c0 = "waitDone" /\ consumerDone => c1 = "waitNull" /\ held = phase
  /\ c0 = "final" => c1 = "waitNull" /\ held = phase
  /\ wpc = "payload" => Publishing
  /\ rpc # "idle" => c0 \in {"run", "final"}

(* In the final read core0 knows of all that core1 has stored.              *)
FinalRead ==
  c0 = "final" =>
    /\ wpc = "idle" /\ seqFloor = seq
    /\ rpc = "payload" => q0 = seq
    /\ rpc = "idle" => \A f \in Fields : 2 * got[f] = seq

DualInv == DualTypeOK /\ LockInv /\ Cores /\ FinalRead

-----------------------------------------------------------------------------
(* The sequence lock.                                                       *)
LEMMA LockStarts == LockInit => LockInv
<1> SUFFICES ASSUME LockInit PROVE LockInv
  OBVIOUS
<1>1. [f \in Fields |-> 0] \in [Fields -> Nat]
  OBVIOUS
<1>2. LockTypeOK
  BY <1>1 DEF LockInit, LockTypeOK
<1>3. WriterInv /\ ReaderInv
  BY DEF LockInit, WriterInv, ReaderInv
<1> QED BY <1>2, <1>3 DEF LockInv

LEMMA WriterKeeps ==
  ASSUME LockInv, MarkOdd \/ StoreField \/ MarkEven, UNCHANGED reader
  PROVE  LockInv'
<1> USE DEF LockInv
<1>1. CASE MarkOdd
  <2>1. seq' = seq + 1 /\ field' = field /\ unwritten' = Fields /\ wpc = "idle" /\ wpc' = "payload"
    BY <1>1 DEF MarkOdd
  <2>2. LockTypeOK'
    BY <2>1 DEF LockTypeOK, reader
  <2>3. WriterInv'
    BY <2>1 DEF WriterInv, LockTypeOK
  <2>4. ReaderInv'
    BY <2>1 DEF ReaderInv, reader
  <2> QED BY <2>2, <2>3, <2>4
<1>2. CASE StoreField
  <2>1. PICK f \in unwritten : field' = [field EXCEPT ![f] = (seq + 1) \div 2] /\ unwritten' = unwritten \ {f}
    BY <1>2 DEF StoreField
  <2>2. f \in Fields /\ wpc = "payload" /\ seq \in Nat /\ seq' = seq /\ wpc' = wpc
    BY <1>2, <2>1 DEF StoreField, WriterInv, LockTypeOK
  <2>3. 2 * field[f] = seq - 1 /\ field[f] \in Nat
    BY <2>1, <2>2 DEF WriterInv, LockTypeOK
  <2>4. (seq + 1) \div 2 = field[f] + 1
    BY <2>2, <2>3
  <2>5. field' \in [Fields -> Nat] /\ field'[f] = field[f] + 1 /\ \A e \in Fields : e # f => field'[e] = field[e]
    BY <2>1, <2>2, <2>3, <2>4 DEF LockTypeOK
  <2>6. LockTypeOK'
    <3>1. \A e \in Fields : fieldFloor[e] <= field'[e]
      BY <2>3, <2>5 DEF LockTypeOK
    <3> QED BY <2>1, <2>2, <2>5, <3>1 DEF LockTypeOK, reader
  <2>7. WriterInv'
    BY <2>1, <2>2, <2>3, <2>5 DEF WriterInv
  <2>8. ReaderInv'
    BY <2>2 DEF ReaderInv, reader
  <2> QED BY <2>6, <2>7, <2>8
<1>3. CASE MarkEven
  <2>1. seq' = seq + 1 /\ field' = field /\ unwritten' = {} /\ unwritten = {} /\ wpc = "payload" /\ wpc' = "idle"
    BY <1>3 DEF MarkEven
  <2>2. LockTypeOK'
    BY <2>1 DEF LockTypeOK, reader
  <2>3. WriterInv'
    BY <2>1 DEF WriterInv, LockTypeOK
  <2>4. ReaderInv'
    BY <2>1 DEF ReaderInv, reader
  <2> QED BY <2>2, <2>3, <2>4
<1> QED BY <1>1, <1>2, <1>3

LEMMA LaterIsMax ==
  ASSUME NEW a \in Int, NEW b \in Int
  PROVE  Later(a, b) \in Int /\ Later(a, b) >= a /\ Later(a, b) >= b /\ Later(a, b) \in {a, b}
BY DEF Later

LEMMA LoadSeqKeeps ==
  ASSUME LockInv, LoadSeq, UNCHANGED writer
  PROVE  LockInv'
<1> USE DEF LockInv
<1>1. PICK q \in seqFloor..seq :
        /\ seqFloor' = q
        /\ IF q % 2 = 1 THEN UNCHANGED <<rpc, q0, unread, fieldFloor, fenced>>
           ELSE /\ q0' = q
                /\ fieldFloor' = [f \in Fields |-> Later(fieldFloor[f], q \div 2)]
                /\ rpc' = "payload" /\ unread' = Fields /\ fenced' = 0
  BY DEF LoadSeq
<1>2. rpc = "seq" /\ copy' = copy /\ got' = got /\ UNCHANGED <<seq, field, wpc, unwritten>>
  BY DEF LoadSeq, writer
<1>3. q \in Nat /\ q <= seq /\ seq \in Nat /\ seqFloor \in Nat /\ seqFloor <= q
  BY <1>1 DEF LockTypeOK
<1>4. WriterInv'
  BY <1>2 DEF WriterInv
<1>5. CASE q % 2 = 1
  BY <1>1, <1>2, <1>3, <1>4, <1>5 DEF LockTypeOK, ReaderInv
<1>6. CASE q % 2 # 1
  <2> DEFINE h == q \div 2
  <2>1. h \in Nat /\ q = 2 * h /\ q % 2 = 0
    BY <1>3, <1>6
  <2> HIDE DEF h
  <2>2. /\ q0' = q /\ rpc' = "payload" /\ unread' = Fields /\ fenced' = 0
        /\ fieldFloor' = [f \in Fields |-> Later(fieldFloor[f], h)]
    BY <1>1, <1>6 DEF h
  <2>3. \A f \in Fields : field[f] \in Nat /\ fieldFloor[f] \in Nat /\ fieldFloor[f] <= field[f]
                          /\ 2 * field[f] >= seq - 1
    BY <1>3 DEF LockTypeOK, WriterInv
  <2>4. \A f \in Fields : /\ fieldFloor'[f] \in Nat /\ h <= fieldFloor'[f] /\ fieldFloor'[f] <= field[f]
    BY <1>3, <2>1, <2>2, <2>3 DEF Later
  <2>5. fieldFloor' \in [Fields -> Nat]
    BY <2>2, <2>4
  <2>6. LockTypeOK'
    BY <1>1, <1>2, <1>3, <2>2, <2>4, <2>5 DEF LockTypeOK
  <2>7. \A f \in Fields : got[f] \in Nat /\ 2 * got[f] <= q
    BY <1>3 DEF LockTypeOK, ReaderInv
  <2>8. ReaderInv'
    BY <1>1, <1>2, <1>3, <2>1, <2>2, <2>4, <2>7 DEF ReaderInv
  <2> QED BY <1>4, <2>6, <2>8
<1> QED BY <1>5, <1>6

LEMMA LoadFieldKeeps ==
  ASSUME LockInv, LoadField, UNCHANGED writer
  PROVE  LockInv'
<1> USE DEF LockInv
<1>0. PICK f \in unread : \E v \in fieldFloor[f]..field[f] :
        /\ copy' = [copy EXCEPT ![f] = v]
        /\ fieldFloor' = [fieldFloor EXCEPT ![f] = v]
        /\ fenced' = Later(fenced, 2 * v - 1)
        /\ unread' = unread \ {f}
  BY DEF LoadField
<1>1. PICK v \in fieldFloor[f]..field[f] :
        /\ copy' = [copy EXCEPT ![f] = v]
        /\ fieldFloor' = [fieldFloor EXCEPT ![f] = v]
        /\ fenced' = Later(fenced, 2 * v - 1)
        /\ unread' = unread \ {f}
  BY <1>0
<1>2. rpc = "payload" /\ UNCHANGED <<rpc, q0, seqFloor, got>> /\ UNCHANGED <<seq, field, wpc, unwritten>>
  BY DEF LoadField, writer
<1>3. f \in Fields /\ v \in Nat /\ fieldFloor[f] <= v /\ v <= field[f] /\ fenced \in Int /\ q0 \in Nat /\ seq \in Nat
      /\ fenced <= seq /\ -1 <= fenced /\ field[f] \in Nat /\ fieldFloor[f] \in Nat
  BY <1>1 DEF LockTypeOK
<1>4. 2 * v - 1 <= seq /\ q0 <= 2 * v
  BY <1>2, <1>3 DEF WriterInv, ReaderInv, LockTypeOK
<1>5. fenced' \in Int /\ fenced <= fenced' /\ 2 * v - 1 <= fenced' /\ fenced' <= seq /\ -1 <= fenced'
  BY <1>1, <1>3, <1>4 DEF Later
<1>6. /\ copy' \in [Fields -> Nat] /\ copy'[f] = v /\ \A e \in Fields : e # f => copy'[e] = copy[e]
      /\ fieldFloor' \in [Fields -> Nat] /\ fieldFloor'[f] = v /\ \A e \in Fields : e # f => fieldFloor'[e] = fieldFloor[e]
  BY <1>1, <1>3 DEF LockTypeOK
<1>7. WriterInv'
  BY <1>2 DEF WriterInv
<1>8. LockTypeOK'
  BY <1>1, <1>2, <1>3, <1>5, <1>6 DEF LockTypeOK
<1>9. ReaderInv'
  <2>1. \A e \in Fields : q0 <= 2 * fieldFloor'[e]
    BY <1>2, <1>3, <1>4, <1>6 DEF ReaderInv
  <2>2. \A e \in Fields \ unread' : q0 <= 2 * copy'[e] /\ 2 * copy'[e] - 1 <= fenced' /\ copy'[e] <= fieldFloor'[e]
    <3> SUFFICES ASSUME NEW e \in Fields \ unread'
                 PROVE  q0 <= 2 * copy'[e] /\ 2 * copy'[e] - 1 <= fenced' /\ copy'[e] <= fieldFloor'[e]
      OBVIOUS
    <3>1. CASE e = f
      BY <1>3, <1>4, <1>5, <1>6, <3>1
    <3>2. CASE e # f
      <4>1. e \in Fields \ unread /\ copy[e] \in Nat
        BY <1>1, <3>2 DEF LockTypeOK
      <4>2. q0 <= 2 * copy[e] /\ 2 * copy[e] - 1 <= fenced /\ copy[e] <= fieldFloor[e]
        BY <1>2, <4>1 DEF ReaderInv
      <4> QED BY <1>3, <1>5, <1>6, <3>2, <4>1, <4>2
    <3> QED BY <3>1, <3>2
  <2> QED BY <1>2, <2>1, <2>2 DEF ReaderInv
<1> QED BY <1>7, <1>8, <1>9

(* The heart of the lock: a second load of seq that returns the first's     *)
(* mark rules out a field of a later publication, whatever was reordered.   *)
LEMMA EqualMarksMeanOnePublication ==
  ASSUME LockInv, rpc = "payload", unread = {}, NEW q \in Later(seqFloor, fenced)..seq, q = q0
  PROVE  \A f \in Fields : 2 * copy[f] = q0
<1>1. seqFloor \in Nat /\ fenced \in Int /\ q0 \in Nat /\ q0 % 2 = 0
  BY DEF LockInv, LockTypeOK, ReaderInv
<1>2. fenced <= q0
  <2>1. Later(seqFloor, fenced) >= fenced /\ Later(seqFloor, fenced) \in Int
    BY <1>1, LaterIsMax
  <2> QED BY <1>1, <2>1 DEF LockInv, LockTypeOK
<1>3. ASSUME NEW f \in Fields PROVE 2 * copy[f] = q0
  <2>1. copy[f] \in Nat /\ q0 <= 2 * copy[f] /\ 2 * copy[f] - 1 <= fenced
    BY DEF LockInv, LockTypeOK, ReaderInv
  <2> QED BY <1>1, <1>2, <2>1
<1> QED BY <1>3

LEMMA CheckSeqKeeps ==
  ASSUME LockInv, CheckSeq, UNCHANGED writer
  PROVE  /\ LockInv'
         /\ got' # got => \A f \in Fields : got'[f] = q0 \div 2 /\ got'[f] > got[f]
<1> USE DEF LockInv
<1>1. PICK q \in Later(seqFloor, fenced)..seq :
        seqFloor' = q /\ IF q = q0 THEN rpc' = "idle" /\ got' = copy ELSE rpc' = "seq" /\ UNCHANGED got
  BY DEF CheckSeq
<1>2. rpc = "payload" /\ unread = {} /\ UNCHANGED <<q0, copy, unread, fieldFloor, fenced>>
      /\ UNCHANGED <<seq, field, wpc, unwritten>>
  BY DEF CheckSeq, writer
<1>3. seqFloor \in Nat /\ seq \in Nat /\ q \in Nat /\ q <= seq /\ seqFloor <= q /\ q0 \in Nat /\ q0 % 2 = 0
  <2>1. seqFloor \in Nat /\ seq \in Nat /\ fenced \in Int /\ q0 \in Nat /\ q0 % 2 = 0
    BY <1>2 DEF LockTypeOK, ReaderInv
  <2>2. Later(seqFloor, fenced) \in Int /\ Later(seqFloor, fenced) >= seqFloor
    BY <2>1, LaterIsMax
  <2> QED BY <1>1, <2>1, <2>2
<1>4. WriterInv'
  BY <1>2 DEF WriterInv
<1>5. CASE q = q0
  <2>1. \A f \in Fields : 2 * copy[f] = q0 /\ copy[f] \in Nat /\ got[f] \in Nat /\ 2 * got[f] <= q0
    BY <1>1, <1>2, <1>5, EqualMarksMeanOnePublication DEF LockTypeOK, ReaderInv
  <2>2. rpc' = "idle" /\ got' = copy
    BY <1>1, <1>5
  <2>3. LockTypeOK'
    BY <1>1, <1>2, <1>3, <2>2 DEF LockTypeOK
  <2>4. ReaderInv'
    BY <1>1, <1>3, <1>5, <2>1, <2>2 DEF ReaderInv
  <2>5. ASSUME got' # got PROVE \A f \in Fields : got'[f] = q0 \div 2 /\ got'[f] > got[f]
    <3>1. PICK e \in Fields : copy[e] # got[e]
      BY <2>2, <2>5 DEF LockTypeOK
    <3>2. copy[e] > got[e]
      BY <1>3, <2>1, <3>1
    <3>3. ASSUME NEW f \in Fields PROVE copy[f] = q0 \div 2 /\ copy[f] > got[f]
      <4>1. copy[f] = copy[e] /\ got[f] = got[e]
        BY <2>1 DEF ReaderInv
      <4>2. copy[f] = q0 \div 2
        BY <1>3, <2>1
      <4> QED BY <3>2, <4>1, <4>2
    <3> QED BY <2>2, <3>3
  <2> QED BY <1>4, <2>3, <2>4, <2>5
<1>6. CASE q # q0
  <2>1. rpc' = "seq" /\ got' = got
    BY <1>1, <1>6
  <2>2. LockTypeOK'
    BY <1>1, <1>2, <1>3, <2>1 DEF LockTypeOK
  <2>3. ReaderInv'
    <3>1. \A f \in Fields : got[f] \in Nat
      BY DEF LockTypeOK
    <3> QED BY <1>1, <1>3, <2>1, <3>1 DEF ReaderInv
  <2> QED BY <1>4, <2>1, <2>2, <2>3
<1> QED BY <1>5, <1>6

(* A read that starts, with or without an acquire elsewhere.                *)
LEMMA StartKeeps ==
  ASSUME LockInv, UNCHANGED writer, UNCHANGED <<q0, copy, unread, fenced, got>>, rpc' = "seq",
         CatchUp \/ UNCHANGED <<seqFloor, fieldFloor>>
  PROVE  LockInv'
<1>1. /\ seqFloor' \in 0..seq /\ fieldFloor' \in [Fields -> Nat] /\ seqFloor <= seqFloor'
      /\ \A f \in Fields : fieldFloor'[f] <= field[f]
  BY DEF LockInv, LockTypeOK, CatchUp
<1>2. LockTypeOK'
  BY <1>1 DEF LockInv, LockTypeOK, writer
<1>3. WriterInv'
  BY DEF LockInv, WriterInv, writer
<1>4. ReaderInv'
  <2>1. \A f \in Fields : got[f] \in Nat
    BY DEF LockInv, LockTypeOK
  <2> QED BY <1>1, <2>1 DEF LockInv, LockTypeOK, ReaderInv
<1> QED BY <1>2, <1>3, <1>4 DEF LockInv

-----------------------------------------------------------------------------
(* The two cores.                                                           *)
LEMMA DualStarts == DualInit => DualInv
<1> SUFFICES ASSUME DualInit PROVE DualInv
  OBVIOUS
<1>1. LockInv
  BY LockStarts DEF DualInit
<1>2. DualTypeOK
  <2>1. stop \in BOOLEAN /\ consumerDone \in BOOLEAN
    BY DEF DualInit
  <2>2. LockTypeOK
    BY <1>1 DEF LockInv
  <2> QED BY <2>1, <2>2, DualCoreAssumption DEF DualInit, DualTypeOK
<1>3. Cores /\ FinalRead
  BY DEF DualInit, LockInit, Cores, FinalRead, Publishing
<1> QED BY <1>1, <1>2, <1>3 DEF DualInv

LEMMA NextKeepsLock ==
  ASSUME DualInv, [DualNext]_dualVars
  PROVE  /\ LockInv'
         /\ got' # got => \A f \in Fields : got'[f] = q0 \div 2 /\ got'[f] > got[f]
<1>1. LockInv
  BY DEF DualInv
<1>2. CASE UNCHANGED <<writer, reader>>
  <2>1. LockInv' = LockInv
    BY <1>2 DEF LockInv, LockTypeOK, WriterInv, ReaderInv, writer, reader
  <2>2. got' = got
    BY <1>2 DEF reader
  <2> QED BY <1>1, <2>1, <2>2
<1>3. CASE Publish \/ Published
  <2>1. (MarkOdd \/ StoreField \/ MarkEven) /\ UNCHANGED reader
    BY <1>3 DEF Publish, Published
  <2>2. got' = got
    BY <2>1 DEF reader
  <2> QED BY <1>1, <2>1, <2>2, WriterKeeps
<1>4. CASE Telemetry
  <2>1. UNCHANGED writer /\ UNCHANGED <<q0, copy, unread, fenced, got>> /\ rpc' = "seq" /\ UNCHANGED <<seqFloor, fieldFloor>>
    BY <1>4 DEF Telemetry, StartRead
  <2>2. LockInv'
    BY <1>1, <2>1, StartKeeps
  <2> QED BY <2>1, <2>2
<1>5. CASE ConsumerIsDone
  <2>1. UNCHANGED writer /\ UNCHANGED <<q0, copy, unread, fenced, got>> /\ rpc' = "seq" /\ CatchUp
    BY <1>5 DEF ConsumerIsDone
  <2>2. LockInv'
    BY <1>1, <2>1, StartKeeps
  <2> QED BY <2>1, <2>2
<1>6. CASE Reading
  <2>1. UNCHANGED writer
    BY <1>6 DEF Reading
  <2>2. CASE LoadSeq
    BY <1>1, <2>1, <2>2, LoadSeqKeeps DEF LoadSeq
  <2>3. CASE LoadField
    BY <1>1, <2>1, <2>3, LoadFieldKeeps DEF LoadField
  <2>4. CASE CheckSeq
    BY <1>1, <2>1, <2>4, CheckSeqKeeps
  <2> QED BY <1>6, <2>2, <2>3, <2>4 DEF Reading, ReadStep
<1>7. CASE ~(Publish \/ Published \/ Telemetry \/ ConsumerIsDone \/ Reading)
  <2>1. UNCHANGED <<writer, reader>>
    BY <1>7 DEF DualNext, Core0, Core1, Sleep, dualVars, Launched, Skip, Construct, Announce, HandOver, EndOfRun,
                ClearPointer, Destroy, Enable, Take, Stopped, StartPull, EndPull, SetDone, LetGo
  <2> QED BY <1>2, <2>1
<1> QED BY <1>3, <1>4, <1>5, <1>6, <1>7

LEMMA NextKeepsTypes ==
  ASSUME DualInv, [DualNext]_dualVars
  PROVE  DualTypeOK'
<1>1. LockTypeOK'
  BY NextKeepsLock DEF LockInv
<1> USE <1>1, DualCoreAssumption DEF DualInv, DualTypeOK
<1>2. stop' \in BOOLEAN /\ consumerDone' \in BOOLEAN
  BY Zenon DEF DualNext, Core0, Core1, Sleep, dualVars, shared, Launched, Skip, Construct, Announce, HandOver, Telemetry,
       Reading, EndOfRun, ConsumerIsDone, ClearPointer, Destroy, Enable, Take, Publish, Published, Stopped,
       StartPull, EndPull, SetDone, LetGo
<1>3. CASE Launched \/ Skip \/ Construct
  BY <1>2, <1>3 DEF Launched, Skip, Construct, shared, core1
<1>4. CASE Announce \/ HandOver
  BY <1>2, <1>4 DEF Announce, HandOver, core1
<1>5. CASE Telemetry
  BY <1>2, <1>5 DEF Telemetry, shared, core1
<1>6. CASE Reading \/ EndOfRun
  BY <1>2, <1>6 DEF Reading, EndOfRun, shared, core0, core1
<1>7. CASE ConsumerIsDone \/ ClearPointer \/ Destroy
  BY <1>7 DEF ConsumerIsDone, ClearPointer, Destroy, shared, core0, core1
<1>8. CASE Enable \/ Take \/ Publish \/ Published
  BY <1>8 DEF Enable, Take, Publish, Published, shared, core0, core1
<1>9. CASE Stopped \/ StartPull \/ EndPull
  BY <1>2, <1>9 DEF Stopped, StartPull, EndPull, shared, core0
<1>10. CASE SetDone \/ LetGo
  BY <1>2, <1>10 DEF SetDone, LetGo, shared, core0
<1>11. CASE UNCHANGED dualVars
  BY <1>11 DEF dualVars, shared, core0, core1
<1> QED BY <1>3, <1>4, <1>5, <1>6, <1>7, <1>8, <1>9, <1>10, <1>11 DEF DualNext, Core0, Core1, Sleep

LEMMA NextKeepsCores ==
  ASSUME DualInv, [DualNext]_dualVars
  PROVE  Cores'
<1> USE DualCoreAssumption DEF DualInv, Cores, Publishing
<1>1. phase \in 0..Phases
  BY DEF DualTypeOK
<1>2. CASE Launched \/ Skip \/ Construct
  BY <1>1, <1>2 DEF Launched, Skip, Construct, writer, reader, shared, core1
<1>3. CASE Announce \/ HandOver
  BY <1>1, <1>3 DEF Announce, HandOver, writer, reader, core1
<1>4. CASE Telemetry \/ EndOfRun
  BY <1>4 DEF Telemetry, EndOfRun, StartRead, writer, reader, shared, core1
<1>5. CASE Reading
  <2>1. UNCHANGED <<writer, shared, core0, core1>> /\ rpc # "idle"
    BY <1>5 DEF Reading, ReadStep, LoadSeq, LoadField, CheckSeq
  <2> QED BY <2>1 DEF writer, shared, core0, core1
<1>6. CASE ConsumerIsDone
  BY <1>6 DEF ConsumerIsDone, writer, shared, core1
<1>7. CASE ClearPointer \/ Destroy
  BY <1>7 DEF ClearPointer, Destroy, writer, reader, shared, core1
<1>8. CASE Enable \/ Take
  BY <1>8 DEF Enable, Take, writer, reader, shared, core0
<1>9. CASE Publish \/ Published
  BY <1>9 DEF Publish, Published, MarkOdd, StoreField, MarkEven, reader, shared, core0, core1
<1>10. CASE Stopped \/ StartPull \/ EndPull
  BY <1>10 DEF Stopped, StartPull, EndPull, writer, reader, shared, core0
<1>11. CASE SetDone \/ LetGo
  BY <1>11 DEF SetDone, LetGo, writer, reader, shared, core0
<1>12. CASE UNCHANGED dualVars
  BY <1>12 DEF dualVars, writer, reader, shared, core0, core1
<1> QED BY <1>2, <1>3, <1>4, <1>5, <1>6, <1>7, <1>8, <1>9, <1>10, <1>11, <1>12 DEF DualNext, Core0, Core1, Sleep

LEMMA NextKeepsFinalRead ==
  ASSUME DualInv, [DualNext]_dualVars
  PROVE  FinalRead'
<1>1. LockInv /\ Cores /\ FinalRead
  BY DEF DualInv
<1>2. CASE ConsumerIsDone
  <2>1. c0 = "waitDone" /\ consumerDone /\ rpc' = "seq" /\ seqFloor' = seq /\ UNCHANGED writer
    BY <1>2 DEF ConsumerIsDone, CatchUp
  <2>2. wpc = "idle"
    BY <1>1, <2>1 DEF Cores, Publishing, LockInv, LockTypeOK
  <2> QED BY <2>1, <2>2 DEF FinalRead, writer
<1>3. CASE Reading
  <2> SUFFICES ASSUME c0 = "final" PROVE FinalRead'
    BY <1>3 DEF Reading, core0, FinalRead
  <2>1. wpc' = "idle" /\ seq' = seq /\ seqFloor = seq /\ seq \in Nat /\ (rpc = "payload" => q0 = seq)
    BY <1>1, <1>3 DEF Reading, writer, FinalRead, LockInv, LockTypeOK
  <2>2. CASE LoadSeq
    <3>1. seqFloor' = seq /\ rpc' # "idle" /\ (rpc' = "payload" => q0' = seq)
      BY <2>1, <2>2 DEF LoadSeq
    <3> QED BY <2>1, <3>1 DEF FinalRead
  <2>3. CASE LoadField
    BY <2>1, <2>3 DEF LoadField, FinalRead
  <2>4. CASE CheckSeq
    <3>1. rpc = "payload" /\ unread = {} /\ q0 = seq
      BY <2>1, <2>4 DEF CheckSeq
    <3>2. PICK q \in Later(seqFloor, fenced)..seq :
            seqFloor' = q /\ IF q = q0 THEN rpc' = "idle" /\ got' = copy ELSE rpc' = "seq" /\ UNCHANGED got
      BY <2>4 DEF CheckSeq
    <3>3. fenced \in Int
      BY <1>1 DEF LockInv, LockTypeOK
    <3>4. Later(seqFloor, fenced) \in Int /\ Later(seqFloor, fenced) >= seq
      BY <2>1, <3>3, LaterIsMax
    <3>5. q = q0
      BY <2>1, <3>1, <3>2, <3>4
    <3>6. rpc' = "idle" /\ got' = copy /\ seqFloor' = seq
      BY <3>1, <3>2, <3>5
    <3>7. \A f \in Fields : 2 * copy[f] = seq
      BY <1>1, <3>1, <3>5, EqualMarksMeanOnePublication
    <3> QED BY <2>1, <3>6, <3>7 DEF FinalRead
  <2> QED BY <1>3, <2>2, <2>3, <2>4 DEF Reading, ReadStep
<1>4. CASE ~(ConsumerIsDone \/ Reading)
  <2> SUFFICES ASSUME c0' = "final" PROVE FinalRead'
    BY DEF FinalRead
  <2>1. c0 = "final"
    BY <1>4 DEF DualNext, Core0, Core1, Sleep, dualVars, core0, Launched, Skip, Construct, Announce, HandOver, Telemetry,
                EndOfRun, ClearPointer, Destroy, Enable, Take, Publish, Published, Stopped, StartPull, EndPull, SetDone, LetGo
  <2>2. c1 = "waitNull"
    BY <1>1, <2>1 DEF Cores
  <2>3. UNCHANGED <<writer, reader>>
    BY <1>4, <2>1, <2>2 DEF DualNext, Core0, Core1, Sleep, dualVars, Launched, Skip, Construct, Announce, HandOver, Telemetry,
                EndOfRun, ClearPointer, Destroy, Enable, Take, Publish, Published, Publishing, Stopped, StartPull,
                EndPull, SetDone, LetGo
  <2> QED BY <1>1, <2>1, <2>3 DEF FinalRead, writer, reader
<1> QED BY <1>2, <1>3, <1>4

LEMMA NextKeepsDual == DualInv /\ [DualNext]_dualVars => DualInv'
BY NextKeepsLock, NextKeepsTypes, NextKeepsCores, NextKeepsFinalRead DEF DualInv

-----------------------------------------------------------------------------
(* The invariant of the two cores and the lock between them.                *)
THEOREM DualInvariant == DualSpec => []DualInv
BY DualStarts, NextKeepsDual, PTL DEF DualSpec

(* Type correctness of core0, core1 and the sequence lock.                  *)
THEOREM DualTypeCorrect == DualSpec => []DualTypeOK
<1>1. DualInv => DualTypeOK
  BY DEF DualInv
<1> QED BY <1>1, DualInvariant, PTL

(* core1 never pulls from a converter that core0 has destroyed, nor at the  *)
(* pace of another phase, however long the summary line takes to print.     *)
THEOREM CorePullsFromTheLiving == DualSpec => []ConverterOutlivesPulls
<1>1. DualInv => ConverterOutlivesPulls
  BY DEF DualInv, Cores, ConverterOutlivesPulls
<1> QED BY <1>1, DualInvariant, PTL

(* The summary line of a phase prints core1's last statistics of it.        *)
THEOREM SummaryIsLast == DualSpec => []FinalIsLast
<1>1. DualInv => FinalIsLast
  <2> SUFFICES ASSUME DualInv, c0 = "final", rpc = "idle"
               PROVE  c1 = "waitNull" /\ held = phase /\ \A f \in Fields : got[f] = seq \div 2
    BY DEF FinalIsLast
  <2>1. \A f \in Fields : 2 * got[f] = seq /\ got[f] \in Nat
    BY DEF DualInv, FinalRead, LockInv, LockTypeOK
  <2> QED BY <2>1 DEF DualInv, Cores
<1> QED BY <1>1, DualInvariant, PTL

(* A snapshot that readSnapshot() returns is one whole publication and      *)
(* later than the one before, whatever stores and loads were reordered.     *)
THEOREM SnapshotsAreOneInstant == DualSpec => OneInstant
<1> DEFINE Whole == got' # got => \A f \in Fields : got'[f] = q0 \div 2 /\ got'[f] > got[f]
<1>1. DualInv /\ [DualNext]_dualVars => [Whole]_<<writer, reader>>
  BY NextKeepsLock
<1> HIDE DEF Whole
<1>2. DualSpec => [][Whole]_<<writer, reader>>
  BY <1>1, DualInvariant, PTL DEF DualSpec
<1> QED BY <1>2 DEF OneInstant, Whole

-----------------------------------------------------------------------------
(* The USB device.                                                          *)

FifoRanges == [on : BOOLEAN, started : BOOLEAN, owed : Nat, missed : Nat, lo : 0..Fifo, hi : 0..Fifo]
StatusLines == [lo : 0..Fifo, hi : 0..Fifo, of : SUBSET (0..Fifo)]

DeviceTypes ==
  /\ level \in 0..Fifo /\ played \in 0..Fifo
  /\ out \in FifoRanges
  /\ levels \in SUBSET (0..Fifo) /\ lines \in Seq(StatusLines)

(* What was played since the stream was primed, and what waits, are half a  *)
(* FIFO together: draining takes from the one what it adds to the other.    *)
HalfIsKept == out.started => played + level >= Prime

(* The range under way is that of the levels seen, and empty before any;    *)
(* so is that of each line that waits.                                      *)
Spans(s, lo, hi) == lo \in s /\ hi \in s /\ \A l \in s : lo <= l /\ l <= hi

RangeOfLevels ==
  \/ levels = {} /\ out.lo = Fifo /\ out.hi = 0
  \/ Spans(levels, out.lo, out.hi)

TrueLine(line) == line.of # {} => Spans(line.of, line.lo, line.hi)

LinesAreTrue == \A k \in 1..Len(lines) : TrueLine(lines[k])

DeviceInv == DeviceTypes /\ HalfIsKept /\ RangeOfLevels /\ LinesAreTrue

LEMMA DeviceSizes ==
  /\ Fifo \in Nat \ {0} /\ Chunk \in Nat \ {0} /\ Lines \in Nat \ {0}
  /\ Prime \in Nat /\ Prime <= Fifo
BY DeviceAssumption DEF Prime

LEMMA LesserOfTwo ==
  ASSUME NEW a \in Int, NEW b \in Int
  PROVE  Min({a, b}) = IF a <= b THEN a ELSE b
<1> DEFINE m == IF a <= b THEN a ELSE b
<1>1. m \in {a, b} /\ \A y \in {a, b} : m <= y
  OBVIOUS
<1>2. \A x \in {a, b} : (\A y \in {a, b} : x <= y) => x = m
  OBVIOUS
<1> QED BY <1>1, <1>2 DEF Min

LEMMA GreaterOfTwo ==
  ASSUME NEW a \in Int, NEW b \in Int
  PROVE  Max({a, b}) = IF a >= b THEN a ELSE b
<1> DEFINE m == IF a >= b THEN a ELSE b
<1>1. m \in {a, b} /\ \A y \in {a, b} : m >= y
  OBVIOUS
<1>2. \A x \in {a, b} : (\A y \in {a, b} : x >= y) => x = m
  OBVIOUS
<1> QED BY <1>1, <1>2 DEF Max

(* A span has its ends where Min and Max find them.                         *)
LEMMA SpanIsMinMax ==
  ASSUME NEW s \in SUBSET Int, NEW lo, NEW hi, Spans(s, lo, hi)
  PROVE  lo = Min(s) /\ hi = Max(s)
<1>1. lo \in s /\ hi \in s /\ \A l \in s : lo <= l /\ hi >= l
  BY DEF Spans
<1>2. \A x \in s : (\A y \in s : x <= y) => x = lo
  BY <1>1
<1>3. \A x \in s : (\A y \in s : x >= y) => x = hi
  BY <1>1
<1> QED BY <1>1, <1>2, <1>3 DEF Min, Max

LEMMA DeviceStarts == DeviceInit => DeviceInv
<1> SUFFICES ASSUME DeviceInit PROVE DeviceInv
  OBVIOUS
<1>1. /\ out = [on |-> FALSE, started |-> FALSE, owed |-> 0, missed |-> 0, lo |-> Fifo, hi |-> 0]
      /\ level = 0 /\ played = 0 /\ lines = <<>> /\ levels = {}
  BY DEF DeviceInit
<1> QED BY <1>1, DeviceSizes
        DEF DeviceInv, DeviceTypes, FifoRanges, HalfIsKept, RangeOfLevels, LinesAreTrue

(* Seeing the FIFO's level extends the range by it and the levels alike.    *)
LEMMA SeenSpans ==
  ASSUME DeviceInv
  PROVE  /\ Seen(out) = [out EXCEPT !.lo = Seen(out).lo, !.hi = Seen(out).hi]
         /\ Seen(out).lo \in 0..Fifo /\ Seen(out).hi \in 0..Fifo
         /\ Spans(levels \cup {level}, Seen(out).lo, Seen(out).hi)
<1>0. /\ level \in 0..Fifo /\ out \in FifoRanges /\ levels \in SUBSET (0..Fifo) /\ Fifo \in Nat
      /\ RangeOfLevels
  BY DeviceSizes DEF DeviceInv, DeviceTypes
<1>1. out.lo \in 0..Fifo /\ out.hi \in 0..Fifo
  BY <1>0 DEF FifoRanges
<1>2. /\ Seen(out) = [out EXCEPT !.lo = Min({out.lo, level}), !.hi = Max({out.hi, level})]
      /\ Min({out.lo, level}) = IF out.lo <= level THEN out.lo ELSE level
      /\ Max({out.hi, level}) = IF out.hi >= level THEN out.hi ELSE level
  BY <1>0, <1>1, LesserOfTwo, GreaterOfTwo DEF Seen
<1> DEFINE lo == IF out.lo <= level THEN out.lo ELSE level
           hi == IF out.hi >= level THEN out.hi ELSE level
<1>3. Seen(out).lo = lo /\ Seen(out).hi = hi
  BY <1>0, <1>2 DEF FifoRanges
<1>4. lo \in 0..Fifo /\ hi \in 0..Fifo
  BY <1>0, <1>1
<1>5. Spans(levels \cup {level}, lo, hi)
  <2>1. CASE levels = {} /\ out.lo = Fifo /\ out.hi = 0
    BY <1>0, <2>1 DEF Spans
  <2>2. CASE Spans(levels, out.lo, out.hi)
    BY <1>0, <1>1, <2>2 DEF Spans
  <2> QED BY <1>0, <2>1, <2>2 DEF RangeOfLevels
<1> HIDE DEF lo, hi
<1> QED BY <1>2, <1>3, <1>4, <1>5

(* Draining: what is left, and what the chunk that came up short missed.    *)
LEMMA DrainedStops ==
  ASSUME NEW o \in FifoRanges, level \in 0..Fifo
  PROVE  /\ Drained(o) \in FifoRanges
         /\ Drained(o).lo = o.lo /\ Drained(o).hi = o.hi
         /\ o.owed <= level => Drained(o).started = o.started /\ Drained(o).missed = o.missed
         /\ o.owed > level => ~Drained(o).started
<1> DEFINE whole == Chunk * (level \div Chunk)
<1>0. level \in Nat /\ o.owed \in Nat /\ Chunk \in Nat \ {0}
  BY DeviceSizes DEF FifoRanges
<1>1. CASE o.owed <= level
  <2>1. Drained(o) = [o EXCEPT !.owed = 0]
    BY <1>1 DEF Drained
  <2> QED BY <1>0, <1>1, <2>1 DEF FifoRanges
<1>2. CASE o.owed > level
  <2>1. whole \in Int /\ whole <= level /\ level - whole < Chunk
    BY <1>0
  <2>2. Drained(o) = [o EXCEPT !.owed = 0, !.started = FALSE,
                               !.missed = Min({Chunk, o.owed - whole}) - (level - whole)]
    BY <1>0, <1>2 DEF Drained
  <2> HIDE DEF whole
  <2>3. Min({Chunk, o.owed - whole}) = IF Chunk <= o.owed - whole THEN Chunk ELSE o.owed - whole
    BY <1>0, <2>1, LesserOfTwo
  <2> DEFINE short == Min({Chunk, o.owed - whole}) - (level - whole)
  <2>4. short \in Nat
    BY <1>0, <1>2, <2>1, <2>3
  <2>5. Drained(o) = [o EXCEPT !.owed = 0, !.started = FALSE, !.missed = short]
    BY <2>2
  <2> HIDE DEF short
  <2>6. /\ Drained(o) \in FifoRanges /\ Drained(o).lo = o.lo /\ Drained(o).hi = o.hi
        /\ ~Drained(o).started
    <3> DEFINE q == [o EXCEPT !.owed = 0]
    <3>1. q \in FifoRanges /\ q.lo = o.lo /\ q.hi = o.hi
      BY <1>0 DEF FifoRanges
    <3> DEFINE r == [q EXCEPT !.started = FALSE]
               w == [r EXCEPT !.missed = short]
    <3> HIDE DEF q
    <3>2. r \in FifoRanges /\ r.lo = q.lo /\ r.hi = q.hi /\ r.started = FALSE
      BY <3>1 DEF FifoRanges
    <3> HIDE DEF r
    <3>3. w \in FifoRanges /\ w.lo = r.lo /\ w.hi = r.hi /\ w.started = r.started /\ w.missed = short
      BY <2>4, <3>2 DEF FifoRanges
    <3> QED BY <2>5, <3>1, <3>2, <3>3 DEF q, r
  <2> QED BY <1>0, <1>2, <2>6
<1> QED BY <1>0, <1>1, <1>2

(* service_out() keeps it, and finds the FIFO dry only after half of it.    *)
LEMMA ServiceKeeps ==
  ASSUME DeviceInv, Service
  PROVE  /\ DeviceInv'
         /\ out'.missed > out.missed => played' >= Prime
<1> DEFINE s == Seen(out)
<1>0. /\ level \in 0..Fifo /\ played \in 0..Fifo /\ out \in FifoRanges /\ levels \in SUBSET (0..Fifo)
      /\ lines \in Seq(StatusLines) /\ HalfIsKept /\ LinesAreTrue
  BY DEF DeviceInv, DeviceTypes
<1>1. /\ s = [out EXCEPT !.lo = s.lo, !.hi = s.hi] /\ s.lo \in 0..Fifo /\ s.hi \in 0..Fifo
      /\ Spans(levels \cup {level}, s.lo, s.hi)
  BY SeenSpans
<1>2. levels' = levels \cup {level} /\ lines' = lines
  BY DEF Service
<1>3. CASE out.started
  <2>1. /\ out' = Drained(s) /\ level' = level - Min({out.owed, level})
        /\ played' = Min({Fifo, played + Min({out.owed, level})})
    BY <1>3 DEF Service
  <2> HIDE DEF s
  <2>2. /\ s \in FifoRanges /\ s.owed = out.owed /\ s.started /\ s.missed = out.missed
        /\ out.owed \in Nat /\ out.missed \in Nat
    BY <1>0, <1>1, <1>3 DEF FifoRanges
  <2> DEFINE taken == IF out.owed <= level THEN out.owed ELSE level
  <2>3. Min({out.owed, level}) = taken /\ taken \in 0..level
    BY <1>0, <2>2, LesserOfTwo
  <2>4. Min({Fifo, played + taken}) = IF Fifo <= played + taken THEN Fifo ELSE played + taken
    BY <1>0, <2>3, LesserOfTwo, DeviceSizes
  <2>5. /\ Drained(s) \in FifoRanges /\ Drained(s).lo = s.lo /\ Drained(s).hi = s.hi
        /\ s.owed <= level => Drained(s).started = s.started /\ Drained(s).missed = s.missed
        /\ s.owed > level => ~Drained(s).started
    BY <1>0, <2>2, DrainedStops
  <2>6. played + level >= Prime
    BY <1>0, <1>3 DEF HalfIsKept
  <2>7. level' \in 0..Fifo /\ played' \in 0..Fifo /\ played' + level' >= Prime
    <3>1. level' = level - taken /\ played' = IF Fifo <= played + taken THEN Fifo ELSE played + taken
      BY <2>1, <2>3, <2>4
    <3>2. taken \in 0..level
      BY <2>3
    <3> HIDE DEF taken
    <3> QED BY <1>0, <2>6, <3>1, <3>2, DeviceSizes
  <2>8. out'.missed > out.missed => played' >= Prime
    <3>1. SUFFICES ASSUME out'.missed > out.missed
                   PROVE  played' >= Prime
      OBVIOUS
    <3>2. out.owed > level
      <4>1. Drained(s).missed > s.missed
        BY <2>1, <2>2, <3>1
      <4>2. Drained(s).missed # s.missed
        BY <2>2, <4>1
      <4>3. ~(out.owed <= level)
        BY <2>2, <2>5, <4>2
      <4> QED BY <1>0, <2>2, <4>3
    <3>3. taken = level
      BY <1>0, <2>2, <3>2
    <3> QED BY <1>0, <2>1, <2>3, <2>4, <2>6, <3>3, DeviceSizes
  <2>9. DeviceTypes'
    BY <1>0, <1>2, <2>1, <2>5, <2>7 DEF DeviceTypes
  <2>10. HalfIsKept'
    BY <2>7 DEF HalfIsKept
  <2>11. RangeOfLevels' /\ LinesAreTrue'
    BY <1>0, <1>1, <1>2, <2>1, <2>5 DEF RangeOfLevels, LinesAreTrue
  <2> QED BY <2>8, <2>9, <2>10, <2>11 DEF DeviceInv
<1>4. CASE ~out.started
  <2>1. out' = StartPrimed(s) /\ played' = 0 /\ level' = level
    BY <1>4 DEF Service
  <2> HIDE DEF s
  <2>2. s \in FifoRanges /\ ~s.started /\ s.missed = out.missed /\ out.missed \in Nat
    BY <1>0, <1>1, <1>4 DEF FifoRanges
  <2>3. /\ out' \in FifoRanges /\ out'.lo = s.lo /\ out'.hi = s.hi
        /\ out'.missed <= out.missed
        /\ out'.started => level >= Prime
    <3>1. CASE level >= Prime
      <4>1. out' = [s EXCEPT !.started = TRUE, !.owed = 0, !.missed = 0]
        BY <2>1, <3>1 DEF StartPrimed
      <4>2. [s EXCEPT !.started = TRUE, !.owed = 0] = [s EXCEPT !.owed = 0, !.started = TRUE]
        BY <2>2 DEF FifoRanges
      <4>3. out' = [s EXCEPT !.owed = 0, !.started = TRUE, !.missed = 0]
        BY <4>1, <4>2
      <4>4. out' \in FifoRanges /\ out'.lo = s.lo /\ out'.hi = s.hi /\ out'.missed = 0
        <5> DEFINE q == [s EXCEPT !.owed = 0]
        <5>1. q \in FifoRanges /\ q.lo = s.lo /\ q.hi = s.hi
          BY <2>2 DEF FifoRanges
        <5> DEFINE r == [q EXCEPT !.started = TRUE]
                   w == [r EXCEPT !.missed = 0]
        <5> HIDE DEF q
        <5>2. r \in FifoRanges /\ r.lo = q.lo /\ r.hi = q.hi /\ r.started = TRUE
          BY <5>1 DEF FifoRanges
        <5> HIDE DEF r
        <5>3. w \in FifoRanges /\ w.lo = r.lo /\ w.hi = r.hi /\ w.started = r.started /\ w.missed = 0
          BY <5>2 DEF FifoRanges
        <5> QED BY <4>3, <5>1, <5>2, <5>3 DEF q, r
      <4> QED BY <2>2, <3>1, <4>4
    <3>2. CASE ~(level >= Prime)
      <4>1. out' = s
        BY <2>1, <3>2 DEF StartPrimed
      <4> QED BY <2>2, <4>1
    <3> QED BY <3>1, <3>2
  <2>4. DeviceTypes'
    BY <1>0, <1>2, <2>1, <2>3, DeviceSizes DEF DeviceTypes
  <2>5. HalfIsKept'
    BY <1>0, <2>1, <2>3 DEF HalfIsKept
  <2>6. RangeOfLevels' /\ LinesAreTrue'
    BY <1>0, <1>1, <1>2, <2>3 DEF RangeOfLevels, LinesAreTrue
  <2>7. ~(out'.missed > out.missed)
    BY <2>2, <2>3 DEF FifoRanges
  <2> QED BY <2>4, <2>5, <2>6, <2>7 DEF DeviceInv
<1> QED BY <1>3, <1>4

(* The other steps of playback, none of which finds the FIFO dry.           *)
LEMMA StatusKeepsLines ==
  ASSUME DeviceInv, Status \/ StatusCore
  PROVE  DeviceInv' /\ ~(out'.missed > out.missed)
<1>0. /\ level \in 0..Fifo /\ played \in 0..Fifo /\ out \in FifoRanges /\ levels \in SUBSET (0..Fifo)
      /\ lines \in Seq(StatusLines) /\ HalfIsKept /\ LinesAreTrue /\ RangeOfLevels
  BY DEF DeviceInv, DeviceTypes
<1>1. CASE Status
  <2> DEFINE line == [lo |-> out.lo, hi |-> out.hi, of |-> levels]
  <2>1. /\ lines' = (IF Len(lines) < Lines THEN Append(lines, line) ELSE lines)
        /\ out' = EmptyRange(out) /\ levels' = {} /\ level' = level /\ played' = played
    BY <1>1 DEF Status
  <2>2. line \in StatusLines /\ TrueLine(line)
    BY <1>0 DEF StatusLines, FifoRanges, TrueLine, RangeOfLevels
  <2> HIDE DEF line
  <2>3. lines' \in Seq(StatusLines) /\ LinesAreTrue'
    <3>1. CASE lines' = lines
      BY <1>0, <3>1 DEF LinesAreTrue
    <3>2. CASE lines' = Append(lines, line)
      <4>1. Len(lines') = Len(lines) + 1 /\ Len(lines) \in Nat /\ lines'[Len(lines) + 1] = line
            /\ \A k \in 1..Len(lines) : lines'[k] = lines[k]
        BY <1>0, <3>2
      <4>2. lines' \in Seq(StatusLines)
        BY <1>0, <2>2, <3>2
      <4>3. \A k \in 1..Len(lines') : k \in 1..Len(lines) \/ k = Len(lines) + 1
        BY <4>1
      <4> QED BY <1>0, <2>2, <4>1, <4>2, <4>3 DEF LinesAreTrue
    <3> QED BY <2>1, <3>1, <3>2
  <2>4. /\ out' \in FifoRanges /\ out'.lo = Fifo /\ out'.hi = 0
        /\ out'.started = out.started /\ out'.missed = out.missed /\ out.missed \in Nat
    <3>1. out' = [out EXCEPT !.lo = Fifo, !.hi = 0] /\ Fifo \in 0..Fifo /\ 0 \in 0..Fifo
      BY <2>1, DeviceSizes DEF EmptyRange
    <3> QED BY <1>0, <3>1 DEF FifoRanges
  <2>5. DeviceTypes' /\ HalfIsKept' /\ RangeOfLevels'
    BY <1>0, <2>1, <2>3, <2>4 DEF DeviceTypes, HalfIsKept, RangeOfLevels
  <2> QED BY <2>3, <2>4, <2>5 DEF DeviceInv
<1>2. CASE StatusCore
  <2>1. /\ lines # <<>> /\ lines' = Tail(lines)
        /\ out' = out /\ levels' = levels /\ level' = level /\ played' = played
    BY <1>2 DEF StatusCore
  <2>2. /\ lines' \in Seq(StatusLines) /\ Len(lines') = Len(lines) - 1 /\ Len(lines) \in Nat
        /\ \A k \in 1..Len(lines') : lines'[k] = lines[k + 1] /\ k + 1 \in 1..Len(lines)
    BY <1>0, <2>1
  <2>3. LinesAreTrue'
    BY <1>0, <2>2 DEF LinesAreTrue
  <2>4. DeviceTypes' /\ HalfIsKept' /\ RangeOfLevels' /\ out.missed \in Nat
    BY <1>0, <2>1, <2>2 DEF DeviceTypes, HalfIsKept, RangeOfLevels, FifoRanges
  <2> QED BY <2>1, <2>3, <2>4 DEF DeviceInv
<1> QED BY <1>1, <1>2

LEMMA FifoStepKeeps ==
  ASSUME DeviceInv, (\E n \in 1..Chunk : HostPacket(n)) \/ Elapse \/ AlternateOut
  PROVE  DeviceInv' /\ ~(out'.missed > out.missed)
<1>0. /\ level \in 0..Fifo /\ played \in 0..Fifo /\ out \in FifoRanges
      /\ HalfIsKept /\ RangeOfLevels /\ Fifo \in Nat /\ Prime \in Nat
      /\ out.missed \in Nat /\ out.owed \in Nat
  BY DeviceSizes DEF DeviceInv, DeviceTypes, FifoRanges
<1>1. lines' = lines /\ levels' = levels
  BY DEF HostPacket, Elapse, AlternateOut
<1>2. LinesAreTrue'
  BY <1>1 DEF DeviceInv, LinesAreTrue
<1>3. /\ out' \in FifoRanges /\ out'.lo = out.lo /\ out'.hi = out.hi /\ out'.missed = out.missed
      /\ level' \in 0..Fifo /\ played' \in 0..Fifo
      /\ out'.started => played' + level' >= Prime
  <2>1. CASE \E n \in 1..Chunk : HostPacket(n)
    <3>1. PICK n \in 1..Chunk : HostPacket(n)
      BY <2>1
    <3>2. level' = level + n /\ level + n <= Fifo /\ out' = out /\ played' = played /\ n \in Nat
      BY <3>1, DeviceSizes DEF HostPacket
    <3> QED BY <1>0, <3>2 DEF HalfIsKept
  <2>2. CASE Elapse
    <3>1. out' = [out EXCEPT !.owed = out.owed + 1] /\ level' = level /\ played' = played
      BY <2>2 DEF Elapse
    <3>2. out' \in FifoRanges /\ out'.lo = out.lo /\ out'.hi = out.hi /\ out'.missed = out.missed
          /\ out'.started = out.started
      BY <1>0, <3>1 DEF FifoRanges
    <3> QED BY <1>0, <3>1, <3>2 DEF HalfIsKept
  <2>3. CASE AlternateOut
    <3>1. PICK on \in BOOLEAN : out' = [out EXCEPT !.on = on, !.started = FALSE]
      BY <2>3 DEF AlternateOut
    <3>2. level' \in {0, level} /\ played' = 0
      BY <2>3 DEF AlternateOut
    <3>3. out' \in FifoRanges /\ out'.lo = out.lo /\ out'.hi = out.hi /\ out'.missed = out.missed
          /\ ~out'.started
      BY <1>0, <3>1 DEF FifoRanges
    <3>4. level' \in 0..Fifo /\ played' \in 0..Fifo
      BY <1>0, <3>2
    <3> QED BY <1>0, <3>3, <3>4
  <2> QED BY <2>1, <2>2, <2>3
<1>4. DeviceTypes' /\ HalfIsKept' /\ RangeOfLevels'
  BY <1>0, <1>1, <1>3 DEF DeviceInv, DeviceTypes, HalfIsKept, RangeOfLevels
<1>5. ~(out'.missed > out.missed)
  BY <1>0, <1>3
<1> QED BY <1>2, <1>4, <1>5 DEF DeviceInv

LEMMA DeviceStepKeeps ==
  ASSUME DeviceInv, [DeviceNext]_deviceVars
  PROVE  /\ DeviceInv'
         /\ [out'.missed > out.missed => played' >= Prime]_deviceVars
<1>1. CASE UNCHANGED outVars
  <2>1. out' = out /\ level' = level /\ played' = played /\ lines' = lines /\ levels' = levels
    BY <1>1 DEF outVars
  <2>2. DeviceInv'
    BY <2>1 DEF DeviceInv, DeviceTypes, HalfIsKept, RangeOfLevels, LinesAreTrue
  <2>3. ~(out'.missed > out.missed)
    BY <2>1 DEF DeviceInv, DeviceTypes, FifoRanges
  <2> QED BY <2>2, <2>3
<1>2. CASE Capture \/ UNCHANGED deviceVars
  <2>1. (\E gap \in Gaps, late \in Lates : Preload(gap, late)) \/ AlternateIn \/ UNCHANGED deviceVars
    BY <1>2 DEF Capture
  <2>2. \A gap, late : Preload(gap, late) => UNCHANGED outVars
    BY DEF Preload, outVars
  <2>3. AlternateIn \/ UNCHANGED deviceVars => UNCHANGED outVars
    BY DEF AlternateIn, outVars, deviceVars
  <2> QED BY <1>1, <2>1, <2>2, <2>3
<1>3. CASE Service
  BY <1>3, ServiceKeeps
<1>4. CASE Status \/ StatusCore
  BY <1>4, StatusKeepsLines
<1>5. CASE (\E n \in 1..Chunk : HostPacket(n)) \/ Elapse \/ AlternateOut
  BY <1>5, FifoStepKeeps
<1> QED BY <1>2, <1>3, <1>4, <1>5 DEF DeviceNext, Playback

(* Half a FIFO has been played or waits while the stream drains, and every  *)
(* range told is that of the levels seen.                                   *)
THEOREM DeviceInvariant == DeviceSpec => []DeviceInv
<1>1. DeviceInv /\ [DeviceNext]_deviceVars => DeviceInv'
  BY DeviceStepKeeps
<1> QED BY <1>1, DeviceStarts, PTL DEF DeviceSpec

(* service_out() finds the FIFO dry only after half of it was played since  *)
(* draining began, whatever the host sends and however late it is served.   *)
THEOREM HalfIsPlayedFirst == DeviceSpec => PrimeIsPlayed
<1> DEFINE Played == out'.missed > out.missed => played' >= Prime
<1>1. DeviceInv /\ [DeviceNext]_deviceVars => [Played]_deviceVars
  BY DeviceStepKeeps
<1> HIDE DEF Played
<1>2. DeviceSpec => [][Played]_deviceVars
  BY <1>1, DeviceInvariant, PTL DEF DeviceSpec
<1> QED BY <1>2 DEF PrimeIsPlayed, Played

(* Every status line tells the range of its own second, lines that were     *)
(* dropped before it or not.                                                *)
THEOREM LinesTellTheirSecond == DeviceSpec => []RangeIsOfItsSecond
<1>1. DeviceInv => RangeIsOfItsSecond
  <2> SUFFICES ASSUME DeviceInv, NEW k \in 1..Len(lines), lines[k].of # {}
               PROVE  lines[k].lo = Min(lines[k].of) /\ lines[k].hi = Max(lines[k].of)
    BY DEF RangeIsOfItsSecond
  <2>1. lines[k] \in StatusLines /\ Spans(lines[k].of, lines[k].lo, lines[k].hi)
    BY DEF DeviceInv, DeviceTypes, LinesAreTrue, TrueLine
  <2>2. lines[k].of \in SUBSET Int
    BY <2>1 DEF StatusLines
  <2> QED BY <2>1, <2>2, SpanIsMinMax
<1> QED BY <1>1, DeviceInvariant, PTL

-----------------------------------------------------------------------------
(* The C ABIs.                                                              *)
UnderWay == {"wrapper", "factory", "engine", "live"}

(* What create has looked at before each of its steps.                      *)
LookedAt ==
  /\ lib \in {"async", "bridge", "rational"} /\ exceptions \in BOOLEAN
  /\ step \in UnderWay \cup {"none", "terminated"}
  /\ step = "wrapper" => lib # "async"
  /\ step # "none" =>
       /\ asked.kind \in (IF lib = "rational" THEN {"chain", "stage"} ELSE {lib})
       /\ asked.kind = "stage" => asked.L \in Nat /\ asked.M \in Nat
       /\ ArgumentsPass(asked)
  /\ step \in {"engine", "live"} => ~FactoryRejects(asked)

(* Only memory refused ends the program; where there are exceptions, only   *)
(* in the rational library, whose factory searches inside noexcept.         *)
RefusedInSearch == lib = "rational" /\ RationalSearches(asked)
OnlyRefusalEnds == step = "terminated" => refused /\ (exceptions => RefusedInSearch)

(* A handle answers to the format it was asked for, and to no other.        *)
AnswersToFormat == step = "live" => engine.format = asked.format /\ moved \subseteq {asked.format}

BuiltAsAsked == step = "live" => engine = EngineOf(asked)

AbiInv == LookedAt /\ HeapIsHandles /\ OnlyRefusalEnds /\ AnswersToFormat /\ BuiltAsAsked

(* What create and the factory let pass, the constructor takes.             *)
LEMMA PassedIsTaken ==
  ASSUME LookedAt, step = "engine"
  PROVE  ~ConstructorRejects(asked)
<1>1. CASE lib = "async"
  <2>1. asked.kind = "async" /\ ~ConfigRejected(asked)
    BY <1>1 DEF LookedAt, UnderWay, ArgumentsPass
  <2>2. ~BankRejects(FilterOf(asked), asked.rate) /\ ~RingTooSmall(asked)
    BY <2>1 DEF ConfigRejected
  <2> QED BY <2>1, <2>2 DEF ConstructorRejects
<1>2. CASE lib = "bridge"
  <2>1. asked.kind = "bridge" /\ ~BridgeRejected(asked)
    BY <1>2 DEF LookedAt, UnderWay, ArgumentsPass
  <2> QED BY <2>1 DEF ConstructorRejects
<1>3. CASE lib = "rational"
  <2>1. asked.kind \in {"chain", "stage"} /\ ~RationalRejected(asked)
    BY <1>3 DEF LookedAt, UnderWay, FactoryRejects
  <2> QED BY <2>1 DEF ConstructorRejects
<1> QED BY <1>1, <1>2, <1>3 DEF LookedAt

LEMMA EngineKeepsFormat ==
  ASSUME NEW a, a.kind \in {"async", "bridge", "chain", "stage"}
  PROVE  EngineOf(a).format = a.format
<1>1. CASE a.kind = "async"
  BY <1>1 DEF EngineOf
<1>2. CASE a.kind = "bridge"
  BY <1>2 DEF EngineOf
<1>3. CASE a.kind \in {"chain", "stage"}
  BY <1>3 DEF EngineOf
<1> QED BY <1>1, <1>2, <1>3

LEMMA AbiStarts == AbiInit => AbiInv
BY DEF AbiInit, AbiInv, LookedAt, UnderWay, HeapIsHandles, Free, OnlyRefusalEnds, AnswersToFormat, BuiltAsAsked

(* What depends on the arguments alone stays while they do.                 *)
LEMMA AskedStays ==
  ASSUME asked' = asked, lib' = lib
  PROVE  /\ ArgumentsPass(asked)' <=> ArgumentsPass(asked)
         /\ FactoryRejects(asked)' <=> FactoryRejects(asked)
         /\ RefusedInSearch' <=> RefusedInSearch
         /\ EngineOf(asked)' = EngineOf(asked)
<1>1. ArgumentsPass(asked)' <=> ArgumentsPass(asked)
  BY DEF ArgumentsPass
<1>2. FactoryRejects(asked)' <=> FactoryRejects(asked)
  BY DEF FactoryRejects
<1>3. RefusedInSearch' <=> RefusedInSearch
  BY DEF RefusedInSearch, RationalSearches
<1>4. EngineOf(asked)' = EngineOf(asked)
  BY DEF EngineOf
<1> QED BY <1>1, <1>2, <1>3, <1>4

LEMMA CreateKeeps ==
  ASSUME AbiInv, NEW a \in Arguments, Create(a)
  PROVE  AbiInv'
<1>1. /\ step = "none" /\ ArgumentsPass(a) /\ asked' = a
      /\ step' = IF lib = "async" THEN "factory" ELSE "wrapper"
      /\ lib' = lib /\ exceptions' = exceptions /\ heap' = heap
  BY DEF Create
<1>2. lib \in {"async", "bridge", "rational"} /\ exceptions \in BOOLEAN
  BY DEF AbiInv, LookedAt
<1>3. a.kind \in (IF lib = "rational" THEN {"chain", "stage"} ELSE {lib})
  <2>1. CASE lib = "async"
    BY <2>1 DEF Arguments
  <2>2. CASE lib = "bridge"
    BY <2>2 DEF Arguments
  <2>3. CASE lib = "rational"
    BY <2>3 DEF Arguments
  <2> QED BY <1>2, <2>1, <2>2, <2>3
<1>4. LookedAt'
  <2>1. ArgumentsPass(asked)'
    BY <1>1 DEF ArgumentsPass
  <2>2. a.kind = "stage" => a.L \in Nat /\ a.M \in Nat
    <3>1. CASE lib = "rational"
      BY <3>1, CAbiAssumption DEF Arguments
    <3>2. CASE lib # "rational"
      BY <1>2, <1>3, <3>2
    <3> QED BY <3>1, <3>2
  <2> QED BY <1>1, <1>2, <1>3, <2>1, <2>2 DEF LookedAt, UnderWay
<1>5. heap = [wrapper |-> 0, engine |-> 0]
  BY <1>1 DEF AbiInv, HeapIsHandles
<1> QED BY <1>1, <1>2, <1>4, <1>5 DEF AbiInv, HeapIsHandles, OnlyRefusalEnds, AnswersToFormat, BuiltAsAsked

(* A step on: the objects are those of the step reached.                    *)
LEMMA StepOnKeepsLooking ==
  ASSUME LookedAt, step \in UnderWay, step' \in {"factory", "engine", "live", "terminated"},
         asked' = asked, lib' = lib, exceptions' = exceptions,
         step' \in {"engine", "live"} => ~FactoryRejects(asked)
  PROVE  LookedAt'
BY AskedStays DEF LookedAt, UnderWay

(* A create that gives up, by NULL or by the end of the program.            *)
LEMMA GivingUpKeeps ==
  ASSUME AbiInv, step \in UnderWay, lib' = lib, exceptions' = exceptions,
         \/ ReturnNull
         \/ /\ step' = "terminated" /\ refused' /\ asked' = asked
            /\ exceptions => RefusedInSearch
  PROVE  AbiInv'
<1>1. CASE ReturnNull
  BY <1>1 DEF AbiInv, LookedAt, UnderWay, ReturnNull, HeapIsHandles, Free, OnlyRefusalEnds,
              AnswersToFormat, BuiltAsAsked
<1>2. CASE step' = "terminated" /\ refused' /\ asked' = asked /\ (exceptions => RefusedInSearch)
  <2>1. LookedAt'
    BY <1>2, StepOnKeepsLooking DEF AbiInv
  <2>2. OnlyRefusalEnds'
    BY <1>2, AskedStays DEF OnlyRefusalEnds
  <2> QED BY <1>2, <2>1, <2>2 DEF AbiInv, HeapIsHandles, AnswersToFormat, BuiltAsAsked
<1> QED BY <1>1, <1>2

LEMMA AllocateWrapperKeeps ==
  ASSUME AbiInv, AllocateWrapper
  PROVE  AbiInv'
<1>1. step = "wrapper" /\ lib' = lib /\ exceptions' = exceptions /\ lib # "async"
  BY DEF AllocateWrapper, AbiInv, LookedAt
<1>2. CASE step' = "factory" /\ heap' = [heap EXCEPT !.wrapper = heap.wrapper + 1] /\ UNCHANGED asked
  <2>1. LookedAt'
    BY <1>1, <1>2, StepOnKeepsLooking DEF AbiInv, UnderWay
  <2>2. heap = [wrapper |-> 0, engine |-> 0]
    BY <1>1 DEF AbiInv, HeapIsHandles
  <2>3. heap' = [wrapper |-> 1, engine |-> 0]
    BY <1>2, <2>2
  <2> QED BY <1>1, <1>2, <2>1, <2>3 DEF AbiInv, HeapIsHandles, OnlyRefusalEnds, AnswersToFormat, BuiltAsAsked
<1>3. CASE refused' = TRUE /\ Unwind
  BY <1>1, <1>3, GivingUpKeeps DEF Unwind, UnderWay
<1> QED BY <1>2, <1>3 DEF AllocateWrapper

LEMMA FactoryKeeps ==
  ASSUME AbiInv, Factory
  PROVE  AbiInv'
<1>1. step = "factory" /\ lib' = lib /\ exceptions' = exceptions
  BY DEF Factory
<1>2. CASE ReturnNull
  BY <1>1, <1>2, GivingUpKeeps DEF UnderWay
<1>3. CASE ~FactoryRejects(asked) /\ step' = "engine" /\ UNCHANGED <<asked, heap, refused>>
  <2>1. LookedAt'
    BY <1>1, <1>3, StepOnKeepsLooking DEF AbiInv, UnderWay
  <2> QED BY <1>1, <1>3, <2>1 DEF AbiInv, HeapIsHandles, OnlyRefusalEnds, AnswersToFormat, BuiltAsAsked
<1>4. CASE /\ lib = "rational" /\ RationalSearches(asked)
           /\ refused' = TRUE /\ step' = "terminated" /\ asked' = asked
  BY <1>1, <1>4, GivingUpKeeps DEF UnderWay, RefusedInSearch
<1> QED BY <1>2, <1>3, <1>4 DEF Factory

LEMMA AllocateEngineKeeps ==
  ASSUME AbiInv, AllocateEngine
  PROVE  AbiInv'
<1>1. step = "engine" /\ lib' = lib /\ exceptions' = exceptions /\ ~ConstructorRejects(asked)
  BY PassedIsTaken DEF AllocateEngine, AbiInv
<1>2. CASE /\ step' = "live" /\ heap' = [heap EXCEPT !.engine = heap.engine + 1]
           /\ engine' = EngineOf(asked) /\ moved' = {} /\ asked' = asked
  <2>1. LookedAt'
    BY <1>1, <1>2, StepOnKeepsLooking DEF AbiInv, LookedAt, UnderWay
  <2>2. EngineOf(asked).format = asked.format
    BY <1>1, EngineKeepsFormat DEF AbiInv, LookedAt, UnderWay
  <2>3. heap = [wrapper |-> IF lib # "async" THEN 1 ELSE 0, engine |-> 0]
    BY <1>1 DEF AbiInv, HeapIsHandles
  <2>4. heap' = [wrapper |-> IF lib # "async" THEN 1 ELSE 0, engine |-> 1]
    BY <1>2, <2>3
  <2> QED BY <1>1, <1>2, <2>1, <2>2, <2>4, AskedStays
      DEF AbiInv, HeapIsHandles, OnlyRefusalEnds, AnswersToFormat, BuiltAsAsked
<1>3. CASE refused' = TRUE /\ Unwind
  BY <1>1, <1>3, GivingUpKeeps DEF Unwind, UnderWay
<1> QED BY <1>1, <1>2, <1>3 DEF AllocateEngine

LEMMA CallKeeps ==
  ASSUME AbiInv, NEW entry \in Entries, Call(entry)
  PROVE  AbiInv'
<1>1. /\ step = "live" /\ step' = step /\ lib' = lib /\ exceptions' = exceptions /\ asked' = asked
      /\ heap' = heap /\ engine' = engine /\ refused' = refused
      /\ moved' = moved \/ (Runs(entry) /\ moved' = moved \cup {entry[2]})
  BY DEF Call
<1>2. LookedAt'
  BY <1>1, StepOnKeepsLooking DEF AbiInv, LookedAt, UnderWay
<1>3. moved' \subseteq {asked.format}
  BY <1>1 DEF AbiInv, AnswersToFormat, Runs
<1> QED BY <1>1, <1>2, <1>3, AskedStays DEF AbiInv, HeapIsHandles, OnlyRefusalEnds, AnswersToFormat, BuiltAsAsked

LEMMA AbiStepKeeps ==
  ASSUME AbiInv, [AbiNext]_abiVars
  PROVE  AbiInv'
<1>1. CASE \E a \in Arguments : Create(a)
  BY <1>1, CreateKeeps
<1>2. CASE AllocateWrapper \/ Factory \/ AllocateEngine
  BY <1>2, AllocateWrapperKeeps, FactoryKeeps, AllocateEngineKeeps
<1>3. CASE \E entry \in Entries : Call(entry)
  BY <1>3, CallKeeps
<1>4. CASE DestroyHandle
  BY <1>4, GivingUpKeeps DEF DestroyHandle, UnderWay
<1>5. CASE UNCHANGED abiVars
  <2>1. LookedAt'
    BY <1>5, AskedStays DEF abiVars, AbiInv, LookedAt
  <2> QED BY <1>5, <2>1, AskedStays DEF abiVars, AbiInv, HeapIsHandles, OnlyRefusalEnds, AnswersToFormat, BuiltAsAsked
<1> QED BY <1>1, <1>2, <1>3, <1>4, <1>5 DEF AbiNext

(* What is checked before an object is allocated covers what its            *)
(* constructor would reject, and every step owns what it has allocated.     *)
THEOREM AbiInvariant == AbiSpec => []AbiInv
<1>1. AbiInv /\ [AbiNext]_abiVars => AbiInv'
  BY AbiStepKeeps
<1> QED BY <1>1, AbiStarts, PTL DEF AbiSpec

(* Nothing leaks and nothing is freed twice, whatever is asked for and      *)
(* wherever memory is refused.                                              *)
THEOREM HandlesOwnTheHeap == AbiSpec => []HeapIsHandles
<1>1. AbiInv => HeapIsHandles
  BY DEF AbiInv
<1> QED BY <1>1, AbiInvariant, PTL

(* Rejected arguments never end the program, with exceptions or without:    *)
(* memory refused does, and with them only in a search of a stage's length. *)
THEOREM RejectionNeverEnds == AbiSpec => []OnlyRefusalEnds
<1>1. AbiInv => OnlyRefusalEnds
  BY DEF AbiInv
<1> QED BY <1>1, AbiInvariant, PTL

(* A fact about the tables, which the run `cabi' goes through row by row:   *)
(* every stage of a named chain has a pinned length, in every profile.      *)
ChainsArePinned ==
  \A c \in 0..27, p \in 0..3 : \A i \in 1..Len(NamedChains[c + 1]) :
    ~Searches(NamedChains[c + 1][i], Relaxed(ProfileFor(p), ChainDivisors[c + 1][i]))

(* With the tables as they are a refused create is NULL, but for a single   *)
(* stage's search.                                                          *)
THEOREM RefusalIsNull ==
  ASSUME ChainsArePinned
  PROVE  AbiSpec => []RejectionIsNull
<1>1. AbiInv => RejectionIsNull
  <2> SUFFICES ASSUME AbiInv, step = "terminated", exceptions
               PROVE  asked.kind = "stage"
    BY DEF RejectionIsNull, AbiInv, OnlyRefusalEnds
  <2>1. asked.kind \in {"chain", "stage"} /\ ArgumentsPass(asked) /\ RationalSearches(asked)
    BY DEF AbiInv, LookedAt, OnlyRefusalEnds, RefusedInSearch
  <2>2. ASSUME asked.kind = "chain" PROVE FALSE
    <3>1. asked.chain \in 0..27 /\ asked.profile \in 0..3
      BY <2>1, <2>2 DEF ArgumentsPass
    <3>2. PICK i \in 1..Len(StagesOf(asked)) : Searches(StagesOf(asked)[i], StageProfiles(asked)[i])
      BY <2>1 DEF RationalSearches
    <3>3. StagesOf(asked) = NamedChains[asked.chain + 1]
      BY <2>2 DEF StagesOf
    <3>4. StageProfiles(asked)[i] = Relaxed(ProfileFor(asked.profile), ChainDivisors[asked.chain + 1][i])
      BY <2>2, <3>2 DEF StageProfiles
    <3> QED BY <3>1, <3>2, <3>3, <3>4 DEF ChainsArePinned
  <2> QED BY <2>1, <2>2
<1> QED BY <1>1, AbiInvariant, PTL

(* Calls in another format than the handle's move nothing.                  *)
THEOREM HandleAnswersToItsFormat == AbiSpec => []AnswersToFormat
<1>1. AbiInv => AnswersToFormat
  BY DEF AbiInv
<1> QED BY <1>1, AbiInvariant, PTL

LEMMA RatioIsAFraction ==
  ASSUME NEW r \in Vocabulary
  PROVE  r[1] \in 1..8 /\ r[2] \in 1..8 /\ r = <<r[1], r[2]>>
BY DEF Vocabulary

LEMMA SetToSeqOfNone == SetToSeq({}) = <<>>
<1>1. Cardinality({}) = 0
  BY FS_EmptySet
<1>2. <<>> \in [1..0 -> {}] /\ IsInjective(<<>>)
  BY DEF IsInjective
<1>3. SetToSeq({}) \in [1..0 -> {}]
  BY <1>1, <1>2 DEF SetToSeq
<1> QED BY <1>3

LEMMA SetToSeqOfOne == \A x : SetToSeq({x}) = <<x>>
<1> SUFFICES ASSUME NEW x PROVE SetToSeq({x}) = <<x>>
  OBVIOUS
<1>1. Cardinality({x}) = 1
  BY FS_Singleton
<1>2. <<x>> \in [1..1 -> {x}] /\ IsInjective(<<x>>)
  BY DEF IsInjective
<1>3. SetToSeq({x}) \in [1..1 -> {x}]
  BY <1>1, <1>2 DEF SetToSeq
<1> QED BY <1>3

(* The key of L and M stands for no other stage of the vocabulary: an L or  *)
(* an M that fits in its byte does not spill into the other's.              *)
LEMMA KeyNamesItsStage ==
  ASSUME NEW a, a.kind = "stage", a.L \in 0..255, a.M \in 0..255, StagesOf(a) # <<>>
  PROVE  <<a.L, a.M>> \in Vocabulary /\ StagesOf(a) = <<<<a.L, a.M>>>>
<1>1. \A r \in SingleRatio(a.L, a.M) : r \in Vocabulary /\ r = <<a.L, a.M>>
  <2> SUFFICES ASSUME NEW r \in Vocabulary, 256 * r[1] + r[2] = 256 * a.L + a.M
               PROVE  r = <<a.L, a.M>>
    BY DEF SingleRatio
  <2>1. r[1] \in 1..8 /\ r[2] \in 1..8
    BY RatioIsAFraction
  <2>2. r[1] = a.L /\ r[2] = a.M
    <3> DEFINE k == r[1]  n == r[2]  l == a.L  m == a.M
    <3>1. k \in 0..255 /\ n \in 0..255 /\ l \in 0..255 /\ m \in 0..255 /\ 256 * k + n = 256 * l + m
      BY <2>1
    <3> HIDE DEF k, n, l, m
    <3>2. k = l /\ n = m
      BY <3>1
    <3> QED BY <3>2 DEF k, n, l, m
  <2> QED BY <2>2, RatioIsAFraction
<1>2. StagesOf(a) = SetToSeq(SingleRatio(a.L, a.M))
  BY DEF StagesOf
<1>3. SingleRatio(a.L, a.M) # {}
  BY <1>2, SetToSeqOfNone
<1>4. SingleRatio(a.L, a.M) = {<<a.L, a.M>>} /\ <<a.L, a.M>> \in Vocabulary
  BY <1>1, <1>3
<1> QED BY <1>2, <1>4, SetToSeqOfOne

(* The taps of a named chain's stages in the profile of tag p.              *)
NamedTaps(c, p) ==
  [i \in 1..Len(NamedChains[c + 1]) |->
     StageTaps(NamedChains[c + 1][i], Relaxed(ProfileFor(p), ChainDivisors[c + 1][i]))]

(* Facts about the tables, which the run `cabi' goes through row by row too:*)
(* a chain's ratio is the one its comment gives, a ratio alone is its own,  *)
(* and the two ways to count a named chain's work agree.                    *)
TablesAgree ==
  /\ \A r \in Vocabulary : ChainRatio(<<r>>) = r
  /\ \A c \in 0..27 : ChainRatio(NamedChains[c + 1]) = NamedRatios[c + 1]
  /\ \A c \in 0..27, p \in 0..3 :
       MacsFold(NamedChains[c + 1], NamedTaps(c, p)) = MacsPerOutput(NamedChains[c + 1], NamedTaps(c, p))

(* With the tables as they are, a live handle is what was asked for: its    *)
(* format, its ratio whatever L and M were, its work.                       *)
THEOREM HandleIsWhatWasAsked ==
  ASSUME TablesAgree
  PROVE  AbiSpec => []HandleIsAsked
<1>1. AbiInv => HandleIsAsked
  <2> SUFFICES ASSUME AbiInv, step = "live" PROVE HandleIsAsked
    BY DEF HandleIsAsked
  <2>1. /\ ArgumentsPass(asked) /\ ~FactoryRejects(asked) /\ engine = EngineOf(asked)
        /\ asked.kind \in {"chain", "stage"} => lib = "rational"
        /\ asked.kind = "stage" => asked.L \in Nat /\ asked.M \in Nat
    BY DEF AbiInv, LookedAt, BuiltAsAsked
  <2>2. engine.format = asked.format /\ moved \subseteq {asked.format}
    BY DEF AbiInv, AnswersToFormat
  <2>3. ASSUME asked.kind = "chain"
        PROVE  /\ engine.ratio = NamedRatios[asked.chain + 1]
               /\ engine.macs = MacsPerOutput(StagesOf(asked), engine.taps)
    <3>1. asked.chain \in 0..27 /\ asked.profile \in 0..3
      BY <2>1, <2>3 DEF ArgumentsPass
    <3>2. StagesOf(asked) = NamedChains[asked.chain + 1]
      BY <2>3 DEF StagesOf
    <3>3. [i \in 1..Len(StagesOf(asked)) |-> StageTaps(StagesOf(asked)[i], StageProfiles(asked)[i])]
          = NamedTaps(asked.chain, asked.profile)
      BY <2>3, <3>2 DEF StageProfiles, NamedTaps
    <3>4. /\ engine.ratio = ChainRatio(StagesOf(asked))
          /\ engine.taps = NamedTaps(asked.chain, asked.profile)
          /\ engine.macs = MacsFold(StagesOf(asked), NamedTaps(asked.chain, asked.profile))
      BY <2>1, <2>3, <3>3 DEF EngineOf
    <3> QED BY <3>1, <3>2, <3>4 DEF TablesAgree
  <2>4. ASSUME asked.kind = "stage" PROVE engine.ratio = <<asked.L, asked.M>>
    <3>1. asked.L \in 0..255 /\ asked.M \in 0..255
      BY <2>1, <2>4 DEF ArgumentsPass
    <3>2. StagesOf(asked) # <<>>
      BY <2>1, <2>4 DEF FactoryRejects
    <3>3. <<asked.L, asked.M>> \in Vocabulary /\ StagesOf(asked) = <<<<asked.L, asked.M>>>>
      BY <2>4, <3>1, <3>2, KeyNamesItsStage
    <3>4. engine.ratio = ChainRatio(StagesOf(asked))
      BY <2>1, <2>4 DEF EngineOf
    <3> QED BY <3>3, <3>4 DEF TablesAgree
  <2> QED BY <2>2, <2>3, <2>4 DEF HandleIsAsked
<1> QED BY <1>1, AbiInvariant, PTL

-----------------------------------------------------------------------------
(* The chain search of the coverage matrix.                                 *)
Below == {ss \in Nat \X Nat : ss[1] < ss[2]}

(* Every non-empty set of natural numbers has a least one.                  *)
LEMMA LeastNatural ==
  ASSUME NEW S, S \subseteq Nat, S # {}
  PROVE  Min(S) \in S /\ \A y \in S : Min(S) <= y
<1>1. IsWellFoundedOn(Below, Nat)
  BY NatLessThanWellFounded DEF OpToRel, Below
<1>2. PICK x \in S : \A y \in S : <<y, x>> \notin Below
  BY <1>1, WFMin
<1>3. ASSUME NEW y \in S PROVE x <= y
  <2>1. x \in Nat /\ y \in Nat
    OBVIOUS
  <2>2. y < x => <<y, x>> \in Below
    BY <2>1 DEF Below
  <2> QED BY <1>2, <2>1, <2>2
<1> QED BY <1>3 DEF Min

(* What makes a search by least work sound: no stage has a negative work.   *)
WorkIsNatural == \A u \in Nodes : \A v \in After(u) : Work(u, v) \in Nat

EntryTypes ==
  \A e \in pq \cup seen :
    /\ e = [macs |-> e.macs, chain |-> e.chain] /\ e.macs \in Nat
    /\ e.chain \in Seq(Nodes) /\ Len(e.chain) \in 1..(MaxStages + 1)

(* One entry is settled for each rate and number of stages.                 *)
OneEach ==
  /\ \A e, f \in seen : At(e) = At(f) /\ StageCount(e) = StageCount(f) => e = f
  /\ \A e \in pq : ~Settled(At(e), StageCount(e))

FromSource ==
  /\ Source \in pq \cup seen
  /\ \A e \in pq \cup seen : StageCount(e) = 0 => e = Source

SettledFirst == \A s \in seen, e \in pq : s.macs <= e.macs

(* Every stage on from a settled entry is in the heap or settled, at no     *)
(* more work.                                                               *)
GoesOn ==
  \A s \in seen : StageCount(s) < MaxStages =>
    \A v \in After(At(s)) : \E e \in pq \cup seen :
      At(e) = v /\ StageCount(e) = StageCount(s) + 1 /\ e.macs <= s.macs + Work(At(s), v)

(* Every entry came from a settled one by a stage, at exactly its work.     *)
CameFrom ==
  \A e \in pq \cup seen : StageCount(e) > 0 =>
    \E s \in seen : /\ StageCount(s) = StageCount(e) - 1
                    /\ At(e) \in After(At(s)) /\ e.macs = s.macs + Work(At(s), At(e))

SearchInv == EntryTypes /\ OneEach /\ FromSource /\ SettledFirst /\ GoesOn /\ CameFrom

LEMMA SourceIsAnEntry ==
  /\ Source = [macs |-> 0, chain |-> <<src>>] /\ Source.macs = 0 /\ Source.chain = <<src>>
  /\ At(Source) = src /\ StageCount(Source) = 0
  /\ Source.chain \in Seq(Nodes) /\ Len(Source.chain) = 1
BY DEF Source, At, StageCount, Last, Nodes

LEMMA StartOfASearch == pq = {Source} /\ seen = {} => SearchInv
<1> SUFFICES ASSUME pq = {Source}, seen = {} PROVE SearchInv
  OBVIOUS
<1>1. EntryTypes
  <2>1. Source = [macs |-> Source.macs, chain |-> Source.chain] /\ 1 \in 1..(MaxStages + 1)
    BY SourceIsAnEntry, MatrixAssumption
  <2>2. Source.macs \in Nat /\ Source.chain \in Seq(Nodes) /\ Len(Source.chain) \in 1..(MaxStages + 1)
    BY <2>1, SourceIsAnEntry
  <2>3. \A e \in pq \cup seen : e = Source
    OBVIOUS
  <2> QED BY <2>1, <2>2, <2>3 DEF EntryTypes
<1>2. OneEach /\ FromSource /\ SettledFirst /\ GoesOn
  BY DEF OneEach, FromSource, SettledFirst, GoesOn, Settled
<1>3. CameFrom
  BY SourceIsAnEntry DEF CameFrom
<1> QED BY <1>1, <1>2, <1>3 DEF SearchInv

(* The rates, the stages between them and their work are those of the pair. *)
LEMMA GraphStays ==
  ASSUME pair' = pair
  PROVE  /\ Nodes' = Nodes /\ Source' = Source
         /\ \A u, v : Work(u, v)' = Work(u, v)
         /\ only' = only => \A u : After(u)' = After(u)
<1>1. src' = src /\ dst' = dst /\ rmin' = rmin /\ rmax' = rmax
  BY DEF src, dst, rmin, rmax
<1>2. Nodes' = Nodes /\ Source' = Source
  BY <1>1 DEF Nodes, Source, Between
<1>3. \A u, v : IsBridge(u, v)' <=> IsBridge(u, v)
  BY <1>1 DEF IsBridge, IsBridgeUnder, Admits
<1>4. \A u, v : StageWork(u, v)' = StageWork(u, v)
  BY <1>1 DEF StageWork, StageM, Divisor
<1>5. \A u, v : Work(u, v)' = Work(u, v)
  BY <1>3, <1>4 DEF Work
<1>6. only' = only => \A u : After(u)' = After(u)
  BY <1>2, <1>3 DEF After
<1> QED BY <1>2, <1>5, <1>6

LEMMA LongerIsAnEntry ==
  ASSUME NEW e, e.macs \in Nat, e.chain \in Seq(Nodes), Len(e.chain) \in 1..MaxStages,
         NEW v \in Nodes, Work(At(e), v) \in Nat
  PROVE  /\ Longer(e, v) = [macs |-> Longer(e, v).macs, chain |-> Longer(e, v).chain]
         /\ Longer(e, v).macs = e.macs + Work(At(e), v) /\ Longer(e, v).macs \in Nat
         /\ Longer(e, v).chain \in Seq(Nodes) /\ Len(Longer(e, v).chain) \in 1..(MaxStages + 1)
         /\ At(Longer(e, v)) = v /\ StageCount(Longer(e, v)) = StageCount(e) + 1
<1>1. Longer(e, v) = [macs |-> e.macs + Work(At(e), v), chain |-> Append(e.chain, v)]
  BY DEF Longer
<1>2. /\ Append(e.chain, v) \in Seq(Nodes) /\ Len(Append(e.chain, v)) = Len(e.chain) + 1
      /\ Append(e.chain, v)[Len(e.chain) + 1] = v
  OBVIOUS
<1>3. At(Longer(e, v)) = v /\ StageCount(Longer(e, v)) = StageCount(e) + 1
  BY <1>1, <1>2 DEF At, StageCount, Last
<1>4. Len(e.chain) + 1 \in 1..(MaxStages + 1)
  BY MatrixAssumption
<1> QED BY <1>1, <1>2, <1>3, <1>4

(* What is popped has the least work in the heap.                           *)
LEMMA FirstIsLeast ==
  ASSUME EntryTypes, NEW e \in Firsts(pq)
  PROVE  e \in pq /\ \A f \in pq : e.macs <= f.macs
<1>1. \A es : Quickest(es) \subseteq es
  BY DEF Quickest
<1>2. e \in pq /\ e.macs = Min({f.macs : f \in pq})
  BY <1>1 DEF Firsts
<1>3. {f.macs : f \in pq} \subseteq Nat /\ {f.macs : f \in pq} # {}
  BY <1>2 DEF EntryTypes
<1>4. \A f \in pq : Min({g.macs : g \in pq}) <= f.macs
  BY <1>3, LeastNatural
<1> QED BY <1>2, <1>4
(* What a step of the loop makes of the heap and of what is settled.        *)
Moves(e) ==
  /\ seen' = seen \cup {e}
  /\ \A f \in pq' : \/ f \in pq /\ ~(At(f) = At(e) /\ StageCount(f) = StageCount(e))
                    \/ /\ StageCount(e) < MaxStages
                       /\ \E v \in After(At(e)) : ~Settled(v, StageCount(e) + 1) /\ f = Longer(e, v)
  /\ \A f \in pq : ~(At(f) = At(e) /\ StageCount(f) = StageCount(e)) => f \in pq'
  /\ StageCount(e) < MaxStages =>
       \A v \in After(At(e)) : ~Settled(v, StageCount(e) + 1) => Longer(e, v) \in pq'

LEMMA PopMoves ==
  ASSUME SearchInv, Pop
  PROVE  /\ pair' = pair /\ only' = only
         /\ \E e \in pq : Moves(e) /\ \A f \in pq : e.macs <= f.macs
<1>1. PICK e \in Firsts(pq) :
        /\ seen' = seen \cup {e}
        /\ pq' = {f \in pq : ~(At(f) = At(e) /\ StageCount(f) = StageCount(e))}
                 \cup (IF StageCount(e) >= MaxStages THEN {}
                       ELSE {Longer(e, v) : v \in {w \in After(At(e)) : ~Settled(w, StageCount(e) + 1)}})
  BY DEF Pop
<1>2. e \in pq /\ \A f \in pq : e.macs <= f.macs
  BY FirstIsLeast DEF SearchInv
<1>3. StageCount(e) \in 0..MaxStages
  BY <1>2, MatrixAssumption DEF SearchInv, EntryTypes, StageCount
<1>4. StageCount(e) >= MaxStages <=> ~(StageCount(e) < MaxStages)
  BY <1>3, MatrixAssumption
<1>5. Moves(e)
  BY <1>1, <1>4 DEF Moves
<1> QED BY <1>2, <1>5 DEF Pop

LEMMA PopKeeps ==
  ASSUME SearchInv, WorkIsNatural, Pop
  PROVE  SearchInv'
<1>1. PICK e \in pq : Moves(e) /\ \A f \in pq : e.macs <= f.macs
  BY PopMoves
<1>2. /\ Nodes' = Nodes /\ Source' = Source
      /\ \A u, v : Work(u, v)' = Work(u, v)
      /\ \A u : After(u)' = After(u)
  BY PopMoves, GraphStays
<1>3. /\ e = [macs |-> e.macs, chain |-> e.chain] /\ e.macs \in Nat
      /\ e.chain \in Seq(Nodes) /\ Len(e.chain) \in 1..(MaxStages + 1)
      /\ At(e) \in Nodes /\ StageCount(e) \in 0..MaxStages
  BY MatrixAssumption DEF SearchInv, EntryTypes, At, StageCount, Last
<1>4. ASSUME StageCount(e) < MaxStages, NEW v \in After(At(e))
      PROVE  /\ v \in Nodes /\ Work(At(e), v) \in Nat
             /\ Longer(e, v) = [macs |-> Longer(e, v).macs, chain |-> Longer(e, v).chain]
             /\ Longer(e, v).macs = e.macs + Work(At(e), v) /\ Longer(e, v).macs \in Nat
             /\ Longer(e, v).chain \in Seq(Nodes) /\ Len(Longer(e, v).chain) \in 1..(MaxStages + 1)
             /\ At(Longer(e, v)) = v /\ StageCount(Longer(e, v)) = StageCount(e) + 1
  <2>1. v \in Nodes
    BY <1>4 DEF After
  <2>2. Work(At(e), v) \in Nat
    BY <1>3, <1>4 DEF WorkIsNatural
  <2>3. Len(e.chain) \in 1..MaxStages
    BY <1>3, <1>4, MatrixAssumption DEF StageCount
  <2> QED BY <1>3, <2>1, <2>2, <2>3, LongerIsAnEntry
<1>5. EntryTypes'
  BY <1>1, <1>2, <1>3, <1>4 DEF Moves, SearchInv, EntryTypes
<1>6. OneEach'
  <2>1. \A f \in seen : ~(At(f) = At(e) /\ StageCount(f) = StageCount(e))
    BY DEF SearchInv, OneEach, Settled
  <2>2. \A n, at : Settled(at, n)' <=> Settled(at, n) \/ (At(e) = at /\ StageCount(e) = n)
    BY <1>1 DEF Moves, Settled
  <2>3. \A f, g \in seen' : At(f) = At(g) /\ StageCount(f) = StageCount(g) => f = g
    BY <1>1, <2>1 DEF Moves, SearchInv, OneEach
  <2>4. ASSUME NEW f \in pq' PROVE ~Settled(At(f), StageCount(f))'
    <3>1. CASE f \in pq /\ ~(At(f) = At(e) /\ StageCount(f) = StageCount(e))
      BY <2>2, <3>1 DEF SearchInv, OneEach
    <3>2. CASE /\ StageCount(e) < MaxStages
               /\ \E v \in After(At(e)) : ~Settled(v, StageCount(e) + 1) /\ f = Longer(e, v)
      BY <1>3, <1>4, <2>2, <3>2
    <3> QED BY <1>1, <2>4, <3>1, <3>2 DEF Moves
  <2> QED BY <2>3, <2>4 DEF OneEach
<1>7. FromSource'
  <2>1. Source \in pq' \cup seen'
    BY <1>1, SourceIsAnEntry DEF Moves, SearchInv, FromSource
  <2>2. ASSUME NEW f \in pq' \cup seen', StageCount(f) = 0 PROVE f = Source
    BY <1>1, <1>3, <1>4, <2>2 DEF Moves, SearchInv, FromSource
  <2> QED BY <1>2, <2>1, <2>2 DEF FromSource
<1>8. SettledFirst'
  <2>1. \A s \in seen' : s.macs \in Nat /\ s.macs <= e.macs
    BY <1>1, <1>3 DEF Moves, SearchInv, SettledFirst, EntryTypes
  <2>2. \A f \in pq' : f.macs \in Nat /\ e.macs <= f.macs
    BY <1>1, <1>3, <1>4 DEF Moves, SearchInv, EntryTypes
  <2> QED BY <1>3, <2>1, <2>2 DEF SettledFirst
<1>9. GoesOn'
  <2> SUFFICES ASSUME NEW s \in seen', StageCount(s) < MaxStages, NEW v \in After(At(s))
               PROVE  \E f \in pq' \cup seen' :
                        At(f) = v /\ StageCount(f) = StageCount(s) + 1 /\ f.macs <= s.macs + Work(At(s), v)
    BY <1>2 DEF GoesOn
  <2>1. CASE s \in seen
    <3>1. PICK f \in pq \cup seen :
            At(f) = v /\ StageCount(f) = StageCount(s) + 1 /\ f.macs <= s.macs + Work(At(s), v)
      BY <2>1 DEF SearchInv, GoesOn
    <3>2. CASE f \in seen \/ ~(At(f) = At(e) /\ StageCount(f) = StageCount(e))
      BY <1>1, <3>1, <3>2 DEF Moves
    <3>3. CASE f \in pq /\ At(f) = At(e) /\ StageCount(f) = StageCount(e)
      <4>1. s.macs \in Nat /\ f.macs \in Nat /\ At(s) \in Nodes
        BY <2>1, <3>3 DEF SearchInv, EntryTypes, At, Last
      <4>2. e.macs <= s.macs + Work(At(s), v)
        BY <1>1, <1>3, <3>1, <3>3, <4>1 DEF WorkIsNatural
      <4> QED BY <1>1, <3>1, <3>3, <4>2 DEF Moves
    <3> QED BY <3>2, <3>3
  <2>2. CASE s = e
    <3>1. CASE Settled(v, StageCount(e) + 1)
      <4>1. PICK f \in seen : At(f) = v /\ StageCount(f) = StageCount(e) + 1
        BY <3>1 DEF Settled
      <4>2. f.macs \in Nat /\ f.macs <= e.macs
        BY DEF SearchInv, SettledFirst, EntryTypes
      <4>3. f.macs <= e.macs + Work(At(e), v)
        BY <1>3, <1>4, <2>2, <4>2
      <4> QED BY <1>1, <2>2, <4>1, <4>3 DEF Moves
    <3>2. CASE ~Settled(v, StageCount(e) + 1)
      <4>1. Longer(e, v) \in pq'
        BY <1>1, <2>2, <3>2 DEF Moves
      <4> QED BY <1>4, <2>2, <4>1
    <3> QED BY <3>1, <3>2
  <2> QED BY <1>1, <2>1, <2>2 DEF Moves
<1>10. CameFrom'
  <2> SUFFICES ASSUME NEW f \in pq' \cup seen', StageCount(f) > 0
               PROVE  \E s \in seen' : /\ StageCount(s) = StageCount(f) - 1
                                       /\ At(f) \in After(At(s)) /\ f.macs = s.macs + Work(At(s), At(f))
    BY <1>2 DEF CameFrom
  <2>1. CASE f \in pq \cup seen
    BY <1>1, <2>1 DEF Moves, SearchInv, CameFrom
  <2>2. CASE StageCount(e) < MaxStages /\ \E v \in After(At(e)) : f = Longer(e, v)
    <3>1. PICK v \in After(At(e)) : f = Longer(e, v)
      BY <2>2
    <3>2. StageCount(e) = StageCount(f) - 1 /\ At(f) = v /\ f.macs = e.macs + Work(At(e), v)
      BY <1>3, <1>4, <2>2, <3>1
    <3> QED BY <1>1, <3>1, <3>2 DEF Moves
  <2> QED BY <1>1, <2>1, <2>2 DEF Moves
<1> QED BY <1>5, <1>6, <1>7, <1>8, <1>9, <1>10 DEF SearchInv

LEMMA SearchStepKeeps ==
  ASSUME SearchInv, WorkIsNatural, [SearchNext]_searchVars
  PROVE  SearchInv'
<1>1. CASE Pop
  BY <1>1, PopKeeps
<1>2. CASE SearchAgain
  <2>1. pq' = {Source} /\ seen' = {} /\ pair' = pair
    BY <1>2 DEF SearchAgain
  <2>2. (pq = {Source})' /\ (seen = {})'
    BY <2>1, GraphStays
  <2> QED BY <2>2, StartOfASearch, PTL
<1>3. CASE Choose \/ UNCHANGED searchVars
  <2>1. UNCHANGED <<pair, only, pq, seen>>
    BY <1>3 DEF Choose, searchVars
  <2>2. /\ Nodes' = Nodes /\ Source' = Source
        /\ \A u, v : Work(u, v)' = Work(u, v)
        /\ \A u : After(u)' = After(u)
    BY <2>1, GraphStays
  <2> QED BY <2>1, <2>2 DEF SearchInv, EntryTypes, OneEach, Settled, FromSource, SettledFirst, GoesOn, CameFrom
<1> QED BY <1>1, <1>2, <1>3 DEF SearchNext

(* The search keeps its order and its origins, for every pair of rates and  *)
(* every number of stages.                                                  *)
THEOREM SearchInvariant == SearchSpec /\ []WorkIsNatural => []SearchInv
<1>1. SearchInit => SearchInv
  BY StartOfASearch DEF SearchInit
<1>2. SearchInv /\ WorkIsNatural /\ [SearchNext]_searchVars => SearchInv'
  BY SearchStepKeeps
<1> QED BY <1>1, <1>2, PTL DEF SearchSpec

(* A search that is through has settled, stage by stage, the least of what  *)
(* one more stage makes: what came from somewhere is no less, and what goes *)
(* on is no more.                                                           *)
LEMMA ThroughIsLeast ==
  ASSUME SearchInv, WorkIsNatural, pq = {}
  PROVE  /\ Works(0) = {<<src, 0>>}
         /\ \A n \in 0..(MaxStages - 1) : Works(n + 1) = LeastAfter(Works(n))
<1>1. Works(0) = {<<src, 0>>}
  <2>1. Source \in seen /\ \A e \in seen : StageCount(e) = 0 => e = Source
    BY DEF SearchInv, FromSource
  <2> QED BY <2>1, SourceIsAnEntry DEF Works
<1>2. ASSUME NEW n \in 0..(MaxStages - 1)
      PROVE  Works(n + 1) = LeastAfter(Works(n))
  <2> DEFINE further == UNION {{<<v, w[2] + Work(w[1], v)>> : v \in After(w[1])} : w \in Works(n)}
             To(v)   == {f[2] : f \in {g \in further : g[1] = v}}
  <2>1. LeastAfter(Works(n)) = {<<v, Min(To(v))>> : v \in {f[1] : f \in further}}
    BY DEF LeastAfter
  <2>2. \A e \in seen : e.macs \in Nat /\ At(e) \in Nodes
    BY DEF SearchInv, EntryTypes, At, Last
  <2>3. \A v, m : m \in To(v) <=>
          \E s \in seen : StageCount(s) = n /\ v \in After(At(s)) /\ m = s.macs + Work(At(s), v)
    <3>1. \A w : w \in Works(n) <=> \E s \in seen : StageCount(s) = n /\ w = <<At(s), s.macs>>
      BY DEF Works
    <3>2. \A g : g \in further <=> \E w \in Works(n) : \E v \in After(w[1]) : g = <<v, w[2] + Work(w[1], v)>>
      OBVIOUS
    <3>3. \A v, m : m \in To(v) <=> \E g \in further : g[1] = v /\ m = g[2]
      BY Zenon
    <3> HIDE DEF To, further
    <3>4. ASSUME NEW g \in further
          PROVE  \E s \in seen : /\ StageCount(s) = n /\ g[1] \in After(At(s))
                                 /\ g[2] = s.macs + Work(At(s), g[1])
      <4>1. PICK w \in Works(n) : \E v \in After(w[1]) : g = <<v, w[2] + Work(w[1], v)>>
        BY <3>2
      <4>2. PICK s \in seen : StageCount(s) = n /\ w = <<At(s), s.macs>>
        BY <3>1
      <4>3. w[1] = At(s) /\ w[2] = s.macs /\ g[1] \in After(w[1]) /\ g[2] = w[2] + Work(w[1], g[1])
        BY <4>1, <4>2
      <4> QED BY <4>2, <4>3
    <3>5. ASSUME NEW s \in seen, StageCount(s) = n, NEW v \in After(At(s))
          PROVE  s.macs + Work(At(s), v) \in To(v)
      <4>1. <<At(s), s.macs>> \in Works(n)
        BY <3>1, <3>5
      <4>2. <<v, s.macs + Work(At(s), v)>> \in further
        <5> DEFINE w == <<At(s), s.macs>>
        <5>1. w[1] = At(s) /\ w[2] = s.macs
          OBVIOUS
        <5> HIDE DEF w
        <5> QED BY <3>2, <4>1, <5>1 DEF w
      <4> QED BY <3>3, <4>2
    <3>6. ASSUME NEW v, NEW m \in To(v)
          PROVE  \E s \in seen : StageCount(s) = n /\ v \in After(At(s)) /\ m = s.macs + Work(At(s), v)
      BY <3>3, <3>4
    <3> QED BY <3>5, <3>6
  <2>4. \A e \in seen : StageCount(e) = n + 1 => e.macs \in To(At(e))
    <3> SUFFICES ASSUME NEW e \in seen, StageCount(e) = n + 1 PROVE e.macs \in To(At(e))
      OBVIOUS
    <3>1. PICK s \in seen : /\ StageCount(s) = StageCount(e) - 1
                            /\ At(e) \in After(At(s)) /\ e.macs = s.macs + Work(At(s), At(e))
      BY DEF SearchInv, CameFrom
    <3> QED BY <2>3, <3>1
  <2>5. ASSUME NEW v, NEW m \in To(v)
        PROVE  \E e \in seen : At(e) = v /\ StageCount(e) = n + 1 /\ e.macs <= m
    <3>1. PICK s \in seen : StageCount(s) = n /\ v \in After(At(s)) /\ m = s.macs + Work(At(s), v)
      BY <2>3, <2>5
    <3>2. n < MaxStages
      BY MatrixAssumption
    <3> QED BY <3>1, <3>2 DEF SearchInv, GoesOn
  <2>6. \A v : To(v) \subseteq Nat
    BY <2>2, <2>3 DEF WorkIsNatural
  <2>7. ASSUME NEW e \in seen, StageCount(e) = n + 1
        PROVE  e.macs = Min(To(At(e)))
    <3>1. e.macs \in To(At(e))
      BY <2>4, <2>7
    <3>2. Min(To(At(e))) \in To(At(e)) /\ Min(To(At(e))) <= e.macs
      BY <2>6, <3>1, LeastNatural
    <3>3. PICK f \in seen : At(f) = At(e) /\ StageCount(f) = n + 1 /\ f.macs <= Min(To(At(e)))
      BY <2>5, <3>2
    <3>4. f = e
      BY <2>7, <3>3 DEF SearchInv, OneEach
    <3>5. e.macs <= Min(To(At(e))) /\ e.macs \in Nat /\ Min(To(At(e))) \in Nat
      BY <2>2, <2>6, <3>2, <3>3, <3>4
    <3> QED BY <3>2, <3>5
  <2>8. \A v, m : <<v, m>> \in Works(n + 1) <=>
          \E e \in seen : StageCount(e) = n + 1 /\ v = At(e) /\ m = e.macs
    BY DEF Works
  <2>9. \A v, m : <<v, m>> \in LeastAfter(Works(n)) <=> To(v) # {} /\ m = Min(To(v))
    <3>1. \A v : v \in {f[1] : f \in further} <=> To(v) # {}
      OBVIOUS
    <3> HIDE DEF To, further
    <3> QED BY <2>1, <3>1
  <2> HIDE DEF To, further
  <2>10. ASSUME NEW v, NEW m, <<v, m>> \in Works(n + 1) PROVE <<v, m>> \in LeastAfter(Works(n))
    <3>1. PICK e \in seen : StageCount(e) = n + 1 /\ v = At(e) /\ m = e.macs
      BY <2>8, <2>10
    <3>2. To(v) # {} /\ m = Min(To(v))
      BY <2>4, <2>7, <3>1
    <3> QED BY <2>9, <3>2
  <2>11. ASSUME NEW v, NEW m, <<v, m>> \in LeastAfter(Works(n)) PROVE <<v, m>> \in Works(n + 1)
    <3>1. To(v) # {} /\ m = Min(To(v))
      BY <2>9, <2>11
    <3>2. PICK e \in seen : At(e) = v /\ StageCount(e) = n + 1
      BY <2>5, <3>1
    <3>3. e.macs = m
      BY <2>7, <3>1, <3>2
    <3> QED BY <2>8, <3>2, <3>3
  <2>12. \A p \in Works(n + 1) \cup LeastAfter(Works(n)) : p = <<p[1], p[2]>>
    BY <2>1 DEF Works
  <2>13. \A p \in Works(n + 1) : p \in LeastAfter(Works(n))
    BY <2>10, <2>12
  <2>14. \A p \in LeastAfter(Works(n)) : p \in Works(n + 1)
    BY <2>11, <2>12
  <2> QED BY <2>13, <2>14
<1> QED BY <1>1, <1>2

(* Whenever a search is through, what it has settled for each number of     *)
(* stages is the least work there is (chains_by_stage_count()).             *)
THEOREM SearchSettlesTheLeast == SearchSpec /\ []WorkIsNatural => []SearchIsMinimal
<1>1. SearchInv /\ WorkIsNatural => SearchIsMinimal
  BY ThroughIsLeast DEF SearchIsMinimal
<1> QED BY <1>1, SearchInvariant, PTL

=============================================================================
