------------------------------ MODULE DualCore ------------------------------
(***************************************************************************)
(* async/examples/pico2_dualcore/main.cpp: core0 builds a converter per    *)
(* phase, hands it to core1 through an atomic pointer, pushes to it, stops *)
(* the phase and destroys it; core1 pulls from it and publishes statistics *)
(* through the sequence lock.  The converter is AsyncConverter's business; *)
(* here it is a number, the phase it was built for, and 0 is no converter. *)
(*                                                                         *)
(* asrc, stop and consumerDone are stored with release and loaded with     *)
(* acquire by a loop that waits for one value: a stale load is the loop    *)
(* going round once more.                                                  *)
(***************************************************************************)
EXTENDS Seqlock

CONSTANTS
  Phases,      \* runPhase() calls of main()
  MaxReads,    \* bound: telemetry lines of a phase
  MaxDigests,  \* bound: statistics core1 publishes in mid-phase
  ReportOutlastsSpin  \* core0 takes longer to print a summary line than core1 to
                      \* load a pointer in its spin loop

ASSUME DualCoreAssumption ==
  /\ Phases \in Nat \ {0} /\ MaxReads \in Nat /\ MaxDigests \in Nat
  /\ ReportOutlastsSpin \in BOOLEAN

VARIABLES
  asrc,          \* g.asrc
  stop,          \* g.stop
  consumerDone,  \* g.consumerDone
  params,        \* g.consNumUs, consDen, statsSkipBlocks: the phase they are of
  cyccnt,        \* g.cyccnt: 0 until core1 is up, then 1 or 2 (no counter)
  c0, c1,        \* where each core is
  phase,         \* main()'s i + 1
  alive,         \* the converter runPhase()'s unique_ptr owns
  held,          \* core1's copy of the pointer
  pace,          \* core1's copy of the parameters
  reads,         \* telemetry lines of this phase
  digests        \* statistics published in this phase

shared == <<asrc, stop, consumerDone, params, cyccnt>>
core0  == <<c0, phase, alive, reads>>
core1  == <<c1, held, pace, digests>>
dualVars == <<writer, reader, shared, core0, core1>>

DualInit ==
  /\ LockInit
  /\ asrc = 0 /\ stop = FALSE /\ consumerDone = FALSE /\ params = 0 /\ cyccnt = 0
  /\ c0 = "launch" /\ phase = 0 /\ alive = 0 /\ reads = 0
  /\ c1 = "launch" /\ held = 0 /\ pace = 0 /\ digests = 0

-----------------------------------------------------------------------------
(* core0: main() and runPhase().                                            *)
Launched ==
  /\ c0 = "launch" /\ cyccnt # 0
  /\ c0' = "setup"
  /\ UNCHANGED <<writer, reader, shared, phase, alive, reads, core1>>

(* validate() or the constructor refuses: the phase is skipped. *)
Skip ==
  /\ c0 = "setup" /\ phase < Phases
  /\ phase' = phase + 1
  /\ UNCHANGED <<writer, reader, shared, c0, alive, reads, core1>>

Construct ==
  /\ c0 = "setup" /\ phase < Phases
  /\ phase' = phase + 1 /\ alive' = phase' /\ reads' = 0
  /\ c0' = "announce"
  /\ UNCHANGED <<writer, reader, shared, core1>>

(* The flags and parameters, relaxed: the pointer's release publishes them. *)
Announce ==
  /\ c0 = "announce"
  /\ consumerDone' = FALSE /\ stop' = FALSE /\ params' = phase
  /\ c0' = "handOver"
  /\ UNCHANGED <<writer, reader, asrc, cyccnt, phase, alive, reads, core1>>

HandOver ==
  /\ c0 = "handOver"
  /\ asrc' = alive
  /\ c0' = "run"
  /\ UNCHANGED <<writer, reader, stop, consumerDone, params, cyccnt, phase, alive, reads, core1>>

(* One telemetry line; push() and status() between them leave nothing here. *)
Telemetry ==
  /\ c0 = "run" /\ reads < MaxReads
  /\ StartRead
  /\ reads' = reads + 1
  /\ UNCHANGED <<writer, shared, c0, phase, alive, core1>>

EndOfRun ==
  /\ c0 = "run" /\ rpc = "idle"
  /\ stop' = TRUE
  /\ c0' = "waitDone"
  /\ UNCHANGED <<writer, reader, asrc, consumerDone, params, cyccnt, phase, alive, reads, core1>>

(* Fault: core0 does not wait for core1's last word.                        *)
TeardownAtOnce ==
  /\ c0 = "waitDone"
  /\ StartRead
  /\ c0' = "final"
  /\ UNCHANGED <<writer, shared, phase, alive, reads, core1>>

(* consumerDone's acquire, then the final readSnapshot(). *)
ConsumerIsDone ==
  /\ c0 = "waitDone" /\ consumerDone
  /\ CatchUp
  /\ rpc' = "seq"
  /\ c0' = "final"
  /\ UNCHANGED <<writer, q0, copy, unread, fenced, got, shared, phase, alive, reads, core1>>

(* Fault: the pointer is left standing.                                     *)
ClearNothing ==
  /\ c0 = "final" /\ rpc = "idle"
  /\ c0' = "return"
  /\ UNCHANGED <<writer, reader, shared, phase, alive, reads, core1>>

ClearPointer ==
  /\ c0 = "final" /\ rpc = "idle"
  /\ asrc' = 0
  /\ c0' = "return"
  /\ UNCHANGED <<writer, reader, stop, consumerDone, params, cyccnt, phase, alive, reads, core1>>

(* The summary line, and runPhase() destroys its converter. *)
Destroy ==
  /\ c0 = "return"
  /\ ReportOutlastsSpin => c1 # "waitNull"
  /\ alive' = 0
  /\ c0' = "setup"
  /\ UNCHANGED <<writer, reader, shared, phase, reads, core1>>

(* main()'s last line: while (true) sleep_ms(1000).                         *)
Sleep ==
  /\ c0 = "setup" /\ phase = Phases
  /\ UNCHANGED dualVars

Reading == ReadStep /\ UNCHANGED <<writer, shared, core0, core1>>

Core0 ==
  \/ Launched \/ Skip \/ Construct \/ Announce \/ HandOver
  \/ Telemetry \/ Reading \/ EndOfRun \/ ConsumerIsDone \/ ClearPointer \/ Destroy

-----------------------------------------------------------------------------
(* core1: core1Main().                                                      *)
Enable ==
  /\ c1 = "launch"
  /\ cyccnt' \in {1, 2}
  /\ c1' = "waitPointer"
  /\ UNCHANGED <<writer, reader, asrc, stop, consumerDone, params, core0, held, pace, digests>>

Take ==
  /\ c1 = "waitPointer" /\ asrc # 0
  /\ held' = asrc /\ pace' = params /\ digests' = 0
  /\ c1' = "zero"
  /\ UNCHANGED <<writer, reader, shared, core0>>

(* publishSnapshot(): of zeros, once a second, and at the end. *)
Publishing == c1 \in {"zero", "digest", "final"}

Publish ==
  /\ Publishing
  /\ MarkOdd \/ StoreField
  /\ UNCHANGED <<reader, shared, core0, core1>>

Published ==
  /\ Publishing /\ MarkEven
  /\ c1' = IF c1 = "final" THEN "done" ELSE "loop"
  /\ UNCHANGED <<reader, shared, core0, held, pace, digests>>

(* Fault: done is set as soon as the loop ends, before the last statistics. *)
StoppedIsDone ==
  /\ c1 = "loop" /\ stop
  /\ consumerDone' = TRUE
  /\ c1' = "final"
  /\ UNCHANGED <<writer, reader, asrc, stop, params, cyccnt, core0, held, pace, digests>>

Stopped ==
  /\ c1 = "loop" /\ stop
  /\ c1' = "final"
  /\ UNCHANGED <<writer, reader, shared, core0, held, pace, digests>>

StartPull ==
  /\ c1 = "loop" /\ ~stop
  /\ c1' = "pull"
  /\ UNCHANGED <<writer, reader, shared, core0, held, pace, digests>>

EndPull ==
  /\ c1 = "pull"
  /\ \/ c1' = "loop" /\ UNCHANGED digests
     \/ c1' = "digest" /\ digests < MaxDigests /\ digests' = digests + 1
  /\ UNCHANGED <<writer, reader, shared, core0, held, pace>>

SetDone ==
  /\ c1 = "done"
  /\ consumerDone' = TRUE
  /\ c1' = "waitNull"
  /\ UNCHANGED <<writer, reader, asrc, stop, params, cyccnt, core0, held, pace, digests>>

(* "So a stale pointer cannot restart the phase." *)
LetGo ==
  /\ c1 = "waitNull" /\ asrc = 0
  /\ held' = 0
  /\ c1' = "waitPointer"
  /\ UNCHANGED <<writer, reader, shared, core0, pace, digests>>

Core1 ==
  \/ Enable \/ Take \/ Publish \/ Published \/ Stopped \/ StartPull \/ EndPull
  \/ SetDone \/ LetGo

-----------------------------------------------------------------------------
DualNext == Core0 \/ Core1 \/ Sleep

(* Both cores run, and a load repeated for ever returns the newest store.   *)
DualSpec ==
  /\ DualInit /\ [][DualNext]_dualVars
  /\ WF_dualVars(Core0) /\ WF_dualVars(Core1)
  /\ SF_dualVars(LoadSeq /\ seqFloor' = seq /\ UNCHANGED <<writer, shared, core0, core1>>)

-----------------------------------------------------------------------------
DualTypeOK ==
  /\ LockTypeOK
  /\ asrc \in 0..Phases /\ stop \in BOOLEAN /\ consumerDone \in BOOLEAN
  /\ params \in 0..Phases /\ cyccnt \in 0..2
  /\ c0 \in {"launch", "setup", "announce", "handOver", "run", "waitDone", "final", "return"}
  /\ c1 \in {"launch", "waitPointer", "zero", "loop", "pull", "digest", "final", "done", "waitNull"}
  /\ phase \in 0..Phases /\ alive \in 0..Phases /\ held \in 0..Phases /\ pace \in 0..Phases
  /\ reads \in 0..MaxReads /\ digests \in 0..MaxDigests

(* core1 pulls only from the converter that lives, at that phase's pace:    *)
(* neither a stale pointer nor a stop or parameter of another phase reaches *)
(* its loop, and nothing is destroyed under it.                             *)
ConverterOutlivesPulls ==
  c1 \in {"zero", "loop", "pull", "digest"} => held = alive /\ held = phase /\ pace = phase

(* The summary line prints core1's last word on the phase: the snapshot it  *)
(* shows is the last there is, and core1 has left the converter alone.      *)
FinalIsLast ==
  c0 = "final" /\ rpc = "idle" =>
    /\ c1 = "waitNull" /\ held = phase
    /\ \A f \in Fields : got[f] = seq \div 2

(* Every phase ends and main() reaches its last line: no wait of one core   *)
(* for the other is for ever.                                               *)
PhasesEnd == <>(c0 = "setup" /\ phase = Phases)

=============================================================================
