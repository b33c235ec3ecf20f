# A verification project for SampleRateTap

TLA+ models of SampleRateTap's engines, the TLC runs that check them on small
instances, and TLAPS proofs of what holds for every value of the constants.
Every definition is translated from the source; `PROJECT.json` maps each one to
the lines it stands for.

## 1. The system

SampleRateTap is a header-only C++20 library of three sample rate converters,
their C ABIs and a few applications.

| part | source | state | operations | hard about it |
|---|---|---|---|---|
| async: ring | `async/.../spsc_ring.h` | buffer, head, tail, each side's cached copy of the other's index | write, write_available (producer); read, read_available, discard (consumer) | two threads without locks; stale and cached indices; index wraparound on 32-bit targets |
| async: converter | `async/.../converter.h` | ring, resampler, servo, setpoint and levels, filling flag, fade, telemetry atomics | push (producer), pull, reset_from_consumer (consumer), status (anyone), validate | the producer runs between any two steps of pull; overrun, underrun, resync, refill; a setpoint raised at run time against a fixed ring |
| async: resampler | `async/.../polyphase_filter.h` | delay line, pop scratch, 64-bit phase, primed flag | reset, prime, process, buffered_frames, mu | slips found by unsigned wraparound; a source that runs dry in the middle; compaction |
| async: servo | `async/.../pi_servo.h` | stage, hold timer, averages, integrator, smoothers | update, reset, seed, set_target | one hold timer for two promotions; demotions, resets and zero-length blocks in any order |
| bridge: schedule, converter | `bridge/.../schedule.h`, `converter.h` | delay line, position in the superblock, pending inputs | process, pull, flush, reset, outputs_for, frames_needed | closed-form counts over floors that the loops trust without a check; pull stopping anywhere |
| rational: stage, chain | `rational/.../stage.h`, `chain.h` | as bridge, or a decimation phase and a line per branch | the same | as bridge; a chain sizes scratch by a bound on outputs |
| filter banks and tables | `async/.../polyphase_filter.h`, `bridge/.../phase_table.h` | constant after construction | read by the engines | an extra row at the seam, half a table read backward, two layouts |
| rational: ratios, design, chain names | `rational/.../ratio.h`, `design.h`, `chain.h` | none | pins, divisors, named chains, validate | what is pinned, what is searched, what is rejected |
| rational: coverage matrix | `rational/tools/coverage/matrix.py` | heap, settled chains | the search for the chain between two rates | two keys in one search; a rule that reprices |
| C ABIs | `*/capi/*.cpp` | an opaque handle, a format tag | create, destroy, calls by format | each allocation may be refused; unknown tags; key aliasing |
| Pico 2 dual core | `async/examples/pico2_dualcore/main.cpp` | converter pointer, stop, done, seqlock | phase handoff and teardown between cores | each core waits for the other; snapshot coherence |
| ALSA bridge | `async/examples/alsa_bridge.cpp` | stop flag, two telemetry seqlocks, two PCM devices | set-up, capture, playback, report, join | failure of one thread; xrun recovery; positions read behind the hardware |
| UAC2 device | `async/examples/pico2_uac2/main.cpp` | endpoint FIFO, DLL, status queue | service_out, IN callback, status | priming, backlog skip, dropped status |

How they interact: the producer thread calls `push()`, which writes whole frames
into the ring. The consumer thread calls `pull()`, which may raise the setpoint,
measures the backlog (ring plus what the resampler has staged), waits in
*filling* until it reaches the fill level, primes the resampler from the ring,
drops an excess (hard resync), asks the servo for a rate deviation and lets the
resampler synthesize the block, popping from the ring as it goes. Running dry
sends it back to *filling*. The synchronous engines (bridge, rational) are single
threaded: the caller pushes blocks through `process()` or pulls with a source
callback, and both must give the same stream.

`tap::dsp` (kernels, the filter designers, the chain template) is a submodule whose
directory is empty in this tree. The chain template is modelled, as external, from the
contract `stage.h` and `chain.h` state and rely on; of the rest nothing is.

### What makes each component correct

- **ring**: a FIFO; no slot is touched by both threads; index wraparound does not
  show; nothing published is stuck behind a cached index.
- **converter**: never more in the ring than it holds; priming never runs dry;
  the resampler's preconditions hold on every path; every setpoint it can raise
  to fits the ring, so filling ends; a fresh start delivers its block; the fade
  ramp goes on from pull to pull and starts afresh at each fill; the published state
  survives short and early returns.
- **resampler**: every output from a full window in source order; the read
  position is exactly the sum of the requested steps.
- **servo**: promotions only after an unbroken hold of their own, handing over
  the average of that hold; outputs clamped; settles when the error does and blocks have frames.
- **bridge**: output n is computed when input floor(nM/L) has arrived, whatever
  mix of calls; the sizing functions are exact; no read past the block; every
  output is the textbook convolution, out of half a table.
- **rational**: each stage likewise, and a chain of them; sizing exact and least,
  the scratch never overrun, a flush equal to zero padding.
- **coverage matrix**: the search finds the least work for every number of stages,
  and what it chooses exists by name and pin.
- **C ABIs**: nothing leaks; a handle is what was asked for; a rejection is NULL.
- **examples**: a converter never outlives or precedes its phase; a stop or a failure
  ends the program; published numbers are true; each frame leaves once.

## 2. Modules

| module | models | notes |
|---|---|---|
| `SpscFifo` | what the ring promises | abstract: a queue, Put / Take / Drop of a batch |
| `SpscRing` | `spsc_ring` | one action per atomic access and per element of a memcpy; refines `SpscFifo` |
| `SpscRingProofs` | | the ring's theorems |
| `ConverterSizing` | the converter's level arithmetic | operators only |
| `PhaseStep` | the phase accumulator | operators only, shared by the next |
| `FilterBank` | the polyphase bank, its extra row, the blended coefficients | operators only |
| `AsyncConverter` | `basic_converter` and the resampler it drives, two threads | MC module `AsyncConverterMC` |
| `AsyncConverterProofs` | | theorems on sizing and on the converter, and on the servo's hold and clamps |
| `Resampler` | `fractional_resampler` with its frames followed one by one | MC module `ResamplerMC` |
| `ResamplerProofs` | | theorems on the read position and on the window |
| `PiServo` | `pi_servo` | MC module `PiServoMC` |
| `Schedule` | bridge's schedule and sizing arithmetic | operators only |
| `ScheduleLemmas` | | division, the schedule and its closed forms, for the proofs of both engines |
| `PhaseTable`, `BridgeDesign` | bridge's half table; the normalized prototype | operators only |
| `BridgeConverter` | bridge's `basic_converter` | MC module `BridgeConverterMC` |
| `BridgeProofs` | | theorems on the schedule, the counts, the convolution |
| `ExactRate` | what both synchronous engines promise | abstract: inputs taken, outputs made |
| `RationalStage` | rational's `basic_stage` | refines `ExactRate` |
| `RationalProofs` | | theorems on the stage: convolution, exact rate, sizing |
| `Chain` | two stages, each alone or composed | extends `RationalStage`, instantiates it for the second |
| `ChainProofs` | | theorems on the chain; takes the second stage's from an instance of `RationalProofs` |
| `RationalDesign` | ratios, rates, divisors, profiles, pins, named chains | operators only |
| `CoverageMatrix` | the search of `matrix.py` | MC module `CoverageMatrixMC` |
| `CAbi` | creation, calls and destruction through the three C ABIs | MC module `CAbiMC` |
| `Seqlock` | the sequence lock of the dual-core and the ALSA example | one action per atomic access, with its memory order |
| `DualCore` | `pico2_dualcore/main.cpp`, both cores | extends `Seqlock` |
| `AlsaBridge` | `alsa_bridge.cpp`, three threads and two devices | |
| `Uac2Device` | `pico2_uac2/main.cpp`, both directions | |
| `PeripheryProofs` | | theorems on `AlsaBridge`, `DualCore` with its lock, `Uac2Device`, `CAbi` and `CoverageMatrix` |

### SpscRing
`head` and `tail` are kept as unbounded counts and every computation of the
model wraps them modulo `IndexModulus` first, as `std::size_t` does; only the
properties look at the unbounded values. An acquire load may return any value of
the other side's index not older than what this thread has seen:
`tailStores` / `headStores` are those values. Slot contents are element numbers,
so loss, duplication and reordering are visible. A call is idle -> (refresh) ->
copy, one element per step -> publish; `discard()` skips the copy and stores even
when it drops nothing. The capacity is a power of two in the code; the model only
needs that it divides `IndexModulus`, and `% Capacity` stands for the mask.
`SpscFifo`'s queue is `Held`, what the slots from tail to head hold.

### AsyncConverter
The ring appears at frame granularity with only its length: both sides move
whole frames and `SpscRing` shows it is a FIFO. A stale acquire load by the
consumer is a push that has not happened yet, a stale one by the producer a pull
that has not happened yet, so both are interleavings of this model.
`push()` is two steps (decide, publish); `pull()` is PullStart (raise, backlog,
filling test), Prime once per frame, Seed, Resync, UpdateServo, then ProcessAppend /
ProcessEmit once per input and output frame, and PullDone or Underrun. The
deviation an update returns is any of `EpsRange`, which knows of the servo only its
clamp: `validate` accepts at most 100 000 ppm and the servo clamps at one and a half times
that (`converter.h:448`, `pi_servo.h:159`), below a quarter of a frame per output. `m_effective_target`
mirrors `target` and has no variable of its own; the ring's constructor rounds a
capacity that is already a power of two, so its second rounding is the identity.
Three history variables record what no code variable does: frames since the last
fill, whether a dry return happened since the last reset, and whether this pull
refilled or resynced.

### FilterBank, Resampler
The delay line holds frame numbers, per channel and in both layouts (`ChannelCounts`
on both sides of `MinInterleaved`), and is compacted as the code compacts it. The
source delivers any part of what is asked; `SourceCut` is the converter's hard
resync between two calls. `reset()` and `prime()` come in pairs, as in `pull()`.

The prototype of the bank is a ramp that falls to zero at its end. A coefficient's
value then says where on the prototype it was taken, a blended one included, so that
`Interpolates` can compare each output's weights with the prototype at each frame's
distance from the read position: an error in a row, in the extra row, in the split
of the phase into branch and factor, or in the base of the window shows as a
coefficient taken elsewhere. Quantization is left out. The extra row is row 0 a tap
later; the prototype's coefficient 0 falls off at the seam, and is zero.
`Fractions` are the factor's widths, one per sample format, and `MuRange` that of the
double path, which is off by one step at most.

### PiServo
The two smoothed errors are inputs chosen freely at every update, which covers
`seed()` and `set_target()` (they only move the smoothers and the target those
errors are made of). Gains, errors and deviations are small integers; the
exponential average is any integer between its operands (or unmoved for a block
of length zero, where the code's factor is exactly 0).

### Schedule, BridgeConverter
`hist` holds input numbers, the silence of a reset ending at 0. `process()`
keeps its loops' own conditions: nothing in the model stops it at the end of its
block, `NeverOutrunsInput` shows it stops by itself. `promise` is what
`outputs_for()` / `frames_needed()` answered when the call began. The four
compile-time dispatches over tap counts and channel counts run the same walk.

The prototype is any function with linear phase; `PhaseTable` stores the lower half of
its branches and reads the upper ones backward. The instance takes
`BridgeDesign!Normalized`: no two coefficients of a half alike and every branch
divided by its sum, so that TLC also evaluates that normalizing keeps the symmetry
the half table needs.

### ExactRate, RationalStage, Chain
`ExactRate` knows two counts: an input is taken only while the next output still
waits for it, and output n is made exactly when input floor(nM/L) is the newest.
`BridgeConverter` and `RationalStage` both have it as a property, with their
history counts `fed` and `made` for the refinement, so any mix of calls on either
engine is one and the same stream. `RationalStage` is two machines in one module,
as the class is behind its `if constexpr`: the decimator's loop body (append, emit
at phase 0, advance) is one step, `ProcessDecimate` or `FlushDecimate`.
A coefficient is its index in the design; `Coefficients` is where `build_table()`
puts it and `Products` what `emit()` multiplies it with, so `StagesConvolve` can
compare with the definition of resampling: insert L - 1 zeros, filter, keep every
M-th. The zero runs `trim_row()` cuts off a row are products with zero and are
kept. `window_frames()` of zeros is what `flush()` feeds.

`Chain` extends `RationalStage` as its first stage and instantiates it as its second.
A behaviour drives the first alone, the second alone, or the chain (`used`); a
chain may be composed of a stage that was in use, with outputs banked by a `pull()`,
and resets it. `process()` cuts its input into chunks, each through the first stage
into a scratch and on; `flush()` pads one stage after the other.

### RationalDesign, CoverageMatrix
Fractions are pairs. `RationalDesign` holds the tables of `design.h` (profiles and
pinned lengths), the divisor a stage is designed at, what `validate()` rejects, the
work per output, and the named chains of `chain.h`.

`CoverageMatrix` runs `chains_by_stage_count()` step by step, a `Pop` each for the
heap, then `best_chain()`: the cheapest, the second search with its one bridge, the
fewest-stages rule. Rates are in units of 25 Hz; a chain is its rates. The lengths
`search_m()` finds are the pins: they are what the search printed, and a divisor
above the last pinned one has that one's length. Where the heap compares chains
alike in work, stages, latency and rate the model takes any of them. The profile is
economy, the one that fixes the chains; `Costable` prices them under the others.

### CAbi
One library and one handle at a time, built with exceptions or without. Creation is
a step per object (wrapper, factory, engine), each refused its memory or not, and
`Unwind` is what the destructors then free. The dispatch is modelled with its tags
and keys, the size arithmetic of `config::validate` with `% (SizeMax + 1)`.

### Seqlock, DualCore
A store to `seq` is its number, a store to a payload field the number of the
publication it belongs to. A relaxed or acquire load returns *any* store from the
newest the reader is sure of (`seqFloor`, `fieldFloor`) to the newest there is, so
the model is not limited to interleavings. The floors rise only by what C++ makes
happen before the load: an acquire load of an even mark brings the payload stored
before it; the acquire fence brings, for every field loaded, the odd mark that the
writer's release fence put before it (`fenced`). `OneInstant` is what the lock is for,
and needs all of it.

`DualCore` keeps both cores' control: core0 constructs, announces, hands over,
reads telemetry, stops, waits for done, reads the last snapshot, clears the
pointer and destroys; core1 takes the pointer, publishes zeros, pulls and publishes
until stopped, publishes its last word, sets done, and waits for the pointer to be
null. The converter is only the number of the phase it was built for; what `push()` and
`pull()` do to it is `AsyncConverter`'s. The flags are waited for by loops that load
one value again and again, where a stale load is one more turn. Skipping a phase
(a refused configuration or allocation) is free.

`ReportOutlastsSpin` is an assumption on timing and nothing in the code enforces it: between
clearing the pointer and publishing the next one core0 prints a line and
designs a filter, and core1 is taken to look at the pointer in that time. With the
constant FALSE TLC finds the schedule in which core1 does not look: it then waits at
`main.cpp:271` for a null that has come and gone, while core0 waits at `main.cpp:469`
for it, for ever. `ConverterOutlivesPulls`, `FinalIsLast` and `OneInstant` hold without the
assumption.

### AlsaBridge
main is the sequence of its set-up (each stage may fail and leave with its exit
code), the start of one thread after the other, the loop, and the two joins; each audio
thread is its loop. What nobody catches (`Uncaught`: the converter's constructor, a thread
that cannot be started) ends the process with its threads, and need not close anything.
A device is a state, frames in its buffer and the frames its hardware has moved; `Tick` moves
one at any time, with an xrun at the end of the buffer. Transfers are short at will or
fail; a recovery restarts a device, leaves it as it is (an interrupted or a resumed
transfer) or fails. `pulled` counts the stream by blocks pulled, so a block left unfinished
before the next pull is a gap in `StreamIsWhole`. `PositionsAreTrue` speaks of a device until
its first counted recovery: what a recovery drops is in no count of the program's. A
publication through the telemetry's sequence lock is one step, which `Seqlock` justifies.

### Uac2Device
The two directions share only the main loop and are taken one at a time (`uses`).
Capture is the DLL in integer nanoseconds, with the firmware's own constants, polls
one, four or seven USB frames apart and callbacks up to 5.9 ms late; `Packet` has the unsigned
arithmetic of what is owed. Playback is the endpoint's FIFO in frames, primed and
drained, with the alternate setting switched at any moment; a status line a second
goes into a queue that may be full.

## 3. Runs

| run | instance | what it shows |
|---|---|---|
| `ring` | 2 slots, indices modulo 4, requests up to 3, 9 elements, fair | both counters wrap past the modulus twice while both threads are mid-copy; occupancy exact, no slot race, refinement of `SpscFifo`; everything published is eventually read |
| `converter` | 5 channels in 64 elements (12 frames), setpoint 2, 3 taps, chunk 2, a phase of 4 steps, deviations -1..1, pulls of 0, 1 and 8, pushes of 1 and 4, fair | overruns, underruns, resyncs, raised setpoints (to the cap) and restarts all occur; filling ends although a block needs nearly the whole ring |
| `resampler` | phase of 8 steps, 2 branches, factors of 2 and 4 steps, 3 taps, 1 to 3 channels, deviations -4..3 | forward and backward slips, dry slips, compaction at every offset, cuts; every blended coefficient at its place |
| `servo` | clamp 2, thresholds 2 and 3, holds 3 and 4, blocks 0, 1, 2, fair | every promotion and demotion, from every timer value; calm errors lead to the quiet stage |
| `bridge` | 5/3, 4 taps, 3 slack frames, 60 inputs | advances 0 and 1; an odd L, so that the middle branch mirrors itself; calls of every kind from every position and history offset |
| `chain` | 3/2 with 7 taps, then 1/3 with 5 taps; chunks of 2; 21, 30 and 15 inputs | phases out of order (0, 2, 1), the sub-line rotation, outputs banked by a `pull()`, stages composed at any moment, chunk and scratch bounds |
| `uac2` | the firmware's constants, 6 packets, offsets of 0 and +-1000 ppm; FIFO of 4, chunk of 2, one status line, 3 seconds | lost clocks, resyncs, skipped backlogs, re-priming, dropped lines |
| `alsa` | periods and buffers of 2 frames, 3 frames of life per device, fair | a failure, uncaught exception, xrun, short transfer or SIGINT at every step that can meet one |
| `cabi` | `size_t` of 16 bits, every named chain, tags -1 to 4, channels 0, 2, 70 and 9000, factors of every ratio of the vocabulary, 0 and 257 | every allocation refused once, wrapped size products, unknown and aliasing keys, divisors with a pin, without one and infeasible |
| `matrix` | 56 pairs of rates: every ratio within the families that needs two stages, and both ways between them | the second search, the rule that prefers fewer stages, tightened divisors |
| `dualcore` | 3 phases, 2 payload fields, 2 telemetry reads and 2 mid-phase digests per phase, fair | phases run and skipped in any mix, reads overlapping several publications, stale loads of mark and payload |
| `converter_resync` | | a statement of the source's comments that the code does not meet, see section 6 |

The bounds are enough for the cases named above to occur: each passing run fires
every action of its module, and each property is shown to fail when one line of
the modelled code is changed the way a plausible bug would (the `mutants` of
`PROJECT.json`; the changed definitions are marked "Fault" in the modules).
`MaxElements`, `MaxFrames`, `MaxRequest`, `MaxReads`, `MaxDigests`, `MaxChain`, `Phases`, `Life`,
`Polls`, `Seconds`, `Pairs`, the block sizes, `Errors`, `Dts`, `Cuts` and `Blocks` are bounds of the
model and not of the code; everything else is a parameter of the code. Deadlock is checked except in
`uac2`, `cabi`, `alsa` and `matrix`, whose programs end: the firmware at its bound, a process that
terminated or exited, a search that is done.

### Fairness
- ring: both threads finish the calls they began (straight-line code), the
  consumer keeps calling `read()` (an audio callback does), and a load repeated
  for ever returns the newest store eventually (what C++ asks of atomic stores).
- converter: both callbacks keep coming and each call returns; restarts are free,
  and `FillEnds` excuses a converter restarted for ever. The block sizes remain
  free, so a consumer pulling only empty blocks is included.
- servo: `update()` keeps being called with blocks of at least one frame. A pull of zero frames
  leaves the hold timer where it is, so `SettlesQuiet` would not hold of a consumer that pulls
  nothing else; `PromotionIsEarned` has such pulls at any point.
- ALSA: the three threads are scheduled (weak fairness of each); a blocking
  transfer is a step and so returns at last, with an error if its device is silent,
  and nothing forces the hardware to move.
- dual core: both cores keep running (each is alone on its processor), a load of
  the sequence number repeated for ever eventually returns the newest store, and
  `ReportOutlastsSpin`.

## 4. Proofs
All for arbitrary constants under the assumptions named in the modules, checked
by `tlapm`; each module is one inductive invariant, the lemma per action that
keeps it, and the theorems read off it.

- **`SpscRingProofs`** (assumes `CapacityAssumption`, `ModulusAssumption`: the
  capacity divides the index range and is below it). `WraparoundBenign` and
  `NoSlotRace` are not inductive: they say nothing about the loads still to come.
  `RingInv` adds the order of the six indices (tailCache <= every loadable tail
  <= tail <= headCache <= every loadable head <= head <= tailCache + Capacity), what a call under way has
  been promised, and that every slot from tail up to the copy under way holds its
  element. From it: type correctness, exact modular occupancy, no slot race,
  reads in order. `RingIsFifo` takes the refinement step by step: a publication appends
  to `Held` the run of elements the copies left in the slots (`RunsJoin`), a read or discard
  takes its front (`RunSplits`), and every other action leaves it as it is.
- **`AsyncConverterProofs`** (assumes `SizesAssumption`, `BlocksAssumption`,
  `EpsAssumption`, `ConfigAccepted`: the ring is larger than the watermark of the
  configured setpoint, which the constructor checks). `FilterServed` needs to
  know that a filling converter has nothing in the scratch that `reset()` throws
  away and that each frame `prime()` still needs is in the backlog; `StagesOfPull`
  says so for every stage of a pull, `Ramp` says how far the fade is while frames
  are being made. `LevelsFit` rests on the arithmetic lemma `AnySetpointFits`:
  for every ring size, tap count and latency, `m_max_target_frames` keeps the
  start-up level and the watermark below the capacity.
  `FreshInv` is what makes `FreshStartDelivers` inductive: while a pull that refilled or
  resynced runs, ring and scratch together hold the frames its remaining outputs can still
  take (`ToGo`, counted from the phase by `ToGoSteps`), because fill level and setpoint cover a
  block plus its margin (`SetpointCoversBlock`) and the clamp keeps the deviation below a quarter of a
  frame. Nothing else is assumed of the servo.
- **`ResamplerProofs`** (assumes `PhaseAssumption`, `TapsAssumption`, `ResamplerAssumption`; the
  deviation is below one frame). `Position` follows the sum (frames appended +
  frames owed to the output under way) x 2^64 + phase through `prime()` and
  `process()`; `AdvanceMatchesWrap` is the reason it is exact: what the
  wraparound test adds to or takes from the nominal frame is what the phase lost
  or gained. From it: `ReadPosition`, no drift and a dry return at most one frame off.
  `LineInv` follows the frames through delay line and scratch: ascending, a gap only where the
  source was cut and none within the last `sinceCut` frames, and after a compaction still a
  window (`PushedShape`, `StoredKeepsLine`). With `BankAssumption`, `TableIsPrototype` (the
  extra row included), `BlendIsPrototype` and `PhaseRowIsPrototype` show the coefficient of a phase to be the prototype at
  that phase, `MuRowIsPhaseRow` bounds what the double path is off, `LayoutsAgree` that both
  layouts find the same window. Together: `Interpolates`.
- The servo, in the same module (assumes `ServoAssumption`: positive holds, gains and thresholds
  that are no negative numbers). `PromotionIsEarned` is kept by a hold that goes on
  (`HoldKeeps`: timer and observer add the same block, the average moves between the
  deviations observed) and by everything that starts one over (`StartOverKeeps`);
  `HoldIsOpen`, a hold under way is shorter than its stage asks for and the last stage has none, is
  what makes it inductive, for a demotion out of the last stage and for the observer's cap.
  From it: the clamps, and promotions that rest on their own hold and hand over its average.
- **`BridgeProofs`** (assumes `RatioAssumption`, `TapsAssumption`, `PrototypeAssumption`
  (linear phase), `ConverterAssumption`). `Owed`
  ties what a call has left to do to the closed forms evaluated at the *current*
  position, which is what makes it inductive: `TakenInputIsCounted` and
  `MadeOutputIsCounted` show one input or one output changes the closed form by
  exactly its share, across the end of a superblock too. From it: the exact
  schedule, the refinement of `ExactRate`, `process()` inside its block, true sizing companions, intact windows,
  and the output bound chains rely on. `PhaseOfPosition` (the phase of output n is nM
  mod L) and `HalfTableIsWhole` (a mirrored branch is the branch) turn the intact window into
  the textbook convolution, `IsConvolution`.
- **`RationalProofs`** (assumes `RatioAssumption`, `StageAssumption`). Two machines share the
  module, so `StageInv` says of each what ties it to the schedule (`OnSchedule`): the L-phase
  one is at phase nM mod L, the decimator at input phase fed mod M, and either waits for the one
  input output n is due at. `StageConvolves` needs every row of the line to hold
  the newest inputs of its branch, at the right sub-line and through compactions
  (`Dealt`, kept by `AppendKeepsRow` and `TakeKeepsLines`); `TapIsInput` and `CoefficientIsTap` then show that what
  `emit()` multiplies is coefficient k with input (nM - k) / L and nothing else, the rotation
  (M - j) mod M included, and that the gaps it skips are products with zero. `SizingIsSchedule`
  turns both companions into the schedule's closed forms at the *current* position, and a call under way
  owes exactly that (`Owed`; `SizingAfter`, `CallConserves`). A stage is driven by its own `Next` or by a chain: the lemmas are about `Driven`,
  the steps either takes, so they serve both. From it: type correctness (no line outgrows its
  buffer), convolution, true and least sizing, the bound a chain sizes its scratch by, and
  the refinement of `ExactRate`.
- **`ChainProofs`** (assumes `ChainAssumption` besides). `S`, the instance of `RationalProofs` at the second
  stage's state, supplies that stage's theorems once `ChainDrives` shows the chain's steps to be a stage's.
  `ChainInv` adds whose turn it is (`Turns`), that what `process()` has written and what is still
  to come, through both stages' closed forms, is what `outputs_for()` said (`Owing`), that without a flush
  the second stage was fed what the first made and nothing else (`Passing`), and how many zeros a
  flush has yet to feed (`Padding`). All six properties of the run `chain` are theorems.
- **`PeripheryProofs`** holds five components beside the engines.
  - `DualCore` (no assumption; `ReportOutlastsSpin` is not used). `ReaderInv` holds
    what the memory orders give the reader: a field loaded after an even mark is of that mark's
    publication or shows in `fenced` that a later one has begun, so that a mark that has
    not moved means one publication (`OneInstant`). `Cores` is the hand-over, who may run when
    and what pointer, flags and pace say then; `FinalRead` that in its last read core0 knows of
    every store of core1's.
  - `AlsaBridge` (assumes `BridgeAssumption`: a positive period and buffer).
    `MainAndThreads` says which devices are open and which threads there are at every stage
    of main, `RtIsKnown` that a thread past its request was granted it or has said so,
    `PositionInv` that until a recovery is counted the frames moved by the application, those
    in the buffer and those moved by the hardware add up, and `StreamInv` that the block
    under way continues what the device was given, and that the thread comes back for another
    only with that one done or the stop flag set.
  - `Uac2Device`, the playback side (assumes `DeviceAssumption`). `HalfIsKept`: frames played since
    priming and frames waiting are half a FIFO together, so a FIFO found dry was half played
    (`PrimeIsPlayed`). `RangeOfLevels` ties the running range to the levels seen, the empty
    range to none (`RangeIsOfItsSecond`).
  - `CAbi` (assumes `CAbiAssumption`). `LookedAt` carries what create has looked at from step to step;
    `PassedIsTaken` shows it covers what the constructors reject, for every argument. From it:
    `HeapIsHandles`, and that rejected arguments never end the program, memory refused doing so under
    exceptions only in a search (`OnlyRefusalEnds`). `BuiltAsAsked` carries the engine's arguments, and
    `KeyNamesItsStage` shows that L and M spill into no other stage's key. `RejectionIsNull` and `HandleIsAsked`
    then follow from what the tables say of the 28 named chains and the 14 ratios: that each
    stage has a pin in every profile (`ChainsArePinned`), and that ratios and work come out as stated
    (`TablesAgree`). These two are hypotheses of the theorems without a parameter in them: finitely many
    rows, computed with recursive functions (greatest common divisors, folds), which the run `cabi` goes
    through completely, since it creates every chain and every ratio in every profile. The theorems
    carry them to all channel counts, factors, divisors, formats and orders of refusal.
  - `CoverageMatrix` (assumes `MatrixAssumption`): the search is a shortest-path search by work with one
    label for each rate and number of stages. `SearchInv` is why it is right: what is settled costs no more
    than what waits (`SettledFirst`), every stage on from a settled entry is there at no more work
    (`GoesOn`), every entry came from a settled one at exactly its work (`CameFrom`), one is settled for each
    rate and number of stages (`OneEach`). When the heap is empty, these make what is settled with n + 1
    stages the least that one more stage makes of n (`ThroughIsLeast`), which is `SearchIsMinimal`: for all
    rates, any number of stages, with and without the restriction to one bridge. The
    premise of any such search is a hypothesis, `WorkIsNatural`: no stage has a negative work. In the code a work
    is a count of taps; in the model it is a fold over tables, and TLC finds it natural for the pairs of the run.
    `LeastNatural`, that a set of naturals has a least element, comes from the library's
    well-foundedness of < on the naturals, which needs no operator as a parameter.

The lemmas about quotient and remainder (`DivUnique`, `DivParts`, `WrapOnce`) stand at the head of
the modules that use them. In `PiServo`, `DualCore`, `Uac2Device`, `CAbi` and `CoverageMatrix` the specification's
parts carry the component's name (`ServoInit`, `DualSpec`, `SearchNext`, ...), so that one proof module can extend several.

Type correctness, the exact schedule, the ordered reads, the ring's level, the truth of the
published state, the bridge's windows, both engines' output bound, the stage alone and the C ABIs' formats are
theorems without a run of their own: what the runs check rests on them.

Only model-checked:
- everything under fairness: liveness is outside this prover's reach, as is ENABLED;
- the UAC2 device's capture side. `EveryFrameOnce` holds as long as what is due never falls behind
  what was sent and stays below the range of the counters; both rest on the numbers of the DLL's feedback
  over a bounded number of polls, as `SteadyPackets` does: no statement for every value of the constants.
  Over six polls the loop, of 1 Hz, moves by its proportional term; its integrator hardly counts;
- what the tables say: `ChainsArePinned` and `TablesAgree`, rows that TLC computes in the run `cabi`, and
  `ChosenIsBuildable`, which holds of the pairs of rates there are and of no others: that the chains the search
  chooses are the ones `chain.h` names, at pinned divisors, with one bridge.
`AlsaBridge` takes a publication through the lock as one step because `OneInstant` is a theorem.

## 5. Not modelled
- Numeric code without state: the Kaiser and Nyquist designers and their search, kernels,
  quantization, saturation, the order of summation; the servo's smoothers and its
  convergence; the float telemetry. The lengths a search found are data (the pins).
- The range checks of `config::validate` on its numeric fields; its size arithmetic is in `CAbi`.
- The ALSA bridge's threads allocate their block buffers as they start; a refusal there ends the
  process like those of `Uncaught` and is left out.
- The dual-core example's pacing, histogram and verdict; the UAC2 device's tone,
  control requests, feedback parameters and status text; the ALSA bridge's hardware
  parameters and CSV text; the printing half of `matrix.py`.
- The other examples and the measurement harnesses, which drive the engines in a straight line
  and keep no state of the system; start-up code; tests and book, which are read as statements
  of what the code promises.
- `polyphase_filter.h:242`, a version of `blend_row` that calls `bank.numPhases()`, a
  member the bank does not have: a template nothing instantiates.

## 6. Where comments and code differ
Checked by a run:
- `converter_resync`: the comment at the hard resync (`converter.h:236`) says the
  clamp keeps a setpoint below the staged count from draining the ring. The clamp
  bounds the drop by the ring's content, which `discard()` does by itself; the
  ring is still emptied. It takes a ring small enough to cap the setpoint below
  the staged count (for instance 64 frames, 48 taps, setpoint 7).

Met while modelling:
- The status documentation (`converter.h:112`) says the
  setpoint is raised when blocks larger than the setpoint are pulled and differs
  from the configured one exactly then. The code compares the block plus its
  margin: the 48-frame block against the default 48-frame setpoint raises it.
- `converter.h:451` describes the size products as checked; the automatic floor of
  1024 frames times the channels is not among them. With a `size_t` of 16 bits
  (`SizeMax`) and 70 channels the model wraps it; `HandleIsAsked` and `RejectionIsNull` hold
  all the same.
- `tap_sr_rational_capi.cpp:347` turns a refused allocation into NULL. A single stage at a
  divisor without a pin searches its length inside `basic_stage::validate()`, which is
  `noexcept`: a refusal there terminates, with exceptions too. `RejectionIsNull`
  states this exception.
- The async C ABI takes a profile and a sample rate, and every profile's band edges
  sum to 46 to 48 kHz: no handle is created at 44.1 kHz.
- `matrix.py:203` says the lattice makes a ratio's chain the same in both
  families. 8/3 of 12 kHz is on the lattice and 8/3 of 11.025 kHz is not, so that
  octuple ratios get one chain in one family and another in the other, as `chain.h:189`
  knows.
- The UAC2 README says every packet was 47 to 49 frames: the first of a stream is empty
  (`SteadyPackets` is stated from the second on). A backlog is skipped only past 147
  frames, which takes a lost clock. The frames owed in a drain beyond the first dry chunk are
  in neither count (`main.cpp:187`).
- A device that fails for good ends the ALSA bridge with exit code 0, and the last CSV
  row may predate a recovery.

## 7. Plan
Built: the ring with its proofs; the converter, resampler and servo; the synchronous
engines, chains and designs; the sequence lock and three of the applications; the
C ABIs; the coverage matrix.

Proved: every safety property of the ring, the converter, the resampler, the servo, the
bridge's engine, the rational stage, the chain, the dual-core example and the ALSA bridge; the UAC2
device's playback side; the C ABIs, given what the tables of chains say; that the chain search
settles the least work.

Next, in order of importance:
1. The UAC2 device's packets: a bound on the DLL's error between two resyncs, from which
   `EveryFrameOnce` and `SteadyPackets` would follow for every number of polls.
2. Chains of three stages: `ChainProofs` does it for two, and a chain of two is again driven
   like a stage.
3. Quantization: the coefficient rounding of the fixed-point formats and its effect on a
   branch's sum.
