-------------------------------- MODULE CAbi --------------------------------
(***************************************************************************)
(* The C ABIs (async, bridge and rational capi): creating a converter from *)
(* runtime tags, object by object, each of which may be refused memory;    *)
(* calls in one of the sample formats; destruction.  One library and one   *)
(* handle at a time: handles share nothing.                                *)
(*                                                                         *)
(* NULL is passed to the async library only (its calls return 0 on it) and *)
(* to destroy, where nothing happens: these are not steps.                 *)
(***************************************************************************)
EXTENDS RationalDesign

CONSTANTS
  SizeMax,          \* the largest size_t
  Channels, ManyChannels, \* channel counts asked for; of the async library too, whose sizes may wrap
  SampleRates, Latencies, \* of the async library: Hz, and target_latency_frames
  Factors, StageDivisors  \* of single stages: L and M, and the design divisors

ASSUME CAbiAssumption == SizeMax \in Nat /\ Channels \cup ManyChannels \cup Latencies \cup Factors \subseteq Nat

VARIABLES
  lib,         \* the library of this behaviour
  exceptions,  \* TAP_DSP_HAS_EXCEPTIONS: whether it was built with them
  asked,       \* the arguments of the create under way or of the live handle
  step,        \* where create stands: "none", "wrapper", "factory", "engine"; or "live"; or "terminated"
  heap,        \* history: wrappers and engines allocated and not freed
  engine,      \* the engine behind the handle
  moved,       \* history: formats in which a call moved frames
  refused      \* history: whether memory was refused in the create under way or last

abiVars == <<lib, exceptions, asked, step, heap, engine, moved, refused>>

NoArgs   == [kind |-> "none"]
NoEngine == [format |-> -1]
Free     == [wrapper |-> 0, engine |-> 0]

Formats == {0, 1, 2}  \* FLOAT, Q15, Q31
Tags    == -1..4      \* of profiles and formats, unknown ones too

AbiInit ==
  /\ lib \in {"async", "bridge", "rational"} /\ exceptions \in BOOLEAN
  /\ asked = NoArgs /\ step = "none" /\ heap = Free /\ engine = NoEngine
  /\ moved = {} /\ refused = FALSE

-----------------------------------------------------------------------------
(* async: the C ABI's profiles, and config::validate() of what it sets.     *)
Spec3 == <<[phases |-> 128, taps |-> 32, pass |-> 18000, stop |-> 30000, zeros |-> FALSE],
           [phases |-> 256, taps |-> 48, pass |-> 20000, stop |-> 28000, zeros |-> TRUE],
           [phases |-> 512, taps |-> 80, pass |-> 20000, stop |-> 26000, zeros |-> TRUE]>>

FilterOf(a) == Spec3[a.profile + 1]
TargetOf(a) == IF a.latency = 0 THEN 48 ELSE a.latency

MulOk(a, b) == b = 0 \/ a <= SizeMax \div b

BitCeil(n) == Min({x \in {2^i : i \in 0..30} : x >= n})

(* ring_capacity_elems(), with an automatic ring; products wrap.            *)
RingElems(target, taps, channels) ==
  BitCeil((Max({1024, 4 * (target + taps)}) * channels) % (SizeMax + 1))

RingTooSmall(a) ==
  LET target == TargetOf(a)
      taps   == FilterOf(a).taps
  IN RingElems(target, taps, a.channels) \div a.channels <= Max({3 * target, target + taps + target})

(* What the filter bank's constructor rejects.                              *)
BankRejects(f, rate) ==
  \/ rate <= 0 \/ f.taps < 4 \/ f.phases < 2 \/ (f.zeros /\ f.taps < 8)
  \/ f.pass <= 0 \/ f.stop <= f.pass \/ f.stop > rate

(* Fault: the sizes of the ring are not looked at.                          *)
ConfigRejectedUnsized(a) ==
  LET f == FilterOf(a) IN
  \/ a.channels = 0 \/ TargetOf(a) = 0 \/ a.rate <= 0
  \/ f.pass + f.stop > a.rate \/ BankRejects(f, a.rate)
  \/ ~MulOk(f.phases + 1, f.taps)

(* config::validate(); the servo's defaults always pass, and fifo_frames is *)
(* left at 0.                                                               *)
ConfigRejected(a) ==
  LET f == FilterOf(a) IN
  \/ a.channels = 0 \/ TargetOf(a) = 0 \/ a.rate <= 0
  \/ f.pass + f.stop > a.rate \/ BankRejects(f, a.rate)
  \/ ~MulOk(f.phases + 1, f.taps)
  \/ ~MulOk(TargetOf(a) + f.taps, (8 * a.channels) % (SizeMax + 1))
  \/ RingTooSmall(a)

-----------------------------------------------------------------------------
(* bridge: profile tags, validate_profile() and basic_converter::validate().*)
BridgeProfiles == <<[pass |-> 18000, atten |-> 70, taps |-> <<38, 58>>],
                    [pass |-> 20000, atten |-> 120, taps |-> <<96, 184>>],
                    [pass |-> 19000, atten |-> 70, taps |-> <<44, 78>>],
                    [pass |-> 16000, atten |-> 70, taps |-> <<28, 40>>]>>

StopbandEdge  == <<24000, 22050>>
BridgeRatios  == <<<<160, 147>>, <<147, 160>>>>

BridgeRejected(a) ==
  LET p == BridgeProfiles[a.profile + 1] IN
  \/ a.channels = 0 \/ p.pass <= 0 \/ p.pass >= StopbandEdge[a.direction + 1]
  \/ p.atten <= 0 \/ p.taps[a.direction + 1] < 4

-----------------------------------------------------------------------------
(* rational: profile_for(), and the two factories' dispatch.                *)
ProfileFor(tag) == <<"economy", "transparent", "balanced", "super_economy">>[tag + 1]

(* make_single(): the ratio found under the key (L << 8) | M, or none.  L   *)
(* and M are below 256 by then (ArgumentsPass): the or is a sum.            *)
SingleRatio(l, m) == {r \in Vocabulary : 256 * r[1] + r[2] = 256 * l + m}

(* Each stage with the profile it is built at; empty when the tags name     *)
(* nothing.                                                                 *)
StagesOf(a) ==
  IF a.kind = "chain" THEN NamedChains[a.chain + 1]
  ELSE SetToSeq(SingleRatio(a.L, a.M))

StageProfiles(a) ==
  IF a.kind = "chain"
  THEN [i \in 1..Len(StagesOf(a)) |-> Relaxed(ProfileFor(a.profile), ChainDivisors[a.chain + 1][i])]
  ELSE [i \in 1..Len(StagesOf(a)) |-> Relaxed(ProfileFor(a.profile), Reduced(a.divisor))]

RationalRejected(a) ==
  \E i \in 1..Len(StagesOf(a)) : StageRejected(StagesOf(a)[i], a.channels, StageProfiles(a)[i])

(* Whether validate() runs the design search before it comes to a reason.   *)
RationalSearches(a) ==
  \E i \in 1..Len(StagesOf(a)) :
    /\ Searches(StagesOf(a)[i], StageProfiles(a)[i])
    /\ \A j \in 1..(i - 1) : ~StageRejected(StagesOf(a)[j], a.channels, StageProfiles(a)[j])

(* Fault: the rate ratio moved on before it is used.                        *)
MacsFoldEarly(stages, macs) ==
  LET after[i \in 1..Len(stages)] ==
        IF i = Len(stages) THEN Reduced(<<stages[i][2], stages[i][1]>>)
        ELSE Times(after[i + 1], <<stages[i][2], stages[i][1]>>)
  IN FoldFunction(Plus, <<0,1>>, [i \in 1..Len(stages) |-> Times(<<macs[i], stages[i][1]>>, after[i])])

(* stage_fold(): from the last stage back.                                  *)
MacsFold(stages, macs) ==
  LET after[i \in 1..Len(stages)] ==
        IF i = Len(stages) THEN <<1,1>>
        ELSE Times(after[i + 1], <<stages[i + 1][2], stages[i + 1][1]>>)
  IN FoldFunction(Plus, <<0,1>>, [i \in 1..Len(stages) |-> Times(<<macs[i], stages[i][1]>>, after[i])])

-----------------------------------------------------------------------------
(* The three libraries behind one face.                                     *)

(* Fault: L and M of any size.                                              *)
ArgumentsPassAnySize(a) ==
  CASE a.kind = "async"  -> a.profile \in 0..2 /\ ~ConfigRejected(a)
    [] a.kind = "bridge" -> a.direction \in 0..1 /\ a.profile \in 0..3 /\ a.channels # 0 /\ ~BridgeRejected(a)
    [] a.kind = "chain"  -> a.chain \in 0..27 /\ a.profile \in 0..3 /\ a.channels # 0
    [] a.kind = "stage"  -> a.profile \in 0..3 /\ a.channels # 0 /\ a.divisor[1] # 0 /\ a.divisor[2] # 0

(* What create looks at before it allocates.                                *)
ArgumentsPass(a) ==
  CASE a.kind = "async"  -> a.profile \in 0..2 /\ ~ConfigRejected(a)
    [] a.kind = "bridge" -> a.direction \in 0..1 /\ a.profile \in 0..3 /\ a.channels # 0 /\ ~BridgeRejected(a)
    [] a.kind = "chain"  -> a.chain \in 0..27 /\ a.profile \in 0..3 /\ a.channels # 0
    [] a.kind = "stage"  -> /\ a.L <= 255 /\ a.M <= 255 /\ a.profile \in 0..3 /\ a.channels # 0
                            /\ a.divisor[1] # 0 /\ a.divisor[2] # 0

(* What the factories then turn down without an exception.                  *)
FactoryRejects(a) ==
  a.format \notin Formats \/ (lib = "rational" /\ (StagesOf(a) = <<>> \/ RationalRejected(a)))

(* What the constructors reject, by an exception where there are any.       *)
ConstructorRejects(a) ==
  CASE a.kind = "async"  -> BankRejects(FilterOf(a), a.rate) \/ RingTooSmall(a)
    [] a.kind = "bridge" -> BridgeRejected(a)
    [] OTHER             -> RationalRejected(a)

EngineOf(a) ==
  CASE a.kind = "async"  -> [format |-> a.format, ratio |-> <<1,1>>]
    [] a.kind = "bridge" -> [format |-> a.format, ratio |-> BridgeRatios[a.direction + 1]]
    [] OTHER ->
         LET taps == [i \in 1..Len(StagesOf(a)) |-> StageTaps(StagesOf(a)[i], StageProfiles(a)[i])]
         IN [format |-> a.format, ratio |-> ChainRatio(StagesOf(a)),
             macs |-> MacsFold(StagesOf(a), taps), taps |-> taps]

-----------------------------------------------------------------------------
(* Create begins: NULL at once, or the first object.                        *)
Create(a) ==
  /\ step = "none" /\ ArgumentsPass(a)
  /\ asked' = a /\ refused' = FALSE
  /\ step' = IF lib = "async" THEN "factory" ELSE "wrapper"
  /\ UNCHANGED <<lib, exceptions, heap, engine, moved>>

ReturnNull == step' = "none" /\ asked' = NoArgs /\ heap' = Free

(* Fault: the wrapper is a plain pointer until it is returned.              *)
UnwindWrapperLeaks ==
  IF exceptions THEN step' = "none" /\ asked' = NoArgs /\ UNCHANGED heap
  ELSE step' = "terminated" /\ UNCHANGED <<asked, heap>>

(* An exception is caught at the boundary, the owners on the way freeing    *)
(* what they hold; without exceptions the program ends.                     *)
Unwind ==
  IF exceptions THEN ReturnNull ELSE step' = "terminated" /\ UNCHANGED <<asked, heap>>

AllocateWrapper ==
  /\ step = "wrapper"
  /\ \/ step' = "factory" /\ heap' = [heap EXCEPT !.wrapper = @ + 1] /\ UNCHANGED <<asked, refused>>
     \/ refused' = TRUE /\ Unwind
  /\ UNCHANGED <<lib, exceptions, engine, moved>>

(* The dispatch over the tags and the factory's validate(), which is        *)
(* noexcept: a search refused memory ends the program.                      *)
Factory ==
  /\ step = "factory"
  /\ \/ FactoryRejects(asked) /\ ReturnNull /\ UNCHANGED refused
     \/ ~FactoryRejects(asked) /\ step' = "engine" /\ UNCHANGED <<asked, heap, refused>>
     \/ /\ lib = "rational" /\ asked.format \in Formats /\ RationalSearches(asked)
        /\ refused' = TRUE /\ step' = "terminated" /\ UNCHANGED <<asked, heap>>
  /\ UNCHANGED <<lib, exceptions, engine, moved>>

AllocateEngine ==
  /\ step = "engine"
  /\ \/ /\ ~ConstructorRejects(asked)
        /\ step' = "live" /\ heap' = [heap EXCEPT !.engine = @ + 1]
        /\ engine' = EngineOf(asked) /\ moved' = {} /\ UNCHANGED <<asked, refused>>
     \/ /\ ConstructorRejects(asked)
        /\ Unwind /\ UNCHANGED <<engine, moved, refused>>
     \/ refused' = TRUE /\ Unwind /\ UNCHANGED <<engine, moved>>
  /\ UNCHANGED <<lib, exceptions>>

(* The entry points that move frames, one per sample format.                *)
AsyncEntries    == {"push", "pull"} \X Formats
BridgeEntries   == {"process", "flush"} \X Formats
RationalEntries == {"process", "flush"} \X Formats

Entries == CASE lib = "async"    -> AsyncEntries
             [] lib = "bridge"   -> BridgeEntries
             [] lib = "rational" -> RationalEntries

(* Fault: draining is not a matter of format.                               *)
RunsAnyDrain(entry) == entry[2] = engine.format \/ entry[1] = "flush"

(* The engine runs the overloads of its own sample type, the others return  *)
(* 0 (run() and drain(), or offer() and take()).                            *)
Runs(entry) == entry[2] = engine.format

Call(entry) ==
  /\ step = "live"
  /\ moved' = IF Runs(entry) THEN moved \cup {entry[2]} ELSE moved
  /\ UNCHANGED <<lib, exceptions, asked, step, heap, engine, refused>>

(* Fault: the wrapper goes, the engine stays.                               *)
DestroyWrapperOnly ==
  /\ step = "live"
  /\ step' = "none" /\ asked' = NoArgs
  /\ heap' = IF lib = "async" THEN Free ELSE [heap EXCEPT !.wrapper = 0]
  /\ engine' = NoEngine /\ moved' = {}
  /\ UNCHANGED <<lib, exceptions, refused>>

DestroyHandle ==
  /\ step = "live"
  /\ ReturnNull
  /\ engine' = NoEngine /\ moved' = {}
  /\ UNCHANGED <<lib, exceptions, refused>>

-----------------------------------------------------------------------------
Arguments ==
  CASE lib = "async"    -> [kind : {"async"}, rate : SampleRates, latency : Latencies,
                            profile : Tags, format : Tags, channels : Channels \cup ManyChannels]
    [] lib = "bridge"   -> [kind : {"bridge"}, direction : -1..2, profile : Tags, format : Tags, channels : Channels]
    [] lib = "rational" -> [kind : {"chain"}, chain : -1..28, profile : Tags, format : Tags, channels : Channels]
                           \cup [kind : {"stage"}, L : Factors, M : Factors, divisor : StageDivisors,
                                 profile : Tags, format : Tags, channels : Channels]

AbiNext ==
  \/ \E a \in Arguments : Create(a)
  \/ AllocateWrapper \/ Factory \/ AllocateEngine
  \/ \E entry \in Entries : Call(entry)
  \/ DestroyHandle

AbiSpec == AbiInit /\ [][AbiNext]_abiVars

-----------------------------------------------------------------------------
(* Nothing leaks and nothing is freed twice: the objects alive are those of *)
(* the live handle or of the create under way, whichever memory was refused *)
(* ("so a throw below cannot leak it").                                     *)
HeapIsHandles ==
  step # "terminated" =>
    heap = [wrapper |-> IF lib # "async" /\ step \in {"factory", "engine", "live"} THEN 1 ELSE 0,
            engine  |-> IF step = "live" THEN 1 ELSE 0]

(* A live handle is what was asked for: its format, the only one in which   *)
(* calls move anything; its ratio, which no key of another stage stands     *)
(* for; and, told over its stages, the work the chain itself states.        *)
HandleIsAsked ==
  step = "live" =>
    /\ engine.format = asked.format /\ moved \subseteq {asked.format}
    /\ asked.kind = "chain" =>
         /\ engine.ratio = NamedRatios[asked.chain + 1]
         /\ engine.macs = MacsPerOutput(StagesOf(asked), engine.taps)
    /\ asked.kind = "stage" => engine.ratio = <<asked.L, asked.M>>

(* "A rejection is NULL here, never a throw — and, built without            *)
(* exceptions, never a terminate"; and built with them a refused allocation *)
(* is NULL too, but for a single stage at a divisor without a pin, where    *)
(* the search runs inside noexcept validate().                              *)
RejectionIsNull ==
  step = "terminated" => refused /\ (exceptions => asked.kind = "stage")

=============================================================================
