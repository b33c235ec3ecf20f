--------------------------------- MODULE Chain ---------------------------------
(***************************************************************************)
(* A chain of two stages (tap::dsp::chain under basic_chain,               *)
(* rational/chain.h), beside either of its stages driven on its own.  The  *)
(* composition itself lives in a submodule: it is modelled from the        *)
(* contract chain.h and stage.h rest on.  process() works in chunks, each  *)
(* run through the first stage into a scratch and from there through the   *)
(* second; flush() pads each stage in turn and runs what comes out of it   *)
(* through the stages after it; a chain resets the stages it is given.     *)
(*                                                                         *)
(* RationalStage, as extended, is the first stage; Second is an instance.  *)
(***************************************************************************)
EXTENDS RationalStage

CONSTANTS
  L2, M2, FilterTaps2, MaxFrames2, \* the second stage's L, M, FilterTaps, MaxFrames
  Chunk,                           \* inputs of a chain's process() per chunk (64)
  MaxChain                         \* bound: inputs of one stream of a chain

ASSUME ChainAssumption ==
  /\ L2 \in Nat \ {0} /\ M2 \in Nat \ {0} /\ FilterTaps2 \in Nat \ {0}
  /\ Chunk \in Nat \ {0} /\ MaxFrames2 \in Nat /\ MaxChain \in Nat

VARIABLES
  lines2, pos2, pending2, dphase2, pc2, left2, todo2, need2,
  fed2, made2, heard2, promise2, banked2, \* the second stage
  used,    \* what the caller drives: the "first" stage, the "second", or the "chain"
  at,      \* the chain's call under way: "process", "flush", "drain" (of the second
           \* stage) or none, "idle"
  rest,    \* process(): inputs after the current chunk
  passed,  \* outputs of the first stage the second has been given
  vow,     \* history: what the chain's sizing companion said when the call began
  base,    \* history: outputs of the chain when it began
  padded,  \* history: inputs of the first stage when it was padded
  whole    \* history: no flush in this stream

second == <<lines2, pos2, pending2, dphase2, pc2, left2, todo2, need2,
            fed2, made2, heard2, promise2, banked2>>
chain  == <<at, rest, passed, vow, base, padded, whole>>
all    == <<vars, second, used, chain>>

Second == INSTANCE RationalStage WITH
  L <- L2, M <- M2, FilterTaps <- FilterTaps2, MaxFrames <- MaxFrames2,
  lines <- lines2, pos <- pos2, pending <- pending2, dphase <- dphase2, pc <- pc2,
  left <- left2, todo <- todo2, need <- need2, fed <- fed2, made <- made2,
  heard <- heard2, promise <- promise2, banked <- banked2

ChainInit ==
  /\ Init /\ Second!Init
  /\ used \in {"first", "second", "chain"}
  /\ at = "idle" /\ rest = 0 /\ passed = 0 /\ vow = 0 /\ base = 0
  /\ padded = 0 /\ whole = TRUE

(* chain::outputs_for(n), frames_needed(k): the stages' composed.           *)
ChainOutputsFor(n)   == Second!StageOutputsFor(StageOutputsFor(n))
ChainFramesNeeded(k) == StageFramesNeeded(Second!StageFramesNeeded(k))

(* detail::max_outputs_for: the scratch behind the first stage.             *)
Scratch == (Chunk * L) \div M + 2

-----------------------------------------------------------------------------
AtRest == pc = "idle" /\ pc2 = "idle"

(* Fault: the stage joins the chain as it is.                               *)
ComposeAsIs ==
  /\ used = "first" /\ pc = "idle"
  /\ used' = "chain" /\ passed' = made
  /\ UNCHANGED <<vars, second, at, rest, vow, base, padded, whole>>

(* The constructor, given a stage that was driven before.                   *)
Compose ==
  /\ used = "first"
  /\ Reset
  /\ used' = "chain" /\ passed' = 0
  /\ UNCHANGED <<second, at, rest, vow, base, padded, whole>>

ChainReset ==
  /\ used = "chain" /\ at = "idle"
  /\ Reset /\ Second!Reset
  /\ passed' = 0 /\ vow' = 0 /\ base' = 0 /\ padded' = 0 /\ whole' = TRUE
  /\ UNCHANGED <<used, at, rest>>

(* process(in, n, out).                                                     *)
ChainProcess(n) ==
  /\ used = "chain" /\ at = "idle" /\ fed + n <= MaxChain
  /\ at' = "process" /\ rest' = n
  /\ vow' = ChainOutputsFor(n) /\ base' = made2
  /\ UNCHANGED <<vars, second, used, passed, padded, whole>>

NextChunk ==
  /\ at = "process" /\ AtRest /\ passed = made /\ rest # 0
  /\ LET n == IF rest < Chunk THEN rest ELSE Chunk
     IN ProcessStart(n) /\ rest' = rest - n
  /\ UNCHANGED <<second, used, at, passed, vow, base, padded, whole>>

(* The scratch, through the second stage.                                   *)
HandOn ==
  /\ at # "idle" /\ AtRest /\ passed # made
  /\ Second!ProcessStart(made - passed)
  /\ passed' = made
  /\ UNCHANGED <<vars, used, at, rest, vow, base, padded, whole>>

(* flush(out); at most one per stream here.                                 *)
ChainFlush ==
  /\ used = "chain" /\ at = "idle" /\ whole /\ fed + WindowFrames <= MaxChain
  /\ FlushStart
  /\ at' = "flush" /\ padded' = fed /\ whole' = FALSE
  /\ UNCHANGED <<second, used, rest, passed, vow, base>>

Drain ==
  /\ at = "flush" /\ AtRest /\ passed = made
  /\ Second!FlushStart
  /\ at' = "drain"
  /\ UNCHANGED <<vars, used, rest, passed, vow, base, padded, whole>>

ChainReturn ==
  /\ AtRest /\ passed = made
  /\ \/ at = "process" /\ rest = 0
     \/ at = "drain"
  /\ at' = "idle"
  /\ UNCHANGED <<vars, second, used, rest, passed, vow, base, padded, whole>>

(* The calls under way inside the stages.                                   *)
FirstWorks ==
  /\ used = "chain" /\ pc # "idle"
  /\ ProcessAppend \/ ProcessEmit \/ ProcessDone \/ FlushAppend \/ FlushEmit \/ FlushDone
  /\ UNCHANGED <<second, used, chain>>

SecondWorks ==
  /\ used = "chain" /\ pc2 # "idle"
  /\ Second!ProcessDecimate \/ Second!FlushDecimate \/ Second!ProcessDone \/ Second!FlushDone
  /\ UNCHANGED <<vars, used, chain>>

ChainNext ==
  \/ used = "first" /\ Next /\ UNCHANGED <<second, used, chain>>
  \/ used = "second" /\ Second!Next /\ UNCHANGED <<vars, used, chain>>
  \/ Compose \/ ChainReset
  \/ \E n \in Blocks : ChainProcess(n)
  \/ NextChunk \/ HandOn \/ ChainFlush \/ Drain \/ ChainReturn
  \/ FirstWorks \/ SecondWorks

ChainSpec == ChainInit /\ [][ChainNext]_all

-----------------------------------------------------------------------------
(* Each stage's outputs are the textbook convolution, alone or in a chain,  *)
(* through every mixture of calls.                                          *)
StagesConvolve == IsConvolution /\ Second!IsConvolution

(* Each stage is the exact-rate engine, alone or in a chain.                *)
StagesAreExactRate == ImplementsExactRate /\ Second!ImplementsExactRate

(* The stages' sizing companions tell the truth (stage.h), and so do the    *)
(* chain's: process() writes what outputs_for() said, whatever the chunks.  *)
AllPromisesKept ==
  /\ PromisesKept /\ Second!PromisesKept
  /\ [][ChainReturn /\ at = "process" => made2 = base + vow]_all

(* frames_needed(k) is "the smallest n with outputs_for(n) >= k", for the   *)
(* stages and for the chain, from every state a call leaves.                *)
AllNeedsAreLeast ==
  /\ FramesNeededIsLeast /\ Second!FramesNeededIsLeast
  /\ used = "chain" /\ at = "idle" =>
       \A k \in Blocks \ {0} :
         LET n == ChainFramesNeeded(k)
         IN ChainOutputsFor(n) >= k /\ (n > 0 => ChainOutputsFor(n - 1) < k)

(* The bound a chain sizes its scratch by, in each stage and in the chain:  *)
(* no chunk overruns the buffer between the stages.                         *)
ScratchFits ==
  /\ ChainBound /\ Second!ChainBound
  /\ at = "process" => made - passed <= Scratch

(* Sizing from both sides: no input asked for that is not needed, and no    *)
(* output that the scratch has no room for.                                 *)
SizingIsTight == AllNeedsAreLeast /\ ScratchFits

(* The chain converts at exactly L L2 / (M M2): with no flush in the        *)
(* stream, as many outputs as there are n whose input floor(n M M2 / L L2)  *)
(* has arrived, however process() was cut and whatever a stage went through *)
(* before it was given to the chain (for chains whose last L is 1).         *)
ChainIsExactRate ==
  used = "chain" /\ at = "idle" /\ whole /\ L2 = 1 =>
    made2 = (fed * L + M * M2 - 1) \div (M * M2)

(* flush() is zero padding: by the time the second stage is padded, the     *)
(* first has nothing but padding left to say, so that the zeros fed behind  *)
(* it are what it would have gone on to produce.                            *)
FlushIsZeroPadding ==
  at = "drain" =>
    \A i \in 0..(RowLen - 2) : lines[0][Len(lines[0]) - i] > padded

=============================================================================
