----------------------------- MODULE ExactRate -----------------------------
(***************************************************************************)
(* What a synchronous L/M engine promises to whoever drives it, however it *)
(* is driven: output n is computed when input floor(n M / L) has arrived,  *)
(* and never with a later one.  The engines' headers state it as "no drift *)
(* ever" (bridge/converter.h) and "bit-identical to process() on the same  *)
(* stream, for any chunking" (rational/stage.h).                           *)
(***************************************************************************)
EXTENDS Schedule

VARIABLES
  fed,   \* inputs of the stream consumed
  made   \* outputs of the stream produced

vars == <<fed, made>>

Init == fed = 0 /\ made = 0

(* An input the next output still waits for. *)
TakesInput == fed' = fed + 1 /\ fed <= Due(made)

(* An output whose last input is the newest one. *)
MakesOutput == made' = made + 1 /\ fed' = Due(made) + 1

(* One input, one output, or an input and the output it completes. *)
Step ==
  \/ TakesInput /\ UNCHANGED made
  \/ MakesOutput /\ UNCHANGED fed
  \/ TakesInput /\ MakesOutput

Reset == fed' = 0 /\ made' = 0

Next == Step \/ Reset

Spec == Init /\ [][Next]_vars

=============================================================================
