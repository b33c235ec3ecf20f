------------------------------ MODULE Schedule ------------------------------
(***************************************************************************)
(* The schedule of an exact L/M conversion                                 *)
(* (bridge/include/tap/sr/bridge/schedule.h) and the sizing arithmetic of  *)
(* basic_converter that rests on it (bridge/converter.h): output n is due  *)
(* when input floor(n M / L) has arrived.  rational/stage.h has the same   *)
(* schedule and arithmetic for its L-phase machine.                        *)
(***************************************************************************)
EXTENDS Integers

CONSTANTS
  L, \* ratio_traits<D>::k_phases
  M  \* ratio_traits<D>::k_decimation

ASSUME RatioAssumption == L \in Nat \ {0} /\ M \in Nat \ {0}

Positions == 0..(L - 1)

(* Inputs consumed before the output at superblock position n.              *)
Due(n) == (n * M) \div L

(* schedule_entry::advance: inputs consumed after the output at position n. *)
Advance(n) == Due(n + 1) - Due(n)

(* schedule_entry::phase: the polyphase branch of that output.             *)
PhaseOf(n) == (n * M) % L

(* Fault: the superblock is one output too long.                            *)
NextPosLate(n) == IF n = L THEN 0 ELSE n + 1

(* The position after n, without a modulo.                                  *)
NextPos(n) == IF n + 1 = L THEN 0 ELSE n + 1

(* frames_needed() of the schedule: the inputs between the output at        *)
(* position pos and the k-th after it.                                      *)
InputsBetween(pos, k) == Due(pos + k) - Due(pos)

(* basic_converter::frames_needed(k) with the machine at pos, pending inputs *)
(* short of its next output.                                                *)
FramesNeeded(pos, pending, k) ==
  IF k = 0 THEN 0 ELSE pending + InputsBetween(pos, k - 1)

(* Faults: one output more; the position within the superblock left out.    *)
OutputsForPlusOne(pos, pending, n) ==
  IF n < pending THEN 0
  ELSE (L * (Due(pos) + n - pending + 1) - 1) \div M - pos + 2
OutputsForNoPos(pos, pending, n) ==
  IF n < pending THEN 0 ELSE (L * (n - pending + 1) - 1) \div M + 1

(* basic_converter::outputs_for(n).                                         *)
OutputsFor(pos, pending, n) ==
  IF n < pending THEN 0
  ELSE (L * (Due(pos) + n - pending + 1) - 1) \div M - pos + 1

=============================================================================
