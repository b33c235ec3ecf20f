------------------------------ MODULE PhaseTable ------------------------------
(***************************************************************************)
(* tap::sr::bridge::basic_phase_table (bridge/phase_table.h): the polyphase *)
(* branches of a linear-phase prototype, of which only the lower half is   *)
(* stored; an upper branch is its partner read backward.                   *)
(***************************************************************************)
EXTENDS Schedule

CONSTANTS
  Taps,     \* m_taps, T
  Prototype \* design_prototype(): L * Taps coefficients, in any representation

ASSUME TapsAssumption == Taps \in Nat \ {0}

(* Linear phase: h[n] = h[LT-1-n].                                          *)
ASSUME PrototypeAssumption ==
  \A n \in 0..(L * Taps - 1) : Prototype[n] = Prototype[L * Taps - 1 - n]

Stored == (L + 1) \div 2

IsMirrored(ph) == ph >= Stored

(* Fault: the partner is one row off.                                       *)
StoredIndexBeside(ph) == IF ph < Stored THEN ph ELSE L - ph

StoredIndex(ph) == IF ph < Stored THEN ph ELSE L - 1 - ph

(* Row ph of the table: a branch, tap-reversed.                             *)
Row(ph) == [u \in 0..(Taps - 1) |-> Prototype[(Taps - 1 - u) * L + ph]]

(* Fault: an upper branch is read forward.                                  *)
AtForward(ph, u) == Row(StoredIndex(ph))[u]

(* The coefficient at slot u of the window for phase ph: dot_row(), or      *)
(* dot_row_reversed() on the partner's row.                                 *)
At(ph, u) == IF IsMirrored(ph) THEN Row(StoredIndex(ph))[Taps - 1 - u] ELSE Row(StoredIndex(ph))[u]

=============================================================================
