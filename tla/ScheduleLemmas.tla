--------------------------- MODULE ScheduleLemmas ---------------------------
(***************************************************************************)
(* The schedule of an exact L/M conversion and the sizing arithmetic that  *)
(* rests on it (Schedule), for every ratio: what both engines built on it, *)
(* the bridge converter and the rational stage, are proved from.           *)
(***************************************************************************)
EXTENDS Schedule, TLAPS

(* Quotient and remainder are unique: what a % b and a \div b are is shown  *)
(* by writing a as a multiple of b and a remainder.                         *)
LEMMA DivUnique ==
  ASSUME NEW a \in Int, NEW b \in Nat \ {0}, NEW q \in Int, NEW r \in 0..(b - 1),
         a = b * q + r
  PROVE  a % b = r /\ a \div b = q
<1>1. a % b = r
  OBVIOUS
<1>2. a \div b = q
  OBVIOUS
<1> QED BY <1>1, <1>2

(* What dividing by a positive number yields.                               *)
LEMMA DivParts ==
  ASSUME NEW a \in Int, NEW b \in Nat \ {0}
  PROVE  /\ a = b * (a \div b) + (a % b)
         /\ a \div b \in Int
         /\ a % b \in 0..(b - 1)
OBVIOUS

(* Rounding down keeps order.                                               *)
LEMMA DivMonotonic ==
  ASSUME NEW a \in Int, NEW c \in Int, NEW b \in Nat \ {0}, a <= c
  PROVE  a \div b <= c \div b
<1> DEFINE qa == a \div b
<1> DEFINE qc == c \div b
<1>3. /\ a = b * qa + (a % b) /\ qa \in Int /\ a % b \in 0..(b - 1)
      /\ c = b * qc + (c % b) /\ qc \in Int /\ c % b \in 0..(b - 1)
  BY DivParts
<1> HIDE DEF qa, qc
<1>4. SUFFICES ASSUME qa >= qc + 1
               PROVE  FALSE
  BY <1>3 DEF qa, qc
<1>5. b * qa >= b * qc + b
  BY <1>3, <1>4
<1> QED BY <1>3, <1>5

-----------------------------------------------------------------------------
(* The schedule.                                                            *)

LEMMA DueIsFloor ==
  ASSUME NEW n \in Nat
  PROVE  Due(n) \in Nat /\ L * Due(n) <= n * M /\ n * M < L * Due(n) + L
<1> DEFINE a == n * M
<1> DEFINE q == a \div L
<1>0. L \in Nat \ {0} /\ M \in Nat \ {0} /\ a \in Nat
  BY RatioAssumption
<1>1. a = L * q + (a % L) /\ q \in Int /\ a % L \in 0..(L - 1)
  BY <1>0, DivParts
<1> HIDE DEF a, q
<1>2. q >= 0
  <2> SUFFICES ASSUME q <= -1 PROVE FALSE
    BY <1>1
  <2>1. L * q <= -L
    BY <1>0, <1>1
  <2> QED BY <1>0, <1>1, <2>1
<1>3. L * q <= a /\ a < L * q + L /\ q \in Nat
  BY <1>0, <1>1, <1>2
<1> QED BY <1>3 DEF Due, a, q

LEMMA DueMonotonic ==
  ASSUME NEW m \in Nat, NEW n \in Nat, m <= n
  PROVE  Due(m) <= Due(n)
<1>0. L \in Nat \ {0} /\ M \in Nat \ {0}
  BY RatioAssumption
<1>1. m * M <= n * M /\ m * M \in Int /\ n * M \in Int
  BY <1>0
<1> QED BY <1>0, <1>1, DivMonotonic DEF Due

(* A whole superblock of L outputs takes M inputs.                          *)
LEMMA DueShift ==
  ASSUME NEW q \in Nat, NEW r \in Nat
  PROVE  Due(L * q + r) = q * M + Due(r)
<1> DEFINE a == (L * q + r) * M
<1> DEFINE d == Due(r)
<1> DEFINE s == q * M + d
<1> DEFINE e == r * M - L * d
<1>0. L \in Nat \ {0} /\ M \in Nat \ {0}
  BY RatioAssumption
<1>1. d \in Nat /\ e \in 0..(L - 1) /\ r * M \in Nat
  BY <1>0, DueIsFloor
<1> HIDE DEF d
<1>2. a = L * s + e
  <2>1. a = L * (q * M) + r * M
    BY <1>0
  <2>2. L * s = L * (q * M) + L * d
    BY <1>0, <1>1
  <2>3. L * (q * M) \in Int /\ L * d \in Int
    BY <1>0, <1>1
  <2> HIDE DEF a, s
  <2> QED BY <2>1, <2>2, <2>3, <1>0, <1>1
<1>3. a \in Int /\ s \in Int
  BY <1>0, <1>1
<1> HIDE DEF a, s, e
<1>4. a \div L = s
  BY <1>0, <1>1, <1>2, <1>3, DivUnique
<1> QED BY <1>4 DEF Due, a, s, d

LEMMA DueOfSuperblock == Due(0) = 0 /\ Due(L) = M /\ \A n \in Nat : Due(L + n) = M + Due(n)
<1>0. L \in Nat \ {0} /\ M \in Nat \ {0}
  BY RatioAssumption
<1>1. Due(0) = 0
  <2>1. Due(0) \in Nat /\ L * Due(0) <= 0
    BY <1>0, DueIsFloor
  <2> QED BY <1>0, <2>1
<1>2. ASSUME NEW n \in Nat PROVE Due(L + n) = M + Due(n)
  <2>1. Due(L * 1 + n) = 1 * M + Due(n)
    BY DueShift
  <2>2. L * 1 + n = L + n /\ 1 * M = M
    BY <1>0
  <2> QED BY <2>1, <2>2
<1>3. Due(L) = M
  <2>1. L + 0 = L /\ M + 0 = M
    BY <1>0
  <2> QED BY <1>1, <1>2, <2>1
<1> QED BY <1>1, <1>2, <1>3

LEMMA AdvanceIsNat ==
  ASSUME NEW n \in Nat
  PROVE  Advance(n) \in Nat /\ Due(n + 1) = Due(n) + Advance(n)
BY DueIsFloor, DueMonotonic DEF Advance

-----------------------------------------------------------------------------
(* outputs_for() and frames_needed() along a call.                          *)

(* The block feeds an output exactly when it reaches the pending count.     *)
LEMMA OutputsForSign ==
  ASSUME NEW n \in Nat, NEW p \in Nat, NEW k \in Nat
  PROVE  /\ OutputsFor(n, p, k) \in Nat
         /\ OutputsFor(n, p, k) = 0 <=> k < p
<1> DEFINE d == Due(n)
<1> DEFINE x == L * (d + k - p + 1) - 1
<1> DEFINE q == x \div M
<1>0. L \in Nat \ {0} /\ M \in Nat \ {0}
  BY RatioAssumption
<1>1. d \in Nat /\ n * M < L * d + L /\ n * M \in Nat
  BY <1>0, DueIsFloor
<1>2. CASE k < p
  BY <1>2 DEF OutputsFor
<1>3. CASE k >= p
  <2> HIDE DEF d
  <2>1. L * (d + k - p + 1) = L * (d + 1) + L * (k - p) /\ L * (k - p) >= 0
        /\ L * (d + 1) = L * d + L
    BY <1>0, <1>1, <1>3
  <2>2. x \in Int /\ x >= n * M
    BY <2>1, <1>0, <1>1, <1>3
  <2> HIDE DEF x
  <2>3. q \in Int /\ q >= n
    <3>1. (n * M) \div M = n
      <4>1. n * M = M * n + 0 /\ 0 \in 0..(M - 1) /\ n * M \in Int
        BY <1>0
      <4> QED BY <4>1, <1>0, DivUnique
    <3> QED BY <3>1, <2>2, <1>0, <1>1, DivMonotonic, DivParts
  <2>4. OutputsFor(n, p, k) = q - n + 1
    BY <1>3 DEF OutputsFor, x, d
  <2> HIDE DEF q
  <2> QED BY <2>3, <2>4, <1>3
<1> QED BY <1>2, <1>3

(* Taking an input that an output still waits for changes neither count.    *)
LEMMA TakenInputIsCounted ==
  ASSUME NEW n \in Nat, NEW p \in Nat \ {0}, NEW k \in Nat \ {0}
  PROVE  /\ OutputsFor(n, p - 1, k - 1) = OutputsFor(n, p, k)
         /\ FramesNeeded(n, p - 1, k) = FramesNeeded(n, p, k) - 1
<1>1. Due(n) \in Nat
  BY DueIsFloor
<1>2. Due(n) + (k - 1) - (p - 1) + 1 = Due(n) + k - p + 1 /\ (k - 1 < p - 1 <=> k < p)
  BY <1>1
<1>3. OutputsFor(n, p - 1, k - 1) = OutputsFor(n, p, k)
  BY <1>2 DEF OutputsFor
<1>4. Due(n + k - 1) \in Nat
  BY DueIsFloor
<1>5. FramesNeeded(n, p - 1, k) = FramesNeeded(n, p, k) - 1
  BY <1>1, <1>4 DEF FramesNeeded, InputsBetween
<1> QED BY <1>3, <1>5

(* The position after n and the gap to it, within the superblock and at its *)
(* end.                                                                     *)
LEMMA NextPosition ==
  ASSUME NEW n \in Positions
  PROVE  /\ n \in Nat /\ NextPos(n) \in Positions
         /\ n # L - 1 => NextPos(n) = n + 1
         /\ n = L - 1 => NextPos(n) = 0 /\ Advance(n) = M - Due(n)
<1>0. L \in Nat \ {0} /\ M \in Nat \ {0} /\ n \in Nat /\ n < L
  BY RatioAssumption DEF Positions
<1>1. n = L - 1 => n + 1 = L
  BY <1>0
<1> QED BY <1>0, <1>1, DueOfSuperblock DEF NextPos, Positions, Advance

(* Making an output settles exactly one of those counted.                   *)
LEMMA MadeOutputIsCounted ==
  ASSUME NEW n \in Positions, NEW k \in Nat
  PROVE  OutputsFor(NextPos(n), Advance(n), k) = OutputsFor(n, 0, k) - 1
<1> DEFINE d == Due(n)
<1> DEFINE g == Advance(n)
<1> DEFINE x == L * (d + k + 1) - 1
<1> DEFINE q == x \div M
<1>0. L \in Nat \ {0} /\ M \in Nat \ {0} /\ n \in Nat
  BY RatioAssumption, NextPosition
<1>1. /\ d \in Nat /\ g \in Nat /\ Due(n + 1) = d + g
      /\ n * M < L * d + L /\ L * (d + g) <= (n + 1) * M
  <2>1. Due(n + 1) = d + g /\ g \in Nat
    BY <1>0, AdvanceIsNat
  <2>2. L * Due(n + 1) <= (n + 1) * M
    BY <1>0, DueIsFloor
  <2> QED BY <1>0, <2>1, <2>2, DueIsFloor
<1>2. x \in Int
  BY <1>0, <1>1
<1>3. OutputsFor(n, 0, k) = q - n + 1
  BY <1>0, <1>1 DEF OutputsFor
<1>4. q \in Int
  BY <1>0, <1>2, DivParts
<1>5. CASE k < g
  <2>1. OutputsFor(NextPos(n), g, k) = 0
    BY <1>5 DEF OutputsFor
  <2>2. q = n
    <3> DEFINE r == x - n * M
    <3> HIDE DEF d, g
    <3>1. L * (d + k + 1) <= L * (d + g)
      BY <1>0, <1>1, <1>5
    <3>2. L * (d + k + 1) >= L * d + L
      BY <1>0, <1>1
    <3>3. (n + 1) * M = n * M + M /\ n * M \in Int
      BY <1>0
    <3>4. r \in 0..(M - 1) /\ x = M * n + r
      <4>1. L * (d + k + 1) \in Int /\ L * d \in Int /\ L * (d + g) \in Int
        BY <1>0, <1>1
      <4>2. M * n = n * M
        BY <1>0
      <4> QED BY <4>1, <4>2, <3>1, <3>2, <3>3, <1>0, <1>1
    <3> HIDE DEF x, r
    <3> QED BY <3>4, <1>0, <1>2, DivUnique
  <2> QED BY <1>0, <1>3, <2>1, <2>2
<1>6. CASE k >= g /\ n # L - 1
  <2>1. NextPos(n) = n + 1
    BY <1>6, NextPosition
  <2>2. Due(n + 1) + k - g + 1 = d + k + 1
    BY <1>1
  <2>3. OutputsFor(n + 1, g, k) = q - (n + 1) + 1
    BY <1>6, <1>1, <2>2 DEF OutputsFor
  <2> HIDE DEF q
  <2> QED BY <1>0, <1>3, <1>4, <2>1, <2>3
<1>7. CASE k >= g /\ n = L - 1
  <2> DEFINE y == L * (0 + k - g + 1) - 1
  <2>1. NextPos(n) = 0 /\ g = M - d /\ Due(0) = 0
    BY <1>7, NextPosition, DueOfSuperblock
  <2>2. OutputsFor(0, g, k) = y \div M - 0 + 1
    BY <1>7, <1>1, <2>1 DEF OutputsFor
  <2>3. x = y + L * M
    <3>1. g \in Int /\ d \in Int
      BY <1>1
    <3> HIDE DEF d, g
    <3>2. d + k + 1 = (0 + k - g + 1) + M
      BY <2>1, <3>1, <1>0
    <3>3. L * (d + k + 1) = L * (0 + k - g + 1) + L * M
      BY <3>1, <3>2, <1>0
    <3>4. L * (0 + k - g + 1) \in Int /\ L * M \in Int
      BY <3>1, <1>0
    <3> QED BY <3>3, <3>4
  <2>4. y \in Int
    BY <1>0, <1>1
  <2> HIDE DEF x, y
  <2>5. y \div M = q - L
    <3> DEFINE r == x % M
    <3>1. x = M * q + r /\ r \in 0..(M - 1)
      BY <1>0, <1>2, DivParts
    <3> HIDE DEF q, r
    <3>2. y = M * (q - L) + r
      <4>1. M * (q - L) = M * q - L * M /\ M * q \in Int /\ L * M \in Int
        BY <1>0, <1>4
      <4> QED BY <4>1, <3>1, <2>3, <2>4, <1>0, <1>2
    <3>3. q - L \in Int
      BY <1>0, <1>4
    <3> QED BY <3>1, <3>2, <3>3, <2>4, <1>0, DivUnique
  <2> HIDE DEF q
  <2> QED BY <1>0, <1>3, <1>4, <1>7, <2>1, <2>2, <2>5
<1> QED BY <1>1, <1>5, <1>6, <1>7

(* ... and takes none of the inputs that the outputs asked for still need.  *)
LEMMA MadeOutputNeedsNoMore ==
  ASSUME NEW n \in Positions, NEW k \in Nat \ {0}
  PROVE  FramesNeeded(NextPos(n), Advance(n), k - 1) = FramesNeeded(n, 0, k)
<1> DEFINE d == Due(n)
<1> DEFINE g == Advance(n)
<1>0. n \in Nat /\ d \in Nat /\ g \in Nat /\ Due(n + 1) = d + g /\ Due(n + k - 1) \in Nat
  BY NextPosition, AdvanceIsNat, DueIsFloor
<1>1. FramesNeeded(n, 0, k) = Due(n + k - 1) - d
  BY <1>0 DEF FramesNeeded, InputsBetween
<1>2. CASE k = 1
  <2>1. n + k - 1 = n
    BY <1>2, <1>0
  <2> QED BY <1>0, <1>1, <1>2, <2>1 DEF FramesNeeded, InputsBetween
<1>3. CASE k # 1 /\ n # L - 1
  <2>1. NextPos(n) = n + 1 /\ n + 1 + (k - 1) - 1 = n + k - 1
    BY <1>3, <1>0, NextPosition
  <2>2. FramesNeeded(n + 1, g, k - 1) = g + Due(n + k - 1) - (d + g)
    BY <1>0, <1>3, <2>1 DEF FramesNeeded, InputsBetween
  <2> HIDE DEF d, g
  <2> QED BY <1>0, <1>1, <2>1, <2>2 DEF g
<1>4. CASE k # 1 /\ n = L - 1
  <2>1. NextPos(n) = 0 /\ g = M - d /\ Due(0) = 0 /\ M \in Nat
    BY <1>4, NextPosition, DueOfSuperblock, RatioAssumption
  <2>2. k - 2 \in Nat /\ Due(k - 2) \in Nat /\ L \in Nat
    BY <1>4, DueIsFloor, RatioAssumption
  <2>3. n + k - 1 = L + (k - 2) /\ 0 + (k - 1) - 1 = k - 2
    BY <1>0, <1>4, <2>2
  <2>4. Due(n + k - 1) = M + Due(k - 2)
    BY <2>2, <2>3, DueOfSuperblock
  <2>5. FramesNeeded(0, g, k - 1) = g + Due(k - 2) - 0
    BY <1>4, <2>1, <2>3 DEF FramesNeeded, InputsBetween
  <2> HIDE DEF d, g
  <2> QED BY <1>0, <1>1, <2>1, <2>2, <2>4, <2>5 DEF g
<1> QED BY <1>2, <1>3, <1>4

LEMMA FramesNeededIsNat ==
  ASSUME NEW n \in Nat, NEW p \in Nat, NEW k \in Nat
  PROVE  FramesNeeded(n, p, k) \in Nat /\ (k # 0 => FramesNeeded(n, p, k) >= p)
<1>1. CASE k = 0
  BY <1>1 DEF FramesNeeded, InputsBetween
<1>2. CASE k # 0
  <2>1. n + k - 1 \in Nat /\ n <= n + k - 1
    BY <1>2
  <2>2. Due(n) \in Nat /\ Due(n + k - 1) \in Nat /\ Due(n) <= Due(n + k - 1)
    BY <2>1, DueIsFloor, DueMonotonic
  <2> QED BY <1>2, <2>2 DEF FramesNeeded, InputsBetween
<1> QED BY <1>1, <1>2

(* Output n is at position n % L of its superblock; the gap its schedule    *)
(* entry holds is the one to the next output's due input.                   *)
LEMMA NextOutput ==
  ASSUME NEW n \in Nat, NEW p \in Positions, p = n % L
  PROVE  Due(n + 1) = Due(n) + Advance(p) /\ NextPos(p) = (n + 1) % L
<1> DEFINE q == n \div L
<1> DEFINE g == Advance(p)
<1>0. L \in Nat \ {0} /\ M \in Nat \ {0} /\ p \in Nat /\ p \in 0..(L - 1)
  BY RatioAssumption DEF Positions
<1>1. g \in Nat /\ Due(p + 1) = Due(p) + g /\ Due(p) \in Nat
  BY <1>0, AdvanceIsNat, DueIsFloor
<1>2. n = L * q + p /\ q \in Nat
  <2>1. n = L * q + (n % L) /\ q \in Int
    BY <1>0, DivParts
  <2> HIDE DEF q
  <2>2. q >= 0
    <3> SUFFICES ASSUME q <= -1 PROVE FALSE
      BY <2>1
    <3>1. L * q <= -L
      BY <1>0, <2>1
    <3> QED BY <1>0, <2>1, <3>1
  <2> QED BY <2>1, <2>2
<1> HIDE DEF q, g
<1>3. Due(n) = q * M + Due(p) /\ Due(n + 1) = q * M + Due(p + 1)
  <2>1. n + 1 = L * q + (p + 1)
    BY <1>0, <1>2
  <2>2. p + 1 \in Nat
    BY <1>0
  <2>3. Due(L * q + p) = q * M + Due(p) /\ Due(L * q + (p + 1)) = q * M + Due(p + 1)
    BY <1>0, <1>2, <2>2, DueShift
  <2> QED BY <1>2, <2>1, <2>3
<1>4. Due(n + 1) = Due(n) + g
  <2>1. q * M \in Int
    BY <1>0, <1>2
  <2> QED BY <2>1, <1>1, <1>3
<1>5. NextPos(p) = (n + 1) % L
  <2>1. CASE p = L - 1
    <3>1. NextPos(p) = 0
      BY <1>0, <2>1, NextPosition
    <3> DEFINE m == n + 1
    <3> DEFINE s == q + 1
    <3>2. m = L * s + 0 /\ s \in Int /\ m \in Int /\ 0 \in 0..(L - 1)
      BY <1>0, <1>2, <2>1
    <3> HIDE DEF m, s
    <3>3. m % L = 0
      BY <3>2, <1>0, DivUnique
    <3> QED BY <3>1, <3>3 DEF m
  <2>2. CASE p # L - 1
    <3> DEFINE r == p + 1
    <3> DEFINE m == n + 1
    <3>1. NextPos(p) = r
      BY <1>0, <2>2, NextPosition
    <3>2. m = L * q + r /\ r \in 0..(L - 1) /\ m \in Int /\ q \in Int
      BY <1>0, <1>2, <2>2
    <3> HIDE DEF r, m
    <3>3. m % L = r
      BY <3>2, <1>0, DivUnique
    <3> QED BY <3>1, <3>3 DEF m
  <2> QED BY <2>1, <2>2
<1> QED BY <1>4, <1>5 DEF g

(* The phases go round with the superblock: the position stands for the     *)
(* number of the output.                                                    *)
LEMMA PhaseOfPosition ==
  ASSUME NEW n \in Nat
  PROVE  PhaseOf(n % L) = (n * M) % L /\ (n * M) % L \in 0..(L - 1)
<1> DEFINE q == n \div L
<1> DEFINE r == n % L
<1> DEFINE d == (r * M) \div L
<1> DEFINE e == (r * M) % L
<1> DEFINE s == q * M + d
<1>0. L \in Nat \ {0} /\ M \in Nat \ {0}
  BY RatioAssumption
<1>1. n = L * q + r /\ q \in Int /\ r \in 0..(L - 1)
  BY <1>0, DivParts
<1> HIDE DEF q, r
<1>2. r * M \in Int
  BY <1>0, <1>1
<1>3. r * M = L * d + e /\ d \in Int /\ e \in 0..(L - 1)
  BY <1>0, <1>2, DivParts
<1> HIDE DEF d, e
<1>4. n * M = L * s + e /\ s \in Int /\ n * M \in Int
  <2>1. n * M = L * (q * M) + r * M
    BY <1>0, <1>1
  <2>2. L * s = L * (q * M) + L * d
    BY <1>0, <1>1, <1>3
  <2>3. L * (q * M) \in Int /\ L * d \in Int
    BY <1>0, <1>1, <1>3
  <2>4. s \in Int /\ n * M \in Int
    BY <1>0, <1>1, <1>3
  <2> HIDE DEF s
  <2> QED BY <1>3, <2>1, <2>2, <2>3, <2>4
<1> HIDE DEF s
<1>5. (n * M) % L = e
  BY <1>0, <1>3, <1>4, DivUnique
<1> QED BY <1>3, <1>5 DEF PhaseOf, e, r

(* Half a table is a whole one: an upper branch read backward from its      *)
(* Wherever in the superblock a block of k inputs starts, an input or more  *)
(* short of the next output, it yields at most floor(k L / M) + 2.          *)
LEMMA OutputsForBound ==
  ASSUME NEW n \in Nat, NEW p \in Nat \ {0}, NEW k \in Nat
  PROVE  OutputsFor(n, p, k) <= (k * L) \div M + 2
<1> DEFINE d == Due(n)
<1> DEFINE x == L * (d + k - p + 1) - 1
<1>0. L \in Nat \ {0} /\ M \in Nat \ {0}
  BY RatioAssumption
<1>2. d \in Nat /\ L * d <= n * M /\ n * M \in Nat /\ k * L \in Nat
  BY <1>0, DueIsFloor
<1> DEFINE q == (k * L) \div M
<1> DEFINE r == (k * L) % M
<1>3. k * L = M * q + r /\ q \in Int /\ r \in 0..(M - 1)
  <2> DEFINE a == k * L
  <2>1. a \in Int
    BY <1>2
  <2> HIDE DEF a
  <2>2. a = M * (a \div M) + (a % M) /\ a \div M \in Int /\ a % M \in 0..(M - 1)
    BY <1>0, <2>1, DivParts
  <2> QED BY <2>2 DEF a
<1>4. q >= 0
  <2> HIDE DEF q, r
  <2> SUFFICES ASSUME q <= -1 PROVE FALSE
    BY <1>3
  <2>1. M * q <= -M
    BY <1>0, <1>3
  <2> QED BY <1>0, <1>2, <1>3, <2>1
<1>5. CASE k < p
  BY <1>3, <1>4, <1>5 DEF OutputsFor
<1>6. CASE k >= p
  <2>1. OutputsFor(n, p, k) = x \div M - n + 1
    BY <1>0, <1>6 DEF OutputsFor
  <2>2. x \in Int /\ x <= n * M + k * L
    <3> HIDE DEF d
    <3>1. L * (d + k - p + 1) = L * d + k * L + L * (1 - p) /\ L * (1 - p) <= 0
      BY <1>0, <1>2
    <3>2. L * (1 - p) \in Int /\ L * d \in Int
      BY <1>0, <1>2
    <3> QED BY <3>1, <3>2, <1>0, <1>2
  <2>3. (n * M + k * L) \div M = n + q
    <3> HIDE DEF q, r
    <3>1. n * M + k * L = M * (n + q) + r
      <4>1. M * (n + q) = n * M + M * q /\ M * q \in Int
        BY <1>0, <1>3
      <4> QED BY <4>1, <1>2, <1>3
    <3>2. n + q \in Int /\ n * M + k * L \in Int
      BY <1>2, <1>3
    <3> QED BY <3>1, <3>2, <1>0, <1>3, DivUnique
  <2> HIDE DEF x, q
  <2>4. x \div M <= n + q /\ x \div M \in Int
    <3> DEFINE y == n * M + k * L
    <3>1. y \in Int /\ x <= y /\ y \div M = n + q
      BY <1>2, <2>2, <2>3
    <3> HIDE DEF y
    <3> QED BY <3>1, <2>2, <1>0, DivMonotonic, DivParts
  <2>5. x \div M - n + 1 <= q + 2
    BY <2>4, <1>3
  <2> QED BY <2>1, <2>5 DEF q
<1> QED BY <1>5, <1>6

(* Times n is undone by division by n.                                      *)
LEMMA DivOfMultiple ==
  ASSUME NEW a \in Int
  PROVE  (a * M) \div M = a
<1> DEFINE x == a * M
<1>0. M \in Nat \ {0}
  BY RatioAssumption
<1>1. x = M * a + 0 /\ x \in Int /\ 0 \in 0..(M - 1)
  BY <1>0
<1> HIDE DEF x
<1>2. x \div M = a
  BY <1>0, <1>1, DivUnique
<1> QED BY <1>2 DEF x

(* A longer block yields no fewer outputs.                                  *)
LEMMA OutputsForMonotonic ==
  ASSUME NEW n \in Nat, NEW p \in Nat, NEW j \in Nat, NEW k \in Nat, j <= k
  PROVE  OutputsFor(n, p, j) <= OutputsFor(n, p, k)
<1> DEFINE x(i) == L * (Due(n) + i - p + 1) - 1
<1>0. L \in Nat \ {0} /\ M \in Nat \ {0} /\ Due(n) \in Nat
  BY RatioAssumption, DueIsFloor
<1>1. OutputsFor(n, p, j) \in Nat /\ OutputsFor(n, p, k) \in Nat
  BY OutputsForSign
<1>2. CASE j < p
  <2>1. OutputsFor(n, p, j) = 0
    BY <1>2 DEF OutputsFor
  <2> QED BY <1>1, <2>1
<1>3. CASE j >= p
  <2>1. x(j) \in Int /\ x(k) \in Int /\ x(j) <= x(k)
    <3>1. L * (Due(n) + j - p + 1) <= L * (Due(n) + k - p + 1)
      BY <1>0
    <3> QED BY <3>1, <1>0
  <2>2. OutputsFor(n, p, j) = x(j) \div M - n + 1 /\ OutputsFor(n, p, k) = x(k) \div M - n + 1
    BY <1>3 DEF OutputsFor
  <2> HIDE DEF x
  <2>3. x(j) \div M <= x(k) \div M /\ x(j) \div M \in Int /\ x(k) \div M \in Int
    BY <1>0, <2>1, DivMonotonic, DivParts
  <2> QED BY <2>2, <2>3
<1> QED BY <1>2, <1>3

(* frames_needed(k) inputs yield k outputs, and one input less does not.    *)
LEMMA FramesNeededIsMinimal ==
  ASSUME NEW n \in Nat, NEW p \in Nat, NEW k \in Nat \ {0}
  PROVE  /\ OutputsFor(n, p, FramesNeeded(n, p, k)) >= k
         /\ FramesNeeded(n, p, k) > 0 => OutputsFor(n, p, FramesNeeded(n, p, k) - 1) < k
<1> DEFINE m == n + k - 1
<1> DEFINE d == Due(m)
<1> DEFINE f == FramesNeeded(n, p, k)
<1>0. L \in Nat \ {0} /\ M \in Nat \ {0} /\ Due(n) \in Nat /\ m \in Nat /\ n <= m
  BY RatioAssumption, DueIsFloor
<1>1. d \in Nat /\ L * d <= m * M /\ m * M < L * d + L /\ Due(n) <= d
  BY <1>0, DueIsFloor, DueMonotonic
<1>2. f = p + d - Due(n) /\ f \in Nat /\ f >= p
  BY <1>0, <1>1 DEF FramesNeeded, InputsBetween
<1>3. m * M \in Int /\ L * d \in Int /\ (m * M) \div M = m /\ ((m - 1) * M) \div M = m - 1
      /\ (m - 1) * M = m * M - M
  BY <1>0, <1>1, DivOfMultiple
<1>4. OutputsFor(n, p, f) >= k
  <2> DEFINE x == L * (d + 1) - 1
  <2>1. x \in Int /\ x >= m * M
    <3>1. L * (d + 1) = L * d + L
      BY <1>0, <1>1
    <3> QED BY <3>1, <1>0, <1>1, <1>3
  <2>2. Due(n) + f - p + 1 = d + 1
    BY <1>0, <1>1, <1>2
  <2>3. OutputsFor(n, p, f) = x \div M - n + 1
    BY <1>2, <2>2 DEF OutputsFor
  <2> HIDE DEF x
  <2>4. x \div M \in Int /\ x \div M >= m
    <3> DEFINE y == m * M
    <3>1. y \in Int /\ y <= x /\ y \div M = m
      BY <1>3, <2>1
    <3> HIDE DEF y
    <3> QED BY <1>0, <2>1, <3>1, DivMonotonic, DivParts
  <2> QED BY <1>0, <2>3, <2>4
<1>5. ASSUME f > 0 PROVE OutputsFor(n, p, f - 1) < k
  <2>1. CASE f - 1 < p
    BY <2>1 DEF OutputsFor
  <2>2. CASE f - 1 >= p
    <3> DEFINE x == L * d - 1
    <3>1. Due(n) + (f - 1) - p + 1 = d
      BY <1>0, <1>1, <1>2
    <3>2. OutputsFor(n, p, f - 1) = x \div M - n + 1
      <4> HIDE DEF f, d
      <4> QED BY <1>2, <2>2, <3>1 DEF OutputsFor
    <3>3. x \in Int /\ x < m * M
      BY <1>1, <1>3
    <3>4. x \div M <= m - 1 /\ x \div M \in Int
      <4> DEFINE q == x \div M
      <4>1. x = M * q + (x % M) /\ q \in Int /\ x % M \in 0..(M - 1)
        BY <1>0, <3>3, DivParts
      <4> HIDE DEF x, q, d, m
      <4>2. SUFFICES ASSUME q >= m PROVE FALSE
        BY <1>0, <4>1 DEF q
      <4>3. M * q >= M * m /\ M * m = m * M
        BY <1>0, <4>1, <4>2
      <4> QED BY <1>0, <1>3, <3>3, <4>1, <4>3
    <3> HIDE DEF x
    <3> QED BY <1>0, <3>2, <3>4
  <2> QED BY <1>2, <2>1, <2>2
<1> QED BY <1>4, <1>5

=============================================================================
