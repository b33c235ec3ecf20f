---------------------------- MODULE CoverageMatrix ----------------------------
(***************************************************************************)
(* How the chain between two rates is chosen (rational/tools/coverage/     *)
(* matrix.py): a shortest-path search over the rates between them, by work *)
(* and for every number of stages; the cheapest of the chains found; then  *)
(* the one of fewest stages that costs little more.  A cheapest chain      *)
(* through bridge is searched again with that one bridge stage.            *)
(*                                                                         *)
(* The search is at the economy profile, which fixes the chains.  A rate   *)
(* is in units of 25 Hz, of which every rate of the lattice is a multiple; *)
(* a chain is the sequence of its rates.                                   *)
(***************************************************************************)
EXTENDS RationalDesign

CONSTANTS
  Pairs,     \* the rates converted: pairs of RATES
  MaxStages  \* NMAX

ASSUME MatrixAssumption == Pairs \subseteq (Nat \X Nat) /\ MaxStages \in Nat \ {0}

VARIABLES
  pair,   \* src and dst
  round,  \* "search", "again" with one bridge stage, or "done"
  only,   \* only_bridge: its two rates; <<>> when any may be taken
  pq,     \* the heap, without the entries of what is in seen, which are skipped
  seen,   \* chains settled, one for each rate and number of stages
  cheapest, \* minimal
  chosen  \* it, or the chain of fewer stages

searchVars == <<pair, round, only, pq, seen, cheapest, chosen>>

src  == pair[1]
dst  == pair[2]
rmin == Min({src, dst})
rmax == Max({src, dst})

-----------------------------------------------------------------------------
(* One stage.                                                               *)

(* divisor(): chain.h's rule, over a lattice as large as the rates go.      *)
Divisor(lower) == DesignDivisor(Reduced(<<lower, rmin>>))

(* search_m(): the pins are its results; from divisor 16 up the lengths it  *)
(* finds for the stages of the lattice are those at 16.                     *)
SearchM(band, divisor) ==
  LET row == Max({i \in 1..Len(PinnedDivisors) : ~Less(divisor, PinnedDivisors[i])})
  IN PinFor(band, [pins |-> Pins["economy"][row]])

Span(taps) == Max(taps) - Min(taps) + 1

(* stage_macs(), times L: each row of the table trimmed to its nonzero span.*)
SuperblockMacs(r, m) ==
  LET band   == Band(r)
      rows   == IF r[1] = 1 THEN r[2] ELSE r[1]
      centre == m * band - 1
      Taps(row) == {i \in 0..(2 * m * band - 2) :
                      i % rows = row /\ (i = centre \/ (i - centre) % band # 0)}
  IN FoldFunction(LAMBDA taps, total : total + Span({i \div rows : i \in taps}), 0,
       [row \in 0..(rows - 1) |-> Taps(row)])

Lengths == {Pins["economy"][i][j] : i \in 1..Len(PinnedDivisors), j \in 1..5}
Macs    == [r \in Vocabulary, m \in Lengths |-> SuperblockMacs(r, m)]

StageM(u, v) == SearchM(Band(Reduced(<<v, u>>)), Divisor(Min({u, v})))

(* stage(): its work, and its latency in output frames.                     *)
StageWork(u, v) ==
  LET r == Reduced(<<v, u>>) IN Macs[r, StageM(u, v)] * (v \div r[1])

StageLatency(u, v) ==
  LET r == Reduced(<<v, u>>) IN Reduced(<<StageM(u, v) * Band(r) - 1, r[2]>>)

(* bridge(): its stages, at the factors whose passband takes the chain's.   *)
BridgePairs(k) == {<<1920 * 2^k, 1764 * 2^k>>, <<1764 * 2^k, 1920 * 2^k>>}

BridgePassband == [super_economy |-> 640, economy |-> 720, balanced |-> 760, transparent |-> 800]

Admits(profile, k) ==
  Passband[profile][1] * rmin <= Passband[profile][2] * BridgePassband[profile] * 2^k

IsBridgeUnder(profile, u, v) == \E k \in 0..2 : Admits(profile, k) /\ <<u, v>> \in BridgePairs(k)

IsBridge(u, v) == IsBridgeUnder("economy", u, v)

BridgeTaps(u, v) == IF v < u THEN 58 ELSE 38

BridgeLatency(u, v) ==
  IF v < u THEN Reduced(<<BridgeTaps(u, v) * 147 - 1, 320>>)
  ELSE Reduced(<<BridgeTaps(u, v) * 160 - 1, 294>>)

(* An edge: its work a second, and its latency in the chain's output frames.*)
Work(u, v)    == IF IsBridge(u, v) THEN BridgeTaps(u, v) * v ELSE StageWork(u, v)
Latency(u, v) == Times(IF IsBridge(u, v) THEN BridgeLatency(u, v) ELSE StageLatency(u, v), Reduced(<<dst, v>>))

ChainLatency(chain) ==
  FoldFunction(Plus, <<0,1>>, [i \in 1..(Len(chain) - 1) |-> Latency(chain[i], chain[i + 1])])

-----------------------------------------------------------------------------
(* The rates a chain may pass through: lattice_rates(), and bridge's.       *)
Between(lo, hi, rates) == {r \in rates : lo <= r /\ r <= hi}

Nodes ==
  Between(rmin, Max({rmax, 1920}), {base * 2^a * 3^b : base \in {40, 441}, a \in 0..11, b \in 0..3})
    \cup {src, dst}
    \cup {r \in {rate * 2^k : rate \in {1764, 1920}, k \in 0..2} : 9 * rmin <= 10 * r /\ 10 * r <= 11 * rmax}

(* Fault: the second search takes any bridge.                               *)
AfterAnyBridge(u) ==
  {v \in Nodes : IsBridge(u, v) \/ Reduced(<<v, u>>) \in Vocabulary}

(* The rates one stage leads to from u.                                     *)
After(u) ==
  {v \in Nodes : IF IsBridge(u, v) THEN only \in {<<>>, <<u, v>>}
                 ELSE Reduced(<<v, u>>) \in Vocabulary}

At(e)     == Last(e.chain)
StageCount(e) == Len(e.chain) - 1

Source == [macs |-> 0, chain |-> <<src>>]

Longer(e, v) == [macs |-> e.macs + Work(At(e), v), chain |-> Append(e.chain, v)]

Settled(at, n) == \E e \in seen : At(e) = at /\ StageCount(e) = n

(* By whole frames first, which keeps the products small.                   *)
Sooner(a, b) ==
  \/ a[1] \div a[2] < b[1] \div b[2]
  \/ a[1] \div a[2] = b[1] \div b[2] /\ Less(<<a[1] % a[2], a[2]>>, <<b[1] % b[2], b[2]>>)

Quickest(es) ==
  IF Cardinality(es) = 1 THEN es
  ELSE {e \in es : \A f \in es : ~Sooner(ChainLatency(f.chain), ChainLatency(e.chain))}

(* What the heap's order puts first: by work, stages, latency and rate; how *)
(* it orders chains equal in all of these is left open.                     *)
Firsts(es) ==
  LET least  == Min({e.macs : e \in es})
      byMacs == {e \in es : e.macs = least}
      byLat  == Quickest({e \in byMacs : \A f \in byMacs : StageCount(e) <= StageCount(f)})
  IN {e \in byLat : \A f \in byLat : At(e) <= At(f)}

SearchInit ==
  /\ pair \in Pairs
  /\ round = "search" /\ only = <<>>
  /\ pq = {Source} /\ seen = {}
  /\ cheapest = Source /\ chosen = Source

(* Fault: a rate once reached is not reached with more stages.              *)
PopOncePerRate ==
  /\ round \in {"search", "again"}
  /\ \E e \in Firsts(pq) :
       /\ seen' = seen \cup {e}
       /\ pq' = {f \in pq : At(f) # At(e)}
                \cup (IF StageCount(e) >= MaxStages THEN {}
                      ELSE {Longer(e, v) : v \in {w \in After(At(e)) : \A s \in seen : At(s) # w}})
  /\ UNCHANGED <<pair, round, only, cheapest, chosen>>

(* The loop of chains_by_stage_count().                                     *)
Pop ==
  /\ round \in {"search", "again"}
  /\ \E e \in Firsts(pq) :
       /\ seen' = seen \cup {e}
       /\ pq' = {f \in pq : ~(At(f) = At(e) /\ StageCount(f) = StageCount(e))}
                \cup (IF StageCount(e) >= MaxStages THEN {}
                      ELSE {Longer(e, v) : v \in {w \in After(At(e)) : ~Settled(w, StageCount(e) + 1)}})
  /\ UNCHANGED <<pair, round, only, cheapest, chosen>>

-----------------------------------------------------------------------------
(* best_chain().                                                            *)
Found == {e \in seen : At(e) = dst /\ StageCount(e) > 0}

(* minimal: by work, latency and stages.                                    *)
Minimal ==
  LET byLat == Quickest({e \in Found : \A f \in Found : e.macs <= f.macs})
  IN CHOOSE e \in byLat : \A f \in byLat : StageCount(e) <= StageCount(f)

Hops(chain)    == {i \in 1..(Len(chain) - 1) : IsBridge(chain[i], chain[i + 1])}
Bridges(chain) == [i \in Hops(chain) |-> <<chain[i], chain[i + 1]>>]

(* rational_macs(), which looks each bridge up among those priced.          *)
RationalMacs(e) ==
  e.macs - FoldFunction(LAMBDA hop, total : total + Work(hop[1], hop[2]), 0, Bridges(e.chain))

(* Fault: the fewest stages, at any price.                                  *)
FewestOfAll(minimal) ==
  CHOOSE e \in Found : \A f \in Found : StageCount(e) <= StageCount(f)

(* The fewest stages whose rational stages cost a tenth more at most.       *)
Fewest(minimal) ==
  LET fewer == {e \in Found : /\ StageCount(e) < StageCount(minimal)
                              /\ 10 * RationalMacs(e) <= 11 * RationalMacs(minimal)}
  IN IF fewer = {} THEN minimal ELSE CHOOSE e \in fewer : \A f \in fewer : StageCount(e) <= StageCount(f)

SearchAgain ==
  /\ round = "search" /\ pq = {} /\ Hops(Minimal.chain) # {}
  /\ round' = "again"
  /\ cheapest' = Minimal
  /\ only' = LET first == Min(Hops(Minimal.chain)) IN Bridges(Minimal.chain)[first]
  /\ pq' = {Source} /\ seen' = {}
  /\ UNCHANGED <<pair, chosen>>

Choose ==
  /\ pq = {}
  /\ \/ round = "search" /\ Hops(Minimal.chain) = {} /\ cheapest' = Minimal
     \/ round = "again" /\ UNCHANGED cheapest
  /\ round' = "done"
  /\ chosen' = Fewest(cheapest')
  /\ UNCHANGED <<pair, only, pq, seen>>

SearchNext == Pop \/ SearchAgain \/ Choose

SearchSpec == SearchInit /\ [][SearchNext]_searchVars

-----------------------------------------------------------------------------
(* What is settled with n stages: the rates and their work.                 *)
Works(n) == {<<At(e), e.macs>> : e \in {f \in seen : StageCount(f) = n}}

(* The least work to each rate one stage further, by the definition.        *)
LeastAfter(works) ==
  LET further == UNION {{<<v, w[2] + Work(w[1], v)>> : v \in After(w[1])} : w \in works}
  IN {<<v, Min({f[2] : f \in {g \in further : g[1] = v}})>> : v \in {f[1] : f \in further}}

(* A search settles every rate that n stages reach, and at the least work   *)
(* of all chains of n stages: what is settled with n + 1 is the least that  *)
(* one more stage makes of what is settled with n.                          *)
SearchIsMinimal ==
  round # "done" /\ pq = {} =>
    /\ Works(0) = {<<src, 0>>}
    /\ \A n \in 0..(MaxStages - 1) : Works(n + 1) = LeastAfter(Works(n))

RatiosOf(chain) == [i \in 1..(Len(chain) - 1) |-> Reduced(<<chain[i + 1], chain[i]>>)]

(* used_divisors().                                                         *)
UsedDivisors(chain) ==
  [i \in DOMAIN RatiosOf(chain) |-> Divisor(Min({chain[i], chain[i + 1]}))]

(* cost_chain(), which asserts that the chain's bridge is one under every   *)
(* profile; its stages are those of the vocabulary.                         *)
Costable(chain) ==
  \A i \in Hops(chain), profile \in Profiles : IsBridgeUnder(profile, chain[i], chain[i + 1])

(* "The named chains of the coverage matrix, one per distinct chain of two  *)
(* or more stages": what is chosen within a family is a named chain, at the *)
(* divisors chain.h designs it for, or a single stage; and no stage chosen  *)
(* is at a divisor without a pin, where creating it would search.           *)
NamedWithinFamily ==
  LET stages == RatiosOf(chosen.chain)
      used   == UsedDivisors(chosen.chain)
      hops   == Hops(chosen.chain)
  IN /\ hops = {} => /\ Len(stages) = 1 \/ stages \in Range(NamedChains)
                     /\ used = Divisors(stages)
     /\ \A i \in DOMAIN stages \ hops : used[i] \in Range(PinnedDivisors)

(* "One bridge stage at the lowest k whose passband admits f_pass": one     *)
(* between the families, none within, and the same under every profile.     *)
BridgeOnce ==
  LET hops == Hops(chosen.chain)
  IN /\ Cardinality(hops) = IF (src % 441 = 0) = (dst % 441 = 0) THEN 0 ELSE 1
     /\ \A i \in hops :
          <<chosen.chain[i], chosen.chain[i + 1]>>
            \in BridgePairs(Min({k \in 0..2 : Admits("economy", k)}))
     /\ Costable(chosen.chain)

(* The fewest-stages rule only weighs bridges that were priced.             *)
BridgesArePriced ==
  \A e \in Found : StageCount(e) <= StageCount(cheapest) =>
    Range(Bridges(e.chain)) \subseteq Range(Bridges(cheapest.chain))

(* What is chosen can be built as the libraries have it: by name and pin,   *)
(* with one bridge, priced before it was weighed, where the families change.*)
ChosenIsBuildable ==
  round = "done" => NamedWithinFamily /\ BridgeOnce /\ BridgesArePriced

=============================================================================
