-------------------------------- MODULE CAbiMC --------------------------------
(***************************************************************************)
(* CAbi for TLC: design divisors with a pin (not reduced), without one,    *)
(* that search in vain, below the passband, and of no value.               *)
(***************************************************************************)
EXTENDS CAbi
MCDivisors == {<<4,2>>, <<5,1>>, <<10,13>>, <<1,2>>, <<0,1>>, <<1,0>>}
=============================================================================
