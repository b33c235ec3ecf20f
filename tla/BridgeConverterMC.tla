-------------------------- MODULE BridgeConverterMC --------------------------
(* BridgeConverter for TLC: a designed and normalized prototype.            *)
EXTENDS BridgeConverter, BridgeDesign
MCPrototype == Normalized(L, Taps)
=============================================================================
