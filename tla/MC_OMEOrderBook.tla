-------------------------- MODULE MC_OMEOrderBook --------------------------
(* Model-checking instance of OMEOrderBook: two clients, three prices,     *)
(* two quantities.  MAX_PRICE_LEVELS exceeds every price in the passing    *)
(* runs, as Limits::MAX_PRICE_LEVELS exceeds the prices the tests use.     *)
EXTENDS OMEOrderBook, TLC

CONSTANTS c1, c2

MC_Clients == {c1, c2}
MC_Symmetry == Permutations(MC_Clients)
=============================================================================
