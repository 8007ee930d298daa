---------------------------- MODULE MCSharedMaps ----------------------------
(* SharedMaps for TLC: blocks of two functions, one block without a symbol, *)
(* and room for one id.                                                     *)
EXTENDS SharedMaps, TLC

CONSTANTS f, g, b1, b2, b3
MCSymbolOf == b1 :> f @@ b2 :> g @@ b3 :> NoName
MCFlagsOf == b1 :> {"FP"} @@ b2 :> {} @@ b3 :> {"SIMD"}
=============================================================================
