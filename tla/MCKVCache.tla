----------------------------- MODULE MCKVCache -----------------------------
(* Small instances of the KV cache manager for TLC, called directly or by   *)
(* the engine's adapter.  Blocks are interchangeable: nothing in the        *)
(* modules prefers one to another.                                          *)
EXTENDS EngineCache, TLC

BlockSymmetry == Permutations(Blocks)
=============================================================================
