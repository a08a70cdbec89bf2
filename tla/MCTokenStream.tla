--------------------------- MODULE MCTokenStream ---------------------------
(* Small instances of TokenStream for TLC.                                 *)
EXTENDS TokenStream, TLC

MCFaults == FaultKinds
=============================================================================
