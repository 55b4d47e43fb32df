--------------------------- MODULE MCCaptureStdio ---------------------------
(***************************************************************************)
(* Two goroutines that capture, one that prints meanwhile, pipes that hold *)
(* a single print.                                                         *)
(***************************************************************************)
EXTENDS CaptureStdio

CONSTANTS c1, c2, g1

MCMaxPrints == [g \in {c1, c2, g1} |-> IF g = c1 THEN 2 ELSE 1]
=============================================================================
