----------------------------- MODULE MCMainLoop -----------------------------
(* Two instances of the main loop: the order stream without markets, and the *)
(* price stream of two markets without orders. The streams meet in the main  *)
(* loop's turn only.                                                         *)
EXTENDS MainLoop
CONSTANTS k1, k2, o1, p1, p2
=============================================================================
