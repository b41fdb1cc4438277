-------------------------- MODULE MCImageGeneration --------------------------
(* Small instances of ImageGeneration for TLC. *)
EXTENDS ImageGeneration

CONSTANTS desktop, mobile, q1, q2, w1, w2

MCBreakpoints == {desktop, mobile}
MCRequests == {q1, q2}
MCWorkers == {w1, w2}

MCCalm == calm
=============================================================================
