----------------------------- MODULE MCRefunds -----------------------------
(* Refunds over two refunds of a payment of two, by two handlers. *)
EXTENDS Refunds, TLC

CONSTANTS r1, r2, h1, h2

MCRefunds == {r1, r2}
MCHandlers == {h1, h2}
=============================================================================
