------------------------------- MODULE MCAuth -------------------------------
(* A small instance of Auth for TLC. *)
EXTENDS Auth

CONSTANTS a1, a2, t1, t2, t3, p1, p2, lower, Upper

(* Two spellings of one address. *)
MCNormalised == [s \in Spellings |-> lower]
=============================================================================
