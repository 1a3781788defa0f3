-------------------------------- MODULE MCServer ------------------------------
(* A small instance of Server for TLC. *)
EXTENDS Server

CONSTANTS w1, w2, f1, f2, f3

TwoWorkers == {w1, w2}
ThreeFds == {f1, f2, f3}
SecondStuck == {2}
===============================================================================
