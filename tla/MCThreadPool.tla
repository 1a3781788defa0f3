----------------------------- MODULE MCThreadPool -----------------------------
(* A small instance of ThreadPool for TLC: two tasks never return, which      *)
(* leaves one of the three workers.                                           *)
EXTENDS ThreadPool

CONSTANTS w1, w2, w3

ThreeWorkers == {w1, w2, w3}
TwoStuck == {4, 5}
===============================================================================
