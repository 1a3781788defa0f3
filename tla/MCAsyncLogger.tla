----------------------------- MODULE MCAsyncLogger ----------------------------
(* A small instance of AsyncLogger for TLC. *)
EXTENDS AsyncLogger

CONSTANTS t1, t2

TwoThreads == {t1, t2}
===============================================================================
