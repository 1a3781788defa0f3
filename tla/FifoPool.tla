------------------------------- MODULE FifoPool -------------------------------
(***************************************************************************)
(* What a thread pool promises to its caller, without queue, mutex or      *)
(* condition variable: tasks are numbered in the order in which they were  *)
(* submitted, they are started in that order, each of them once, each by   *)
(* one worker, and a worker serves one task at a time.                     *)
(* ThreadPool implements this module; Server is built on top of it.        *)
(***************************************************************************)
EXTENDS Naturals

CONSTANTS
  Workers,    \* the pool's threads
  MaxTasks    \* bound: how many tasks are ever submitted

NoTask == 0

VARIABLES
  submitted,  \* number of tasks handed to the pool
  started,    \* number of tasks some worker has begun
  current,    \* the task each worker is executing, or NoTask
  done        \* the tasks whose call has returned

vars == <<submitted, started, current, done>>

Init ==
  /\ submitted = 0
  /\ started = 0
  /\ current = [w \in Workers |-> NoTask]
  /\ done = {}

Submit ==
  /\ submitted < MaxTasks
  /\ submitted' = submitted + 1
  /\ UNCHANGED <<started, current, done>>

Start(w) ==
  /\ current[w] = NoTask
  /\ started < submitted
  /\ started' = started + 1
  /\ current' = [current EXCEPT ![w] = started + 1]
  /\ UNCHANGED <<submitted, done>>

Finish(w) ==
  /\ current[w] # NoTask
  /\ done' = done \cup {current[w]}
  /\ current' = [current EXCEPT ![w] = NoTask]
  /\ UNCHANGED <<submitted, started>>

Next == Submit \/ \E w \in Workers : Start(w) \/ Finish(w)

Spec == Init /\ [][Next]_vars
===============================================================================
