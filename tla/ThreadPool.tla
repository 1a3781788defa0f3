------------------------------ MODULE ThreadPool ------------------------------
(***************************************************************************)
(* multi_thread::TaskQueue and multi_thread::ThreadPool (thread_pool.h,    *)
(* thread_pool.cpp): a FIFO of tasks behind one mutex and one condition    *)
(* variable, and worker threads that pop and run tasks until the queue has *)
(* been shut down and drained.                                             *)
(*                                                                         *)
(* Every access to the queue and to `running` happens with the mutex held, *)
(* and no second mutex is taken inside, so a critical section is one       *)
(* action.  cv.wait releases the mutex, which splits pop: a worker either  *)
(* falls asleep (PopWait), takes a task (PopTake) or is told to stop       *)
(* (PopStop); a woken worker goes round the while loop again.              *)
(*                                                                         *)
(* Tasks are numbered by the order of their submission.                    *)
(***************************************************************************)
EXTENDS Naturals, Sequences, FiniteSets

CONSTANTS
  Workers,    \* the worker threads
  MaxTasks,   \* bound: how many tasks are ever submitted
  Stuck       \* the tasks whose call never returns (a silent peer, say)

ASSUME WorkersAssumption == IsFiniteSet(Workers) /\ Workers # {}
ASSUME MaxTasksAssumption == MaxTasks \in Nat
ASSUME StuckAssumption == Stuck \subseteq 1..MaxTasks

NoTask == 0

VARIABLES
  tasks,      \* TaskQueue::tasks
  running,    \* TaskQueue::running
  waiting,    \* the workers blocked in cv.wait
  pc,         \* where each worker is
  current,    \* the task each worker is executing, or NoTask
  owner,      \* the thread that constructs and shuts down the pool
  submitted,  \* history: number of tasks submitted
  started,    \* history: number of tasks popped
  done,       \* history: the tasks whose call has returned
  accepted    \* history: number of tasks submitted before the shutdown

vars == <<tasks, running, waiting, pc, current, owner,
          submitted, started, done, accepted>>

Init ==
  /\ tasks = <<>>
  /\ running = TRUE
  /\ waiting = {}
  /\ pc = [w \in Workers |-> "unborn"]
  /\ current = [w \in Workers |-> NoTask]
  /\ owner = "building"
  /\ submitted = 0
  /\ started = 0
  /\ done = {}
  /\ accepted = 0

-------------------------------------------------------------------------------
(* The constructor creates the workers one after the other; those already   *)
(* created run while the others are still to come.  Which thread object is  *)
(* next makes no difference.                                                *)
Spawn(w) ==
  /\ owner = "building"
  /\ pc[w] = "unborn"
  /\ pc' = [pc EXCEPT ![w] = "pop"]
  /\ owner' = IF \A v \in Workers \ {w} : pc[v] # "unborn" THEN "open" ELSE owner
  /\ UNCHANGED <<tasks, running, waiting, current,
                 submitted, started, done, accepted>>

(* A plausible bug of push: the notification is forgotten. *)
PushWithoutNotify ==
  /\ owner # "building"
  /\ submitted < MaxTasks
  /\ submitted' = submitted + 1
  /\ tasks' = Append(tasks, submitted + 1)
  /\ accepted' = IF running THEN accepted + 1 ELSE accepted
  /\ UNCHANGED <<running, waiting, pc, current, owner, started, done>>

(* submit -> push: any thread that holds a reference may call it, during   *)
(* and after a shutdown too: push does not look at `running`.              *)
(* notify_one wakes one sleeping worker, if there is one.                  *)
Submit ==
  /\ owner # "building"
  /\ submitted < MaxTasks
  /\ submitted' = submitted + 1
  /\ tasks' = Append(tasks, submitted + 1)
  /\ \/ waiting = {} /\ waiting' = {}
     \/ \E w \in waiting : waiting' = waiting \ {w}
  /\ accepted' = IF running THEN accepted + 1 ELSE accepted
  /\ UNCHANGED <<running, pc, current, owner, started, done>>

-------------------------------------------------------------------------------
(* A worker inside pop that holds the mutex: asleep it does not. *)
InPop(w) == pc[w] = "pop" /\ w \notin waiting

PopWait(w) ==
  /\ InPop(w)
  /\ tasks = <<>> /\ running
  /\ waiting' = waiting \cup {w}
  /\ UNCHANGED <<tasks, running, pc, current, owner,
                 submitted, started, done, accepted>>

(* cv.wait may return without a notification. *)
SpuriousWakeup(w) ==
  /\ w \in waiting
  /\ waiting' = waiting \ {w}
  /\ UNCHANGED <<tasks, running, pc, current, owner,
                 submitted, started, done, accepted>>

(* Plausible bugs of pop: the newest task is taken; a worker stops as soon *)
(* as the pool is shut down.                                               *)
PopTakeNewest(w) ==
  /\ InPop(w)
  /\ tasks # <<>>
  /\ current' = [current EXCEPT ![w] = tasks[Len(tasks)]]
  /\ tasks' = SubSeq(tasks, 1, Len(tasks) - 1)
  /\ pc' = [pc EXCEPT ![w] = "run"]
  /\ started' = started + 1
  /\ UNCHANGED <<running, waiting, owner, submitted, done, accepted>>

PopStopUndrained(w) ==
  /\ InPop(w)
  /\ ~running
  /\ pc' = [pc EXCEPT ![w] = "exit"]
  /\ UNCHANGED <<tasks, running, waiting, current, owner,
                 submitted, started, done, accepted>>

PopTake(w) ==
  /\ InPop(w)
  /\ tasks # <<>>
  /\ current' = [current EXCEPT ![w] = Head(tasks)]
  /\ tasks' = Tail(tasks)
  /\ pc' = [pc EXCEPT ![w] = "run"]
  /\ started' = started + 1
  /\ UNCHANGED <<running, waiting, owner, submitted, done, accepted>>

(* pop returns false, the worker's loop ends and with it the thread. *)
PopStop(w) ==
  /\ InPop(w)
  /\ tasks = <<>> /\ ~running
  /\ pc' = [pc EXCEPT ![w] = "exit"]
  /\ UNCHANGED <<tasks, running, waiting, current, owner,
                 submitted, started, done, accepted>>

Pop(w) == PopWait(w) \/ PopTake(w) \/ PopStop(w)

(* task() returns.  Nothing in the pool bounds how long a task takes. *)
Finish(w) ==
  /\ pc[w] = "run"
  /\ current[w] \notin Stuck
  /\ done' = done \cup {current[w]}
  /\ current' = [current EXCEPT ![w] = NoTask]
  /\ pc' = [pc EXCEPT ![w] = "pop"]
  /\ UNCHANGED <<tasks, running, waiting, owner, submitted, started, accepted>>

-------------------------------------------------------------------------------
(* A plausible bug of shutdown: only one sleeping worker is notified. *)
ShutdownNotifyOne ==
  /\ owner \in {"open", "stopped"}
  /\ running' = FALSE
  /\ \/ waiting = {} /\ waiting' = {}
     \/ \E w \in waiting : waiting' = waiting \ {w}
  /\ owner' = IF owner = "open" THEN "joining" ELSE owner
  /\ UNCHANGED <<tasks, pc, current, submitted, started, done, accepted>>

(* shutdown(), called explicitly or by the destructor; after an explicit   *)
(* call the destructor's own call finds no joinable thread and returns.    *)
Shutdown ==
  /\ owner \in {"open", "stopped"}
  /\ running' = FALSE
  /\ waiting' = {}
  /\ owner' = IF owner = "open" THEN "joining" ELSE owner
  /\ UNCHANGED <<tasks, pc, current, submitted, started, done, accepted>>

(* The loop of blocking joins is over when every worker has returned. *)
JoinAll ==
  /\ owner = "joining"
  /\ \A w \in Workers : pc[w] = "exit"
  /\ owner' = "stopped"
  /\ UNCHANGED <<tasks, running, waiting, pc, current,
                 submitted, started, done, accepted>>

Next ==
  \/ Submit
  \/ Shutdown
  \/ JoinAll
  \/ \E w \in Workers :
       Spawn(w) \/ Pop(w) \/ SpuriousWakeup(w) \/ Finish(w)

(* The scheduler runs every thread that can run; a task that is not stuck  *)
(* returns.  Nobody is obliged to submit a task or to shut the pool down.  *)
Fairness ==
  /\ WF_vars(JoinAll)
  /\ \A w \in Workers : WF_vars(Spawn(w)) /\ WF_vars(Pop(w)) /\ WF_vars(Finish(w))

Spec == Init /\ [][Next]_vars

FairSpec == Spec /\ Fairness

-------------------------------------------------------------------------------
(* Every variable has its type. *)
TypeOK ==
  /\ tasks \in Seq(1..MaxTasks)
  /\ running \in BOOLEAN
  /\ waiting \subseteq Workers
  /\ pc \in [Workers -> {"unborn", "pop", "run", "exit"}]
  /\ current \in [Workers -> 0..MaxTasks]
  /\ owner \in {"building", "open", "joining", "stopped"}
  /\ submitted \in 0..MaxTasks
  /\ started \in Nat
  /\ done \subseteq 1..MaxTasks
  /\ accepted \in Nat

(* The queue holds exactly the tasks submitted and not yet popped, oldest  *)
(* first: std::queue and the mutex keep the order of submission.           *)
QueueOrder ==
  /\ started + Len(tasks) = submitted
  /\ \A i \in 1..Len(tasks) : tasks[i] = started + i

(* No popped task is lost, forgotten in a worker or run twice: it has      *)
(* either returned or is being executed by exactly one worker.             *)
ExactlyOnce ==
  /\ \A k \in 1..started : k \in done \/ \E w \in Workers : current[w] = k
  /\ \A w \in Workers : current[w] # NoTask => current[w] <= started /\ current[w] \notin done
  /\ \A v, w \in Workers : current[v] = current[w] /\ current[v] # NoTask => v = w
  /\ \A k \in done : k <= started

(* The workers on their way to the queue. *)
Awake == {w \in Workers : InPop(w)}

(* As long as a worker sleeps, every queued task has a worker of its own   *)
(* that is awake and on its way to the queue: one notify_one per push is   *)
(* enough, also when notifications, spurious wakeups and workers that come *)
(* back from a task overtake each other.                                   *)
NoLostWakeup == waiting # {} => Len(tasks) <= Cardinality(Awake)

(* When shutdown() has returned, every task submitted before it was called *)
(* has been executed: shutting down drains the queue.                      *)
DrainedWhenStopped == owner = "stopped" => 1..accepted \subseteq done

(* The pool implements its abstract promise. *)
Pool == INSTANCE FifoPool
ImplementsFifoPool == Pool!Spec

(* A task accepted before the shutdown is eventually started, as long as   *)
(* fewer tasks than there are workers get stuck.                           *)
AcceptedTasksStart ==
  Cardinality(Stuck) < Cardinality(Workers) =>
    \A k \in 1..MaxTasks : (k <= accepted) ~> (k <= started)

(* shutdown() returns, whatever the workers are doing when it is called,   *)
(* unless a worker is in a task that never returns.                        *)
ShutdownReturns ==
  owner = "joining" ~> owner = "stopped" \/ \E w \in Workers : current[w] \in Stuck
===============================================================================
