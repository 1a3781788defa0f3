--------------------------- MODULE ThreadPoolProofs ---------------------------
(***************************************************************************)
(* The safety of ThreadPool for every finite set of workers, every number  *)
(* of tasks and every set of tasks that never return.                      *)
(*                                                                         *)
(* The inductive invariant adds to the checked ones two facts about the    *)
(* control state: Phases, which worker state goes with which queue state,  *)
(* and Drain, why a worker that left its loop has left nothing behind.     *)
(***************************************************************************)
EXTENDS ThreadPool, FiniteSetTheorems, TLAPS

Phases ==
  /\ \A w \in Workers : pc[w] = "run" <=> current[w] # NoTask
  /\ \A w \in waiting : pc[w] = "pop"
  /\ running <=> owner \in {"building", "open"}
  /\ ~running => waiting = {}

Drain ==
  /\ accepted <= submitted
  /\ running => accepted = submitted
  /\ \A w \in Workers : pc[w] = "exit" => ~running /\ accepted <= started
  /\ owner = "stopped" => \A w \in Workers : pc[w] = "exit"

Typed == TypeOK /\ Phases

IInv == Typed /\ QueueOrder /\ ExactlyOnce /\ NoLostWakeup /\ Drain

-------------------------------------------------------------------------------
(* Typing *)

LEMMA TypedInit == Init => Typed
  BY MaxTasksAssumption DEF Init, Typed, TypeOK, Phases, NoTask

LEMMA TypedNext == Typed /\ [Next]_vars => Typed'
<1> SUFFICES ASSUME Typed, [Next]_vars
             PROVE  Typed'
  OBVIOUS
<1> USE MaxTasksAssumption DEF Typed, TypeOK, Phases, NoTask
<1>1. CASE Submit
  <2>1. submitted + 1 \in 1..MaxTasks
    BY <1>1 DEF Submit
  <2>2. tasks' \in Seq(1..MaxTasks)
    BY <1>1, <2>1 DEF Submit
  <2>3. waiting' \subseteq waiting
    BY <1>1 DEF Submit
  <2>4. QED
    BY <1>1, <2>1, <2>2, <2>3 DEF Submit
<1>2. CASE Shutdown
  BY <1>2 DEF Shutdown
<1>3. CASE JoinAll
  BY <1>3 DEF JoinAll
<1>4. ASSUME NEW w \in Workers, Spawn(w)
      PROVE  Typed'
  BY <1>4 DEF Spawn
<1>5. ASSUME NEW w \in Workers, PopWait(w)
      PROVE  Typed'
  BY <1>5 DEF PopWait, InPop
<1>6. ASSUME NEW w \in Workers, PopTake(w)
      PROVE  Typed'
  <2>1. Head(tasks) \in 1..MaxTasks /\ tasks' \in Seq(1..MaxTasks)
    BY <1>6 DEF PopTake
  <2>2. QED
    BY <1>6, <2>1 DEF PopTake, InPop
<1>7. ASSUME NEW w \in Workers, PopStop(w)
      PROVE  Typed'
  BY <1>7 DEF PopStop, InPop
<1>8. ASSUME NEW w \in Workers, SpuriousWakeup(w)
      PROVE  Typed'
  BY <1>8 DEF SpuriousWakeup
<1>9. ASSUME NEW w \in Workers, Finish(w)
      PROVE  Typed'
  <2>1. current[w] \in 1..MaxTasks
    BY <1>9 DEF Finish
  <2>2. done' \subseteq 1..MaxTasks
    BY <1>9, <2>1 DEF Finish
  <2>3. QED
    BY <1>9, <2>2 DEF Finish
<1>10. CASE UNCHANGED vars
  BY <1>10 DEF vars
<1>11. QED
  BY <1>1, <1>2, <1>3, <1>4, <1>5, <1>6, <1>7, <1>8, <1>9, <1>10 DEF Next, Pop

(* Every variable of the pool keeps its type. *)
THEOREM PoolTypeCorrect == Spec => []TypeOK
<1>1. Spec => []Typed
  BY TypedInit, TypedNext, PTL DEF Spec
<1>2. Typed => TypeOK
  BY DEF Typed
<1>3. QED
  BY <1>1, <1>2, PTL

-------------------------------------------------------------------------------
(* The queue *)

LEMMA QueueOrderNext == Typed /\ QueueOrder /\ [Next]_vars => QueueOrder'
<1> SUFFICES ASSUME Typed, QueueOrder, [Next]_vars
             PROVE  QueueOrder'
  OBVIOUS
<1>0. /\ tasks \in Seq(1..MaxTasks) /\ Len(tasks) \in Nat
      /\ started \in Nat /\ submitted \in Nat
      /\ started + Len(tasks) = submitted
      /\ \A i \in 1..Len(tasks) : tasks[i] = started + i
  BY MaxTasksAssumption DEF Typed, TypeOK, QueueOrder
<1>1. CASE Submit
  <2>1. /\ tasks' = Append(tasks, submitted + 1)
        /\ submitted' = submitted + 1 /\ started' = started
    BY <1>1 DEF Submit
  <2>2. Len(tasks') = Len(tasks) + 1
    BY <1>0, <2>1
  <2>3. \A i \in 1..Len(tasks') :
          tasks'[i] = IF i \in 1..Len(tasks) THEN tasks[i] ELSE submitted + 1
    BY <1>0, <2>1
  <2>4. QED
    BY <1>0, <2>1, <2>2, <2>3 DEF QueueOrder
<1>2. ASSUME NEW w \in Workers, PopTake(w)
      PROVE  QueueOrder'
  <2>1. /\ tasks # <<>> /\ tasks' = Tail(tasks)
        /\ started' = started + 1 /\ submitted' = submitted
    BY <1>2 DEF PopTake
  <2>2. /\ Len(tasks') = Len(tasks) - 1
        /\ \A i \in 1..Len(tasks') : tasks'[i] = tasks[i + 1]
    BY <1>0, <2>1
  <2>3. QED
    BY <1>0, <2>1, <2>2 DEF QueueOrder
<1>3. CASE UNCHANGED <<tasks, started, submitted>>
  BY <1>3 DEF QueueOrder
<1>4. QED
  BY <1>1, <1>2, <1>3
     DEF Next, vars, Pop, Shutdown, JoinAll, Spawn, PopWait, PopStop,
         SpuriousWakeup, Finish

(* The task at the head of the queue is the oldest one not yet started. *)
LEMMA HeadIsNext ==
  ASSUME Typed, QueueOrder, tasks # <<>>
  PROVE  Head(tasks) = started + 1 /\ started < submitted
  BY DEF Typed, TypeOK, QueueOrder

(* The queue holds the unstarted tasks in the order of their submission. *)
THEOREM QueueOrderCorrect == Spec => []QueueOrder
<1>1. Init => Typed /\ QueueOrder
  BY TypedInit DEF Init, QueueOrder
<1>2. Typed /\ QueueOrder /\ [Next]_vars => (Typed /\ QueueOrder)'
  BY TypedNext, QueueOrderNext
<1>3. QED
  BY <1>1, <1>2, PTL DEF Spec

LEMMA ExactlyOnceNext ==
  Typed /\ QueueOrder /\ ExactlyOnce /\ [Next]_vars => ExactlyOnce'
<1> SUFFICES ASSUME Typed, QueueOrder, ExactlyOnce, [Next]_vars
             PROVE  ExactlyOnce'
  OBVIOUS
<1> USE DEF Typed, TypeOK, Phases, ExactlyOnce, NoTask
<1>1. ASSUME NEW w \in Workers, PopTake(w)
      PROVE  ExactlyOnce'
  <2>1. Head(tasks) = started + 1
    BY <1>1, HeadIsNext DEF PopTake
  <2>2. current' = [current EXCEPT ![w] = started + 1]
    BY <1>1, <2>1 DEF PopTake
  <2>3. current[w] = NoTask /\ started' = started + 1 /\ done' = done
    BY <1>1 DEF PopTake, InPop
  <2>4. \A k \in 1..started' : k \in done' \/ \E v \in Workers : current'[v] = k
    BY <2>2, <2>3
  <2>5. \A v \in Workers : current'[v] # NoTask =>
          current'[v] <= started' /\ current'[v] \notin done'
    BY <2>2, <2>3
  <2>6. \A u, v \in Workers : current'[u] = current'[v] /\ current'[u] # NoTask => u = v
    BY <2>2, <2>3
  <2>7. \A k \in done' : k <= started'
    BY <2>3, MaxTasksAssumption
  <2>8. QED
    BY <2>4, <2>5, <2>6, <2>7
<1>2. ASSUME NEW w \in Workers, Finish(w)
      PROVE  ExactlyOnce'
  <2>1. /\ current' = [current EXCEPT ![w] = NoTask]
        /\ done' = done \cup {current[w]}
        /\ started' = started
        /\ current[w] # NoTask
    BY <1>2 DEF Finish
  <2>2. \A k \in 1..started' : k \in done' \/ \E v \in Workers : current'[v] = k
    BY <2>1
  <2>3. \A v \in Workers : current'[v] # NoTask =>
          current'[v] <= started' /\ current'[v] \notin done'
    BY <2>1
  <2>4. \A u, v \in Workers : current'[u] = current'[v] /\ current'[u] # NoTask => u = v
    BY <2>1
  <2>5. \A k \in done' : k <= started'
    BY <2>1
  <2>6. QED
    BY <2>2, <2>3, <2>4, <2>5
<1>3. CASE UNCHANGED <<current, started, done>>
  BY <1>3
<1>4. QED
  BY <1>1, <1>2, <1>3
     DEF Next, vars, Pop, Submit, Shutdown, JoinAll, Spawn, PopWait, PopStop,
         SpuriousWakeup

(* A popped task is run once, by one worker, and never forgotten. *)
THEOREM ExactlyOnceCorrect == Spec => []ExactlyOnce
<1> DEFINE J == Typed /\ QueueOrder /\ ExactlyOnce
<1>1. Init => J
  BY TypedInit DEF Init, QueueOrder, ExactlyOnce, NoTask
<1>2. J /\ [Next]_vars => J'
  BY TypedNext, QueueOrderNext, ExactlyOnceNext
<1>3. QED
  BY <1>1, <1>2, PTL DEF Spec

-------------------------------------------------------------------------------
(* The condition variable *)

LEMMA AwakeFinite ==
  /\ IsFiniteSet(Awake) /\ Cardinality(Awake) \in Nat
  /\ IsFiniteSet(Awake') /\ Cardinality(Awake') \in Nat
<1>1. Awake \in SUBSET Workers /\ Awake' \in SUBSET Workers
  BY DEF Awake
<1>2. IsFiniteSet(Awake) /\ IsFiniteSet(Awake')
  BY <1>1, WorkersAssumption, FS_Subset
<1>3. QED
  BY <1>2, FS_CardinalityType

LEMMA OneMoreAwake ==
  ASSUME NEW w, w \notin Awake, Awake' = Awake \cup {w}
  PROVE  Cardinality(Awake') = Cardinality(Awake) + 1
  BY AwakeFinite, FS_AddElement

LEMMA OneLessAwake ==
  ASSUME NEW w, w \in Awake, Awake' = Awake \ {w}
  PROVE  Cardinality(Awake') = Cardinality(Awake) - 1
  BY AwakeFinite, FS_RemoveElement

(* A worker that was not awake and now is: every action that adds one. *)
LEMMA WakeupKeepsBound ==
  ASSUME NoLostWakeup, NEW w, w \notin Awake, Awake' = Awake \cup {w},
         waiting' \subseteq waiting, Len(tasks) \in Nat, Len(tasks') \in Nat,
         Len(tasks') <= Len(tasks) + 1
  PROVE  NoLostWakeup'
<1>1. Cardinality(Awake') = Cardinality(Awake) + 1
  BY OneMoreAwake
<1>2. Cardinality(Awake) \in Nat
  BY AwakeFinite
<1>3. waiting' # {} => waiting # {}
  OBVIOUS
<1>4. QED
  BY <1>1, <1>2, <1>3 DEF NoLostWakeup

LEMMA NoLostWakeupNext == Typed /\ NoLostWakeup /\ [Next]_vars => NoLostWakeup'
<1> SUFFICES ASSUME Typed, NoLostWakeup, [Next]_vars
             PROVE  NoLostWakeup'
  OBVIOUS
<1> USE DEF Typed, TypeOK, Phases
<1>0. Len(tasks) \in Nat /\ Typed' /\ Len(tasks') \in Nat
  BY TypedNext
<1>1. CASE Submit
  <2>1. CASE waiting' = {}
    BY <2>1 DEF NoLostWakeup
  <2>2. ASSUME NEW w \in waiting, waiting' = waiting \ {w}
        PROVE  NoLostWakeup'
    <3>1. w \notin Awake /\ Awake' = Awake \cup {w}
      BY <1>1, <2>2 DEF Submit, Awake, InPop
    <3>2. Len(tasks') = Len(tasks) + 1
      BY <1>1 DEF Submit
    <3>3. QED
      BY <1>0, <2>2, <3>1, <3>2, WakeupKeepsBound
  <2>3. QED
    BY <1>1, <2>1, <2>2 DEF Submit
<1>2. CASE Shutdown
  BY <1>2 DEF Shutdown, NoLostWakeup
<1>3. ASSUME NEW w \in Workers, Spawn(w) \/ Finish(w) \/ SpuriousWakeup(w)
      PROVE  NoLostWakeup'
  <2>1. w \notin Awake /\ Awake' = Awake \cup {w}
    BY <1>3 DEF Spawn, Finish, SpuriousWakeup, Awake, InPop
  <2>2. tasks' = tasks /\ waiting' \subseteq waiting
    BY <1>3 DEF Spawn, Finish, SpuriousWakeup
  <2>3. QED
    BY <1>0, <2>1, <2>2, WakeupKeepsBound
<1>4. ASSUME NEW w \in Workers, PopWait(w)
      PROVE  NoLostWakeup'
  <2>1. Len(tasks') = 0
    BY <1>4 DEF PopWait
  <2>2. QED
    BY <2>1, AwakeFinite DEF NoLostWakeup
<1>5. ASSUME NEW w \in Workers, PopTake(w)
      PROVE  NoLostWakeup'
  <2>1. w \in Awake /\ Awake' = Awake \ {w}
    BY <1>5 DEF PopTake, Awake, InPop
  <2>2. Len(tasks') = Len(tasks) - 1 /\ waiting' = waiting
    BY <1>5 DEF PopTake
  <2>3. Cardinality(Awake') = Cardinality(Awake) - 1
    BY <2>1, OneLessAwake
  <2>4. QED
    BY <1>0, <2>2, <2>3, AwakeFinite DEF NoLostWakeup
<1>6. ASSUME NEW w \in Workers, PopStop(w)
      PROVE  NoLostWakeup'
  BY <1>6 DEF PopStop, NoLostWakeup
<1>7. CASE JoinAll \/ UNCHANGED vars
  <2>1. waiting' = waiting /\ tasks' = tasks /\ pc' = pc
    BY <1>7 DEF JoinAll, vars
  <2>2. Awake' = Awake
    BY <2>1 DEF Awake, InPop
  <2>3. QED
    BY <2>1, <2>2 DEF NoLostWakeup
<1>8. QED
  BY <1>1, <1>2, <1>3, <1>4, <1>5, <1>6, <1>7 DEF Next, Pop

(* While a worker sleeps, each queued task has an awake worker of its own:  *)
(* the single notify_one of push never leaves a task behind.                *)
THEOREM NoLostWakeupCorrect == Spec => []NoLostWakeup
<1>1. Init => Typed /\ NoLostWakeup
  BY TypedInit DEF Init, NoLostWakeup
<1>2. Typed /\ NoLostWakeup /\ [Next]_vars => (Typed /\ NoLostWakeup)'
  BY TypedNext, NoLostWakeupNext
<1>3. QED
  BY <1>1, <1>2, PTL DEF Spec

-------------------------------------------------------------------------------
(* Shutting down *)

LEMMA DrainNext == Typed /\ QueueOrder /\ Drain /\ [Next]_vars => Drain'
<1> SUFFICES ASSUME Typed, QueueOrder, Drain, [Next]_vars
             PROVE  Drain'
  OBVIOUS
<1> USE DEF Typed, TypeOK, Phases, Drain
<1>1. CASE Submit
  BY <1>1, MaxTasksAssumption DEF Submit
<1>2. CASE Shutdown
  BY <1>2 DEF Shutdown
<1>3. CASE JoinAll
  BY <1>3 DEF JoinAll
<1>4. ASSUME NEW w \in Workers, PopStop(w)
      PROVE  Drain'
  <2>1. started = submitted
    BY <1>4 DEF PopStop, QueueOrder
  <2>2. QED
    BY <1>4, <2>1 DEF PopStop, InPop
<1>5. ASSUME NEW w \in Workers, PopTake(w)
      PROVE  Drain'
  BY <1>5 DEF PopTake, InPop
<1>6. ASSUME NEW w \in Workers, Spawn(w) \/ Finish(w)
      PROVE  Drain'
  BY <1>6 DEF Spawn, Finish
<1>7. CASE UNCHANGED <<running, pc, owner, submitted, started, accepted>>
  BY <1>7
<1>8. QED
  BY <1>1, <1>2, <1>3, <1>4, <1>5, <1>6, <1>7
     DEF Next, Pop, vars, PopWait, SpuriousWakeup

LEMMA StoppedImpliesDrained ==
  Typed /\ ExactlyOnce /\ Drain => DrainedWhenStopped
<1> SUFFICES ASSUME Typed, ExactlyOnce, Drain, owner = "stopped",
                    NEW k \in 1..accepted
             PROVE  k \in done
  BY DEF DrainedWhenStopped
<1>1. PICK w \in Workers : pc[w] = "exit"
  BY WorkersAssumption DEF Drain
<1>2. k \in 1..started
  BY <1>1 DEF Drain, Typed, TypeOK
<1>3. \A v \in Workers : current[v] = NoTask
  BY DEF Drain, Typed, TypeOK, Phases
<1>4. QED
  BY <1>2, <1>3 DEF ExactlyOnce, NoTask

(* The inductive invariant holds of every state. *)
THEOREM PoolInvariant == Spec => []IInv
<1>1. Init => IInv
  BY TypedInit
     DEF Init, IInv, QueueOrder, ExactlyOnce, NoLostWakeup, Drain, NoTask
<1>2. IInv /\ [Next]_vars => IInv'
  BY TypedNext, QueueOrderNext, ExactlyOnceNext, NoLostWakeupNext, DrainNext
     DEF IInv
<1>3. QED
  BY <1>1, <1>2, PTL DEF Spec

(* When shutdown() returns, every task submitted before it has been run. *)
THEOREM DrainedWhenStoppedCorrect == Spec => []DrainedWhenStopped
<1>1. IInv => DrainedWhenStopped
  BY StoppedImpliesDrained DEF IInv
<1>2. QED
  BY PoolInvariant, <1>1, PTL

-------------------------------------------------------------------------------
(* Refinement *)

LEMMA PoolStepRefines == Typed /\ QueueOrder /\ [Next]_vars => [Pool!Next]_Pool!vars
<1> SUFFICES ASSUME Typed, QueueOrder, [Next]_vars
             PROVE  Pool!Next \/ UNCHANGED Pool!vars
  OBVIOUS
<1> USE DEF Pool!vars, Pool!Next, Pool!NoTask, NoTask
<1>1. CASE Submit
  BY <1>1 DEF Submit, Pool!Submit
<1>2. ASSUME NEW w \in Workers, PopTake(w)
      PROVE  Pool!Next
  <2>1. Head(tasks) = started + 1 /\ started < submitted
    BY <1>2, HeadIsNext DEF PopTake
  <2>2. current[w] = NoTask
    BY <1>2 DEF PopTake, InPop, Typed, Phases
  <2>3. Pool!Start(w)
    BY <1>2, <2>1, <2>2 DEF PopTake, Pool!Start
  <2>4. QED
    BY <2>3
<1>3. ASSUME NEW w \in Workers, Finish(w)
      PROVE  Pool!Next
  <2>1. current[w] # NoTask
    BY <1>3 DEF Finish, Typed, Phases
  <2>2. Pool!Finish(w)
    BY <1>3, <2>1 DEF Finish, Pool!Finish
  <2>3. QED
    BY <2>2
<1>4. CASE UNCHANGED <<submitted, started, current, done>>
  BY <1>4
<1>5. QED
  BY <1>1, <1>2, <1>3, <1>4
     DEF Next, Pop, vars, Shutdown, JoinAll, Spawn, PopWait, PopStop,
         SpuriousWakeup

(* The pool with its queue, mutex and condition variable implements the    *)
(* first-come first-served promise of FifoPool.                            *)
THEOREM PoolRefinement == Spec => ImplementsFifoPool
<1>1. Init => Pool!Init
  BY DEF Init, Pool!Init, NoTask, Pool!NoTask
<1>2. Spec => [](Typed /\ QueueOrder)
  BY PoolInvariant, PTL DEF IInv
<1>3. QED
  BY <1>1, <1>2, PoolStepRefines, PTL DEF Spec, ImplementsFifoPool, Pool!Spec
===============================================================================
