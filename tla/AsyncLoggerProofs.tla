--------------------------- MODULE AsyncLoggerProofs --------------------------
(***************************************************************************)
(* The safety of AsyncLogger for every set of threads and every number of  *)
(* messages.                                                               *)
(*                                                                         *)
(* The invariant follows a message through queue, local variable, stream   *)
(* buffer and file: Queued says that the queue is the unpopped messages in *)
(* order, Flight where the last popped message is, Control which states of *)
(* main, queue, stream and log thread go together.                         *)
(***************************************************************************)
EXTENDS AsyncLogger, SequenceTheorems, TLAPS

Popped == pushed - Len(messages)

Queued ==
  /\ Len(messages) <= pushed
  /\ \A i \in 1..Len(messages) : messages[i] = Popped + i

Flight ==
  /\ logPc = "write" => msg = Popped
  /\ logPc = "flush" /\ stream = "good" => buffered = Popped
  /\ logPc \in {"write", "flush"} => Popped > 0
  /\ buffered # NoMessage => logPc = "flush" /\ stream = "good"
  /\ Len(file) <= Popped
  /\ stream = "good" =>
       Popped = Len(file) + (IF logPc \in {"write", "flush"} THEN 1 ELSE 0)
  /\ \A i \in 1..Len(file) : file[i] = i

Control ==
  /\ running <=> main \in {"starting", "up"}
  /\ running => accepted = pushed
  /\ accepted <= pushed
  /\ stream = "closed" <=> main = "starting"
  /\ main = "starting" => pushed = 0 /\ logPc \in {"pop", "asleep"}
  /\ main = "closed" => logPc = "exit"
  /\ logPc = "exit" => ~running /\ accepted <= Popped

IInv == TypeOK /\ Queued /\ Flight /\ Control /\ NoSleepOnWork

-------------------------------------------------------------------------------
LEMMA InvInit == Init => IInv
  BY MaxPushesAssumption
     DEF Init, IInv, TypeOK, Queued, Flight, Control, NoSleepOnWork, Popped, NoMessage

(* What the queue operations do to the account of a queue *)

LEMMA AppendNext ==
  ASSUME NEW q \in Seq(1..MaxPushes), NEW p \in 0..MaxPushes, p < MaxPushes,
         Len(q) <= p, \A i \in 1..Len(q) : q[i] = p - Len(q) + i
  PROVE  /\ Append(q, p + 1) \in Seq(1..MaxPushes)
         /\ Len(Append(q, p + 1)) = Len(q) + 1
         /\ \A i \in 1..Len(Append(q, p + 1)) :
              Append(q, p + 1)[i] = p + 1 - Len(Append(q, p + 1)) + i
<1> DEFINE r == Append(q, p + 1)
<1>1. MaxPushes \in Nat /\ p + 1 \in 1..MaxPushes /\ p \in Nat /\ Len(q) \in Nat
  BY MaxPushesAssumption
<1>2. r \in Seq(1..MaxPushes) /\ Len(r) = Len(q) + 1
  BY <1>1
<1>3. \A i \in 1..Len(r) : r[i] = IF i = Len(q) + 1 THEN p + 1 ELSE q[i]
  BY <1>1
<1>4. ASSUME NEW i \in 1..Len(r)
      PROVE  r[i] = p + 1 - Len(r) + i
  <2> HIDE DEF r
  <2>1. CASE i = Len(q) + 1
    BY <1>1, <1>2, <1>3, <2>1
  <2>2. CASE i \in 1..Len(q)
    <3>1. q[i] = p - Len(q) + i /\ r[i] = q[i]
      BY <1>1, <1>3, <2>2
    <3>2. QED
      BY <1>1, <1>2, <3>1, <2>2
  <2>3. QED
    BY <1>1, <1>2, <2>1, <2>2
<1>5. QED
  BY <1>2, <1>4

LEMMA TailNext ==
  ASSUME NEW q \in Seq(1..MaxPushes), NEW p \in 0..MaxPushes, q # <<>>,
         Len(q) <= p, \A i \in 1..Len(q) : q[i] = p - Len(q) + i
  PROVE  /\ Head(q) = p - Len(q) + 1 /\ Head(q) \in 1..MaxPushes
         /\ Tail(q) \in Seq(1..MaxPushes) /\ Len(Tail(q)) = Len(q) - 1
         /\ \A i \in 1..Len(Tail(q)) : Tail(q)[i] = p - Len(Tail(q)) + i
<1>1. Len(q) \in Nat /\ Len(q) > 0 /\ p \in Nat
  BY MaxPushesAssumption
<1>2. Head(q) = q[1] /\ q[1] \in 1..MaxPushes
  <2>1. 1 \in 1..Len(q)
    BY <1>1
  <2>2. q[1] \in 1..MaxPushes
    BY <2>1, ElementOfSeq
  <2>3. QED
    BY <2>2
<1>3. Tail(q) \in Seq(1..MaxPushes) /\ Len(Tail(q)) = Len(q) - 1
  BY <1>1
<1>4. \A i \in 1..Len(Tail(q)) : Tail(q)[i] = q[i + 1]
  BY <1>1
<1>5. \A i \in 1..Len(Tail(q)) : i + 1 \in 1..Len(q)
  BY <1>1, <1>3
<1>6. QED
  BY <1>1, <1>2, <1>3, <1>4, <1>5

-------------------------------------------------------------------------------
(* The invariant is inductive. *)

LEMMA LogKeepsInv ==
  ASSUME NEW t \in Threads, IInv, Log(t)
  PROVE  IInv'
<1>1. /\ messages \in Seq(1..MaxPushes) /\ Len(messages) \in Nat
      /\ pushed \in 0..MaxPushes /\ MaxPushes \in Nat /\ pushed < MaxPushes
      /\ Len(messages) <= pushed
      /\ accepted \in 0..MaxPushes /\ running \in BOOLEAN
      /\ \A i \in 1..Len(messages) : messages[i] = pushed - Len(messages) + i
  BY MaxPushesAssumption DEF IInv, TypeOK, Queued, Popped, Log, Push
<1>2. /\ pushed' = pushed + 1 /\ messages' = Append(messages, pushed + 1)
      /\ logPc' = IF logPc = "asleep" THEN "pop" ELSE logPc
      /\ accepted' = IF running THEN accepted + 1 ELSE accepted
      /\ UNCHANGED <<running, msg, buffered, stream, file, main, dying, alive>>
      /\ main \in {"up", "joining"}
  BY DEF Log, Push
<1>3. /\ messages' \in Seq(1..MaxPushes) /\ Len(messages') = Len(messages) + 1
      /\ \A i \in 1..Len(messages') : messages'[i] = pushed + 1 - Len(messages') + i
  <2>1. /\ Append(messages, pushed + 1) \in Seq(1..MaxPushes)
        /\ Len(Append(messages, pushed + 1)) = Len(messages) + 1
        /\ \A i \in 1..Len(Append(messages, pushed + 1)) :
             Append(messages, pushed + 1)[i]
               = pushed + 1 - Len(Append(messages, pushed + 1)) + i
    BY ONLY <1>1, AppendNext
  <2>2. messages' = Append(messages, pushed + 1)
    BY <1>2
  <2>3. QED
    BY ONLY <2>1, <2>2
<1>4. Popped' = Popped /\ Popped \in Nat
  BY <1>1, <1>2, <1>3 DEF Popped
<1>5. Queued'
  <2>1. Len(messages') <= pushed' /\ Popped' = pushed + 1 - Len(messages')
    BY <1>1, <1>2, <1>3 DEF Popped
  <2>2. \A i \in 1..Len(messages') : messages'[i] = Popped' + i
    BY ONLY <1>3, <2>1
  <2>3. QED
    BY <2>1, <2>2 DEF Queued
<1>6. accepted' \in 0..MaxPushes /\ accepted' <= pushed' /\ (running' => accepted' = pushed')
  BY <1>1, <1>2 DEF IInv, Control
<1>7. TypeOK'
  BY <1>1, <1>2, <1>3, <1>6 DEF IInv, TypeOK
<1>8. Flight'
  BY <1>2, <1>4 DEF IInv, TypeOK, Flight
<1>9. Control'
  BY <1>1, <1>2, <1>4, <1>6 DEF IInv, TypeOK, Control
<1>10. NoSleepOnWork'
  BY <1>2 DEF IInv, TypeOK, NoSleepOnWork
<1>11. QED
  BY <1>5, <1>7, <1>8, <1>9, <1>10 DEF IInv

LEMMA PopTakeKeepsInv == IInv /\ PopTake => IInv'
<1> SUFFICES ASSUME IInv, PopTake PROVE IInv'
  OBVIOUS
<1>1. /\ messages \in Seq(1..MaxPushes) /\ Len(messages) \in Nat /\ messages # <<>>
      /\ pushed \in 0..MaxPushes /\ MaxPushes \in Nat
      /\ Len(messages) <= pushed /\ Len(messages) > 0
      /\ accepted \in 0..MaxPushes /\ file \in Seq(1..MaxPushes) /\ Len(file) \in Nat
      /\ \A i \in 1..Len(messages) : messages[i] = pushed - Len(messages) + i
  BY MaxPushesAssumption DEF IInv, TypeOK, Queued, Popped, PopTake
<1>2. /\ msg' = Head(messages) /\ messages' = Tail(messages) /\ logPc' = "write"
      /\ logPc = "pop"
      /\ UNCHANGED <<running, buffered, stream, file, main, dying, alive,
                     pushed, accepted>>
  BY DEF PopTake
<1>3. /\ msg' = Popped + 1 /\ msg' \in 1..MaxPushes
      /\ messages' \in Seq(1..MaxPushes) /\ Len(messages') = Len(messages) - 1
      /\ \A i \in 1..Len(messages') : messages'[i] = pushed' - Len(messages') + i
  BY <1>1, <1>2, TailNext DEF Popped
<1>4. Popped' = Popped + 1 /\ Popped \in Nat
  BY <1>1, <1>2, <1>3 DEF Popped
<1>5. Queued'
  BY <1>1, <1>2, <1>3 DEF Queued, Popped
<1>6. TypeOK'
  BY <1>1, <1>2, <1>3 DEF IInv, TypeOK
<1>7. Flight'
  BY <1>1, <1>2, <1>3, <1>4 DEF IInv, Flight
<1>8. Control'
  BY <1>1, <1>2, <1>4 DEF IInv, Control
<1>9. NoSleepOnWork'
  BY <1>2 DEF NoSleepOnWork
<1>10. QED
  BY <1>5, <1>6, <1>7, <1>8, <1>9 DEF IInv

LEMMA FlushKeepsInv == IInv /\ Flush => IInv'
<1> SUFFICES ASSUME IInv, Flush PROVE IInv'
  OBVIOUS
<1>1. /\ file \in Seq(1..MaxPushes) /\ Len(file) \in Nat
      /\ pushed \in 0..MaxPushes /\ MaxPushes \in Nat
      /\ messages \in Seq(1..MaxPushes) /\ Len(messages) \in Nat
      /\ Len(messages) <= pushed /\ Popped \in Nat
      /\ buffered \in 0..MaxPushes
  BY MaxPushesAssumption DEF IInv, TypeOK, Queued, Popped
<1>2. /\ logPc = "flush" /\ logPc' = "pop" /\ buffered' = NoMessage
      /\ UNCHANGED <<queueVars, msg, main, dying, alive>>
      /\ Popped' = Popped
  BY DEF Flush, queueVars, Popped
<1>3. TypeOK' /\ Flight' /\ (stream' = "closed" <=> stream = "closed")
  <2>1. CASE buffered # NoMessage /\ file' = Append(file, buffered) /\ stream' = stream
    <3>1. stream = "good" /\ buffered = Len(file) + 1 /\ Popped = Len(file) + 1
          /\ buffered \in 1..MaxPushes
      BY <1>1, <1>2, <2>1 DEF IInv, Flight, NoMessage
    <3>2. /\ file' \in Seq(1..MaxPushes) /\ Len(file') = Len(file) + 1
          /\ \A i \in 1..Len(file') : file'[i] = IF i = Len(file) + 1 THEN buffered ELSE file[i]
      BY <1>1, <2>1, <3>1
    <3>3. \A i \in 1..Len(file') : file'[i] = i
      <4>1. \A i \in 1..Len(file) : file[i] = i
        BY DEF IInv, Flight
      <4>2. ASSUME NEW i \in 1..Len(file')
            PROVE  file'[i] = i
        <5>1. i = Len(file) + 1 \/ i \in 1..Len(file)
          BY <1>1, <3>2
        <5>2. QED
          BY <1>1, <3>1, <3>2, <4>1, <5>1
      <4>3. QED
        BY <4>2
    <3>4. TypeOK'
      BY <1>1, <1>2, <2>1, <3>2 DEF IInv, TypeOK, queueVars, NoMessage
    <3>5. Flight'
      BY <1>1, <1>2, <2>1, <3>1, <3>2, <3>3 DEF Flight, NoMessage
    <3>6. QED
      BY <2>1, <3>4, <3>5
  <2>2. CASE buffered # NoMessage /\ stream' = "bad" /\ file' = file
    <3>1. stream = "good"
      BY <2>2 DEF IInv, Flight
    <3>2. TypeOK'
      BY <1>1, <1>2, <2>2 DEF IInv, TypeOK, queueVars, NoMessage
    <3>3. Flight'
      BY <1>1, <1>2, <2>2 DEF IInv, Flight, NoMessage
    <3>4. QED
      BY <2>2, <3>1, <3>2, <3>3
  <2>3. CASE buffered = NoMessage /\ UNCHANGED <<file, stream>>
    <3>1. stream # "good"
      BY <1>1, <1>2, <2>3 DEF IInv, Flight, NoMessage
    <3>2. TypeOK'
      BY <1>1, <1>2, <2>3 DEF IInv, TypeOK, queueVars, NoMessage
    <3>3. Flight'
      BY <1>1, <1>2, <2>3, <3>1 DEF IInv, Flight, NoMessage
    <3>4. QED
      BY <2>3, <3>2, <3>3
  <2>4. QED
    BY <2>1, <2>2, <2>3 DEF Flush
<1>4. Queued'
  BY <1>2 DEF IInv, Queued, queueVars
<1>5. Control'
  BY <1>2, <1>3 DEF IInv, Control, queueVars
<1>6. NoSleepOnWork'
  BY <1>2 DEF NoSleepOnWork
<1>7. QED
  BY <1>3, <1>4, <1>5, <1>6 DEF IInv

LEMMA WriteKeepsInv == IInv /\ Write => IInv'
<1> SUFFICES ASSUME IInv, Write PROVE IInv'
  OBVIOUS
<1>1. /\ logPc = "write" /\ logPc' = "flush" /\ msg' = NoMessage
      /\ buffered' = IF stream = "good" THEN msg ELSE NoMessage
      /\ UNCHANGED <<queueVars, stream, file, main, dying, alive>>
      /\ Popped' = Popped
  BY DEF Write, queueVars, Popped
<1>2. TypeOK'
  BY <1>1, MaxPushesAssumption DEF IInv, TypeOK, queueVars, NoMessage
<1>3. Flight'
  BY <1>1 DEF IInv, Flight, NoMessage
<1>4. Queued' /\ Control' /\ NoSleepOnWork'
  BY <1>1 DEF IInv, Queued, Control, NoSleepOnWork, queueVars
<1>5. QED
  BY <1>2, <1>3, <1>4 DEF IInv

(* The steps of main and of the log thread that move no message *)
LEMMA ControlStepsKeepInv ==
  IInv /\ (\/ OpenFile \/ PopWait \/ SpuriousWakeup \/ PopStop \/ Shutdown
           \/ JoinLogThread \/ \E t \in Threads : Terminate(t) \/ Abort(t))
    => IInv'
<1> SUFFICES ASSUME IInv,
                    \/ OpenFile \/ PopWait \/ SpuriousWakeup \/ PopStop \/ Shutdown
                    \/ JoinLogThread \/ \E t \in Threads : Terminate(t) \/ Abort(t)
             PROVE  IInv'
  OBVIOUS
<1> USE DEF OpenFile, PopWait, SpuriousWakeup, PopStop, Shutdown, JoinLogThread,
            Terminate, Abort, queueVars
<1>1. /\ messages' = messages /\ pushed' = pushed /\ accepted' = accepted
      /\ msg' = msg /\ buffered' = buffered /\ file' = file /\ Popped' = Popped
  BY DEF Popped
<1>2. TypeOK'
  BY <1>1 DEF IInv, TypeOK
<1>3. Queued'
  BY <1>1 DEF IInv, Queued
<1>4. Flight'
  <2>1. pushed \in Nat /\ Len(messages) \in Nat /\ Len(file) \in Nat
    BY MaxPushesAssumption DEF IInv, TypeOK
  <2>2. Popped \in Nat /\ (main = "starting" => Popped = 0 /\ Len(file) = 0)
    BY <2>1 DEF IInv, Queued, Flight, Control, Popped
  <2>3. QED
    BY <1>1, <2>1, <2>2 DEF IInv, Flight, Control
<1>5. Control'
  <2>1. messages = <<>> => Popped = pushed
    BY MaxPushesAssumption DEF IInv, TypeOK, Popped
  <2>2. QED
    BY <1>1, <2>1 DEF IInv, Control
<1>6. NoSleepOnWork'
  BY <1>1 DEF IInv, NoSleepOnWork, Control
<1>7. QED
  BY <1>2, <1>3, <1>4, <1>5, <1>6 DEF IInv

LEMMA InvNext == IInv /\ [Next]_vars => IInv'
<1>1. IInv /\ UNCHANGED vars => IInv'
  BY DEF vars, IInv, TypeOK, Queued, Flight, Control, NoSleepOnWork, Popped
<1>2. QED
  BY <1>1, LogKeepsInv, PopTakeKeepsInv, WriteKeepsInv, FlushKeepsInv,
     ControlStepsKeepInv
     DEF Next, LogThread

-------------------------------------------------------------------------------
(* Results *)

(* The inductive invariant holds of every reachable state. *)
THEOREM LoggerInvariant == Spec => []IInv
  BY InvInit, InvNext, PTL DEF Spec

(* Every variable keeps its type. *)
THEOREM LoggerTypeCorrect == Spec => []TypeOK
<1>1. IInv => TypeOK
  BY DEF IInv
<1>2. QED
  BY LoggerInvariant, <1>1, PTL

(* At every moment the file is an initial segment of what was logged. *)
THEOREM FileIsPrefixCorrect == Spec => []FileIsPrefix
<1>1. IInv => FileIsPrefix
  BY MaxPushesAssumption DEF IInv, TypeOK, Queued, Flight, Popped, FileIsPrefix
<1>2. QED
  BY LoggerInvariant, <1>1, PTL

(* While the stream is healthy, the queue and one message are all that an  *)
(* abort can lose.                                                         *)
THEOREM LossIsBoundedCorrect == Spec => []LossIsBounded
<1>1. IInv => LossIsBounded
  BY MaxPushesAssumption DEF IInv, TypeOK, Queued, Flight, Popped, LossIsBounded
<1>2. QED
  BY LoggerInvariant, <1>1, PTL

(* The log thread never sleeps on a message. *)
THEOREM NoSleepOnWorkCorrect == Spec => []NoSleepOnWork
<1>1. IInv => NoSleepOnWork
  BY DEF IInv
<1>2. QED
  BY LoggerInvariant, <1>1, PTL

(* ~Logger loses nothing of what was logged before it was called. *)
THEOREM NothingLostOnExitCorrect == Spec => []NothingLostOnExit
<1>1. IInv => NothingLostOnExit
  BY MaxPushesAssumption
     DEF IInv, TypeOK, Queued, Flight, Control, Popped, NothingLostOnExit
<1>2. QED
  BY LoggerInvariant, <1>1, PTL

LEMMA LogStepRefines ==
  IInv /\ [Next]_vars => [TheLog!Next]_TheLog!vars
<1> SUFFICES ASSUME IInv, [Next]_vars
             PROVE  TheLog!Next \/ UNCHANGED TheLog!vars
  OBVIOUS
<1> USE DEF TheLog!Next, TheLog!vars, queueVars
<1>1. ASSUME NEW t \in Threads, Log(t)
      PROVE  TheLog!Next
  BY <1>1 DEF Log, Push, TheLog!Accept
<1>2. CASE OpenFile
  <2>1. stream = "closed"
    BY <1>2 DEF OpenFile, IInv, Control
  <2>2. QED
    BY <1>2, <2>1 DEF OpenFile, TheLog!Open
<1>3. CASE Flush
  <2>1. CASE buffered # NoMessage
    <3>1. /\ stream = "good" /\ buffered = Len(file) + 1 /\ Len(file) < pushed
      <4>1. Len(file) \in Nat /\ Len(messages) \in Nat /\ pushed \in Nat
        BY MaxPushesAssumption DEF IInv, TypeOK
      <4>2. QED
        BY <1>3, <2>1, <4>1 DEF Flush, IInv, Flight, Queued, Popped
    <3>2. QED
      BY <1>3, <2>1, <3>1 DEF Flush, TheLog!Store, TheLog!Fail
  <2>2. CASE buffered = NoMessage
    BY <1>3, <2>2 DEF Flush
  <2>3. QED
    BY <2>1, <2>2
<1>4. ASSUME NEW t \in Threads, Abort(t)
      PROVE  TheLog!Next
  BY <1>4 DEF Abort, TheLog!Abort
<1>5. CASE UNCHANGED <<pushed, file, stream, alive>>
  BY <1>5
<1>6. QED
  BY <1>1, <1>2, <1>3, <1>4, <1>5
     DEF Next, LogThread, vars, PopWait, PopTake, PopStop, Write, SpuriousWakeup,
         Terminate, Shutdown, JoinLogThread

(* Queue, log thread and stream together implement the abstract log. *)
THEOREM LoggerRefinement == Spec => ImplementsLogFile
<1>1. Init => TheLog!Init
  BY DEF Init, TheLog!Init
<1>2. QED
  BY <1>1, LoggerInvariant, LogStepRefines, PTL
     DEF Spec, ImplementsLogFile, TheLog!Spec
===============================================================================
