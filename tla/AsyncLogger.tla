------------------------------ MODULE AsyncLogger -----------------------------
(***************************************************************************)
(* async_log::Logger and async_log::LogQueue (async_logger.h,              *)
(* async_logger.cpp) with the terminate handler that logs through them     *)
(* (global_terminator.cpp).  Any thread pushes formatted messages into a   *)
(* queue behind a mutex; one log thread pops them, writes each to an       *)
(* ofstream and flushes it.  The process ends either with ~Logger, which   *)
(* drains the queue, or with std::abort(), which does not.                 *)
(*                                                                         *)
(* As in ThreadPool a critical section is one action.  A message is the    *)
(* number of its push; its text and level do not matter here (main sets    *)
(* the level to debug, so that nothing is filtered).                       *)
(***************************************************************************)
EXTENDS Naturals, Sequences

CONSTANTS
  Threads,     \* the threads that log: main and the pool's workers
  MaxPushes    \* bound: how many messages are ever logged

ASSUME MaxPushesAssumption == MaxPushes \in Nat

NoMessage == 0

VARIABLES
  messages,   \* LogQueue::messages
  running,    \* LogQueue::running
  logPc,      \* the log thread: in "pop", "asleep" in cv.wait, about to
              \* "write" or to "flush", or "exit"
  msg,        \* the log thread's local variable: the message it holds
  buffered,   \* the message in the stream's buffer, not yet in the file
  stream,     \* the ofstream: "closed", "good" or "bad" (badbit/failbit)
  file,       \* hfs.log: the messages that have reached the file
  main,       \* where main is with the logger's life cycle
  dying,      \* the threads inside global_terminate_handler
  alive,      \* FALSE once some thread has called std::abort()
  pushed,     \* history: number of messages pushed
  accepted    \* history: number of messages pushed before the shutdown

queueVars == <<messages, running, pushed, accepted>>
vars == <<messages, running, logPc, msg, buffered, stream, file, main, dying,
          alive, pushed, accepted>>

Init ==
  /\ messages = <<>>
  /\ running = TRUE
  /\ logPc = "pop"
  /\ msg = NoMessage
  /\ buffered = NoMessage
  /\ stream = "closed"
  /\ file = <<>>
  /\ main = "starting"
  /\ dying = {}
  /\ alive = TRUE
  /\ pushed = 0
  /\ accepted = 0

-------------------------------------------------------------------------------
(* open_file: main calls it before anything is logged and before there is  *)
(* another thread; whether the file could be opened is not looked at.      *)
OpenFile ==
  /\ alive
  /\ main = "starting"
  /\ main' = "up"
  /\ stream' \in {"good", "bad"}
  /\ UNCHANGED <<queueVars, logPc, msg, buffered, file, dying, alive>>

(* LogQueue::push, with its notify_one *)
Push ==
  /\ pushed < MaxPushes
  /\ pushed' = pushed + 1
  /\ messages' = Append(messages, pushed + 1)
  /\ logPc' = IF logPc = "asleep" THEN "pop" ELSE logPc
  /\ accepted' = IF running THEN accepted + 1 ELSE accepted
  /\ UNCHANGED running

(* LOG_ERROR and its like in any thread; a thread inside the terminate     *)
(* handler logs its report and its stack trace the same way.  The logger   *)
(* may be used until its destructor has run.                               *)
Log(t) ==
  /\ alive
  /\ main \in {"up", "joining"}
  /\ Push
  /\ UNCHANGED <<msg, buffered, stream, file, main, dying, alive>>

-------------------------------------------------------------------------------
PopWait ==
  /\ alive
  /\ logPc = "pop"
  /\ messages = <<>> /\ running
  /\ logPc' = "asleep"
  /\ UNCHANGED <<queueVars, msg, buffered, stream, file, main, dying, alive>>

SpuriousWakeup ==
  /\ alive
  /\ logPc = "asleep"
  /\ logPc' = "pop"
  /\ UNCHANGED <<queueVars, msg, buffered, stream, file, main, dying, alive>>

(* A plausible bug of pop: the newest message is taken. *)
PopTakeNewest ==
  /\ alive
  /\ logPc = "pop"
  /\ messages # <<>>
  /\ msg' = messages[Len(messages)]
  /\ messages' = SubSeq(messages, 1, Len(messages) - 1)
  /\ logPc' = "write"
  /\ UNCHANGED <<running, buffered, stream, file, main, dying, alive,
                 pushed, accepted>>

PopTake ==
  /\ alive
  /\ logPc = "pop"
  /\ messages # <<>>
  /\ msg' = Head(messages)
  /\ messages' = Tail(messages)
  /\ logPc' = "write"
  /\ UNCHANGED <<running, buffered, stream, file, main, dying, alive,
                 pushed, accepted>>

(* A plausible bug of pop: it gives up as soon as the queue is shut down. *)
PopStopUndrained ==
  /\ alive
  /\ logPc = "pop"
  /\ ~running
  /\ logPc' = "exit"
  /\ UNCHANGED <<queueVars, msg, buffered, stream, file, main, dying, alive>>

PopStop ==
  /\ alive
  /\ logPc = "pop"
  /\ messages = <<>> /\ ~running
  /\ logPc' = "exit"
  /\ UNCHANGED <<queueVars, msg, buffered, stream, file, main, dying, alive>>

(* stream << msg: a stream that is not good takes nothing. *)
Write ==
  /\ alive
  /\ logPc = "write"
  /\ buffered' = IF stream = "good" THEN msg ELSE NoMessage
  /\ msg' = NoMessage
  /\ logPc' = "flush"
  /\ UNCHANGED <<queueVars, stream, file, main, dying, alive>>

(* A plausible bug of process_queue: the stream is not flushed. *)
FlushForgotten ==
  /\ alive
  /\ logPc = "flush"
  /\ logPc' = "pop"
  /\ UNCHANGED <<queueVars, msg, buffered, stream, file, main, dying, alive>>

(* stream.flush(): a failing write (a full disk) makes the stream bad for  *)
(* good, and nobody looks.                                                 *)
Flush ==
  /\ alive
  /\ logPc = "flush"
  /\ logPc' = "pop"
  /\ buffered' = NoMessage
  /\ \/ /\ buffered # NoMessage
        /\ file' = Append(file, buffered)
        /\ stream' = stream
     \/ /\ buffered # NoMessage
        /\ stream' = "bad"
        /\ file' = file
     \/ /\ buffered = NoMessage
        /\ UNCHANGED <<file, stream>>
  /\ UNCHANGED <<queueVars, msg, main, dying, alive>>

LogThread == PopWait \/ PopTake \/ PopStop \/ Write \/ Flush

-------------------------------------------------------------------------------
(* An exception nobody caught: the thread enters global_terminate_handler, *)
(* perhaps while main waits in ~Logger.                                    *)
Terminate(t) ==
  /\ alive
  /\ main \in {"up", "joining"}
  /\ t \notin dying
  /\ dying' = dying \cup {t}
  /\ UNCHANGED <<queueVars, logPc, msg, buffered, stream, file, main, alive>>

(* std::abort() at the end of the handler: the log thread is not waited    *)
(* for, no destructor runs, what is not in the file is lost.               *)
Abort(t) ==
  /\ alive
  /\ t \in dying
  /\ alive' = FALSE
  /\ UNCHANGED <<queueVars, logPc, msg, buffered, stream, file, main, dying>>

(* A plausible bug of shutdown: the log thread is not notified. *)
ShutdownWithoutNotify ==
  /\ alive
  /\ main = "up"
  /\ running' = FALSE
  /\ main' = "joining"
  /\ UNCHANGED <<messages, logPc, msg, buffered, stream, file, dying, alive,
                 pushed, accepted>>

(* ~Logger: logQueue.shutdown(), then join, then a last flush that finds   *)
(* nothing to do.                                                          *)
Shutdown ==
  /\ alive
  /\ main = "up"
  /\ running' = FALSE
  /\ logPc' = IF logPc = "asleep" THEN "pop" ELSE logPc
  /\ main' = "joining"
  /\ UNCHANGED <<messages, msg, buffered, stream, file, dying, alive,
                 pushed, accepted>>

JoinLogThread ==
  /\ alive
  /\ main = "joining"
  /\ logPc = "exit"
  /\ main' = "closed"
  /\ UNCHANGED <<queueVars, logPc, msg, buffered, stream, file, dying, alive>>

Next ==
  \/ OpenFile
  \/ SpuriousWakeup
  \/ LogThread
  \/ Shutdown
  \/ JoinLogThread
  \/ \E t \in Threads : Log(t) \/ Terminate(t) \/ Abort(t)

(* The log thread and the thread in ~Logger are scheduled; nobody has to   *)
(* log, to crash or to exit.                                               *)
Fairness == WF_vars(LogThread) /\ WF_vars(JoinLogThread)

Spec == Init /\ [][Next]_vars

FairSpec == Spec /\ Fairness

-------------------------------------------------------------------------------
(* Every variable has its type. *)
TypeOK ==
  /\ messages \in Seq(1..MaxPushes)
  /\ running \in BOOLEAN
  /\ logPc \in {"pop", "asleep", "write", "flush", "exit"}
  /\ msg \in 0..MaxPushes
  /\ buffered \in 0..MaxPushes
  /\ stream \in {"closed", "good", "bad"}
  /\ file \in Seq(1..MaxPushes)
  /\ main \in {"starting", "up", "joining", "closed"}
  /\ dying \subseteq Threads
  /\ alive \in BOOLEAN
  /\ pushed \in 0..MaxPushes
  /\ accepted \in 0..MaxPushes

(* Whenever the process may die, the file is an initial segment of what    *)
(* was logged: messages of all threads in the order of their pushes, none  *)
(* twice, none left out.                                                   *)
FileIsPrefix ==
  /\ Len(file) <= pushed
  /\ \A i \in 1..Len(file) : file[i] = i

(* With a healthy stream, what an abort() loses is the queue and at most   *)
(* the one message the log thread is working on: each message is flushed   *)
(* before the next one is popped.                                          *)
LossIsBounded == stream = "good" => pushed - Len(file) <= Len(messages) + 1

(* The log thread never sleeps on a message. *)
NoSleepOnWork == logPc = "asleep" => messages = <<>> /\ running

(* ~Logger does not return before everything logged before it was called   *)
(* is in the file, unless the stream has failed.                           *)
NothingLostOnExit ==
  main = "closed" /\ stream = "good" => accepted <= Len(file)

(* The logger implements its abstract promise. *)
TheLog == INSTANCE LogFile
ImplementsLogFile == TheLog!Spec

(* A message logged before the shutdown reaches the file unless the stream *)
(* fails or the process aborts first.                                      *)
MessagesReachFile ==
  \A k \in 1..MaxPushes :
    (k <= accepted) ~> (k <= Len(file) \/ stream = "bad" \/ ~alive)

(* ~Logger returns unless another thread aborts the process meanwhile. *)
ExitReturns == (main = "joining") ~> (main = "closed" \/ ~alive)
===============================================================================
