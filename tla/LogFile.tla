-------------------------------- MODULE LogFile -------------------------------
(***************************************************************************)
(* What the asynchronous logger promises: messages are accepted one after  *)
(* the other, and the file always holds the first so many of them, in      *)
(* that order and without a gap.  The stream may fail, after which the     *)
(* file does not grow, and the process may abort, after which nothing      *)
(* happens any more.  AsyncLogger implements this module.                  *)
(***************************************************************************)
EXTENDS Naturals, Sequences

CONSTANT MaxPushes    \* bound: how many messages are ever logged

VARIABLES
  pushed,   \* number of messages accepted; a message is its number
  file,     \* the messages in the file
  stream,   \* "closed" until the file is opened, "good", or "bad"
  alive     \* FALSE after abort()

vars == <<pushed, file, stream, alive>>

Init ==
  /\ pushed = 0
  /\ file = <<>>
  /\ stream = "closed"
  /\ alive = TRUE

Open ==
  /\ alive
  /\ stream = "closed"
  /\ stream' \in {"good", "bad"}
  /\ UNCHANGED <<pushed, file, alive>>

Accept ==
  /\ alive
  /\ pushed < MaxPushes
  /\ pushed' = pushed + 1
  /\ UNCHANGED <<file, stream, alive>>

Store ==
  /\ alive
  /\ stream = "good"
  /\ Len(file) < pushed
  /\ file' = Append(file, Len(file) + 1)
  /\ UNCHANGED <<pushed, stream, alive>>

Fail ==
  /\ alive
  /\ stream = "good"
  /\ stream' = "bad"
  /\ UNCHANGED <<pushed, file, alive>>

Abort ==
  /\ alive
  /\ alive' = FALSE
  /\ UNCHANGED <<pushed, file, stream>>

Next == Open \/ Accept \/ Store \/ Fail \/ Abort

Spec == Init /\ [][Next]_vars
===============================================================================
