-------------------------------- MODULE Exchange ------------------------------
(***************************************************************************)
(* What handling a connection promises: one request arrives, it is         *)
(* answered at most once, with the answer that request deserves however    *)
(* the network cuts the bytes into pieces, and the descriptor is closed    *)
(* once, after the answer if there is one.  Connection implements this     *)
(* module.                                                                 *)
(***************************************************************************)
CONSTANTS
  Requests,   \* what a peer may send
  NoAnswer,   \* nothing has been answered
  Deserved    \* the answer each request deserves

VARIABLES
  req,      \* the request of this connection
  answer,   \* what it has been answered
  open      \* is the connection's descriptor open?

vars == <<req, answer, open>>

Init ==
  /\ req \in Requests
  /\ answer = NoAnswer
  /\ open = TRUE

Answer ==
  /\ open
  /\ answer = NoAnswer
  /\ answer' = Deserved[req]
  /\ UNCHANGED <<req, open>>

Close ==
  /\ open
  /\ open' = FALSE
  /\ UNCHANGED <<req, answer>>

Next == Answer \/ Close

Spec == Init /\ [][Next]_vars
===============================================================================
