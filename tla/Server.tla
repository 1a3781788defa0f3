--------------------------------- MODULE Server -------------------------------
(***************************************************************************)
(* Server::open and Server::start (server.cpp) with the life of a client's *)
(* descriptor (Socket, net_socket.h): the accept loop, in the main thread, *)
(* captures each accepted descriptor as a plain int in a task for the      *)
(* thread pool; the worker that runs the task gives it to a Connection,    *)
(* whose Socket closes it.  Meanwhile the kernel may give a closed         *)
(* descriptor's number to the next accept.                                 *)
(*                                                                         *)
(* The pool is its abstract specification, FifoPool, which ThreadPool      *)
(* implements; a connection's handling is cut down to what Connection      *)
(* shows of it: it ends, or it is one of StuckConns and never does.        *)
(* Connections are numbered in the order of their acceptance, which is     *)
(* that of their tasks.                                                    *)
(***************************************************************************)
EXTENDS Naturals, FiniteSets

CONSTANTS
  Workers,      \* the pool's threads, 32 in the program
  Fds,          \* the descriptors left for clients (RLIMIT_NOFILE)
  MaxConns,     \* bound: how many peers ever connect
  Backlog,      \* listen's argument, 32 in the program
  StuckConns    \* connections whose handling never ends

ASSUME ServerAssumption ==
  /\ IsFiniteSet(Workers) /\ Workers # {}
  /\ IsFiniteSet(Fds) /\ Fds # {}
  /\ MaxConns \in Nat
  /\ Backlog \in Nat \ {0}
  /\ StuckConns \subseteq 1..MaxConns

Conns == 1..MaxConns
NoConn == 0

VARIABLES
  acceptor,   \* the main thread: "opening" the socket, then "accepting"
  arrived,    \* number of peers that have connected
  holder,     \* kernel: which connection each descriptor stands for
  clientFd,   \* the descriptor captured by each connection's task (before
              \* it is accepted: anything)
  conn,       \* how far each connection is
  alive,      \* FALSE once std::terminate has been called
  submitted, started, current, done    \* the pool, see FifoPool

poolVars == <<submitted, started, current, done>>
serverVars == <<acceptor, arrived, holder, clientFd, conn, alive, poolVars>>

Pool == INSTANCE FifoPool WITH MaxTasks <- MaxConns

ServerInit ==
  /\ acceptor = "opening"
  /\ arrived = 0
  /\ holder = [f \in Fds |-> NoConn]
  /\ clientFd \in {[k \in Conns |-> f] : f \in Fds}
  /\ conn = [k \in Conns |-> "none"]
  /\ alive = TRUE
  /\ Pool!Init

-------------------------------------------------------------------------------
(* open: setsockopt, inet_pton, bind and listen, or an exception that      *)
(* nobody catches in main.                                                 *)
Open ==
  /\ alive
  /\ acceptor = "opening"
  /\ \/ acceptor' = "accepting" /\ alive' = alive
     \/ alive' = FALSE /\ acceptor' = acceptor
  /\ UNCHANGED <<arrived, holder, clientFd, conn, poolVars>>

(* A peer connects; the kernel keeps up to Backlog of them for accept. *)
Arrive ==
  /\ alive
  /\ acceptor = "accepting"
  /\ arrived < MaxConns
  /\ arrived - submitted < Backlog
  /\ arrived' = arrived + 1
  /\ UNCHANGED <<acceptor, holder, clientFd, conn, alive, poolVars>>

Free == {f \in Fds : holder[f] = NoConn}

(* accept succeeds; the task is submitted with the descriptor's number. *)
Accept ==
  /\ alive
  /\ acceptor = "accepting"
  /\ submitted < arrived
  /\ \E f \in Free :
       /\ holder' = [holder EXCEPT ![f] = submitted + 1]
       /\ clientFd' = [clientFd EXCEPT ![submitted + 1] = f]
  /\ conn' = [conn EXCEPT ![submitted + 1] = "queued"]
  /\ Pool!Submit
  /\ UNCHANGED <<acceptor, arrived, alive>>

(* Without memory make_shared or submit throws, and nobody catches it in   *)
(* main: the process ends, with the descriptor just accepted.              *)
AcceptThrows ==
  /\ alive
  /\ acceptor = "accepting"
  /\ submitted < arrived
  /\ Free # {}
  /\ alive' = FALSE
  /\ UNCHANGED <<acceptor, arrived, holder, clientFd, conn, poolVars>>

(* A plausible bug: an accept that fails ends the loop. *)
AcceptFailsAndReturns ==
  /\ alive
  /\ acceptor = "accepting"
  /\ submitted < arrived
  /\ Free = {}
  /\ acceptor' = "returned"
  /\ UNCHANGED <<arrived, holder, clientFd, conn, alive, poolVars>>

(* accept fails for want of a descriptor: it is logged and tried again at  *)
(* once, the peer is still waiting.                                        *)
AcceptFails ==
  /\ alive
  /\ acceptor = "accepting"
  /\ submitted < arrived
  /\ Free = {}
  /\ UNCHANGED serverVars

-------------------------------------------------------------------------------
(* A worker takes the next task and constructs the Connection.  `new` is   *)
(* outside the task's try: if it throws, the thread has no handler.        *)
Handle(w) ==
  /\ alive
  /\ Pool!Start(w)
  /\ \/ conn' = [conn EXCEPT ![started + 1] = "handling"] /\ alive' = alive
     \/ conn' = conn /\ alive' = FALSE
  /\ UNCHANGED <<acceptor, arrived, holder, clientFd>>

(* A plausible bug: handle closes the socket, ~Socket closes it again. *)
ReturnClosingAgain(w) ==
  /\ alive
  /\ \E k \in Conns :
       /\ current[w] = k /\ conn[k] = "closed"
       /\ conn' = [conn EXCEPT ![k] = "over"]
       /\ holder' = [holder EXCEPT ![clientFd[k]] = NoConn]
  /\ Pool!Finish(w)
  /\ UNCHANGED <<acceptor, arrived, clientFd, alive>>

(* A plausible bug: an exception of handle skips ~Socket. *)
CloseSkipped(w) ==
  /\ alive
  /\ \E k \in Conns \ StuckConns :
       /\ current[w] = k /\ conn[k] = "handling"
       /\ conn' = [conn EXCEPT ![k] = "closed"]
       /\ \/ holder' = [holder EXCEPT ![clientFd[k]] = NoConn]
          \/ holder' = holder
  /\ UNCHANGED <<acceptor, arrived, clientFd, alive, poolVars>>

(* handle returns, or throws and is caught; at the end of the task its     *)
(* unique_ptr destroys the Connection, and ~Socket closes.                 *)
Close(w) ==
  /\ alive
  /\ \E k \in Conns \ StuckConns :
       /\ current[w] = k /\ conn[k] = "handling"
       /\ conn' = [conn EXCEPT ![k] = "closed"]
       /\ holder' = [holder EXCEPT ![clientFd[k]] = NoConn]
  /\ UNCHANGED <<acceptor, arrived, clientFd, alive, poolVars>>

(* A plausible bug: a worker runs one task and ends. *)
ReturnOnce(w) ==
  /\ alive
  /\ \E k \in Conns :
       /\ current[w] = k /\ conn[k] = "closed"
       /\ conn' = [conn EXCEPT ![k] = "over"]
       /\ done' = done \cup {k}
  /\ UNCHANGED <<acceptor, arrived, holder, clientFd, alive,
                 submitted, started, current>>

(* The task returns to the worker's loop. *)
Return(w) ==
  /\ alive
  /\ \E k \in Conns :
       /\ current[w] = k /\ conn[k] = "closed"
       /\ conn' = [conn EXCEPT ![k] = "over"]
  /\ Pool!Finish(w)
  /\ UNCHANGED <<acceptor, arrived, holder, clientFd, alive>>

ServerNext ==
  \/ Open \/ Arrive \/ Accept \/ AcceptThrows \/ AcceptFails
  \/ \E w \in Workers : Handle(w) \/ Close(w) \/ Return(w)

(* The main thread and the workers are scheduled; ThreadPool shows that    *)
(* its workers find the tasks.  No peer has to connect.                    *)
Fairness ==
  /\ WF_serverVars(Accept)
  /\ \A w \in Workers : WF_serverVars(Handle(w)) /\ WF_serverVars(Close(w)) /\ WF_serverVars(Return(w))

ServerSpec == ServerInit /\ [][ServerNext]_serverVars

ServerFairSpec == ServerSpec /\ Fairness

-------------------------------------------------------------------------------
(* Every variable has its type. *)
ServerTypeOK ==
  /\ acceptor \in {"opening", "accepting"}
  /\ arrived \in 0..MaxConns
  /\ holder \in [Fds -> 0..MaxConns]
  /\ clientFd \in [Conns -> Fds]
  /\ conn \in [Conns -> {"none", "queued", "handling", "closed", "over"}]
  /\ alive \in BOOLEAN
  /\ submitted \in 0..MaxConns
  /\ started \in 0..submitted
  /\ current \in [Workers -> 0..MaxConns]
  /\ done \subseteq Conns

Owns(k) == conn[k] \in {"queued", "handling"}

(* The number a task has captured still stands for its own connection when *)
(* the task runs, and as long as it runs: it is not closed early or twice, *)
(* and no two connections share one, although numbers are reused at once.  *)
DescriptorIsOwn == \A k \in Conns : Owns(k) => holder[clientFd[k]] = k

(* Every open descriptor belongs to a connection that is queued or being   *)
(* handled, which will close it: nothing leaks on any way out of handle.   *)
NoLeak ==
  \A f \in Fds :
    holder[f] # NoConn => Owns(holder[f]) /\ clientFd[holder[f]] = f

(* An accepted connection is handled and its descriptor closed, as long as *)
(* fewer connections than there are workers are stuck, or the process dies.*)
ConnectionsEnd ==
  Cardinality(StuckConns) < Cardinality(Workers) =>
    \A k \in Conns \ StuckConns :
      (k <= submitted) ~> (conn[k] = "over" \/ ~alive)

(* A peer that has connected is accepted, although descriptors may run out *)
(* meanwhile: the loop survives failing accepts.                           *)
PeersAccepted ==
  /\ Cardinality(StuckConns) < Cardinality(Workers)
  /\ Cardinality(StuckConns) < Cardinality(Fds)
  => \A k \in Conns : (k <= arrived) ~> (k <= submitted \/ ~alive)
===============================================================================
