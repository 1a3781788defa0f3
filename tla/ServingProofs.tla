----------------------------- MODULE ServingProofs ----------------------------
(***************************************************************************)
(* The safety of the two halves of serving a peer: of Connection, for      *)
(* every set of requests, every buffer size, every limit and every width   *)
(* of size_t, and of Server, for every number of workers, descriptors and  *)
(* connections.                                                            *)
(***************************************************************************)
EXTENDS Server, Connection, TLAPS

-------------------------------------------------------------------------------
(* ContentAccounting alone is not inductive.  Phases adds to it what has   *)
(* been established about the request when the worker is in each phase;    *)
(* the two together say why the content handed to the callback has the     *)
(* announced length although the code's lengths may wrap.                  *)
Phases ==
  /\ phase = "header" =>
       bodyBuf = 0 /\ (read < req.head \/ req.verdict = "indeterminate")
  /\ phase # "header" => read >= req.head
                         \/ (phase \in {"done", "gone"} /\ answer = NoAnswer)
  /\ phase = "content" =>
       /\ req.verdict = "complete" /\ req.urlOk
       /\ req.lengthHeader = "number" /\ req.length <= MaxContent
  /\ phase = "callback" =>
       /\ req.verdict = "complete" /\ req.urlOk
       /\ \/ /\ req.lengthHeader = "number" /\ req.length <= MaxContent
             /\ req.bodyOk /\ bodyBuf = req.length
          \/ req.lengthHeader = "absent" /\ ~req.chunked /\ bodyBuf = 0
  /\ phase \in {"header", "content", "callback"} => answer = NoAnswer
  /\ open <=> phase # "gone"

IInv == TypeOK /\ ContentAccounting /\ Phases

-------------------------------------------------------------------------------
(* The size_t arithmetic *)

LEMMA MinusType ==
  ASSUME NEW a \in 0..SizeModulus - 1, NEW b \in 0..SizeModulus - 1
  PROVE  Minus(a, b) \in 0..SizeModulus - 1
  BY SizesAssumption DEF Minus

(* Taking n more bytes keeps the account of the body: either nothing is    *)
(* missing any more than Content-Length says, or `length` is beyond all    *)
(* that can still arrive.                                                  *)
LEMMA TakeBytes ==
  ASSUME NEW l \in 0..SizeModulus - 1, NEW have \in Nat, NEW rest \in Nat,
         NEW remaining \in 0..SizeModulus - 1, NEW n \in 1..rest,
         have + rest < SizeModulus,
         \/ remaining = l - have
         \/ have > l /\ remaining > rest
  PROVE  \/ Minus(remaining, n) = l - (have + n)
         \/ have + n > l /\ Minus(remaining, n) > rest - n
  BY SizesAssumption DEF Minus

(* The first bytes of the body, those received with the header *)
LEMMA FirstBytes ==
  ASSUME NEW l \in 0..SizeModulus - 1, NEW o \in Nat, NEW rest \in Nat,
         o + rest < SizeModulus
  PROVE  \/ Minus(l, o) = l - o
         \/ o > l /\ Minus(l, o) > rest
  BY SizesAssumption DEF Minus

LEMMA AnswersTyped ==
  /\ \A c \in {"none", "400", "413", "501", "callback"} : Page(c) \in Answers
  /\ \A n \in Nat : [code |-> "callback", content |-> n] \in Answers
  BY DEF Page, Answers

(* What is known of a request *)
LEMMA RequestFacts ==
  ASSUME NEW r \in Requests
  PROVE  /\ r.head \in Nat \ {0}
         /\ r.body \in Nat
         /\ r.head + r.body < SizeModulus
         /\ r.verdict \in {"complete", "bad", "indeterminate"}
         /\ r.verdict = "indeterminate" => r.body = 0
         /\ r.urlOk \in BOOLEAN
         /\ r.lengthHeader \in {"absent", "invalid", "number"}
         /\ r.length \in 0..SizeModulus - 1
         /\ r.chunked \in BOOLEAN
         /\ r.bodyOk \in BOOLEAN
  BY RequestsAssumption

-------------------------------------------------------------------------------
(* The invariant is inductive. *)

LEMMA InvInit == Init => IInv
<1> SUFFICES ASSUME Init PROVE IInv
  OBVIOUS
<1> USE DEF Init
<1>1. req \in Requests
  OBVIOUS
<1>2. TypeOK
  BY <1>1, RequestFacts, SizesAssumption, AnswersTyped DEF TypeOK, NoAnswer
<1>3. ContentAccounting /\ Phases
  BY <1>1, RequestFacts DEF ContentAccounting, Phases
<1>4. QED
  BY <1>2, <1>3 DEF IInv

(* Whatever the peer does, what the worker has is not changed. *)
LEMMA PeerKeepsInv ==
  IInv /\ (PeerSend \/ PeerClose \/ PeerReset) => IInv'
<1> SUFFICES ASSUME IInv, PeerSend \/ PeerClose \/ PeerReset
             PROVE  IInv'
  OBVIOUS
<1> USE DEF PeerSend, PeerClose, PeerReset
<1>1. req \in Requests /\ req' = req
  BY DEF IInv, TypeOK
<1>2. TypeOK'
  BY <1>1, RequestFacts DEF IInv, TypeOK
<1>3. ContentAccounting' /\ Phases'
  BY <1>1 DEF IInv, ContentAccounting, Phases
<1>4. QED
  BY <1>2, <1>3 DEF IInv

LEMMA RecvHeaderKeepsInv == IInv /\ RecvHeader => IInv'
<1> SUFFICES ASSUME IInv, phase = "header",
                    UNCHANGED <<req, sent, peer, open>>,
                    NEW n \in 1..BufSize, Received(n),
                    \/ /\ read + n < req.head \/ req.verdict = "indeterminate"
                       /\ UNCHANGED <<phase, bodyBuf, length, answer>>
                    \/ /\ read + n >= req.head
                       /\ req.verdict = "bad"
                       /\ ReplyWith("400")
                    \/ /\ read + n >= req.head
                       /\ req.verdict = "complete"
                       /\ OnHeaderComplete(read + n - req.head)
             PROVE  IInv'
  BY DEF RecvHeader
<1> DEFINE o == read + n - req.head
<1>1. /\ req \in Requests /\ req' = req /\ sent' = sent /\ peer' = peer
      /\ open' = open /\ read' = read + n
      /\ sent \in 0..(req.head + req.body) /\ read \in 0..sent
      /\ read' \in 0..sent' /\ n \in Nat \ {0}
  BY SizesAssumption, RequestFacts DEF IInv, TypeOK, Received
<1>2. open /\ open' /\ answer = NoAnswer /\ bodyBuf = 0
  BY DEF IInv, Phases
<1>3. CASE UNCHANGED <<phase, bodyBuf, length, answer>>
           /\ (read + n < req.head \/ req.verdict = "indeterminate")
  <2>1. TypeOK'
    BY <1>1, <1>3 DEF IInv, TypeOK
  <2>2. ContentAccounting' /\ Phases'
    BY <1>1, <1>2, <1>3 DEF ContentAccounting, Phases, IInv
  <2>3. QED
    BY <2>1, <2>2 DEF IInv
<1>4. ASSUME NEW c \in {"400", "413", "501"}, ReplyWith(c), read + n >= req.head
      PROVE  IInv'
  <2>1. answer' \in Answers
    BY <1>4, AnswersTyped DEF ReplyWith
  <2>2. TypeOK'
    BY <1>1, <1>4, <2>1 DEF IInv, TypeOK, ReplyWith
  <2>3. ContentAccounting' /\ Phases'
    BY <1>1, <1>2, <1>4 DEF ContentAccounting, Phases, ReplyWith
  <2>4. QED
    BY <2>2, <2>3 DEF IInv
<1>5. CASE /\ read + n >= req.head
           /\ req.verdict = "complete" /\ req.urlOk
           /\ req.lengthHeader = "number" /\ req.length <= MaxContent
           /\ ExpectBody(o)
  <2>0. /\ req.head \in Nat \ {0} /\ req.body \in Nat
        /\ req.head + req.body < SizeModulus /\ SizeModulus \in Nat
        /\ req.length \in 0..SizeModulus - 1
    BY <1>1, RequestFacts, SizesAssumption
  <2>1. o \in Nat /\ o <= req.body /\ o < SizeModulus /\ req.body - o \in Nat
    BY <1>1, <1>5, <2>0 DEF Received
  <2>2. bodyBuf' = o /\ length' = Minus(req.length, o) /\ phase' = "content"
        /\ answer' = answer
    BY <1>5 DEF ExpectBody
  <2>3. length' \in 0..SizeModulus - 1
    <3>1. o \in 0..SizeModulus - 1
      BY <2>0, <2>1
    <3> HIDE DEF o
    <3>2. QED
      BY <2>0, <2>2, <3>1, MinusType
  <2>4. TypeOK'
    BY <1>1, <2>1, <2>2, <2>3 DEF IInv, TypeOK
  <2>5. \/ Minus(req.length, o) = req.length - o
        \/ o > req.length /\ Minus(req.length, o) > req.body - o
    <3>1. o + (req.body - o) < SizeModulus
      BY <2>0, <2>1
    <3> HIDE DEF o
    <3>2. QED
      BY <2>0, <2>1, <3>1, FirstBytes
  <2>6. ContentAccounting'
    BY <1>1, <2>0, <2>1, <2>2, <2>5 DEF ContentAccounting
  <2>7. Phases'
    BY <1>1, <1>2, <1>5, <2>2 DEF Phases
  <2>8. QED
    BY <2>4, <2>6, <2>7 DEF IInv
<1>6. CASE /\ read + n >= req.head
           /\ req.verdict = "complete" /\ req.urlOk
           /\ req.lengthHeader = "absent" /\ ~req.chunked
           /\ phase' = "callback"
           /\ UNCHANGED <<bodyBuf, length, answer>>
  <2>1. TypeOK'
    BY <1>1, <1>6 DEF IInv, TypeOK
  <2>2. ContentAccounting' /\ Phases'
    BY <1>1, <1>2, <1>6 DEF ContentAccounting, Phases
  <2>3. QED
    BY <2>1, <2>2 DEF IInv
<1>7. QED
  BY <1>3, <1>4, <1>5, <1>6 DEF OnHeaderComplete

LEMMA ReadContentKeepsInv == IInv /\ ReadContent => IInv'
<1> SUFFICES ASSUME IInv, phase = "content", length > 0,
                    UNCHANGED <<req, sent, peer, phase, answer, open>>,
                    NEW n \in 1..BufSize, Received(n),
                    bodyBuf' = bodyBuf + n, length' = Minus(length, n)
             PROVE  IInv'
  BY DEF ReadContent
<1> DEFINE rest == req.head + req.body - read
<1>1. /\ req \in Requests /\ req' = req /\ sent' = sent /\ open' = open
      /\ peer' = peer /\ phase' = phase /\ answer' = answer /\ read' = read + n
      /\ sent \in 0..(req.head + req.body) /\ read \in 0..sent
      /\ read + n <= sent /\ length \in 0..SizeModulus - 1
      /\ n \in Nat \ {0} /\ bodyBuf = read - req.head
      /\ bodyBuf \in Nat
      /\ \/ length = req.length - bodyBuf
         \/ bodyBuf > req.length /\ length > rest
  BY SizesAssumption, RequestFacts DEF IInv, TypeOK, Received, ContentAccounting
<1>2. /\ req.head \in Nat \ {0} /\ req.body \in Nat
      /\ req.head + req.body < SizeModulus /\ SizeModulus \in Nat
      /\ req.length \in 0..SizeModulus - 1
  BY <1>1, RequestFacts, SizesAssumption
<1>3. /\ rest \in Nat /\ n \in 1..rest /\ bodyBuf + rest < SizeModulus
      /\ n \in 0..SizeModulus - 1 /\ bodyBuf + n \in 0..req.body
      /\ bodyBuf' = read' - req.head
      /\ rest - n = req.head + req.body - read'
  BY <1>1, <1>2
<1>4. length' \in 0..SizeModulus - 1
  BY <1>1, <1>3, MinusType
<1>5. \/ Minus(length, n) = req.length - (bodyBuf + n)
      \/ bodyBuf + n > req.length /\ Minus(length, n) > rest - n
  <2> HIDE DEF rest
  <2>1. QED
    BY <1>1, <1>2, <1>3, TakeBytes
<1>6. TypeOK'
  BY <1>1, <1>2, <1>3, <1>4 DEF IInv, TypeOK
<1>7. ContentAccounting'
  BY <1>1, <1>3, <1>5 DEF ContentAccounting
<1>8. Phases'
  BY <1>1, <1>2 DEF IInv, Phases
<1>9. QED
  BY <1>6, <1>7, <1>8 DEF IInv

(* read_content is only satisfied with the announced length: it sees zero *)
(* missing bytes only if the body is as long as Content-Length says.       *)
LEMMA ZeroMeansExact ==
  IInv /\ phase = "content" /\ length = 0 => bodyBuf = req.length
<1> SUFFICES ASSUME IInv, phase = "content", length = 0
             PROVE  bodyBuf = req.length
  OBVIOUS
<1>1. /\ req \in Requests /\ sent \in 0..(req.head + req.body)
      /\ read \in 0..sent /\ bodyBuf \in 0..req.body
      /\ req.head \in Nat /\ req.body \in Nat /\ req.length \in Nat
  BY RequestFacts, SizesAssumption DEF IInv, TypeOK
<1>2. \/ length = req.length - bodyBuf
      \/ length > req.head + req.body - read
  BY DEF IInv, ContentAccounting
<1>3. QED
  BY <1>1, <1>2

LEMMA OtherStepsKeepInv ==
  IInv /\ (RecvHeaderError \/ ReadContentFails \/ ParseBody \/ Callback \/ Destroy)
    => IInv'
<1> SUFFICES ASSUME IInv,
                    \/ RecvHeaderError \/ ReadContentFails \/ ParseBody
                    \/ Callback \/ Destroy
             PROVE  IInv'
  OBVIOUS
<1> USE DEF RecvHeaderError, ReadContentFails, ParseBody, ReplyWith, Callback, Destroy
<1>1. /\ req \in Requests /\ req' = req /\ sent' = sent /\ peer' = peer
      /\ read' = read /\ bodyBuf' = bodyBuf /\ length' = length
  BY DEF IInv, TypeOK
<1>2. bodyBuf \in Nat
  BY <1>1, RequestFacts DEF IInv, TypeOK
<1>3. answer' \in Answers
  BY <1>2, AnswersTyped DEF IInv, TypeOK
<1>4. TypeOK'
  BY <1>1, <1>3 DEF IInv, TypeOK
<1>5. ContentAccounting'
  BY <1>1 DEF IInv, ContentAccounting
<1>6. Phases'
  BY <1>1, ZeroMeansExact DEF IInv, Phases
<1>7. QED
  BY <1>4, <1>5, <1>6 DEF IInv

LEMMA InvNext == IInv /\ [Next]_vars => IInv'
<1>1. IInv /\ UNCHANGED vars => IInv'
  <2> SUFFICES ASSUME IInv, UNCHANGED vars PROVE IInv'
    OBVIOUS
  <2>1. QED
    BY DEF vars, IInv, TypeOK, ContentAccounting, Phases
<1>2. QED
  BY <1>1, PeerKeepsInv, RecvHeaderKeepsInv, ReadContentKeepsInv, OtherStepsKeepInv
     DEF Next, Worker, RecvHeaderEof

-------------------------------------------------------------------------------
(* Results for a connection *)

(* The inductive invariant holds of every reachable state. *)
THEOREM ConnectionInvariant == Spec => []IInv
  BY InvInit, InvNext, PTL DEF Spec

(* Every variable of a connection keeps its type; no length exceeds size_t.*)
THEOREM ConnectionTypeCorrect == Spec => []TypeOK
<1>1. IInv => TypeOK
  BY DEF IInv
<1>2. QED
  BY ConnectionInvariant, <1>1, PTL

(* read_content's `length` is the number of missing bytes, or too large to *)
(* ever become zero.                                                       *)
THEOREM ContentAccountingCorrect == Spec => []ContentAccounting
<1>1. IInv => ContentAccounting
  BY DEF IInv
<1>2. QED
  BY ConnectionInvariant, <1>1, PTL

LEMMA ExchangeStepRefines ==
  IInv /\ [Next]_vars => [TheExchange!Next]_TheExchange!vars
<1> SUFFICES ASSUME IInv, [Next]_vars
             PROVE  TheExchange!Next \/ UNCHANGED TheExchange!vars
  OBVIOUS
<1> USE DEF TheExchange!Next, TheExchange!vars, TheExchange!Answer, TheExchange!Close
<1>0. req \in Requests
  BY DEF IInv, TypeOK
<1>1. CASE RecvHeader
  <2>1. open /\ answer = NoAnswer /\ UNCHANGED <<req, open>>
    BY <1>1 DEF RecvHeader, IInv, Phases
  <2>2. UNCHANGED answer \/ answer' = Deserved[req]
    BY <1>0, <1>1, RequestFacts
       DEF RecvHeader, OnHeaderComplete, ReplyWith, ExpectBody, Deserved
  <2>3. QED
    BY <2>1, <2>2
<1>2. CASE ParseBody
  <2>1. open /\ answer = NoAnswer /\ UNCHANGED <<req, open>>
    BY <1>2 DEF ParseBody, IInv, Phases
  <2>2. UNCHANGED answer \/ answer' = Deserved[req]
    BY <1>0, <1>2, RequestFacts, SizesAssumption
       DEF ParseBody, ReplyWith, Deserved, IInv, Phases
  <2>3. QED
    BY <2>1, <2>2
<1>3. CASE Callback
  <2>1. open /\ answer = NoAnswer /\ UNCHANGED <<req, open>>
    BY <1>3 DEF Callback, IInv, Phases
  <2>2. answer' = Deserved[req]
    BY <1>0, <1>3, RequestFacts, SizesAssumption
       DEF Callback, Deserved, IInv, Phases
  <2>3. QED
    BY <2>1, <2>2
<1>4. CASE Destroy
  BY <1>4 DEF Destroy, IInv, Phases
<1>5. CASE UNCHANGED <<req, answer, open>>
  BY <1>5
<1>6. QED
  BY <1>1, <1>2, <1>3, <1>4, <1>5
     DEF Next, Worker, vars, PeerSend, PeerClose, PeerReset, RecvHeaderError,
         RecvHeaderEof, ReadContent, ReadContentFails

(* Whatever the segments, the surplus bytes and the wrapping of lengths, a *)
(* connection is an exchange: at most one answer, the deserved one, the    *)
(* callback's content exactly as long as announced, one close.             *)
THEOREM ConnectionRefinement == Spec => ImplementsExchange
<1>1. Init => TheExchange!Init
  BY DEF Init, TheExchange!Init
<1>2. QED
  BY <1>1, ConnectionInvariant, ExchangeStepRefines, PTL
     DEF Spec, ImplementsExchange, TheExchange!Spec

(* At the end of a stream inside the header the peer has nothing left to   *)
(* do and recv nothing left to return, and handle's loop changes nothing.  *)
LEMMA SpinningStep == IInv /\ [Next]_vars => (EofInHeader => EofInHeader')
<1> SUFFICES ASSUME IInv, [Next]_vars, EofInHeader PROVE EofInHeader'
  OBVIOUS
<1>1. phase = "header" /\ peer = "closed" /\ read = sent /\ read \in Nat
  BY RequestFacts DEF EofInHeader, RecvEof, IInv, TypeOK
<1>2. ~(PeerSend \/ PeerClose \/ PeerReset)
  BY <1>1 DEF PeerSend, PeerClose, PeerReset
<1>3. ~RecvHeader
  BY <1>1, SizesAssumption DEF RecvHeader, Received
<1>4. ~(RecvHeaderError \/ ReadContent \/ ReadContentFails \/ ParseBody \/ Callback \/ Destroy)
  BY <1>1 DEF RecvHeaderError, RecvError, ReadContent, ReadContentFails, ParseBody,
              Callback, Destroy
<1>5. UNCHANGED vars
  BY <1>2, <1>3, <1>4 DEF Next, Worker, RecvHeaderEof
<1>6. QED
  BY <1>5 DEF vars, EofInHeader, RecvEof

(* A peer that ends the connection before its header is complete keeps the *)
(* worker for ever, whatever had arrived: no step of either leads out of   *)
(* handle's loop.                                                          *)
THEOREM SpinsForeverCorrect == Spec => SpinsForever
  BY ConnectionInvariant, SpinningStep, PTL DEF Spec, SpinsForever

-------------------------------------------------------------------------------
(* The descriptors. *)

(* Which connections have a task, and which tasks are still in the queue:  *)
(* what makes a connection's descriptor fresh when it is accepted and its  *)
(* own when a worker begins with it.                                       *)
TaskStates ==
  \A k \in Conns :
    /\ conn[k] = "none" <=> k > submitted
    /\ alive => (conn[k] = "queued" <=> started < k /\ k <= submitted)

ServerInv == ServerTypeOK /\ TaskStates /\ DescriptorIsOwn /\ NoLeak

LEMMA ServerInvInit == ServerInit => ServerInv
<1> SUFFICES ASSUME ServerInit PROVE ServerInv
  OBVIOUS
<1> USE ServerAssumption DEF ServerInit, Pool!Init, Pool!NoTask, NoConn, Conns
<1>1. ServerTypeOK
  BY DEF ServerTypeOK
<1>2. TaskStates
  BY DEF TaskStates
<1>3. DescriptorIsOwn /\ NoLeak
  BY DEF DescriptorIsOwn, NoLeak, Owns
<1>4. QED
  BY <1>1, <1>2, <1>3 DEF ServerInv

LEMMA AcceptKeepsInv == ServerInv /\ Accept => ServerInv'
<1> SUFFICES ASSUME ServerInv, Accept,
                    NEW f \in Free,
                    holder' = [holder EXCEPT ![f] = submitted + 1],
                    clientFd' = [clientFd EXCEPT ![submitted + 1] = f]
             PROVE  ServerInv'
  BY DEF Accept
<1> DEFINE new == submitted + 1
<1>1. /\ new \in Conns /\ f \in Fds /\ holder[f] = NoConn
      /\ submitted' = new /\ conn' = [conn EXCEPT ![new] = "queued"]
      /\ UNCHANGED <<acceptor, arrived, alive, started, current, done>>
      /\ submitted \in 0..MaxConns /\ MaxConns \in Nat
  BY ServerAssumption DEF Accept, Pool!Submit, Free, Conns, ServerInv, ServerTypeOK
<1>2. ServerTypeOK'
  BY <1>1 DEF ServerInv, ServerTypeOK, Conns
<1>3. conn[new] = "none"
  BY <1>1 DEF ServerInv, TaskStates
<1>4. TaskStates'
  BY <1>1 DEF ServerInv, ServerTypeOK, TaskStates, Conns
<1>5. DescriptorIsOwn'
  BY <1>1 DEF ServerInv, ServerTypeOK, DescriptorIsOwn, Owns, Conns, NoConn
<1>6. NoLeak'
  BY <1>1, <1>3 DEF ServerInv, ServerTypeOK, NoLeak, Owns, Conns, NoConn
<1>7. QED
  BY <1>2, <1>4, <1>5, <1>6 DEF ServerInv

LEMMA HandleKeepsInv ==
  ASSUME NEW w \in Workers, ServerInv, Handle(w)
  PROVE  ServerInv'
<1> DEFINE next == started + 1
<1>0. /\ submitted \in 0..MaxConns /\ started \in 0..submitted
      /\ MaxConns \in Nat /\ alive \in BOOLEAN
      /\ current \in [Workers -> 0..MaxConns]
      /\ conn \in [Conns -> {"none", "queued", "handling", "closed", "over"}]
  BY ServerAssumption DEF ServerInv, ServerTypeOK
<1>1. /\ alive /\ started < submitted /\ started' = next
      /\ current' = [current EXCEPT ![w] = next]
      /\ UNCHANGED <<acceptor, arrived, holder, clientFd, submitted, done>>
      /\ \/ conn' = [conn EXCEPT ![next] = "handling"] /\ alive' = alive
         \/ conn' = conn /\ alive' = FALSE
  BY DEF Handle, Pool!Start
<1>a. next \in Conns /\ next \in 0..MaxConns /\ next \in 0..submitted
  BY <1>0, <1>1 DEF Conns
<1>2. ServerTypeOK'
  <2>1. current' \in [Workers -> 0..MaxConns]
    BY <1>0, <1>1, <1>a
  <2>2. conn' \in [Conns -> {"none", "queued", "handling", "closed", "over"}]
        /\ alive' \in BOOLEAN
    BY <1>0, <1>1
  <2>3. QED
    BY <1>1, <1>a, <2>1, <2>2 DEF ServerInv, ServerTypeOK
<1>3. conn[next] = "queued"
  BY <1>0, <1>1, <1>a DEF ServerInv, TaskStates
<1>4. TaskStates'
  <2> SUFFICES ASSUME NEW k \in Conns
               PROVE  /\ conn'[k] = "none" <=> k > submitted'
                      /\ alive' => (conn'[k] = "queued" <=> started' < k /\ k <= submitted')
    BY DEF TaskStates
  <2>1. /\ conn[k] = "none" <=> k > submitted
        /\ conn[k] = "queued" <=> started < k /\ k <= submitted
        /\ k \in Nat
    BY <1>1, ServerAssumption DEF ServerInv, TaskStates, Conns
  <2>2. CASE k = next
    <3>1. started < k /\ k <= submitted /\ ~(started' < k) /\ ~(k > submitted')
      BY <1>0, <1>1, <1>a, <2>1, <2>2
    <3>2. conn'[k] = "handling" \/ (conn'[k] = "queued" /\ ~alive')
      BY <1>0, <1>1, <2>1, <2>2, <3>1
    <3>3. QED
      BY <3>1, <3>2
  <2>3. CASE k # next
    <3>1. conn'[k] = conn[k]
      BY <1>0, <1>1, <2>3
    <3>2. started < k <=> started' < k
      BY <1>0, <1>1, <2>1, <2>3
    <3>3. QED
      BY <1>1, <2>1, <2>3, <3>1, <3>2
  <2>4. QED
    BY <2>2, <2>3
<1>5. \A k \in Conns : Owns(k)' <=> Owns(k)
  BY <1>0, <1>1, <1>3, <1>a DEF Owns
<1>6. DescriptorIsOwn'
  BY <1>1, <1>5 DEF ServerInv, DescriptorIsOwn
<1>7. \A g \in Fds : holder[g] # NoConn => holder[g] \in Conns
  BY DEF ServerInv, ServerTypeOK, Conns, NoConn
<1>8. NoLeak'
  BY <1>1, <1>5, <1>7 DEF ServerInv, NoLeak
<1>9. QED
  BY <1>2, <1>4, <1>6, <1>8 DEF ServerInv

LEMMA CloseKeepsInv ==
  ASSUME NEW w \in Workers, ServerInv, Close(w)
  PROVE  ServerInv'
<1>1. PICK k \in Conns :
        /\ conn[k] = "handling"
        /\ conn' = [conn EXCEPT ![k] = "closed"]
        /\ holder' = [holder EXCEPT ![clientFd[k]] = NoConn]
  BY DEF Close
<1>2. UNCHANGED <<acceptor, arrived, clientFd, alive, submitted, started, current, done>>
  BY DEF Close, poolVars
<1>3. ServerTypeOK'
  <2>1. holder' \in [Fds -> 0..MaxConns]
    BY <1>1, ServerAssumption DEF ServerInv, ServerTypeOK, NoConn, Conns
  <2>2. conn' \in [Conns -> {"none", "queued", "handling", "closed", "over"}]
    BY <1>1 DEF ServerInv, ServerTypeOK
  <2>3. QED
    BY <1>2, <2>1, <2>2 DEF ServerInv, ServerTypeOK
<1>4. TaskStates'
  BY <1>1, <1>2 DEF ServerInv, ServerTypeOK, TaskStates
<1>5. holder[clientFd[k]] = k
  BY <1>1 DEF ServerInv, DescriptorIsOwn, Owns
<1>6. \A j \in Conns : Owns(j)' <=> Owns(j) /\ j # k
  BY <1>1 DEF ServerInv, ServerTypeOK, Owns
<1>7. DescriptorIsOwn'
  BY <1>1, <1>2, <1>5, <1>6 DEF ServerInv, ServerTypeOK, DescriptorIsOwn
<1>8. \A g \in Fds : holder'[g] # NoConn =>
        holder'[g] = holder[g] /\ g # clientFd[k] /\ holder[g] \in Conns
  BY <1>1 DEF ServerInv, ServerTypeOK, NoConn, Conns
<1>9. NoLeak'
  BY <1>2, <1>6, <1>8 DEF ServerInv, NoLeak
<1>10. QED
  BY <1>3, <1>4, <1>7, <1>9 DEF ServerInv

LEMMA ReturnKeepsInv ==
  ASSUME NEW w \in Workers, ServerInv, Return(w)
  PROVE  ServerInv'
<1>1. PICK k \in Conns :
        /\ current[w] = k
        /\ conn[k] = "closed"
        /\ conn' = [conn EXCEPT ![k] = "over"]
  BY DEF Return
<1>2. /\ UNCHANGED <<acceptor, arrived, holder, clientFd, alive, submitted, started>>
      /\ current' = [current EXCEPT ![w] = 0] /\ done' = done \cup {k}
  BY <1>1 DEF Return, Pool!Finish, Pool!NoTask
<1>3. ServerTypeOK'
  <2>1. current' \in [Workers -> 0..MaxConns]
    BY <1>2, ServerAssumption DEF ServerInv, ServerTypeOK
  <2>2. conn' \in [Conns -> {"none", "queued", "handling", "closed", "over"}]
    BY <1>1 DEF ServerInv, ServerTypeOK
  <2>3. done' \subseteq Conns
    BY <1>2 DEF ServerInv, ServerTypeOK
  <2>4. QED
    BY <1>2, <2>1, <2>2, <2>3 DEF ServerInv, ServerTypeOK
<1>4. TaskStates'
  BY <1>1, <1>2 DEF ServerInv, ServerTypeOK, TaskStates
<1>5. \A j \in Conns : Owns(j)' <=> Owns(j)
  BY <1>1 DEF ServerInv, ServerTypeOK, Owns
<1>6. DescriptorIsOwn'
  BY <1>2, <1>5 DEF ServerInv, DescriptorIsOwn
<1>7. \A g \in Fds : holder[g] # NoConn => holder[g] \in Conns
  BY DEF ServerInv, ServerTypeOK, NoConn, Conns
<1>8. NoLeak'
  BY <1>2, <1>5, <1>7 DEF ServerInv, NoLeak
<1>9. QED
  BY <1>3, <1>4, <1>6, <1>8 DEF ServerInv

LEMMA ServerInvNext == ServerInv /\ [ServerNext]_serverVars => ServerInv'
<1> SUFFICES ASSUME ServerInv, [ServerNext]_serverVars PROVE ServerInv'
  OBVIOUS
<1>1. CASE Open \/ Arrive \/ AcceptThrows
  <2>1. UNCHANGED <<holder, clientFd, conn, submitted, started, current, done>>
        /\ (alive' => alive)
    BY <1>1 DEF Open, Arrive, AcceptThrows, poolVars
  <2>a. acceptor' \in {"opening", "accepting"} /\ alive' \in BOOLEAN
    BY <1>1 DEF Open, Arrive, AcceptThrows, ServerInv, ServerTypeOK
  <2>b. arrived' \in 0..MaxConns
    <3>1. MaxConns \in Nat /\ arrived \in 0..MaxConns
      BY ServerAssumption DEF ServerInv, ServerTypeOK
    <3>2. arrived' = arrived \/ (arrived < MaxConns /\ arrived' = arrived + 1)
      BY <1>1 DEF Open, Arrive, AcceptThrows
    <3>3. QED
      BY <3>1, <3>2
  <2>2. ServerTypeOK'
    BY <2>1, <2>a, <2>b DEF ServerInv, ServerTypeOK
  <2>3. QED
    BY <2>1, <2>2 DEF ServerInv, TaskStates, DescriptorIsOwn, NoLeak, Owns
<1>2. CASE UNCHANGED serverVars
  BY <1>2 DEF serverVars, poolVars, ServerInv, ServerTypeOK, TaskStates, DescriptorIsOwn, NoLeak, Owns
<1>3. QED
  BY <1>1, <1>2, AcceptKeepsInv, HandleKeepsInv, CloseKeepsInv, ReturnKeepsInv
     DEF ServerNext, AcceptFails

-------------------------------------------------------------------------------
(* Results for a server *)

(* The inductive invariant, and with it every variable's type, holds of    *)
(* every reachable state.                                                  *)
THEOREM ServerInvariant == ServerSpec => []ServerInv
  BY ServerInvInit, ServerInvNext, PTL DEF ServerSpec

(* Every variable keeps its type. *)
THEOREM ServerTypeCorrect == ServerSpec => []ServerTypeOK
<1>1. ServerInv => ServerTypeOK
  BY DEF ServerInv
<1>2. QED
  BY ServerInvariant, <1>1, PTL

(* A task's descriptor number stands for the task's own connection from    *)
(* accept to ~Socket.                                                      *)
THEOREM DescriptorIsOwnCorrect == ServerSpec => []DescriptorIsOwn
<1>1. ServerInv => DescriptorIsOwn
  BY DEF ServerInv
<1>2. QED
  BY ServerInvariant, <1>1, PTL

(* No descriptor outlives its connection. *)
THEOREM NoLeakCorrect == ServerSpec => []NoLeak
<1>1. ServerInv => NoLeak
  BY DEF ServerInv
<1>2. QED
  BY ServerInvariant, <1>1, PTL
===============================================================================
