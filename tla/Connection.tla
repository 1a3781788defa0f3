------------------------------- MODULE Connection -----------------------------
(***************************************************************************)
(* Connection::handle and Connection::read_content (connection.cpp): one   *)
(* worker serves one connection.  It receives into a fixed buffer until    *)
(* the header parser gives a verdict, takes the bytes behind the header as *)
(* the beginning of the body, receives the rest of the body if the request *)
(* has a Content-Length, and answers with an error page or with the user's *)
(* callback.  The other actor is the peer, which sends, closes or resets.  *)
(*                                                                         *)
(* A request is the facts about a byte stream on which the code decides:   *)
(* where the header ends and with what verdict (RequestHeaderParser), how  *)
(* many bytes follow, what its headers say.  Bytes are counted, recv       *)
(* returns any number of those that have arrived, up to the buffer's size. *)
(* Lengths are size_t: they wrap at SizeModulus, 2^64 in the program.      *)
(***************************************************************************)
EXTENDS Integers

CONSTANTS
  Requests,      \* what the peer may send: see RequestsAssumption
  BufSize,       \* recv_buf.size()
  MaxContent,    \* GlobalConfig::max_content_length
  SizeModulus    \* 2^w for a size_t of w bits

ASSUME SizesAssumption ==
  /\ BufSize \in Nat \ {0}
  /\ MaxContent \in Nat
  /\ SizeModulus \in Nat
  /\ MaxContent < SizeModulus

(* head: number of bytes up to the parser's verdict; body: number of bytes *)
(* the peer sends behind them; length: what stoul makes of Content-Length, *)
(* when it does not throw.  Nobody can send 2^64 bytes.                    *)
ASSUME RequestsAssumption ==
  \A r \in Requests :
    /\ r.head \in Nat \ {0}
    /\ r.body \in Nat
    /\ r.head + r.body < SizeModulus
    /\ r.verdict \in {"complete", "bad", "indeterminate"}
    /\ r.verdict = "indeterminate" => r.body = 0
    /\ r.urlOk \in BOOLEAN
    /\ r.lengthHeader \in {"absent", "invalid", "number"}
    /\ r.length \in 0..SizeModulus - 1
    /\ r.chunked \in BOOLEAN
    /\ r.bodyOk \in BOOLEAN

VARIABLES
  req,      \* the request of this connection
  sent,     \* number of its bytes that have arrived in the socket
  peer,     \* "open", "closed" (end of file behind the bytes) or "reset"
  read,     \* number of bytes received
  phase,    \* where the worker is in handle()
  bodyBuf,  \* body_buf.size()
  length,   \* read_content's length: the bytes it still waits for
  answer,   \* the error page sent, or the content the callback was handed
  open      \* is the connection's descriptor open?

vars == <<req, sent, peer, read, phase, bodyBuf, length, answer, open>>

(* The subtraction of two size_t *)
Minus(a, b) == IF b <= a THEN a - b ELSE a - b + SizeModulus

(* An error page, or the callback with the content it is handed *)
Answers == [code : {"none", "400", "413", "501", "callback"}, content : Nat]

Page(code) == [code |-> code, content |-> 0]
NoAnswer == Page("none")

Init ==
  /\ req \in Requests
  /\ sent = 0
  /\ peer = "open"
  /\ read = 0
  /\ phase = "header"
  /\ bodyBuf = 0
  /\ length = 0
  /\ answer = NoAnswer
  /\ open = TRUE

-------------------------------------------------------------------------------
(* The peer *)
PeerSend ==
  /\ peer = "open"
  /\ sent < req.head + req.body
  /\ \E n \in 1..(req.head + req.body - sent) : sent' = sent + n
  /\ UNCHANGED <<req, peer, read, phase, bodyBuf, length, answer, open>>

(* The peer has no more to say, or does not say it: close or shutdown. *)
PeerClose ==
  /\ peer = "open"
  /\ peer' = "closed"
  /\ UNCHANGED <<req, sent, read, phase, bodyBuf, length, answer, open>>

(* The connection breaks; what arrived and was not received is discarded. *)
PeerReset ==
  /\ peer = "open"
  /\ peer' = "reset"
  /\ UNCHANGED <<req, sent, read, phase, bodyBuf, length, answer, open>>

-------------------------------------------------------------------------------
(* What recv may return: some of the bytes that have arrived, an error     *)
(* once the connection is reset (also before the last bytes are read), or  *)
(* 0 at the end of the stream.  Otherwise it blocks.                       *)
Received(n) ==
  /\ n \in 1..BufSize
  /\ read + n <= sent
  /\ read' = read + n

RecvError == peer = "reset"
RecvEof == peer = "closed" /\ read = sent

(* send_template_html_reply, then return *)
ReplyWith(code) ==
  /\ answer' = Page(code)
  /\ phase' = "done"
  /\ UNCHANGED <<bodyBuf, length>>

(* A plausible bug: the bytes at hand are not subtracted. *)
ExpectWholeBody(overshoot) ==
  /\ bodyBuf' = overshoot
  /\ length' = req.length
  /\ phase' = "content"
  /\ UNCHANGED answer

(* The body begins with what was received behind the header; the rest is   *)
(* for read_content.  More may be there than Content-Length says.          *)
ExpectBody(overshoot) ==
  /\ bodyBuf' = overshoot
  /\ length' = Minus(req.length, overshoot)
  /\ phase' = "content"
  /\ UNCHANGED answer

(* handle from the end of the header to the body: `overshoot` is the       *)
(* number of bytes that were received behind the header.                   *)
OnHeaderComplete(overshoot) ==
  \/ ~req.urlOk /\ ReplyWith("400")
  \/ /\ req.urlOk
     /\ \/ req.lengthHeader = "invalid" /\ ReplyWith("400")
        \/ /\ req.lengthHeader = "number"
           /\ req.length > MaxContent
           /\ ReplyWith("413")
        \/ /\ req.lengthHeader = "number"
           /\ req.length <= MaxContent
           /\ ExpectBody(overshoot)
        \/ req.lengthHeader = "absent" /\ req.chunked /\ ReplyWith("501")
        \/ /\ req.lengthHeader = "absent"
           /\ ~req.chunked
           /\ phase' = "callback"
           /\ UNCHANGED <<bodyBuf, length, answer>>

(* handle's loop: recv, then parse on what was received.  The parser's     *)
(* state survives from one recv to the next.                               *)
RecvHeader ==
  /\ phase = "header"
  /\ \E n \in 1..BufSize :
       /\ Received(n)
       /\ \/ /\ read + n < req.head \/ req.verdict = "indeterminate"
             /\ UNCHANGED <<phase, bodyBuf, length, answer>>
          \/ /\ read + n >= req.head
             /\ req.verdict = "bad"
             /\ ReplyWith("400")
          \/ /\ read + n >= req.head
             /\ req.verdict = "complete"
             /\ OnHeaderComplete(read + n - req.head)
  /\ UNCHANGED <<req, sent, peer, open>>

(* recv < 0: the error is logged and handle returns. *)
RecvHeaderError ==
  /\ phase = "header"
  /\ RecvError
  /\ phase' = "done"
  /\ UNCHANGED <<req, sent, peer, read, bodyBuf, length, answer, open>>

(* What handle does not do: it returns when recv returns 0. *)
RecvHeaderEofReturns ==
  /\ phase = "header"
  /\ RecvEof
  /\ phase' = "done"
  /\ UNCHANGED <<req, sent, peer, read, bodyBuf, length, answer, open>>

(* recv = 0 in handle: neither branch is taken and the loop goes on, with  *)
(* the same result for ever.                                               *)
RecvHeaderEof ==
  /\ phase = "header"
  /\ RecvEof
  /\ UNCHANGED vars

(* A plausible bug of read_content: it takes the end of the stream for the *)
(* end of the body.                                                        *)
ContentEofAccepted ==
  /\ phase = "content"
  /\ length > 0
  /\ RecvError \/ RecvEof
  /\ phase' = "callback"
  /\ UNCHANGED <<req, sent, peer, read, bodyBuf, length, answer, open>>

(* read_content's loop; recv is called with the whole buffer's size, not   *)
(* with `length`.                                                          *)
ReadContent ==
  /\ phase = "content"
  /\ length > 0
  /\ \E n \in 1..BufSize :
       /\ Received(n)
       /\ bodyBuf' = bodyBuf + n
       /\ length' = Minus(length, n)
  /\ UNCHANGED <<req, sent, peer, phase, answer, open>>

(* An error or the end of the stream: false, and handle returns without an *)
(* answer.                                                                 *)
ReadContentFails ==
  /\ phase = "content"
  /\ length > 0
  /\ RecvError \/ RecvEof
  /\ phase' = "done"
  /\ UNCHANGED <<req, sent, peer, read, bodyBuf, length, answer, open>>

(* read_content returns true; RequestBodyParser::parse judges the body. *)
ParseBody ==
  /\ phase = "content"
  /\ length = 0
  /\ \/ ~req.bodyOk /\ ReplyWith("400")
     \/ /\ req.bodyOk
        /\ phase' = "callback"
        /\ UNCHANGED <<bodyBuf, length, answer>>
  /\ UNCHANGED <<req, sent, peer, read, open>>

(* cb(...): from here on the answer is the callback's, with the body it is *)
(* handed.  It returns or throws; the task that called handle catches.     *)
Callback ==
  /\ phase = "callback"
  /\ answer' = [code |-> "callback", content |-> bodyBuf]
  /\ phase' = "done"
  /\ UNCHANGED <<req, sent, peer, read, bodyBuf, length, open>>

(* A plausible bug of Socket: the descriptor is not closed. *)
DestroyWithoutClose ==
  /\ phase = "done"
  /\ phase' = "gone"
  /\ UNCHANGED <<req, sent, peer, read, bodyBuf, length, answer, open>>

(* handle has returned: ~Connection, and with it ~Socket, closes.  *)
Destroy ==
  /\ phase = "done"
  /\ phase' = "gone"
  /\ open' = FALSE
  /\ UNCHANGED <<req, sent, peer, read, bodyBuf, length, answer>>

Worker ==
  \/ RecvHeader \/ RecvHeaderError \/ RecvHeaderEof
  \/ ReadContent \/ ReadContentFails \/ ParseBody
  \/ Callback \/ Destroy

Next == PeerSend \/ PeerClose \/ PeerReset \/ Worker

(* The worker is scheduled when recv does not block, and the callback      *)
(* returns.  The peer may fall silent at any moment.                       *)
Spec == Init /\ [][Next]_vars

FairSpec == Spec /\ WF_vars(Worker)

-------------------------------------------------------------------------------
(* Every variable has its type. *)
TypeOK ==
  /\ req \in Requests
  /\ sent \in 0..(req.head + req.body)
  /\ peer \in {"open", "closed", "reset"}
  /\ read \in 0..sent
  /\ phase \in {"header", "content", "callback", "done", "gone"}
  /\ bodyBuf \in 0..req.body
  /\ length \in 0..SizeModulus - 1
  /\ answer \in Answers
  /\ open \in BOOLEAN

(* What a request deserves, whatever the segments it arrives in: the       *)
(* content the callback is handed is as long as Content-Length says.       *)
Deserved ==
  [r \in Requests |->
     LET tooLong == r.lengthHeader = "number" /\ r.length > MaxContent
         badBody == r.lengthHeader = "number" /\ ~r.bodyOk
         content == IF r.lengthHeader = "number" THEN r.length ELSE 0
     IN  IF r.verdict = "bad" \/ ~r.urlOk \/ r.lengthHeader = "invalid"
           THEN Page("400")
         ELSE IF tooLong THEN Page("413")
         ELSE IF badBody THEN Page("400")
         ELSE IF r.lengthHeader = "absent" /\ r.chunked THEN Page("501")
         ELSE [code |-> "callback", content |-> content]]

(* Handling a connection implements the abstract exchange: the answer does *)
(* not depend on how the bytes were cut, on bytes that follow the body, or *)
(* on the wrapping of lengths; there is at most one; the descriptor is     *)
(* closed once and nothing is answered on a closed one.                    *)
TheExchange == INSTANCE Exchange
ImplementsExchange == TheExchange!Spec

(* While the body is awaited, body_buf is aligned with the stream and      *)
(* length is what is missing; or more was received than Content-Length     *)
(* says, and length has wrapped to more than can ever arrive.              *)
ContentAccounting ==
  phase = "content" =>
    /\ bodyBuf = read - req.head
    /\ \/ length = req.length - bodyBuf
       \/ bodyBuf > req.length /\ length > req.head + req.body - read

(* The requests that say no more than they promise *)
WellFormed(r) ==
  /\ r.verdict # "indeterminate"
  /\ r.lengthHeader = "number" /\ r.length <= MaxContent => r.body = r.length

(* A request that has arrived whole, with exactly the announced body, is   *)
(* answered, unless the connection is reset.                               *)
WellFormedAnswered ==
  WellFormed(req) /\ sent = req.head + req.body
    ~> answer # NoAnswer \/ peer = "reset"

(* A connection that is reset, or that the peer ends after the header, is  *)
(* given up: the worker comes back and the descriptor is closed.           *)
GoneWhenPeerGone ==
  peer = "reset" \/ (peer = "closed" /\ sent >= req.head /\ req.verdict # "indeterminate")
    ~> ~open

(* A peer that ends the connection before its header is complete keeps     *)
(* the worker for ever: handle takes no branch when recv returns 0.        *)
EofInHeader == phase = "header" /\ RecvEof
SpinsForever == [][EofInHeader => EofInHeader']_vars
===============================================================================
