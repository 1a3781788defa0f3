---------------------------- MODULE RequestReading ----------------------------
(***************************************************************************)
(* RequestParser with a peer: one that speaks HTTP and sends the text of a *)
(* request followed by the first bytes of a body, or one that sends        *)
(* whatever bytes it likes.                                                *)
(***************************************************************************)
EXTENDS RequestParser

CONSTANTS
  Methods, Urls, Versions, Names,    \* of the peer's requests
  Values,     \* all that it writes between the colon and the end of a line
  Bodies,     \* what may follow the head
  MaxLines,   \* bound: how many header lines are sent
  MaxText,    \* bound: how many bytes of any other text are filed in the Request
  Texts       \* bound: the bytes that are filed then

(* The words of which HTTP makes a head.  A value may begin with blanks    *)
(* and tabs, any number of them or none, and have more of them anywhere.   *)
ASSUME WordsAssumption ==
  /\ Methods \cup Names \subseteq Seq(Tokens) \ {<<>>}
  /\ Versions \subseteq Seq(Digits) \ {<<>>}
  /\ Urls \subseteq Seq((Bytes \ Control) \ {" "})
  /\ Values \subseteq Seq((Bytes \ Control) \cup {"TAB"})

ASSUME BoundsAssumption ==
  /\ MaxText \in Nat /\ MaxLines \in Nat /\ Texts \subseteq Bytes
  /\ Bodies \subseteq Seq(Bytes)

VARIABLES
  sent,    \* the peer's request, or NoRequest
  text     \* the bytes it sends for it

readingVars == <<vars, sent, text>>

SentLines ==
  UNION {[1..n -> [name : Names, value : Values]] : n \in 0..MaxLines}
Requests ==
  [method : Methods, url : Urls, major : Versions, minor : Versions, lines : SentLines]
NoRequest == [lines |-> <<>>]

(* What the peer writes of a request *)
SentLine(l) == l.name \o <<":">> \o l.value \o <<"CR", "LF">>
LineTexts(r) == [i \in DOMAIN r.lines |-> SentLine(r.lines[i])]

SentHead(r) ==
  RequestLine(r.method, r.url, r.major, r.minor) \o FlattenSeq(LineTexts(r))
    \o <<"CR", "LF">>

ReadingInit ==
  /\ Init
  /\ \/ /\ sent \in Requests
        /\ \E body \in Bodies : text = SentHead(sent) \o body
     \/ sent = NoRequest /\ text = <<>>

(* consume_one on the next byte of the peer's request, ... *)
ReadByte ==
  /\ sent # NoRequest
  /\ Len(input) < Len(text)
  /\ ConsumeOne(text[Len(input) + 1])
  /\ UNCHANGED <<sent, text>>

(* ... or on any byte, within the bounds. *)
Filed ==
  Len(method) + Len(url) + Len(major) + Len(minor) + Len(tmpKey) + Len(tmpValue)
  + FoldLeft(LAMBDA n, l : n + Len(l.name) + Len(l.value), 0, lines)

Within(c) ==
  /\ state \in DOMAIN Field /\ c \in Field[state] => c \in Texts /\ Filed < MaxText
  /\ state = "header_value" /\ c = "CR" => Len(lines) < MaxLines

ReadAnyByte ==
  /\ sent = NoRequest
  /\ \E c \in Bytes : Within(c) /\ ConsumeOne(c)
  /\ UNCHANGED <<sent, text>>

ReadingNext == ReadByte \/ ReadAnyByte

ReadingSpec == ReadingInit /\ [][ReadingNext]_readingVars

-------------------------------------------------------------------------------
(* The lines that the parser reads, and what it makes of one: of the       *)
(* blanks around a value it skips the first.                               *)
Readable(l) ==
  /\ l.value # <<>> /\ l.value[1] = " "
  /\ \A i \in DOMAIN l.value : l.value[i] # "TAB"

AsRead(l) == [name |-> l.name, value |-> Tail(l.value)]

(* Of the requests that HTTP allows (without folded lines) those are       *)
(* refused that have a line with no blank right behind the colon or with a *)
(* tab in the value (http_request.cpp:190-197, 207), and no other.  A      *)
(* request that is accepted has been read up to the last byte of its head, *)
(* so that parse's second result points at the first byte of the body, and *)
(* what the parser has filled in is what the peer sent; until that byte    *)
(* the parser asks for more, and from it on it does not.                   *)
MeansWhatWasSent ==
  sent # NoRequest =>
    /\ verdict = "bad" => \E i \in DOMAIN sent.lines : ~Readable(sent.lines[i])
    /\ verdict = "complete" =>
         /\ \A i \in DOMAIN sent.lines : Readable(sent.lines[i])
         /\ Parsed = [sent EXCEPT !.lines = [i \in DOMAIN sent.lines |-> AsRead(sent.lines[i])]]
         /\ input = SentHead(sent)
    /\ verdict = "indeterminate" => Len(input) < Len(SentHead(sent))
===============================================================================
