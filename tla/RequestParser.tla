----------------------------- MODULE RequestParser ----------------------------
(***************************************************************************)
(* RequestHeaderParser (http_request.h, http_request.cpp): the state       *)
(* machine that reads a request's head byte by byte and files every byte   *)
(* in the Request.  It keeps its state from one parse() to the next, so    *)
(* that parse() of a piece is the same as parse() of its bytes one by one. *)
(*                                                                         *)
(* A byte is a member of Bytes, one for each class the code tells apart    *)
(* and one more for each byte it compares with.  A version number is kept  *)
(* as its digits: the int made of them is never read.                      *)
(***************************************************************************)
EXTENDS Naturals, SequencesExt

(* is_control_char, is_special; HI is a byte above 127, a negative char:   *)
(* neither a control character nor an is_char.  A tab is both control and  *)
(* special: HTTP knows it as a blank in a header's value, the parser knows *)
(* it nowhere.                                                             *)
Control == {"CR", "LF", "TAB", "CTL"}
Special == {" ", ":", "/", "@"}
High    == {"HI"}
Digits  == {"1"}
Tokens  == {"a", "A", "H", "T", "P", "."} \cup Digits

Bytes == Control \cup Special \cup High \cup Tokens

VARIABLES
  state,      \* RequestHeaderParser::state
  tmpKey, tmpValue,
  method, url, major, minor,    \* the Request's fields
  headers,    \* Request::headers, a map from lower-case names to values
  verdict,    \* what consume_one returned last
  input,      \* history: the bytes consumed
  lines       \* history: the header lines read, in order

request == <<method, url, major, minor, headers>>
tmp == <<tmpKey, tmpValue>>
vars == <<state, tmp, request, verdict, input, lines>>

Init ==
  /\ state = "method_start"
  /\ tmpKey = <<>> /\ tmpValue = <<>>
  /\ method = <<>> /\ url = <<>> /\ major = <<>> /\ minor = <<>>
  /\ headers = <<>>
  /\ verdict = "indeterminate"
  /\ input = <<>>
  /\ lines = <<>>

(* The states that wait for one byte: which, and where it leads *)
To(byte, next) == [byte |-> byte, next |-> next]
Literal ==
  [http_version_h            |-> To("H", "http_version_t_1"),
   http_version_t_1          |-> To("T", "http_version_t_2"),
   http_version_t_2          |-> To("T", "http_version_p"),
   http_version_p            |-> To("P", "http_version_slash"),
   http_version_slash        |-> To("/", "http_version_major_start"),
   expecting_new_line_1      |-> To("LF", "header_line_start"),
   space_before_header_value |-> To(" ", "header_value"),
   expecting_new_line_2      |-> To("LF", "header_line_start")]

(* The byte that ends a field, and where it leads *)
Ends ==
  [method             |-> To(" ", "uri"),
   uri                |-> To(" ", "http_version_h"),
   http_version_major |-> To(".", "http_version_minor_start"),
   http_version_minor |-> To("CR", "expecting_new_line_1"),
   header_line_start  |-> To("CR", "expecting_new_line_3"),
   header_name        |-> To(":", "space_before_header_value")]

(* The bytes that are filed, in the states that file, if `name` and `text` *)
(* are those of which names and other texts consist                        *)
FieldOf(name, text) ==
  [method_start             |-> Tokens,
   method                   |-> Tokens,
   uri                      |-> text \ {" "},
   http_version_major_start |-> Digits,
   http_version_major       |-> Digits,
   http_version_minor_start |-> Digits,
   http_version_minor       |-> Digits,
   header_line_start        |-> Tokens,
   header_name              |-> name,
   header_value             |-> text]

(* A plausible bug: a byte above 127 is taken for a control character. *)
FieldSevenBit == FieldOf(Tokens, Bytes \ (Control \cup High))

Field == FieldOf(Tokens, Bytes \ Control)

-------------------------------------------------------------------------------
(* consume_one, by what it does with the byte *)

SkipLiteral(c) ==
  /\ state \in DOMAIN Literal
  /\ c = Literal[state].byte
  /\ state' = Literal[state].next
  /\ UNCHANGED <<tmp, request, verdict, lines>>

EndField(c) ==
  /\ state \in DOMAIN Ends
  /\ c = Ends[state].byte
  /\ state' = Ends[state].next
  /\ UNCHANGED <<tmp, request, verdict, lines>>

(* The start state of a field turns into the field's state; the fields in  *)
(* which no byte is filed stay as they are.                                *)
FileByte(c) ==
  LET next == CASE state = "method_start" -> "method"
                [] state = "http_version_major_start" -> "http_version_major"
                [] state = "http_version_minor_start" -> "http_version_minor"
                [] state = "header_line_start" -> "header_name"
                [] OTHER -> state
      extended(s, field) == IF next = s THEN Append(field, c) ELSE field
  IN  /\ state \in DOMAIN Field
      /\ c \in Field[state]
      /\ state' = next
      /\ method' = extended("method", method)
      /\ url' = extended("uri", url)
      /\ major' = extended("http_version_major", major)
      /\ minor' = extended("http_version_minor", minor)
      /\ tmpKey' = extended("header_name", tmpKey)
      /\ tmpValue' = extended("header_value", tmpValue)
      /\ UNCHANGED <<headers, verdict, lines>>

LowerCase == [A |-> "a", H |-> "h", T |-> "t", P |-> "p"]
Lower(s) ==
  [i \in DOMAIN s |-> IF s[i] \in DOMAIN LowerCase THEN LowerCase[s[i]] ELSE s[i]]

(* Plausible bugs of the end of a header line: the temporaries are not     *)
(* cleared; a later line of the same name replaces the earlier one.        *)
EndLineUncleared(c) ==
  /\ state = "header_value"
  /\ c = "CR"
  /\ headers' = headers @@ (Lower(tmpKey) :> tmpValue)
  /\ lines' = Append(lines, [name |-> tmpKey, value |-> tmpValue])
  /\ state' = "expecting_new_line_2"
  /\ UNCHANGED <<tmp, method, url, major, minor, verdict>>

EndLineReplacing(c) ==
  /\ state = "header_value"
  /\ c = "CR"
  /\ headers' = (Lower(tmpKey) :> tmpValue) @@ headers
  /\ lines' = Append(lines, [name |-> tmpKey, value |-> tmpValue])
  /\ tmpKey' = <<>> /\ tmpValue' = <<>>
  /\ state' = "expecting_new_line_2"
  /\ UNCHANGED <<method, url, major, minor, verdict>>

(* std::map::emplace keeps an entry that is already there. *)
Emplaced(map, key, value) ==
  [k \in DOMAIN map \cup {key} |-> IF k \in DOMAIN map THEN map[k] ELSE value]

EndLine(c) ==
  /\ state = "header_value"
  /\ c = "CR"
  /\ headers' = Emplaced(headers, Lower(tmpKey), tmpValue)
  /\ lines' = Append(lines, [name |-> tmpKey, value |-> tmpValue])
  /\ tmpKey' = <<>> /\ tmpValue' = <<>>
  /\ state' = "expecting_new_line_2"
  /\ UNCHANGED <<method, url, major, minor, verdict>>

Complete(c) ==
  /\ state = "expecting_new_line_3"
  /\ c = "LF"
  /\ verdict' = "complete"
  /\ UNCHANGED <<state, tmp, request, lines>>

(* Any other byte is refused. *)
Legal(c) ==
  \/ state \in DOMAIN Literal /\ c = Literal[state].byte
  \/ state \in DOMAIN Ends /\ c = Ends[state].byte
  \/ state \in DOMAIN Field /\ c \in Field[state]
  \/ state = "header_value" /\ c = "CR"
  \/ state = "expecting_new_line_3" /\ c = "LF"

Refuse(c) ==
  /\ ~Legal(c)
  /\ verdict' = "bad"
  /\ UNCHANGED <<state, tmp, request, lines>>

(* parse stops at the first verdict, and handle does not call it again. *)
ConsumeOne(c) ==
  /\ verdict = "indeterminate"
  /\ \/ SkipLiteral(c) \/ EndField(c) \/ FileByte(c)
     \/ EndLine(c) \/ Complete(c) \/ Refuse(c)
  /\ input' = Append(input, c)

-------------------------------------------------------------------------------
(* Every variable has its type. *)
States == DOMAIN Literal \cup DOMAIN Ends \cup DOMAIN Field
            \cup {"expecting_new_line_3"}

TypeOK ==
  /\ state \in States
  /\ tmpKey \in Seq(Tokens) /\ tmpValue \in Seq(Bytes)
  /\ method \in Seq(Bytes) /\ url \in Seq(Bytes)
  /\ major \in Seq(Bytes) /\ minor \in Seq(Bytes)
  /\ verdict \in {"indeterminate", "complete", "bad"}
  /\ input \in Seq(Bytes)
  /\ lines \in Seq([name : Seq(Tokens), value : Seq(Bytes)])

(* The text of a request line, of header lines, of a head, when what was   *)
(* filed is written down again: one blank follows every colon.             *)
RequestLine(m, u, vMajor, vMinor) ==
  m \o <<" ">> \o u \o <<" ", "H", "T", "T", "P", "/">>
    \o vMajor \o <<".">> \o vMinor \o <<"CR", "LF">>

LineText(l) == l.name \o <<":", " ">> \o l.value \o <<"CR", "LF">>
HeaderLines(ls) == FlattenSeq([i \in DOMAIN ls |-> LineText(ls[i])])

HeadText(r) ==
  RequestLine(r.method, r.url, r.major, r.minor) \o HeaderLines(r.lines)
    \o <<"CR", "LF">>

Parsed == [method |-> method, url |-> url, major |-> major, minor |-> minor,
           lines |-> lines]

(* A head is accepted only if it is, byte for byte, the text of what was   *)
(* filed: nothing is lost, invented, duplicated or filed under another     *)
(* field, and what has the text of no request is not accepted.             *)
AcceptedIsText == verdict = "complete" => input = HeadText(Parsed)

(* Names differ when they differ otherwise than in case; of several lines  *)
(* with one name the first counts (a second Content-Length does not).      *)
FirstLineCounts ==
  /\ DOMAIN headers = {Lower(lines[i].name) : i \in DOMAIN lines}
  /\ \A i \in DOMAIN lines :
       (\A j \in 1..i - 1 : Lower(lines[j].name) # Lower(lines[i].name))
         => headers[Lower(lines[i].name)] = lines[i].value
===============================================================================
