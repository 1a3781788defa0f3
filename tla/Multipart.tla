------------------------------- MODULE Multipart ------------------------------
(***************************************************************************)
(* RequestBodyParser (http_request.cpp): what a request's body is, by its  *)
(* Content-Type, and the parts of a multipart/form-data body.  One turn of *)
(* the loop over the parts is one step.  The peer sends a form, as Forms   *)
(* has it, or whatever it likes.                                           *)
(***************************************************************************)
EXTENDS Forms

CONSTANTS
  Others  \* a Content-Type and a body that are no form, or any bytes

HasColon == {Disposition, Type, ":"}
NoForm == [parts |-> <<>>]

ASSUME OthersAssumption == \A u \in Others : u.type \in Seq(STRING) /\ u.body \in Seq(STRING)

VARIABLES
  form,       \* the form that is sent, or NoForm
  upload,     \* a Content-Type and a body
  pc,         \* "type", "first", "parts", "headers", "accepted", "refused"
  req,        \* the members of Request that are set here
  boundary,
  pos,        \* where the loop over the parts is, from 1
  data, pass, total, vec,  \* of the StrSplitter of the part's headers
  spans       \* history: where each part's data begin and end

splitter == <<data, pass, total, vec>>
multipartVars == <<form, upload, pc, req, boundary, pos, splitter, spans>>

buf == upload.body
boundary_line == <<Dash, Dash>> \o boundary
boundary_end == boundary_line \o <<Dash, Dash>>

(* Where the headers of the next part end, its data begin, and the next    *)
(* boundary line stands.                                                   *)
HeaderEnd == Find(CRLF \o CRLF, buf, pos)
DataStart == HeaderEnd + 4
Headers == SubSeq(buf, pos, HeaderEnd - 1)

Splitter == INSTANCE StrSplitter WITH str <- Headers, pattern <- CRLF

MultipartInit ==
  /\ \/ /\ form \in Forms
        /\ upload = [type |-> FormType(form), body |-> SubSeq(FormText(form), 1, form.bytes)]
     \/ form = NoForm /\ upload \in Others
  /\ pc = "type"
  /\ req = [is_multipart_formdata |-> FALSE, multipart_formdata |-> <<>>, content |-> <<>>]
  /\ boundary = <<>> /\ pos = 1 /\ spans = <<>>
  /\ Splitter!Ready

-------------------------------------------------------------------------------
(* parse: without a Content-Type (an empty one here), or with another one, *)
(* the body is the content.                                                *)
ParseContent ==
  /\ pc = "type"
  /\ Find(<<FormData>>, upload.type, 1) = npos
  /\ req' = [req EXCEPT !.content = buf]
  /\ pc' = "accepted"
  /\ UNCHANGED <<form, upload, boundary, pos, splitter, spans>>

ParseNoBoundary ==
  /\ pc = "type"
  /\ Find(<<FormData>>, upload.type, 1) # npos
  /\ Find(<<Boundary>>, upload.type, 1) = npos
  /\ req' = [req EXCEPT !.is_multipart_formdata = TRUE]
  /\ pc' = "refused"
  /\ UNCHANGED <<form, upload, boundary, pos, splitter, spans>>

(* The boundary ends before a semicolon or a blank; quotation marks around *)
(* it belong to it.                                                        *)
BoundaryOf(t) ==
  LET from == Find(<<Boundary>>, t, 1) + 1
      stops == {k \in from..Len(t) : t[k] \in {Semicolon, Blank}}
  IN  SubSeq(t, from, Min(stops \cup {Len(t) + 1}) - 1)

ParseBoundary ==
  /\ pc = "type"
  /\ Find(<<FormData>>, upload.type, 1) # npos
  /\ Find(<<Boundary>>, upload.type, 1) # npos
  /\ req' = [req EXCEPT !.is_multipart_formdata = TRUE]
  /\ boundary' = BoundaryOf(upload.type)
  /\ pc' = "first"
  /\ UNCHANGED <<form, upload, pos, splitter, spans>>

-------------------------------------------------------------------------------
(* parse_multipart_headers: of a header line the value between the first   *)
(* occurrence of a key, which may stand inside another one, and the next   *)
(* quotation mark; nothing when either is missing.                         *)
Quoted(line, key, default) ==
  LET from == Find(key, line, 1) + Len(key)
      end == Find(<<Quote>>, line, from)
  IN  IF Find(key, line, 1) = npos \/ end = npos THEN default ELSE SubSeq(line, from, end - 1)

(* The text behind the first colon and the blanks that follow it. *)
Value(line) ==
  LET colon == Min({k \in DOMAIN line : line[k] \in HasColon})
      text == {k \in colon + 1..Len(line) : line[k] # Blank}
  IN  IF text = {} THEN <<>> ELSE SubSeq(line, Min(text), Len(line))

HeaderLine(part, line) ==
  IF Find(<<Type>>, line, 1) # npos
  THEN [part EXCEPT !.content_type = Value(line)]
  ELSE IF Find(<<Disposition>>, line, 1) # npos
  THEN [part EXCEPT !.name = Quoted(line, <<NameIs, Quote>>, @),
                    !.filename = Quoted(line, <<File, NameIs, Quote>>, @)]
  ELSE part

NoHeaders == [name |-> <<>>, filename |-> <<>>, content_type |-> <<>>]

PartHeaders == FoldLeft(HeaderLine, NoHeaders, vec)

Part(headers, bytes) ==
  [name |-> headers.name, filename |-> headers.filename,
   content_type |-> headers.content_type, data |-> bytes]

-------------------------------------------------------------------------------
(* Behind a boundary line: its line end, if it is there. *)
SkipLineEnd(p) == IF p + 1 <= Len(buf) /\ Occurs(CRLF, buf, p) THEN p + 2 ELSE p

FirstBoundary ==
  /\ pc = "first"
  /\ LET at == Find(boundary_line, buf, 1) IN
       IF at = npos
       THEN pc' = "refused" /\ pos' = pos
       ELSE pc' = "parts" /\ pos' = SkipLineEnd(at + Len(boundary_line))
  /\ UNCHANGED <<form, upload, req, boundary, splitter, spans>>

(* A plausible bug: a part whose end is missing reaches to the body's end. *)
NextBoundaryOrEnd ==
  LET next == Find(boundary_line, buf, DataStart) IN IF next = npos THEN Len(buf) + 1 ELSE next

NextBoundary == Find(boundary_line, buf, DataStart)

(* A plausible bug: the data's beginning is no limit. *)
DataEndUnlimited ==
  Max({0} \cup {k \in 1..NextBoundary - 1 : buf[k] \notin {CR, LF}})

(* The data without any CR and LF at their end. *)
DataEnd ==
  Max({DataStart - 1} \cup {k \in DataStart..NextBoundary - 1 : buf[k] \notin {CR, LF}})

(* The closing boundary. *)
IsLast ==
  /\ NextBoundary + Len(boundary_line) + 1 <= Len(buf)
  /\ Occurs(boundary_end, buf, NextBoundary)

AnotherPart == pos <= Len(buf) /\ HeaderEnd # npos /\ NextBoundary # npos

FindPart ==
  /\ pc = "parts" /\ AnotherPart
  /\ pc' = "headers"
  /\ UNCHANGED <<form, upload, req, boundary, pos, splitter, spans>>

SplitHeaders ==
  /\ pc = "headers"
  /\ Splitter!SplitStep
  /\ UNCHANGED <<form, upload, pc, req, boundary, pos, spans>>

ParsePart ==
  /\ pc = "headers" /\ pass = "done"
  /\ req' = [req EXCEPT !.multipart_formdata =
                Append(@, Part(PartHeaders, SubSeq(buf, DataStart, DataEnd)))]
  /\ spans' = Append(spans, <<DataStart, DataEnd>>)
  /\ IF IsLast
     THEN pc' = "accepted" /\ pos' = pos
     ELSE pc' = "parts" /\ pos' = SkipLineEnd(NextBoundary + Len(boundary_line))
  /\ Splitter!Restart
  /\ UNCHANGED <<form, upload, boundary>>

(* A body that stops anywhere is accepted with the parts found so far. *)
NoMoreParts ==
  /\ pc = "parts" /\ ~AnotherPart
  /\ pc' = "accepted"
  /\ UNCHANGED <<form, upload, req, boundary, pos, splitter, spans>>

MultipartNext ==
  \/ ParseContent \/ ParseNoBoundary \/ ParseBoundary
  \/ FirstBoundary \/ FindPart \/ SplitHeaders \/ ParsePart \/ NoMoreParts

MultipartSpec == MultipartInit /\ [][MultipartNext]_multipartVars

-------------------------------------------------------------------------------
(* A form as browsers make them is read as it is meant: each file's name,  *)
(* whatever characters it has, and its data without the line ends at their *)
(* end.  Of one whose end has been cut off, by a Content-Length that is    *)
(* too small, the parts before the cut are there and the one that was cut  *)
(* is not, rather than half of it (http_request.cpp:310, 320).             *)
PartsAreRead ==
  form # NoForm =>
    LET parts == req.multipart_formdata
        found == [k \in DOMAIN parts |-> [filename |-> parts[k].filename, data |-> parts[k].data]]
    IN  /\ IsPrefix(found, Meant(form))
        /\ form.bytes = Len(FormText(form)) =>
             pc # "refused" /\ (pc = "accepted" => found = Meant(form))

(* Whatever the bytes are: no position leaves the body, header lines are   *)
(* the pieces between line ends, and the data of the parts lie in the body *)
(* one after the other: no two overlap, between two there is a boundary    *)
(* line, and none holds one (http_request.cpp:313).                        *)
PartsWithinBody ==
  /\ pos \in 1..Len(buf) + 1
  /\ pc = "headers" => Splitter!ListIsSplit
  /\ \A k \in DOMAIN spans :
       LET from == spans[k][1]
           to == spans[k][2]
           next == Find(boundary_line, buf, from)
       IN  /\ from <= to + 1
           /\ req.multipart_formdata[k].data = SubSeq(buf, from, to)
           /\ Find(boundary_line, SubSeq(buf, from, to), 1) = npos
           /\ next > to
           /\ k < Len(spans) => spans[k + 1][1] >= next + Len(boundary_line)
===============================================================================
