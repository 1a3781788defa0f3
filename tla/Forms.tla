--------------------------------- MODULE Forms --------------------------------
(***************************************************************************)
(* multipart/form-data as browsers make it, for Multipart: the tokens, the *)
(* Content-Type and the body of a form, and what is meant by it.           *)
(*                                                                         *)
(* Bytes are tokens.  The texts that the code looks for are tokens where   *)
(* nothing shorter can match in them: "Content-Type:", "boundary=".  A     *)
(* quotation mark, a dash, CR and LF stand for themselves, and filename="  *)
(* is the three tokens file, name=, ".                                     *)
(***************************************************************************)
EXTENDS Strings, SequencesExt

CONSTANTS
  Forms  \* a boundary, what stands behind it in the Content-Type, the parts,
         \* and how many bytes of the body arrive: a Content-Length that is
         \* too small cuts it off

CR == "cr"
LF == "lf"
Dash == "-"
Quote == "quote"
CRLF == <<CR, LF>>
Disposition == "Content-Disposition:"
Type == "Content-Type:"
FormData == "multipart/form-data"
Boundary == "boundary="
File == "file"
NameIs == "name="
Blank == " "
Semicolon == ";"
Letter == "x"

(* The header of a part: an ordinary field, or a file, whose name may stand *)
(* before the field's, and whose type may stand before its name.           *)
Kinds == {"field", "file", "fileFirst", "typeFirst"}

NameField == <<NameIs, Quote, Letter, Quote>>
FileField(name) == <<File, NameIs, Quote>> \o name \o <<Quote>>

DispositionLine(part) ==
  <<Disposition, Blank>> \o
    CASE part.kind = "field" -> NameField
      [] part.kind = "fileFirst" -> FileField(part.name) \o <<Semicolon>> \o NameField
      [] OTHER -> NameField \o <<Semicolon, Blank>> \o FileField(part.name)

TypeLine == <<Type, Blank, Letter>>

PartHeader(part) ==
  CASE part.kind = "field" -> DispositionLine(part)
    [] part.kind = "typeFirst" -> TypeLine \o CRLF \o DispositionLine(part)
    [] OTHER -> DispositionLine(part) \o CRLF \o TypeLine

-------------------------------------------------------------------------------
BoundaryLine(form) == <<Dash, Dash>> \o form.boundary

FormType(form) == <<FormData, Semicolon, Blank, Boundary>> \o form.boundary \o form.tail

PartText(form, part) ==
  BoundaryLine(form) \o CRLF \o PartHeader(part) \o CRLF \o CRLF \o part.data \o CRLF

FormText(form) ==
  LET from[k \in 1..Len(form.parts) + 1] ==
        IF k = Len(form.parts) + 1 THEN BoundaryLine(form) \o <<Dash, Dash>> \o CRLF
        ELSE PartText(form, form.parts[k]) \o from[k + 1]
  IN  from[1]

(* The names of a form's files, and their data without any CR and LF at    *)
(* their end.                                                              *)
Stripped(d) == SubSeq(d, 1, Max({0} \cup {k \in DOMAIN d : d[k] \notin {CR, LF}}))

Meant(form) ==
  [k \in DOMAIN form.parts |->
     [filename |-> IF form.parts[k].kind = "field" THEN <<>> ELSE form.parts[k].name,
      data |-> Stripped(form.parts[k].data)]]

-------------------------------------------------------------------------------
Without(s, tokens) == \A k \in DOMAIN s : s[k] \notin tokens

(* A browser chooses a boundary that is not in the data, and writes a      *)
(* quotation mark in a name as %22.  That no name has the token            *)
(* Content-Type: is not the browser's doing: the code takes such a line    *)
(* for the type.                                                           *)
ASSUME FormsAssumption ==
  \A form \in Forms :
    /\ form.boundary \in Seq(STRING) /\ Without(form.boundary, {CR, LF, Semicolon, Blank})
    /\ form.tail \in Seq(STRING) /\ (form.tail = <<>> \/ form.tail[1] \in {Semicolon, Blank})
    /\ form.parts \in Seq([kind : Kinds, name : Seq(STRING), data : Seq(STRING)])
    /\ \A k \in DOMAIN form.parts :
         /\ Without(form.parts[k].name, {CR, LF, Quote, Type})
         /\ Find(BoundaryLine(form), form.parts[k].data, 1) = npos
    /\ form.bytes \in 0..Len(FormText(form))
===============================================================================
