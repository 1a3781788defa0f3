------------------------------- MODULE MimeTable ------------------------------
(***************************************************************************)
(* load_mime and extension_to_mime (global_config.cpp): the file mime.txt  *)
(* is read line by line.  A file is the sequence of its lines, the last    *)
(* one being what stands behind the last line end, often nothing.          *)
(***************************************************************************)
EXTENDS Strings

CONSTANTS
  Files,  \* what mime.txt may be
  Lower,  \* std::tolower, a function on bytes
  Keys    \* extensions that are looked up

ASSUME MimeAssumption ==
  /\ Files \subseteq Seq(Seq(DOMAIN Lower)) \ {<<>>}
  /\ Keys \subseteq Seq(DOMAIN Lower)

CR == "cr"
Blank == " "
Unknown == <<"application/octet-stream">>

VARIABLES
  lines,
  failing,    \* will a read of the file fail?
  at,         \* the line that is read next
  line,       \* load_mime's local
  eof, bad,   \* the stream's state
  table,      \* mimeTable: lower-case extension to type
  data, pass, total, vec,  \* of the StrSplitter of the line
  pc          \* "open", "read", "use", and load_mime's result: "loaded", "refused"

splitter == <<data, pass, total, vec>>
mimeVars == <<lines, failing, at, line, eof, bad, table, splitter, pc>>

Splitter == INSTANCE StrSplitter WITH str <- line, pattern <- <<Blank>>

MimeInit ==
  /\ lines \in Files
  /\ failing \in BOOLEAN
  /\ at = 1 /\ line = <<>>
  /\ eof = FALSE /\ bad = FALSE
  /\ table = [key \in {} |-> <<>>]
  /\ pc = "open"
  /\ Splitter!Ready

-------------------------------------------------------------------------------
(* std::ifstream in { mimePath }; whether it is open is looked at once. *)
OpenMime ==
  /\ pc = "open"
  /\ pc' \in {"read", "refused"}
  /\ UNCHANGED <<lines, failing, at, line, eof, bad, table, splitter>>

(* while (!in.eof()) getline: a line, ... *)
GetLine ==
  /\ pc = "read" /\ ~eof /\ ~bad
  /\ line' = lines[at]
  /\ at' = at + 1
  /\ eof' = (at = Len(lines))
  /\ pc' = "use"
  /\ UNCHANGED <<lines, failing, bad, table, splitter>>

(* ... or what could be read of it before the read failed, ... *)
GetLineFails ==
  /\ pc = "read" /\ ~eof /\ ~bad
  /\ failing
  /\ bad' = TRUE
  /\ \E n \in 0..Len(lines[at]) : line' = SubSeq(lines[at], 1, n)
  /\ pc' = "use"
  /\ UNCHANGED <<lines, failing, at, eof, table, splitter>>

(* ... and on a stream that is bad getline leaves the line as it was, and  *)
(* the end of the file is never reached.                                   *)
GetLineAgain ==
  /\ pc = "read" /\ ~eof /\ bad
  /\ pc' = "use"
  /\ UNCHANGED <<lines, failing, at, line, eof, bad, table, splitter>>

LoadEnd ==
  /\ pc = "read" /\ eof
  /\ pc' = "loaded"
  /\ UNCHANGED <<lines, failing, at, line, eof, bad, table, splitter>>

-------------------------------------------------------------------------------
PopCR(word) == IF word[Len(word)] = CR THEN SubSeq(word, 1, Len(word) - 1) ELSE word
LowerCase(word) == [n \in DOMAIN word |-> Lower[word[n]]]

EmptyLine ==
  /\ pc = "use" /\ line = <<>>
  /\ pc' = "read"
  /\ UNCHANGED <<lines, failing, at, line, eof, bad, table, splitter>>

SplitLine ==
  /\ pc = "use" /\ line # <<>>
  /\ Splitter!SplitStep
  /\ UNCHANGED <<lines, failing, at, line, eof, bad, table, pc>>

WrongLine ==
  /\ pc = "use" /\ pass = "done"
  /\ Len(vec) # 2
  /\ pc' = "refused"
  /\ UNCHANGED <<lines, failing, at, line, eof, bad, table, splitter>>

(* A plausible bug: the last entry of a key counts. *)
EmplaceOrAssign(key, value) ==
  LET low == LowerCase(key) IN [e \in DOMAIN table \cup {low} |-> IF e = low THEN value ELSE table[e]]

(* mime_map_add: emplace keeps the entry that is there. *)
Emplace(key, value) ==
  [e \in DOMAIN table \cup {LowerCase(key)} |-> IF e \in DOMAIN table THEN table[e] ELSE value]

AddLine ==
  /\ pc = "use" /\ pass = "done"
  /\ Len(vec) = 2
  /\ table' = Emplace(PopCR(vec[1]), PopCR(vec[2]))
  /\ pc' = "read"
  /\ Splitter!Restart
  /\ UNCHANGED <<lines, failing, at, line, eof, bad>>

extension_to_mime(key) ==
  LET k == LowerCase(key) IN IF k \in DOMAIN table THEN table[k] ELSE Unknown

LoadStep ==
  \/ OpenMime \/ GetLine \/ GetLineFails \/ GetLineAgain \/ LoadEnd
  \/ EmptyLine \/ SplitLine \/ WrongLine \/ AddLine

-------------------------------------------------------------------------------
(* What an entry of the file says, with the CR of a line end taken off. *)
Pairs == {n \in DOMAIN lines : Len(Split(lines[n], <<Blank>>)) = 2}
WordOf(n, w) ==
  LET word == Split(lines[n], <<Blank>>)[w]
  IN  [i \in {i \in DOMAIN word : i < Len(word) \/ word[i] # CR} |-> word[i]]
SameWord(a, b) == Len(a) = Len(b) /\ \A n \in DOMAIN a : Lower[a[n]] = Lower[b[n]]

(* What a table is loaded from is a file of which all has been read and    *)
(* each line is empty or a pair of words; a line that has a CR and nothing *)
(* else is neither (global_config.cpp:19, 25).  And "this function ignore  *)
(* cases, if can't find, return application/octet-stream"                  *)
(* (global_config.h:58): whatever the spelling in the file and in the url, *)
(* the first entry of an extension counts, and line ends of either kind    *)
(* are no part of it.  A file is refused only if it is no such table.      *)
TableIsOfFile ==
  /\ pc = "loaded" =>
       /\ ~bad /\ \A n \in DOMAIN lines : lines[n] = <<>> \/ n \in Pairs
       /\ \A key \in Keys :
            LET entries == {n \in Pairs : SameWord(WordOf(n, 1), key)}
            IN  extension_to_mime(key) = IF entries = {} THEN Unknown ELSE WordOf(Min(entries), 2)
  /\ pc = "refused" /\ at > 1 => bad \/ \E n \in DOMAIN lines : lines[n] # <<>> /\ n \notin Pairs
===============================================================================
