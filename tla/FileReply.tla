------------------------------- MODULE FileReply ------------------------------
(***************************************************************************)
(* A GET request: serve_file_or_dir_list, send_dir_list_data and           *)
(* send_file_data (main.cpp) with send_all, send_response, the chunk       *)
(* framing and the template page (reply.cpp).  One worker looks at what    *)
(* the url's path names and sends it; meanwhile other programs and other   *)
(* workers' uploads change the file system, and the peer reads, pauses or  *)
(* goes away.                                                              *)
(*                                                                         *)
(* The bytes of a reply are tokens: a head's status line, the header that  *)
(* says how the body is framed, a chunk's size, the CRLF behind its data,  *)
(* and bytes of data.  send takes any number of them.                      *)
(***************************************************************************)
EXTENDS Naturals, SequencesExt

CONSTANTS
  Files, Dirs,   \* the objects of the file system, by kind
  NoObject,      \* what a path names when it names nothing
  Contents,      \* the contents a file may have, sequences of bytes
  Listings,      \* the pages build_dir_list may build
  ReadSize,      \* the size of send_file_data's buffer, 8192 in the program
  SendSize,      \* send_all's BLOCK_SIZE, 4096 in the program
  MaxChanges     \* bound: how often the file system changes

ASSUME FileReplyAssumption ==
  /\ NoObject \notin Files \cup Dirs /\ Files \cap Dirs = {}
  /\ <<>> \notin Listings
  /\ \A s \in Contents \cup Listings : s \in Seq(Range(s))
  /\ ReadSize \in Nat \ (0..3) /\ SendSize \in Nat \ {0}
  /\ MaxChanges \in Nat

VARIABLES
  path,      \* file system: the object the request's path names
  data,      \* file system: each file's content
  changes,   \* number of changes of the file system
  peer,      \* "reading", "paused", "closing" or, once that is known, "closed"
  wire,      \* the tokens that have reached the peer
  pc,        \* where the worker is, or whose send_all it is in
  out,       \* send_all: what is still to be sent
  ret,       \* send_all's result: "busy", "ok" (1) or "error" (-1)
  page,      \* a directory's page, while its head is being sent
  opened,    \* the object file_fd stands for, or NoObject
  pos,       \* file_fd's offset
  outcome,   \* history: "whole", "cut" after a failure, "thrown"
  served,    \* history: the file's content when it was opened
  rewritten  \* history: has it changed since?

disk == <<path, data, changes>>
sender == <<out, ret>>
history == <<outcome, served, rewritten>>
vars == <<disk, peer, wire, pc, sender, page, opened, pos, history>>

Objects == Files \cup Dirs \cup {NoObject}

Init ==
  /\ path \in Objects
  /\ data \in [Files -> Contents]
  /\ changes = 0
  /\ peer = "reading"
  /\ wire = <<>>
  /\ pc = "isDir"
  /\ out = <<>> /\ ret = "ok"
  /\ page = <<>>
  /\ opened = NoObject /\ pos = 0
  /\ outcome = "whole" /\ served = <<>> /\ rewritten = FALSE

-------------------------------------------------------------------------------
(* The file system: the path comes to name something else, or a file is    *)
(* written in place, as an upload does.                                    *)
Relink ==
  /\ changes < MaxChanges
  /\ changes' = changes + 1
  /\ path' \in Objects \ {path}
  /\ UNCHANGED <<data, peer, wire, pc, sender, page, opened, pos, history>>

Rewrite(f) ==
  /\ changes < MaxChanges
  /\ changes' = changes + 1
  /\ \E content \in Contents \ {data[f]} : data' = [data EXCEPT ![f] = content]
  /\ rewritten' = (rewritten \/ opened = f)
  /\ UNCHANGED <<path, peer, wire, pc, sender, page, opened, pos, outcome, served>>

(* The peer: one that closes is known to have closed when it has refused   *)
(* something.                                                              *)
PeerMoves ==
  /\ \/ peer = "reading" /\ peer' \in {"paused", "closing", "closed"}
     \/ peer = "paused" /\ peer' \in {"reading", "closing", "closed"}
     \/ peer = "closing" /\ peer' = "closed"
  /\ UNCHANGED <<disk, wire, pc, sender, page, opened, pos, history>>

-------------------------------------------------------------------------------
(* Tokens and messages *)
Bytes(s) == [i \in DOMAIN s |-> <<"data", s[i]>>]
ReplyHead(code, framing) == <<<<"status", code>>, framing>>
Length(n) == <<"length", n>>
Chunked == <<"chunked", 0>>
Page(code) == ReplyHead(code, Length(1)) \o Bytes(<<code>>)
End == <<<<"size", 0>>, <<"crlf", 0>>>>

Chunk(kept) ==
  <<<<"size", Len(kept)>>>> \o Bytes(kept) \o <<<<"crlf", 0>>>>

(* send_all(message) is called, by the statement `at`. *)
Send(message, at) ==
  /\ out' = message
  /\ ret' = "busy"
  /\ pc' = at

(* A plausible bug of send_all: an error is not looked at. *)
SendRetried ==
  /\ ret = "busy"
  /\ peer = "closed"
  /\ UNCHANGED vars

(* One turn of send_all's loop: send takes a part of a block.  It blocks   *)
(* when the peer does not read.                                            *)
SendSome ==
  /\ ret = "busy"
  /\ peer \in {"reading", "closing"}
  /\ \E n \in 1..SendSize :
       /\ n <= Len(out)
       /\ wire' = IF peer = "reading" THEN wire \o SubSeq(out, 1, n) ELSE wire
       /\ out' = SubSeq(out, n + 1, Len(out))
  /\ ret' = IF out' = <<>> THEN "ok" ELSE "busy"
  /\ UNCHANGED <<disk, peer, pc, page, opened, pos, history>>

(* send fails with ECONNRESET or EPIPE (SIGPIPE is ignored).  It returns 0 *)
(* for no bytes only, so that send_all returns 0 never.                    *)
SendFails ==
  /\ ret = "busy"
  /\ peer = "closed"
  /\ ret' = "error"
  /\ out' = <<>>
  /\ outcome' = "cut"
  /\ UNCHANGED <<disk, peer, wire, pc, page, opened, pos, served, rewritten>>

-------------------------------------------------------------------------------
(* is_dir *)
IsDir ==
  /\ pc = "isDir"
  /\ \/ /\ path \in Dirs
        /\ page' \in Listings
        /\ Send(ReplyHead("200", Length(Len(page'))), "dirHead")
     \/ /\ path \notin Dirs
        /\ pc' = "isFile"
        /\ UNCHANGED <<sender, page>>
  /\ UNCHANGED <<disk, peer, wire, opened, pos, history>>

(* is_regular_file, with a stat of its own *)
IsFile ==
  /\ pc = "isFile"
  /\ \/ path \in Files /\ Send(ReplyHead("200", Chunked), "fileHead")
     \/ path \notin Files /\ Send(Page("404"), "page")
  /\ UNCHANGED <<disk, peer, wire, page, opened, pos, history>>

(* send_dir_list_data does not look at what send_response returns. *)
DirHeadSent ==
  /\ pc = "dirHead" /\ ret # "busy"
  /\ Send(Bytes(page), "page")
  /\ UNCHANGED <<disk, peer, wire, page, opened, pos, history>>

(* The last message has been sent, or not: the handler returns. *)
LastSent ==
  /\ pc \in {"page", "end"} /\ ret # "busy"
  /\ pc' = "done"
  /\ UNCHANGED <<disk, peer, wire, sender, page, opened, pos, history>>

(* open fails if the path names nothing any more, or for want of a         *)
(* descriptor: the reply ends behind its head.                             *)
OpenFails ==
  /\ pc = "fileHead" /\ ret = "ok"
  /\ outcome' = "cut"
  /\ pc' = "done"
  /\ UNCHANGED <<disk, peer, wire, sender, page, opened, pos, served, rewritten>>

Open ==
  /\ pc = "fileHead" /\ ret = "ok"
  /\ path # NoObject
  /\ opened' = path
  /\ served' = IF path \in Files THEN data[path] ELSE <<>>
  /\ pc' = "read"
  /\ UNCHANGED <<disk, peer, wire, sender, page, pos, outcome, rewritten>>

FileHeadFailed ==
  /\ pc = "fileHead" /\ ret = "error"
  /\ pc' = "done"
  /\ UNCHANGED <<disk, peer, wire, sender, page, opened, pos, history>>

BOM == <<"EF", "BB", "BF">>

(* Plausible bugs: a byte too few is skipped; a block that is a mark and   *)
(* nothing else is skipped too, and an empty chunk is the last one.        *)
KeptTooMuch(block) ==
  IF Len(block) > 3 /\ IsPrefix(BOM, block)
    THEN SubSeq(block, 3, Len(block))
    ELSE block

KeptNothing(block) ==
  IF Len(block) >= 3 /\ IsPrefix(BOM, block)
    THEN SubSeq(block, 4, Len(block))
    ELSE block

(* check_utf8_bom, on any block that is longer than the mark *)
Kept(block) ==
  IF Len(block) > 3 /\ IsPrefix(BOM, block)
    THEN SubSeq(block, 4, Len(block))
    ELSE block

Block(content, from) ==
  SubSeq(content, from + 1,
         IF from + ReadSize < Len(content) THEN from + ReadSize ELSE Len(content))

(* read, then send_chunked_data; making the chunk may throw bad_alloc,     *)
(* which nobody catches before the task: file_fd, an int, stays open.      *)
ReadBlock ==
  /\ pc = "read"
  /\ opened \in Files
  /\ pos < Len(data[opened])
  /\ LET block == Block(data[opened], pos)
     IN  /\ pos' = pos + Len(block)
         /\ \/ Send(Chunk(Kept(block)), "chunk") /\ outcome' = outcome
            \/ outcome' = "thrown" /\ pc' = "done" /\ UNCHANGED sender
  /\ UNCHANGED <<disk, peer, wire, page, opened, served, rewritten>>

ReadEof ==
  /\ pc = "read"
  /\ opened \in Files
  /\ pos >= Len(data[opened])
  /\ opened' = NoObject
  /\ Send(End, "end")
  /\ UNCHANGED <<disk, peer, wire, page, pos, history>>

(* A plausible bug: the end is told whatever read has returned. *)
ReadFailsUnchecked ==
  /\ pc = "read"
  /\ opened' = NoObject
  /\ outcome' = "cut"
  /\ Send(End, "end")
  /\ UNCHANGED <<disk, peer, wire, page, pos, served, rewritten>>

(* EIO; EISDIR if the path has come to name a directory *)
ReadFails ==
  /\ pc = "read"
  /\ opened' = NoObject
  /\ outcome' = "cut"
  /\ pc' = "done"
  /\ UNCHANGED <<disk, peer, wire, sender, page, pos, served, rewritten>>

(* A plausible bug: a return that does not close. *)
ChunkSentUnclosed ==
  /\ pc = "chunk" /\ ret # "busy"
  /\ pc' = IF ret = "ok" THEN "read" ELSE "done"
  /\ UNCHANGED <<disk, peer, wire, sender, page, opened, pos, history>>

ChunkSent ==
  /\ pc = "chunk" /\ ret # "busy"
  /\ \/ ret = "ok" /\ pc' = "read" /\ opened' = opened
     \/ ret = "error" /\ pc' = "done" /\ opened' = NoObject
  /\ UNCHANGED <<disk, peer, wire, sender, page, pos, history>>

Worker ==
  \/ SendSome \/ SendFails
  \/ IsDir \/ IsFile \/ DirHeadSent \/ LastSent
  \/ Open \/ OpenFails \/ FileHeadFailed
  \/ ReadBlock \/ ReadEof \/ ReadFails \/ ChunkSent

Next ==
  \/ Worker
  \/ PeerMoves
  \/ Relink
  \/ \E f \in Files : Rewrite(f)

Spec == Init /\ [][Next]_vars

(* The worker is scheduled when send does not block.  The peer owes        *)
(* nothing, nor does the file system.                                      *)
FairSpec == Spec /\ WF_vars(Worker)

-------------------------------------------------------------------------------
(* How a client reads a reply, token by token: what it has understood, and *)
(* what it expects next.                                                   *)
Unread == [expects |-> "status", left |-> 0, body |-> <<>>, framing |-> "none"]

Understand(u, token) ==
  LET kind == token[1]
      took == [u EXCEPT !.body = Append(@, token[2]), !.left = @ - 1]
  IN  CASE u.expects = "status" /\ kind = "status" -> [u EXCEPT !.expects = "framing"]
        [] u.expects = "framing" /\ kind = "chunked" ->
             [u EXCEPT !.expects = "size", !.framing = kind]
        [] u.expects = "framing" /\ kind = "length" ->
             [u EXCEPT !.expects = IF token[2] = 0 THEN "nothing" ELSE "body",
                       !.framing = kind, !.left = token[2]]
        [] u.expects = "body" /\ kind = "data" ->
             [took EXCEPT !.expects = IF u.left = 1 THEN "nothing" ELSE "body"]
        [] u.expects = "size" /\ kind = "size" ->
             [u EXCEPT !.expects = IF token[2] = 0 THEN "last" ELSE "chunk",
                       !.left = token[2]]
        [] u.expects = "chunk" /\ kind = "data" ->
             [took EXCEPT !.expects = IF u.left = 1 THEN "crlf" ELSE "chunk"]
        [] u.expects = "crlf" /\ kind = "crlf" -> [u EXCEPT !.expects = "size"]
        [] u.expects = "last" /\ kind = "crlf" -> [u EXCEPT !.expects = "nothing"]
        [] OTHER -> [u EXCEPT !.expects = "error"]

Reads(u, tokens) ==
  LET read[n \in 0..Len(tokens)] ==
        IF n = 0 THEN u ELSE Understand(read[n - 1], tokens[n])
  IN  read[Len(tokens)]

Understood == Reads(Unread, wire)
Complete == Understood.expects = "nothing"

-------------------------------------------------------------------------------
(* Every variable has its type. *)
TypeOK ==
  /\ path \in Objects
  /\ data \in [Files -> Contents]
  /\ changes \in 0..MaxChanges
  /\ peer \in {"reading", "paused", "closing", "closed"}
  /\ pc \in {"isDir", "isFile", "dirHead", "page", "fileHead", "read", "chunk",
             "end", "done"}
  /\ ret \in {"busy", "ok", "error"} /\ (ret = "busy" => out # <<>>)
  /\ page \in Listings \cup {<<>>}
  /\ opened \in Objects
  /\ pos \in Nat
  /\ outcome \in {"whole", "cut", "thrown"}
  /\ served \in Contents \cup {<<>>}
  /\ rewritten \in BOOLEAN

(* What the peer has is the beginning of a well-formed reply at any time,  *)
(* and nothing follows a complete one: announced and sent sizes agree, no  *)
(* chunk but the last is empty, no byte is lost or sent twice.             *)
Intelligible == Understood.expects # "error"

(* A reply that was cut off, because the file was gone, reading failed or  *)
(* a chunk could not be made or sent, does not look complete to the peer,  *)
(* and one that was not cut off does.                                      *)
FailureIsVisible ==
  pc = "done" /\ peer \in {"reading", "paused"} => (Complete <=> outcome = "whole")

(* What a download leaves of the first n bytes of a file's content: all    *)
(* but the marks with which blocks begin that are longer than a mark.      *)
InMark(content, p) ==
  LET start == ((p - 1) \div ReadSize) * ReadSize
  IN  /\ p <= start + 3 /\ start + 3 < Len(content)
      /\ SubSeq(content, start + 1, start + 3) = BOM

Left(content, n) ==
  LET left[p \in 0..n] ==
        IF p = 0 THEN <<>>
        ELSE IF InMark(content, p) THEN left[p - 1]
        ELSE Append(left[p - 1], content[p])
  IN  left[n]

Downloaded(content) == Left(content, Len(content))

(* A complete download of a file that was not written meanwhile is the     *)
(* file as it was when it was opened, block by block, whatever the path    *)
(* has come to name since and whatever pieces send took.                   *)
DownloadIsFile ==
  Complete /\ Understood.framing = "chunked" /\ ~rewritten
    => Understood.body = Downloaded(served)

(* What the comment at main.cpp:211 says: a byte order mark at the start   *)
(* of a file is skipped, nothing else is.                                  *)
OnlyLeadingBomSkipped ==
  Complete /\ Understood.framing = "chunked" /\ ~rewritten
    => \/ Understood.body = served
       \/ served = BOM \o Understood.body

(* What reply.h:41 says of send_all: 0 stands for a closed connection, -1  *)
(* for other errors.                                                       *)
ErrorIsNotClosed == ret = "error" => peer # "closed"

(* However the handler ends, the file is closed, unless making a chunk     *)
(* has thrown.                                                             *)
FileIsClosed == pc = "done" /\ outcome # "thrown" => opened = NoObject

(* The handler comes back to its worker if the peer reads on, or is known  *)
(* to have gone.  A peer that stops reading keeps it: send has no timeout. *)
HandlerReturns ==
  (<>[](peer = "reading") \/ <>(peer = "closed")) => <>(pc = "done")
===============================================================================
