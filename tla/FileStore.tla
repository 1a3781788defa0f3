------------------------------- MODULE FileStore ------------------------------
(***************************************************************************)
(* http_handler, handle_upload_files and the reading side of               *)
(* send_file_data (main.cpp) on several workers at once: the file system   *)
(* is shared and nothing is locked.                                        *)
(*                                                                         *)
(* An upload constructs an ofstream, which creates or truncates the file,  *)
(* and writes at the stream's own offset, so that every byte of an upload  *)
(* has one place in the file whoever else writes there.  A file is its     *)
(* size and, for each place, the worker whose byte is there or Hole (a     *)
(* place that was skipped reads as zeros).  A worker has one stream at a   *)
(* time and its next open truncates again: the worker names the upload.    *)
(***************************************************************************)
EXTENDS Naturals, Sequences

CONSTANTS
  Workers,
  Names,     \* complete paths: root, url and filename joined
  NoName,    \* the filename of a part that is no file
  Requests,  \* what the peers ask
  MaxSize,   \* the longest data of a part
  Hole

Parts == [name : Names \cup {NoName}, size : 0..MaxSize]

ASSUME FileStoreAssumption ==
  /\ NoName \notin Names
  /\ Hole \notin Workers
  /\ MaxSize \in Nat
  /\ Requests # {}
  /\ Requests \subseteq [method : {"GET", "POST", "PUT"}, url : Names,
                         is_multipart_formdata : BOOLEAN, multipart_formdata : Seq(Parts)]

VARIABLES
  size, cell,  \* the files; one that has no opener does not exist
  pc,          \* each worker's place in its handler, or how it answered
  req,         \* its request
  index,       \* the part it is at
  off,         \* its stream's or descriptor's offset
  bad,         \* has its stream failed?
  got,         \* what a download has read
  opener,      \* history: the worker whose upload opened the file last, or Hole
  length,      \* history: the size of that upload's data
  alone,       \* history: was no other upload of the file open then?
  whole,       \* history: has none of its writes failed?
  failed,      \* history: has an open or a write of the worker's request failed?
  quiet        \* history: no upload was open during the worker's download

files == <<size, cell>>
past == <<opener, length, alone, whole>>
vars == <<files, pc, req, index, off, bad, got, past, failed, quiet>>

Places == 1..MaxSize
Answers == {"ok", "notFound", "notAllowed"}

(* The part a worker is at, and the workers that hold a stream on a file. *)
Part(w) == req[w].multipart_formdata[index[w]]
Streams(n) == {w \in Workers : pc[w] = "writing" /\ Part(w).name = n}

Init ==
  /\ size = [n \in Names |-> 0]
  /\ cell = [n \in Names |-> [i \in Places |-> Hole]]
  /\ pc = [w \in Workers |-> "idle"]
  /\ req = [w \in Workers |-> CHOOSE r \in Requests : TRUE]
  /\ index = [w \in Workers |-> 1]
  /\ off = [w \in Workers |-> 0]
  /\ bad = [w \in Workers |-> FALSE]
  /\ got = [w \in Workers |-> [i \in Places |-> Hole]]
  /\ opener = [n \in Names |-> Hole]
  /\ length = [n \in Names |-> 0]
  /\ alone = [n \in Names |-> TRUE]
  /\ whole = [n \in Names |-> TRUE]
  /\ failed = [w \in Workers |-> FALSE]
  /\ quiet = [w \in Workers |-> TRUE]

-------------------------------------------------------------------------------
(* http_handler: the method decides. *)
Handler(r) ==
  CASE r.method = "GET" -> "looking"
    [] r.method = "POST" -> IF r.is_multipart_formdata THEN "parts" ELSE "ok"
    [] OTHER -> "notAllowed"

HttpHandler(w) ==
  /\ pc[w] \in Answers \cup {"idle"}
  /\ \E r \in Requests :
       /\ req' = [req EXCEPT ![w] = r]
       /\ pc' = [pc EXCEPT ![w] = Handler(r)]
  /\ index' = [index EXCEPT ![w] = 1]
  /\ off' = [off EXCEPT ![w] = 0]
  /\ got' = [got EXCEPT ![w] = [i \in Places |-> Hole]]
  /\ failed' = [failed EXCEPT ![w] = FALSE]
  /\ quiet' = [quiet EXCEPT ![w] = TRUE]
  /\ UNCHANGED <<files, bad, past>>

-------------------------------------------------------------------------------
(* handle_upload_files: a part without a filename is passed over. *)
SkipPart(w) ==
  /\ pc[w] = "parts"
  /\ index[w] <= Len(req[w].multipart_formdata)
  /\ Part(w).name = NoName
  /\ index' = [index EXCEPT ![w] = @ + 1]
  /\ UNCHANGED <<files, pc, req, off, bad, got, past, failed, quiet>>

(* A plausible bug: the open does not truncate. *)
OpenToUpdate(w) ==
  /\ pc[w] = "parts"
  /\ index[w] <= Len(req[w].multipart_formdata)
  /\ LET n == Part(w).name IN
       /\ n # NoName
       /\ opener' = [opener EXCEPT ![n] = w]
       /\ length' = [length EXCEPT ![n] = Part(w).size]
       /\ alone' = [alone EXCEPT ![n] = Streams(n) = {}]
       /\ whole' = [whole EXCEPT ![n] = TRUE]
       /\ quiet' = [v \in Workers |-> quiet[v] /\ ~(req[v].method = "GET" /\ req[v].url = n)]
  /\ pc' = [pc EXCEPT ![w] = "writing"]
  /\ UNCHANGED <<files, req, index, off, bad, got, failed>>

(* std::ofstream out { saveFilePath, std::ios::binary } *)
OpenToWrite(w) ==
  /\ pc[w] = "parts"
  /\ index[w] <= Len(req[w].multipart_formdata)
  /\ LET n == Part(w).name IN
       /\ n # NoName
       /\ size' = [size EXCEPT ![n] = 0]
       /\ cell' = [cell EXCEPT ![n] = [i \in Places |-> Hole]]
       /\ opener' = [opener EXCEPT ![n] = w]
       /\ length' = [length EXCEPT ![n] = Part(w).size]
       /\ alone' = [alone EXCEPT ![n] = Streams(n) = {}]
       /\ whole' = [whole EXCEPT ![n] = TRUE]
       /\ quiet' = [v \in Workers |-> quiet[v] /\ ~(req[v].method = "GET" /\ req[v].url = n)]
  /\ pc' = [pc EXCEPT ![w] = "writing"]
  /\ UNCHANGED <<req, index, off, bad, got, failed>>

(* The open fails: no such directory, no permission, too many files. *)
OpenToWriteFails(w) ==
  /\ pc[w] = "parts"
  /\ index[w] <= Len(req[w].multipart_formdata)
  /\ Part(w).name # NoName
  /\ index' = [index EXCEPT ![w] = @ + 1]
  /\ failed' = [failed EXCEPT ![w] = TRUE]
  /\ UNCHANGED <<files, pc, req, off, bad, got, past, quiet>>

(* out << multipart.data, and the flush of the stream's destructor, write  *)
(* in pieces.                                                              *)
Write(w) ==
  /\ pc[w] = "writing"
  /\ ~bad[w]
  /\ LET n == Part(w).name IN
     \E last \in off[w] + 1..Part(w).size :
       /\ cell' = [cell EXCEPT ![n] = [i \in Places |-> IF i \in off[w] + 1..last THEN w ELSE @[i]]]
       /\ size' = [size EXCEPT ![n] = IF @ < last THEN last ELSE @]
       /\ off' = [off EXCEPT ![w] = last]
  /\ UNCHANGED <<pc, req, index, bad, got, past, failed, quiet>>

(* A write fails; the stream is bad and drops the rest. *)
WriteFails(w) ==
  /\ pc[w] = "writing"
  /\ ~bad[w]
  /\ off[w] < Part(w).size
  /\ bad' = [bad EXCEPT ![w] = TRUE]
  /\ failed' = [failed EXCEPT ![w] = TRUE]
  /\ whole' = [n \in Names |-> whole[n] /\ ~(opener[n] = w /\ Part(w).name = n)]
  /\ UNCHANGED <<files, pc, req, index, off, got, opener, length, alone, quiet>>

(* The end of the loop's body destroys the stream. *)
Close(w) ==
  /\ pc[w] = "writing"
  /\ bad[w] \/ off[w] = Part(w).size
  /\ pc' = [pc EXCEPT ![w] = "parts"]
  /\ index' = [index EXCEPT ![w] = @ + 1]
  /\ off' = [off EXCEPT ![w] = 0]
  /\ bad' = [bad EXCEPT ![w] = FALSE]
  /\ UNCHANGED <<files, req, got, past, failed, quiet>>

(* A plausible bug: the loop leaves out the last part. *)
AnswerEarly(w) ==
  /\ pc[w] = "parts"
  /\ index[w] >= Len(req[w].multipart_formdata)
  /\ pc' = [pc EXCEPT ![w] = "ok"]
  /\ UNCHANGED <<files, req, index, off, bad, got, past, failed, quiet>>

(* The answer does not depend on what happened to the parts. *)
AnswerUpload(w) ==
  /\ pc[w] = "parts"
  /\ index[w] > Len(req[w].multipart_formdata)
  /\ pc' = [pc EXCEPT ![w] = "ok"]
  /\ UNCHANGED <<files, req, index, off, bad, got, past, failed, quiet>>

-------------------------------------------------------------------------------
(* A download: nothing deletes a file that is_regular_file has seen. *)
OpenToRead(w) ==
  /\ pc[w] = "looking"
  /\ opener[req[w].url] # Hole
  /\ pc' = [pc EXCEPT ![w] = "reading"]
  /\ quiet' = [quiet EXCEPT ![w] = Streams(req[w].url) = {}]
  /\ UNCHANGED <<files, req, index, off, bad, got, past, failed>>

NotFound(w) ==
  /\ pc[w] = "looking"
  /\ opener[req[w].url] = Hole
  /\ pc' = [pc EXCEPT ![w] = "notFound"]
  /\ UNCHANGED <<files, req, index, off, bad, got, past, failed, quiet>>

(* The loop of read: a block, here of one byte, ... *)
Read(w) ==
  /\ pc[w] = "reading"
  /\ off[w] < size[req[w].url]
  /\ off' = [off EXCEPT ![w] = @ + 1]
  /\ got' = [got EXCEPT ![w][off[w] + 1] = cell[req[w].url][off[w] + 1]]
  /\ UNCHANGED <<files, pc, req, index, bad, past, failed, quiet>>

(* A plausible bug: a short block is taken for the end. *)
ReadEndEarly(w) ==
  /\ pc[w] = "reading"
  /\ off[w] + 1 >= size[req[w].url]
  /\ pc' = [pc EXCEPT ![w] = "ok"]
  /\ UNCHANGED <<files, req, index, off, bad, got, past, failed, quiet>>

(* ... or the end of the file as it is now. *)
ReadEnd(w) ==
  /\ pc[w] = "reading"
  /\ off[w] >= size[req[w].url]
  /\ pc' = [pc EXCEPT ![w] = "ok"]
  /\ UNCHANGED <<files, req, index, off, bad, got, past, failed, quiet>>

-------------------------------------------------------------------------------
(* The steps of a worker inside its handler. *)
Step(w) ==
  \/ SkipPart(w) \/ OpenToWrite(w) \/ OpenToWriteFails(w)
  \/ Write(w) \/ WriteFails(w) \/ Close(w) \/ AnswerUpload(w)
  \/ OpenToRead(w) \/ NotFound(w) \/ Read(w) \/ ReadEnd(w)

Next == \E w \in Workers : HttpHandler(w) \/ Step(w)

Spec == Init /\ [][Next]_vars

-------------------------------------------------------------------------------
TypeOK ==
  /\ size \in [Names -> 0..MaxSize]
  /\ cell \in [Names -> [Places -> Workers \cup {Hole}]]
  /\ pc \in [Workers -> {"idle", "looking", "parts", "writing", "reading"} \cup Answers]
  /\ req \in [Workers -> Requests]
  /\ index \in [Workers -> Nat \ {0}]
  /\ off \in [Workers -> 0..MaxSize]
  /\ bad \in [Workers -> BOOLEAN]
  /\ got \in [Workers -> [Places -> Workers \cup {Hole}]]
  /\ opener \in [Names -> Workers \cup {Hole}]
  /\ length \in [Names -> 0..MaxSize]
  /\ alone \in [Names -> BOOLEAN]
  /\ whole \in [Names -> BOOLEAN]
  /\ failed \in [Workers -> BOOLEAN]
  /\ quiet \in [Workers -> BOOLEAN]

(* The file holds an upload of its last opener as it was sent. *)
Holds(n, len) ==
  /\ size[n] = len
  /\ \A i \in 1..len : cell[n][i] = opener[n]

(* The upload that opened the file last is over and none of its writes     *)
(* has failed.                                                             *)
Complete(n) == opener[n] # Hole /\ whole[n] /\ opener[n] \notin Streams(n)

(* Although nothing is locked and nothing is checked: an upload that found *)
(* no other one of the same name going on and could write is in its file   *)
(* as it was sent, whatever was there before, and stays there until the    *)
(* next one opens the file (main.cpp:289).                                 *)
SoleUploadIsStored ==
  \A n \in Names : Complete(n) /\ alone[n] => Holds(n, length[n])

(* Of uploads that overlap, the last to open the file leaves no gap in     *)
(* what it covers, although bytes there may be another's.  Behind it there *)
(* may be gaps, where the other one had been when the file was truncated.  *)
NoGapInLastUpload ==
  \A n \in Names : Complete(n) =>
    /\ size[n] >= length[n]
    /\ \A i \in 1..length[n] : cell[n][i] # Hole

(* The size of the last part of a request that is saved as n. *)
LastSize(r, n) ==
  LET parts == r.multipart_formdata
      last == CHOOSE k \in DOMAIN parts : /\ parts[k].name = n
                                          /\ \A j \in DOMAIN parts : parts[j].name = n => j <= k
  IN  parts[last].size

SavedNames(r) == {r.multipart_formdata[k].name : k \in DOMAIN r.multipart_formdata} \ {NoName}

(* When the peer reads "200", the files it has uploaded are closed and     *)
(* complete, each with the last part of its name, unless something failed, *)
(* which the answer does not tell, or another upload came into it          *)
(* (main.cpp:289, 295).                                                    *)
UploadedWhenAnswered ==
  \A w \in Workers, n \in Names :
    /\ pc[w] = "ok" /\ req[w].method = "POST" /\ req[w].is_multipart_formdata
    /\ ~failed[w]
    /\ n \in SavedNames(req[w])
    => opener[n] # Hole /\ (opener[n] = w /\ alone[n] => Holds(n, LastSize(req[w], n)))

(* A download during which no upload of its file is open delivers the file *)
(* (main.cpp:208).                                                         *)
QuietDownloadIsFile ==
  \A w \in Workers :
    pc[w] = "ok" /\ req[w].method = "GET" /\ quiet[w] =>
      /\ off[w] = size[req[w].url]
      /\ \A i \in 1..off[w] : got[w][i] = cell[req[w].url][i]
===============================================================================
