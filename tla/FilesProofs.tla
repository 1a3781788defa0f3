--------------------------- MODULE FilesProofs --------------------------------
(***************************************************************************)
(* Theorems of FileStore for every set of workers, names and requests and  *)
(* every length of the uploads, and of Browsing for every root, tree, url  *)
(* and name.                                                               *)
(*                                                                         *)
(* FileOK is the inductive form of what is promised of a file: while its   *)
(* last opener still writes, what lies before the opener's offset is       *)
(* there, and is the opener's own when it was alone; it stays alone since  *)
(* a second stream would make itself the last opener.  UploadOK, on top of *)
(* it, relates the parts a worker has gone through to the files.           *)
(*                                                                         *)
(* BrowsingInv says of a page that it is what Get makes of its url and the *)
(* tree, and of a url that was put together from links that it leads to    *)
(* where their names do.  It rests on two facts about texts: concatenating *)
(* two paths concatenates their names (ConcatIs), and the decoder returns  *)
(* what the reference definition says (DecodingOf).                        *)
(***************************************************************************)
EXTENDS FileStore, Browsing, TextLemmas, FiniteSetTheorems

Form(w) == req[w].multipart_formdata

WorkerOK(w) ==
  /\ pc[w] = "writing" =>
       /\ index[w] \in 1..Len(Form(w))
       /\ Part(w).name # NoName
       /\ off[w] <= Part(w).size
  /\ pc[w] # "writing" => ~bad[w]
  /\ pc[w] \in {"looking", "parts"} => off[w] = 0
  /\ pc[w] \in {"looking", "reading"} => req[w].method = "GET"
  /\ pc[w] \in {"parts", "writing"} => req[w].method = "POST"

OpenerOK(n, w) ==
  /\ length[n] = Part(w).size
  /\ bad[w] => ~whole[n]
  /\ off[w] <= size[n]
  /\ \A i \in 1..off[w] : cell[n][i] # Hole
  /\ alone[n] => size[n] = off[w] /\ \A i \in 1..off[w] : cell[n][i] = w

FileOK(n) ==
  /\ opener[n] # Hole /\ alone[n] => Streams(n) \subseteq {opener[n]}
  /\ \A w \in Streams(n) : opener[n] = w => OpenerOK(n, w)
  /\ Complete(n) =>
       /\ size[n] >= length[n]
       /\ \A i \in 1..length[n] : cell[n][i] # Hole
       /\ alone[n] => Holds(n, length[n])

DownloadOK(w) ==
  pc[w] \in {"reading", "ok"} /\ req[w].method = "GET" /\ quiet[w] =>
    /\ Streams(req[w].url) = {}
    /\ off[w] <= size[req[w].url]
    /\ \A i \in 1..off[w] : got[w][i] = cell[req[w].url][i]
    /\ pc[w] = "ok" => off[w] = size[req[w].url]

IInv ==
  /\ TypeOK
  /\ \A w \in Workers : WorkerOK(w)
  /\ \A n \in Names : FileOK(n)
  /\ \A w \in Workers : DownloadOK(w)

-------------------------------------------------------------------------------
(* What a request is made of. *)
LEMMA RequestParts ==
  ASSUME TypeOK, NEW w \in Workers
  PROVE  /\ req[w].url \in Names
         /\ Form(w) \in Seq(Parts)
         /\ Len(Form(w)) \in Nat
         /\ index[w] \in Nat \ {0}
         /\ off[w] \in 0..MaxSize
         /\ \A k \in 1..Len(Form(w)) :
              /\ Form(w)[k].name \in Names \cup {NoName}
              /\ Form(w)[k].size \in 0..MaxSize
<1>1. req[w] \in Requests
  BY DEF TypeOK
<1>2. /\ req[w].url \in Names
      /\ Form(w) \in Seq(Parts)
  BY <1>1, FileStoreAssumption DEF Form
<1>3. \A k \in 1..Len(Form(w)) : Form(w)[k] \in Parts
  BY <1>2
<1>4. /\ index[w] \in Nat \ {0}
      /\ off[w] \in 0..MaxSize
      /\ Len(Form(w)) \in Nat
  BY <1>2 DEF TypeOK
<1> QED
  BY <1>2, <1>3, <1>4 DEF Parts

(* The part a worker is at, when there is one. *)
LEMMA PartAt ==
  ASSUME TypeOK, NEW w \in Workers, index[w] <= Len(Form(w))
  PROVE  /\ index[w] \in 1..Len(Form(w))
         /\ Part(w).name \in Names \cup {NoName}
         /\ Part(w).size \in 0..MaxSize
<1>1. index[w] \in 1..Len(Form(w))
  BY RequestParts
<1> QED
  BY <1>1, RequestParts DEF Part, Form

(* A file is as it was if no stream on it has changed. *)
LEMMA FileKept ==
  ASSUME NEW n \in Names, FileOK(n),
         UNCHANGED <<size[n], cell[n], opener[n], length[n], alone[n], whole[n]>>,
         Streams(n)' = Streams(n),
         \A w \in Streams(n) : UNCHANGED <<Part(w), off[w], bad[w]>>
  PROVE  FileOK(n)'
<1>1. \A w \in Streams(n) : OpenerOK(n, w)' <=> OpenerOK(n, w)
  BY DEF OpenerOK
<1>2. Complete(n)' <=> Complete(n)
  BY DEF Complete
<1>3. Holds(n, length[n])' <=> Holds(n, length[n])
  BY DEF Holds
<1> QED
  BY <1>1, <1>2, <1>3 DEF FileOK

(* A step of one worker that neither begins nor ends a stream, and does    *)
(* not write, leaves every file as it was.                                 *)
LEMMA FilesKept ==
  ASSUME TypeOK, NEW w \in Workers, \A n \in Names : FileOK(n),
         UNCHANGED <<files, past>>,
         pc[w] # "writing", pc'[w] # "writing",
         \A v \in Workers \ {w} : UNCHANGED <<pc[v], req[v], index[v], off[v], bad[v]>>
  PROVE  \A n \in Names : FileOK(n)' /\ Streams(n)' = Streams(n)
<1> SUFFICES ASSUME NEW n \in Names PROVE FileOK(n)' /\ Streams(n)' = Streams(n)
  OBVIOUS
<1>1. \A v \in Workers \ {w} : Part(v)' = Part(v)
  BY DEF Part
<1>2. Streams(n)' = Streams(n)
  BY <1>1 DEF Streams
<1>3. w \notin Streams(n)
  BY DEF Streams
<1>4. \A v \in Streams(n) : UNCHANGED <<Part(v), off[v], bad[v]>>
  BY <1>1, <1>3 DEF Streams
<1>5. UNCHANGED <<size[n], cell[n], opener[n], length[n], alone[n], whole[n]>>
  BY DEF files, past
<1> QED
  BY <1>2, <1>4, <1>5, FileKept

(* A download goes on being right if its file and its streams are the same.*)
LEMMA DownloadKept ==
  ASSUME NEW v \in Workers, DownloadOK(v),
         UNCHANGED <<pc[v], req[v], off[v], got[v]>>,
         quiet'[v] => quiet[v],
         UNCHANGED <<size[req[v].url], cell[req[v].url]>>,
         Streams(req[v].url)' = Streams(req[v].url)
  PROVE  DownloadOK(v)'
BY DEF DownloadOK

(* A worker that a step does not concern. *)
LEMMA WorkerKept ==
  ASSUME NEW v \in Workers, WorkerOK(v),
         UNCHANGED <<pc[v], req[v], index[v], off[v], bad[v]>>
  PROVE  WorkerOK(v)'
<1>1. Part(v)' = Part(v) /\ Form(v)' = Form(v)
  BY DEF Part, Form
<1> QED
  BY <1>1 DEF WorkerOK

-------------------------------------------------------------------------------
LEMMA InitIInv == Init => IInv
<1> SUFFICES ASSUME Init PROVE IInv
  OBVIOUS
<1> USE FileStoreAssumption
<1>1. TypeOK
  <2>1. (CHOOSE r \in Requests : TRUE) \in Requests
    OBVIOUS
  <2> QED
    BY <2>1 DEF Init, TypeOK, Places
<1>2. \A w \in Workers : WorkerOK(w) /\ DownloadOK(w)
  BY DEF Init, WorkerOK, DownloadOK
<1>3. \A n \in Names : FileOK(n)
  BY DEF Init, FileOK, Complete, Streams
<1> QED
  BY <1>1, <1>2, <1>3 DEF IInv

(* The steps that leave the files and the streams alone: what remains to   *)
(* be shown is about the worker itself.                                    *)
LEMMA OwnStep ==
  ASSUME IInv, NEW w \in Workers, TypeOK', WorkerOK(w)', DownloadOK(w)',
         UNCHANGED <<files, past>>,
         pc[w] # "writing", pc'[w] # "writing",
         \A v \in Workers \ {w} :
           UNCHANGED <<pc[v], req[v], index[v], off[v], bad[v], got[v], quiet[v]>>
  PROVE  IInv'
<1>1. \A n \in Names : FileOK(n)' /\ Streams(n)' = Streams(n)
  BY FilesKept DEF IInv
<1>2. ASSUME NEW v \in Workers, v # w PROVE WorkerOK(v)' /\ DownloadOK(v)'
  <2>1. WorkerOK(v)'
    BY <1>2, WorkerKept DEF IInv
  <2>2. req[v].url \in Names
    BY RequestParts DEF IInv
  <2>3. UNCHANGED <<size, cell>>
    BY DEF files
  <2>4. Streams(req[v].url)' = Streams(req[v].url)
    BY <1>1, <1>2, <2>2
  <2>5. DownloadOK(v)'
    BY <1>2, <2>3, <2>4, DownloadKept DEF IInv
  <2> QED
    BY <2>1, <2>5
<1> QED
  BY <1>1, <1>2 DEF IInv

LEMMA HttpHandlerStep ==
  ASSUME IInv, NEW w \in Workers, HttpHandler(w)
  PROVE  IInv'
<1>1. PICK r \in Requests : /\ req' = [req EXCEPT ![w] = r]
                            /\ pc' = [pc EXCEPT ![w] = Handler(r)]
  BY DEF HttpHandler
<1>2. /\ r.method \in {"GET", "POST", "PUT"}
      /\ Handler(r) \in {"looking", "parts"} \cup Answers
      /\ Handler(r) = "looking" => r.method = "GET"
      /\ Handler(r) = "parts" => r.method = "POST"
      /\ Handler(r) = "ok" => r.method = "POST"
      /\ Handler(r) \notin {"reading", "writing"}
  BY FileStoreAssumption DEF Handler, Answers
<1>3. TypeOK'
  <2>1. pc' \in [Workers -> {"idle", "looking", "parts", "writing", "reading"} \cup Answers]
    BY <1>1, <1>2 DEF IInv, TypeOK
  <2>2. req' \in [Workers -> Requests]
    BY <1>1 DEF IInv, TypeOK
  <2>3. [i \in Places |-> Hole] \in [Places -> Workers \cup {Hole}]
    OBVIOUS
  <2>4. got' \in [Workers -> [Places -> Workers \cup {Hole}]]
    BY <2>3 DEF IInv, TypeOK, HttpHandler
  <2>5. /\ index' \in [Workers -> Nat \ {0}]
        /\ off' \in [Workers -> 0..MaxSize]
        /\ failed' \in [Workers -> BOOLEAN]
        /\ quiet' \in [Workers -> BOOLEAN]
    BY FileStoreAssumption, SMTT(30) DEF IInv, TypeOK, HttpHandler
  <2> QED
    BY <2>1, <2>2, <2>4, <2>5 DEF IInv, TypeOK, HttpHandler, files, past
<1>4. /\ pc[w] # "writing" /\ pc'[w] = Handler(r) /\ req'[w] = r
      /\ off'[w] = 0 /\ bad'[w] = bad[w]
  BY <1>1 DEF HttpHandler, Answers, IInv, TypeOK
<1>5. WorkerOK(w)'
  BY <1>2, <1>4 DEF WorkerOK, IInv
<1>6. DownloadOK(w)'
  BY <1>2, <1>4 DEF DownloadOK
<1>7. /\ UNCHANGED <<files, past>>
      /\ \A v \in Workers \ {w} :
           UNCHANGED <<pc[v], req[v], index[v], off[v], bad[v], got[v], quiet[v]>>
  BY <1>1 DEF HttpHandler, IInv, TypeOK
<1> QED
  BY <1>2, <1>3, <1>4, <1>5, <1>6, <1>7, OwnStep

(* SkipPart, OpenToWriteFails, AnswerUpload, NotFound *)
LEMMA QuietStep ==
  ASSUME IInv, NEW w \in Workers,
         SkipPart(w) \/ OpenToWriteFails(w) \/ AnswerUpload(w) \/ NotFound(w)
  PROVE  IInv'
<1>1. /\ pc[w] \in {"parts", "looking"}
      /\ pc' = [pc EXCEPT ![w] = pc'[w]]
      /\ pc'[w] \in {"parts", "ok", "notFound"}
      /\ pc[w] = "looking" => pc'[w] = "notFound"
      /\ index' = [index EXCEPT ![w] = index'[w]]
      /\ index'[w] \in {index[w], index[w] + 1}
      /\ failed' = [failed EXCEPT ![w] = failed'[w]]
      /\ failed'[w] \in BOOLEAN
      /\ UNCHANGED <<files, past, req, off, bad, got, quiet>>
  BY DEF IInv, TypeOK, SkipPart, OpenToWriteFails, AnswerUpload, NotFound
<1>2. TypeOK'
  <2>1. pc' \in [Workers -> {"idle", "looking", "parts", "writing", "reading"} \cup Answers]
    BY <1>1, ZenonT(30) DEF IInv, TypeOK, Answers
  <2>2. index' \in [Workers -> Nat \ {0}]
    <3>1. index[w] \in Nat \ {0}
      BY DEF IInv, TypeOK
    <3>2. index'[w] \in Nat \ {0}
      BY <1>1, <3>1
    <3> QED
      BY <1>1, <3>2 DEF IInv, TypeOK
  <2>3. failed' \in [Workers -> BOOLEAN]
    BY <1>1 DEF IInv, TypeOK
  <2> QED
    BY <1>1, <2>1, <2>2, <2>3 DEF IInv, TypeOK, files, past
<1>3. WorkerOK(w)'
  BY <1>1 DEF IInv, WorkerOK, TypeOK
<1>4. DownloadOK(w)'
  BY <1>1 DEF IInv, WorkerOK, DownloadOK
<1>5. \A v \in Workers \ {w} :
        UNCHANGED <<pc[v], req[v], index[v], off[v], bad[v], got[v], quiet[v]>>
  BY <1>1 DEF IInv, TypeOK
<1> QED
  BY <1>1, <1>2, <1>3, <1>4, <1>5, OwnStep

LEMMA OpenToReadStep ==
  ASSUME IInv, NEW w \in Workers, OpenToRead(w)
  PROVE  IInv'
<1>1. TypeOK'
  BY DEF IInv, TypeOK, OpenToRead, files, past
<1>2. /\ pc[w] = "looking" /\ pc'[w] = "reading"
      /\ off[w] = 0 /\ req[w].method = "GET" /\ ~bad[w]
      /\ quiet'[w] => Streams(req[w].url) = {}
  BY DEF IInv, TypeOK, WorkerOK, OpenToRead
<1>3. /\ UNCHANGED <<files, past, req, off, bad, got>>
      /\ \A v \in Workers \ {w} :
           UNCHANGED <<pc[v], req[v], index[v], off[v], bad[v], got[v], quiet[v]>>
  BY DEF IInv, TypeOK, OpenToRead
<1>4. WorkerOK(w)'
  BY <1>2, <1>3 DEF WorkerOK
<1>5. \A n \in Names : Streams(n)' = Streams(n)
  BY <1>2, <1>3, FilesKept DEF IInv
<1>6. DownloadOK(w)'
  <2>1. req[w].url \in Names /\ size[req[w].url] >= 0
    BY RequestParts DEF IInv, TypeOK
  <2>2. Streams(req[w].url)' = Streams(req[w].url)
    BY <1>3, <1>5, <2>1
  <2> QED
    BY <1>2, <1>3, <2>1, <2>2 DEF DownloadOK, files
<1> QED
  BY <1>1, <1>2, <1>3, <1>4, <1>6, OwnStep

LEMMA ReadStep ==
  ASSUME IInv, NEW w \in Workers, Read(w) \/ ReadEnd(w)
  PROVE  IInv'
<1> DEFINE n == req[w].url
<1>1. /\ n \in Names /\ off[w] \in 0..MaxSize /\ size[n] \in 0..MaxSize
      /\ MaxSize \in Nat
  BY RequestParts, FileStoreAssumption DEF IInv, TypeOK
<1>2. TypeOK'
  <2>1. CASE Read(w)
    <3>1. off[w] + 1 \in Places
      BY <1>1, <2>1 DEF Read, Places
    <3>2. cell[n][off[w] + 1] \in Workers \cup {Hole}
      BY <1>1, <3>1 DEF IInv, TypeOK
    <3>3. got' \in [Workers -> [Places -> Workers \cup {Hole}]]
      BY <2>1, <3>1, <3>2 DEF IInv, TypeOK, Read
    <3>4. off' \in [Workers -> 0..MaxSize]
      BY <2>1, <1>1, <3>1 DEF IInv, TypeOK, Read, Places
    <3> QED
      BY <2>1, <3>3, <3>4 DEF IInv, TypeOK, Read, files, past
  <2>2. CASE ReadEnd(w)
    BY <2>2 DEF IInv, TypeOK, ReadEnd, files, past, Answers
  <2> QED
    BY <2>1, <2>2
<1>3. /\ pc[w] = "reading" /\ pc'[w] \in {"reading", "ok"}
      /\ req[w].method = "GET" /\ ~bad[w]
      /\ UNCHANGED <<files, past, req, bad, quiet>>
      /\ \A v \in Workers \ {w} :
           UNCHANGED <<pc[v], req[v], index[v], off[v], bad[v], got[v], quiet[v]>>
  BY DEF IInv, TypeOK, WorkerOK, Read, ReadEnd
<1>4. WorkerOK(w)'
  BY <1>3 DEF WorkerOK
<1>5. Streams(n)' = Streams(n)
  BY <1>1, <1>3, FilesKept DEF IInv
<1>6. DownloadOK(w)'
  <2> HIDE DEF n
  <2> SUFFICES ASSUME quiet[w]
               PROVE  /\ Streams(n)' = {}
                      /\ off'[w] <= size[n]
                      /\ \A i \in 1..off'[w] : got'[w][i] = cell[n][i]
                      /\ pc'[w] = "ok" => off'[w] = size[n]
    BY <1>3 DEF DownloadOK, n, files
  <2>1. /\ Streams(n) = {}
        /\ off[w] <= size[n]
        /\ \A i \in 1..off[w] : got[w][i] = cell[n][i]
    BY <1>3 DEF IInv, DownloadOK, n
  <2>2. CASE Read(w)
    <3>1. /\ off[w] < size[n] /\ off'[w] = off[w] + 1 /\ pc'[w] = "reading"
          /\ got' = [got EXCEPT ![w][off[w] + 1] = cell[n][off[w] + 1]]
      BY <2>2, <1>3 DEF Read, n, IInv, TypeOK
    <3>2. off[w] + 1 \in Places
      BY <1>1, <3>1 DEF Places
    <3>3. \A i \in Places : got'[w][i] = IF i = off[w] + 1 THEN cell[n][i] ELSE got[w][i]
      BY <3>1, <3>2 DEF IInv, TypeOK
    <3>4. \A i \in 1..(off[w] + 1) : i \in Places /\ (i = off[w] + 1 \/ i \in 1..off[w])
      BY <1>1, <3>2 DEF Places
    <3> QED
      BY <1>1, <1>5, <2>1, <3>1, <3>3, <3>4
  <2>3. CASE ReadEnd(w)
    BY <1>1, <1>5, <2>1, <2>3 DEF ReadEnd, n
  <2> QED
    BY <2>2, <2>3
<1> QED
  BY <1>2, <1>3, <1>4, <1>6, OwnStep

-------------------------------------------------------------------------------
(* The other workers' downloads, when a step touches the file n only.      *)
LEMMA OthersDownloads ==
  ASSUME IInv, NEW w \in Workers, NEW n \in Names, Streams(n) # {},
         UNCHANGED <<req, got>>,
         pc[w] \notin {"reading", "ok"}, pc'[w] \notin {"reading", "ok"},
         \A v \in Workers \ {w} : UNCHANGED <<pc[v], off[v], quiet[v]>>,
         \A m \in Names \ {n} :
           UNCHANGED <<size[m], cell[m]>> /\ Streams(m)' = Streams(m)
  PROVE  \A v \in Workers : DownloadOK(v)'
<1> SUFFICES ASSUME NEW v \in Workers PROVE DownloadOK(v)'
  OBVIOUS
<1>1. req[v].url \in Names
  BY RequestParts DEF IInv
<1>2. CASE v = w
  BY <1>2 DEF DownloadOK
<1>3. CASE v # w /\ req[v].url # n
  BY <1>1, <1>3, DownloadKept DEF IInv
<1>4. CASE v # w /\ req[v].url = n
  BY <1>4 DEF DownloadOK, IInv
<1> QED
  BY <1>2, <1>3, <1>4

(* What a writing worker is at. *)
LEMMA Writing ==
  ASSUME IInv, NEW w \in Workers, pc[w] = "writing"
  PROVE  /\ Part(w).name \in Names
         /\ Part(w).size \in 0..MaxSize
         /\ off[w] \in 0..Part(w).size
         /\ w \in Streams(Part(w).name)
         /\ \A m \in Names : w \in Streams(m) => m = Part(w).name
         /\ index[w] \in 1..Len(Form(w))
         /\ req[w].method = "POST"
         /\ MaxSize \in Nat
<1>1. /\ index[w] \in 1..Len(Form(w)) /\ Part(w).name # NoName
      /\ off[w] <= Part(w).size /\ req[w].method = "POST"
  BY DEF IInv, WorkerOK
<1>2. /\ Part(w).name \in Names \cup {NoName}
      /\ Part(w).size \in 0..MaxSize
  BY <1>1, RequestParts DEF IInv, Part, Form
<1>3. off[w] \in 0..MaxSize
  BY DEF IInv, TypeOK
<1> QED
  BY <1>1, <1>2, <1>3, FileStoreAssumption DEF Streams

LEMMA WriteStep ==
  ASSUME IInv, NEW w \in Workers, Write(w)
  PROVE  IInv'
<1>0. PICK n \in Names : n = Part(w).name
  BY Writing DEF Write
<1>1. PICK last \in off[w] + 1..Part(w).size :
        /\ cell' = [cell EXCEPT ![n] = [i \in Places |-> IF i \in off[w] + 1..last THEN w ELSE @[i]]]
        /\ size' = [size EXCEPT ![n] = IF @ < last THEN last ELSE @]
        /\ off' = [off EXCEPT ![w] = last]
  BY <1>0 DEF Write
<1>2. /\ pc[w] = "writing" /\ ~bad[w]
      /\ UNCHANGED <<pc, req, index, bad, got, past, failed, quiet>>
  BY DEF Write
<1>3. /\ off[w] \in 0..Part(w).size /\ Part(w).size \in 0..MaxSize
      /\ MaxSize \in Nat /\ w \in Streams(n)
      /\ \A m \in Names : w \in Streams(m) => m = n
      /\ req[w].method = "POST"
  BY <1>0, <1>2, Writing
<1>4. /\ last \in 1..MaxSize /\ off[w] < last /\ last <= Part(w).size
  BY <1>1, <1>3
<1>5. /\ off'[w] = last
      /\ \A v \in Workers \ {w} : off'[v] = off[v]
      /\ size[n] \in 0..MaxSize
      /\ size'[n] = IF size[n] < last THEN last ELSE size[n]
      /\ \A m \in Names \ {n} : size'[m] = size[m] /\ cell'[m] = cell[m]
      /\ cell'[n] = [i \in Places |-> IF i \in off[w] + 1..last THEN w ELSE cell[n][i]]
  BY <1>1, <1>3 DEF IInv, TypeOK
<1>6. \A v \in Workers : Part(v)' = Part(v) /\ Form(v)' = Form(v)
  BY <1>2 DEF Part, Form
<1>7. \A m \in Names : Streams(m)' = Streams(m)
  BY <1>2, <1>6 DEF Streams
<1>8. TypeOK'
  <2>1. off' \in [Workers -> 0..MaxSize]
    BY <1>1, <1>4 DEF IInv, TypeOK
  <2>2. size' \in [Names -> 0..MaxSize]
    <3>1. (IF size[n] < last THEN last ELSE size[n]) \in 0..MaxSize
      BY <1>4, <1>5
    <3> QED
      BY <1>1, <3>1 DEF IInv, TypeOK
  <2>3. cell' \in [Names -> [Places -> Workers \cup {Hole}]]
    <3>1. \A i \in Places : cell[n][i] \in Workers \cup {Hole}
      BY <1>3 DEF IInv, TypeOK
    <3>2. [i \in Places |-> IF i \in off[w] + 1..last THEN w ELSE cell[n][i]]
            \in [Places -> Workers \cup {Hole}]
      BY <3>1
    <3> QED
      BY <1>1, <3>2 DEF IInv, TypeOK
  <2> QED
    BY <1>2, <2>1, <2>2, <2>3 DEF IInv, TypeOK, past
<1>9. ASSUME NEW v \in Workers PROVE WorkerOK(v)'
  <2>1. CASE v = w
    BY <1>2, <1>3, <1>4, <1>5, <1>6, <2>1 DEF IInv, WorkerOK
  <2>2. CASE v # w
    BY <1>2, <1>5, <2>2, WorkerKept DEF IInv
  <2> QED
    BY <2>1, <2>2
<1>10. ASSUME NEW m \in Names, m # n PROVE FileOK(m)'
  <2>1. w \notin Streams(m)
    BY <1>3, <1>10
  <2>2. \A v \in Streams(m) : UNCHANGED <<Part(v), off[v], bad[v]>>
    BY <1>2, <1>5, <1>6, <2>1 DEF Streams
  <2> QED
    BY <1>2, <1>5, <1>7, <1>10, <2>2, FileKept DEF IInv, past
<1>11. FileOK(n)'
  <2>1. FileOK(n) /\ w # Hole
    BY <1>3, FileStoreAssumption DEF IInv
  <2>2. UNCHANGED <<opener, length, alone, whole, bad>>
    BY <1>2 DEF past
  <2>3. /\ \A i \in Places : cell'[n][i] = IF i \in off[w] + 1..last THEN w ELSE cell[n][i]
        /\ \A i \in Places : cell[n][i] # Hole => cell'[n][i] # Hole
    BY <1>5, <2>1
  <2>4. size'[n] \in Nat /\ size'[n] >= size[n] /\ size'[n] >= last
    BY <1>4, <1>5
  <2>5. opener[n] # Hole /\ alone[n] => (Streams(n) \subseteq {opener[n]} /\ opener[n] = w)
    BY <1>3, <2>1 DEF FileOK
  <2>6. ASSUME NEW v \in Streams(n), opener[n] = v PROVE OpenerOK(n, v)'
    <3>1. OpenerOK(n, v) /\ v \in Workers /\ off[v] \in 0..MaxSize
      BY <2>1, <2>6 DEF FileOK, Streams, IInv, TypeOK
    <3>2. CASE v = w
      <4>1. \A i \in 1..last : i \in Places /\ (i \in off[w] + 1..last \/ i \in 1..off[w])
        BY <1>3, <1>4 DEF Places
      <4>2. \A i \in 1..last : cell'[n][i] # Hole
        BY <2>1, <2>3, <3>1, <3>2, <4>1 DEF OpenerOK
      <4>3. alone[n] => size'[n] = last /\ \A i \in 1..last : cell'[n][i] = w
        BY <1>4, <1>5, <2>3, <3>1, <3>2, <4>1 DEF OpenerOK
      <4> QED
        BY <1>5, <1>6, <2>2, <2>4, <3>1, <3>2, <4>2, <4>3 DEF OpenerOK
    <3>3. CASE v # w
      <4>1. ~alone[n]
        BY <2>1, <2>5, <2>6, <3>1, <3>3, FileStoreAssumption
      <4>2. off'[v] = off[v] /\ 1..off[v] \subseteq Places
        BY <1>3, <1>5, <3>1, <3>3 DEF Places
      <4>3. off[v] <= size'[n]
        BY <1>5, <2>4, <3>1 DEF OpenerOK
      <4> QED
        BY <1>6, <2>2, <2>3, <3>1, <4>1, <4>2, <4>3 DEF OpenerOK
    <3> QED
      BY <3>2, <3>3
  <2>7. ASSUME Complete(n)
        PROVE  /\ ~alone[n]
               /\ size'[n] >= length[n]
               /\ \A i \in 1..length[n] : cell'[n][i] # Hole
    <3>1. ~alone[n]
      BY <1>3, <2>5, <2>7 DEF Complete
    <3>2. length[n] \in 0..MaxSize
      BY <1>3 DEF IInv, TypeOK
    <3>3. 1..length[n] \subseteq Places
      BY <1>3, <3>2 DEF Places
    <3>4. size[n] >= length[n] /\ \A i \in 1..length[n] : cell[n][i] # Hole
      BY <2>1, <2>7 DEF FileOK
    <3> QED
      BY <1>5, <2>3, <2>4, <3>1, <3>2, <3>3, <3>4
  <2>8. Complete(n)' <=> Complete(n)
    BY <1>3, <1>7, <2>2 DEF Complete
  <2>9. Streams(n)' = Streams(n)
    BY <1>3, <1>7
  <2> QED
    BY <2>1, <2>2, <2>6, <2>7, <2>8, <2>9 DEF FileOK
<1>12. \A v \in Workers : DownloadOK(v)'
  BY <1>2, <1>3, <1>5, <1>7, OthersDownloads
<1> QED
  BY <1>8, <1>9, <1>10, <1>11, <1>12 DEF IInv

LEMMA WriteFailsStep ==
  ASSUME IInv, NEW w \in Workers, WriteFails(w)
  PROVE  IInv'
<1>0. PICK n \in Names : n = Part(w).name
  BY Writing DEF WriteFails
<1>1. /\ pc[w] = "writing"
      /\ UNCHANGED <<files, pc, req, index, off, got, opener, length, alone, quiet>>
      /\ bad' = [bad EXCEPT ![w] = TRUE]
      /\ failed' = [failed EXCEPT ![w] = TRUE]
      /\ whole' = [m \in Names |-> whole[m] /\ ~(opener[m] = w /\ Part(w).name = m)]
  BY DEF WriteFails
<1>2. /\ w \in Streams(n) /\ req[w].method = "POST"
      /\ \A m \in Names : w \in Streams(m) => m = n
  BY <1>0, <1>1, Writing
<1>3. /\ bad'[w]
      /\ \A v \in Workers \ {w} : bad'[v] = bad[v]
      /\ whole'[n] = (whole[n] /\ opener[n] # w)
      /\ \A m \in Names \ {n} : whole'[m] = whole[m]
  BY <1>0, <1>1 DEF IInv, TypeOK
<1>4. \A v \in Workers : Part(v)' = Part(v) /\ Form(v)' = Form(v)
  BY <1>1 DEF Part, Form
<1>5. \A m \in Names : Streams(m)' = Streams(m)
  BY <1>1, <1>4 DEF Streams
<1>6. TypeOK'
  BY <1>1 DEF IInv, TypeOK, files
<1>7. ASSUME NEW v \in Workers PROVE WorkerOK(v)'
  <2>1. CASE v = w
    BY <1>1, <1>4, <2>1 DEF IInv, WorkerOK
  <2>2. CASE v # w
    BY <1>1, <1>3, <2>2, WorkerKept DEF IInv
  <2> QED
    BY <2>1, <2>2
<1>8. ASSUME NEW m \in Names, m # n PROVE FileOK(m)'
  <2>1. \A v \in Streams(m) : UNCHANGED <<Part(v), off[v], bad[v]>>
    BY <1>1, <1>2, <1>3, <1>4, <1>8 DEF Streams
  <2> QED
    BY <1>1, <1>3, <1>5, <1>8, <2>1, FileKept DEF IInv, files
<1>9. FileOK(n)'
  <2>1. FileOK(n)
    BY DEF IInv
  <2>2. UNCHANGED <<size, cell, opener, length, alone, off>>
    BY <1>1 DEF files
  <2>3. ASSUME NEW v \in Streams(n), opener[n] = v PROVE OpenerOK(n, v)'
    <3>1. OpenerOK(n, v) /\ v \in Workers
      BY <2>1, <2>3 DEF FileOK, Streams
    <3>2. bad'[v] => ~whole'[n]
      BY <1>3, <2>3, <3>1 DEF OpenerOK
    <3> QED
      BY <1>4, <2>2, <3>1, <3>2 DEF OpenerOK
  <2>4. Complete(n)' => Complete(n)
    BY <1>3, <1>5, <2>2 DEF Complete
  <2>5. Holds(n, length[n])' <=> Holds(n, length[n])
    BY <2>2 DEF Holds
  <2>6. Streams(n)' = Streams(n)
    BY <1>5
  <2> QED
    BY <2>1, <2>2, <2>3, <2>4, <2>5, <2>6 DEF FileOK
<1>10. \A v \in Workers : DownloadOK(v)'
  BY <1>1, <1>2, <1>5, OthersDownloads DEF files
<1> QED
  BY <1>6, <1>7, <1>8, <1>9, <1>10 DEF IInv

LEMMA CloseStep ==
  ASSUME IInv, NEW w \in Workers, Close(w)
  PROVE  IInv'
<1>0. PICK n \in Names : n = Part(w).name
  BY Writing DEF Close
<1>1. /\ pc[w] = "writing"
      /\ bad[w] \/ off[w] = Part(w).size
      /\ UNCHANGED <<files, req, got, past, failed, quiet>>
      /\ pc' = [pc EXCEPT ![w] = "parts"]
      /\ index' = [index EXCEPT ![w] = @ + 1]
      /\ off' = [off EXCEPT ![w] = 0]
      /\ bad' = [bad EXCEPT ![w] = FALSE]
  BY DEF Close
<1>2. /\ w \in Streams(n) /\ req[w].method = "POST" /\ MaxSize \in Nat
      /\ \A m \in Names : w \in Streams(m) => m = n
  BY <1>0, <1>1, Writing
<1>3. /\ pc'[w] = "parts" /\ off'[w] = 0 /\ ~bad'[w]
      /\ \A v \in Workers \ {w} :
           UNCHANGED <<pc[v], req[v], index[v], off[v], bad[v], got[v], quiet[v]>>
  BY <1>1 DEF IInv, TypeOK
<1>4. \A v \in Workers \ {w} : Part(v)' = Part(v)
  BY <1>3 DEF Part
<1>5. \A m \in Names : Streams(m)' = Streams(m) \ {w}
  BY <1>3, <1>4 DEF Streams
<1>6. TypeOK'
  <2>1. index[w] \in Nat \ {0}
    BY DEF IInv, TypeOK
  <2>2. index[w] + 1 \in Nat \ {0}
    BY <2>1
  <2>3. index' \in [Workers -> Nat \ {0}]
    BY <1>1, <2>2 DEF IInv, TypeOK
  <2>4. off' \in [Workers -> 0..MaxSize]
    BY <1>1, <1>2 DEF IInv, TypeOK
  <2> QED
    BY <1>1, <2>3, <2>4 DEF IInv, TypeOK, files, past
<1>7. ASSUME NEW v \in Workers PROVE WorkerOK(v)'
  <2>1. CASE v = w
    BY <1>1, <1>2, <1>3, <2>1 DEF WorkerOK
  <2>2. CASE v # w
    BY <1>3, <2>2, WorkerKept DEF IInv
  <2> QED
    BY <2>1, <2>2
<1>8. ASSUME NEW m \in Names, m # n PROVE FileOK(m)'
  <2>1. w \notin Streams(m)
    BY <1>2, <1>8
  <2>2. Streams(m)' = Streams(m)
    BY <1>5, <2>1
  <2>3. \A v \in Streams(m) : UNCHANGED <<Part(v), off[v], bad[v]>>
    BY <1>3, <1>4, <2>1 DEF Streams
  <2> QED
    BY <1>1, <2>2, <2>3, FileKept DEF IInv, files, past
<1>9. FileOK(n)'
  <2>1. FileOK(n)
    BY DEF IInv
  <2>2. UNCHANGED <<size, cell, opener, length, alone, whole>>
    BY <1>1 DEF files, past
  <2>3. Streams(n)' = Streams(n) \ {w}
    BY <1>5
  <2>4. ASSUME NEW v \in Streams(n)', opener[n] = v PROVE OpenerOK(n, v)'
    <3>1. OpenerOK(n, v) /\ v \in Workers /\ v # w
      BY <2>1, <2>3, <2>4 DEF FileOK, Streams
    <3> QED
      BY <1>3, <1>4, <2>2, <3>1 DEF OpenerOK
  <2>5. Holds(n, length[n])' <=> Holds(n, length[n])
    BY <2>2 DEF Holds
  <2>6. ASSUME Complete(n)'
        PROVE  /\ size[n] >= length[n]
               /\ \A i \in 1..length[n] : cell[n][i] # Hole
               /\ alone[n] => Holds(n, length[n])
    <3>1. CASE opener[n] = w
      <4>1. OpenerOK(n, w) /\ whole[n]
        BY <1>2, <2>1, <2>2, <2>6, <3>1 DEF FileOK, Complete
      <4>2. off[w] = length[n]
        BY <1>1, <4>1 DEF OpenerOK
      <4>3. size[n] \in Nat /\ length[n] \in Nat
        BY DEF IInv, TypeOK
      <4> QED
        BY <3>1, <4>1, <4>2, <4>3 DEF OpenerOK, Holds
    <3>2. CASE opener[n] # w
      <4>1. Complete(n)
        BY <2>2, <2>3, <2>6, <3>2 DEF Complete
      <4> QED
        BY <2>1, <4>1 DEF FileOK
    <3> QED
      BY <3>1, <3>2
  <2> QED
    BY <2>1, <2>2, <2>3, <2>4, <2>5, <2>6 DEF FileOK
<1>10. \A v \in Workers : DownloadOK(v)'
  <2>1. \A m \in Names \ {n} : Streams(m)' = Streams(m)
    BY <1>2, <1>5
  <2> QED
    BY <1>1, <1>2, <1>3, <2>1, OthersDownloads DEF files
<1> QED
  BY <1>6, <1>7, <1>8, <1>9, <1>10 DEF IInv

LEMMA OpenToWriteStep ==
  ASSUME IInv, NEW w \in Workers, OpenToWrite(w)
  PROVE  IInv'
<1>0. PICK n \in Names : n = Part(w).name
  BY PartAt DEF OpenToWrite, IInv, Form
<1>1. /\ pc[w] = "parts" /\ pc' = [pc EXCEPT ![w] = "writing"]
      /\ size' = [size EXCEPT ![n] = 0]
      /\ cell' = [cell EXCEPT ![n] = [i \in Places |-> Hole]]
      /\ opener' = [opener EXCEPT ![n] = w]
      /\ length' = [length EXCEPT ![n] = Part(w).size]
      /\ alone' = [alone EXCEPT ![n] = Streams(n) = {}]
      /\ whole' = [whole EXCEPT ![n] = TRUE]
      /\ quiet' = [v \in Workers |-> quiet[v] /\ ~(req[v].method = "GET" /\ req[v].url = n)]
      /\ UNCHANGED <<req, index, off, bad, got, failed>>
  BY <1>0 DEF OpenToWrite
<1>2. /\ index[w] \in 1..Len(Form(w)) /\ Part(w).size \in 0..MaxSize
      /\ Part(w).name # NoName
      /\ off[w] = 0 /\ ~bad[w] /\ req[w].method = "POST" /\ MaxSize \in Nat
  BY <1>1, PartAt, FileStoreAssumption DEF OpenToWrite, IInv, WorkerOK, Form
<1>3. /\ pc'[w] = "writing"
      /\ \A v \in Workers \ {w} : pc'[v] = pc[v]
      /\ size'[n] = 0 /\ opener'[n] = w /\ length'[n] = Part(w).size
      /\ alone'[n] = (Streams(n) = {})
      /\ \A m \in Names \ {n} :
           UNCHANGED <<size[m], cell[m], opener[m], length[m], alone[m], whole[m]>>
  BY <1>1 DEF IInv, TypeOK
<1>4. \A v \in Workers : Part(v)' = Part(v) /\ Form(v)' = Form(v)
  BY <1>1 DEF Part, Form
<1>5. /\ w \in Streams(n)' /\ Streams(n)' = Streams(n) \cup {w}
      /\ \A m \in Names \ {n} : Streams(m)' = Streams(m)
  BY <1>0, <1>1, <1>3, <1>4 DEF Streams
<1>6. TypeOK'
  <2>1. pc' \in [Workers -> {"idle", "looking", "parts", "writing", "reading"} \cup Answers]
    BY <1>1 DEF IInv, TypeOK
  <2>2. [i \in Places |-> Hole] \in [Places -> Workers \cup {Hole}]
    OBVIOUS
  <2>3. cell' \in [Names -> [Places -> Workers \cup {Hole}]]
    BY <1>1, <2>2 DEF IInv, TypeOK
  <2>4. size' \in [Names -> 0..MaxSize] /\ length' \in [Names -> 0..MaxSize]
    BY <1>1, <1>2 DEF IInv, TypeOK
  <2>5. opener' \in [Names -> Workers \cup {Hole}]
    BY <1>1 DEF IInv, TypeOK
  <2>6. /\ alone' \in [Names -> BOOLEAN] /\ whole' \in [Names -> BOOLEAN]
        /\ quiet' \in [Workers -> BOOLEAN]
    BY <1>1 DEF IInv, TypeOK
  <2> QED
    BY <1>1, <2>1, <2>3, <2>4, <2>5, <2>6 DEF IInv, TypeOK
<1>7. ASSUME NEW v \in Workers PROVE WorkerOK(v)'
  <2>1. CASE v = w
    BY <1>1, <1>2, <1>3, <1>4, <2>1 DEF WorkerOK
  <2>2. CASE v # w
    BY <1>1, <1>3, <2>2, WorkerKept DEF IInv
  <2> QED
    BY <2>1, <2>2
<1>8. ASSUME NEW m \in Names, m # n PROVE FileOK(m)'
  <2>1. \A v \in Streams(m) : UNCHANGED <<Part(v), off[v], bad[v]>>
    BY <1>1, <1>4 DEF Streams
  <2> QED
    BY <1>3, <1>5, <1>8, <2>1, FileKept DEF IInv
<1>9. FileOK(n)'
  <2>1. OpenerOK(n, w)'
    BY <1>1, <1>2, <1>3, <1>4 DEF OpenerOK
  <2>2. ~Complete(n)'
    BY <1>3, <1>5 DEF Complete
  <2>3. alone'[n] => Streams(n)' = {w}
    BY <1>3, <1>5
  <2> QED
    BY <1>3, <2>1, <2>2, <2>3 DEF FileOK
<1>10. ASSUME NEW v \in Workers PROVE DownloadOK(v)'
  <2>1. req[v].url \in Names
    BY RequestParts DEF IInv
  <2>2. CASE v = w
    BY <1>3, <2>2 DEF DownloadOK
  <2>3. CASE v # w /\ req[v].url = n
    BY <1>1, <2>3 DEF DownloadOK
  <2>4. CASE v # w /\ req[v].url # n
    <3>1. DownloadOK(v)
      BY DEF IInv
    <3>2. UNCHANGED <<pc[v], req[v], off[v], got[v]>> /\ (quiet'[v] => quiet[v])
      BY <1>1, <1>3, <2>4
    <3>3. /\ UNCHANGED <<size[req[v].url], cell[req[v].url]>>
          /\ Streams(req[v].url)' = Streams(req[v].url)
      BY <1>3, <1>5, <2>1, <2>4, <3>2
    <3> QED
      BY <3>1, <3>2, <3>3, DownloadKept
  <2> QED
    BY <2>2, <2>3, <2>4
<1> QED
  BY <1>6, <1>7, <1>8, <1>9, <1>10 DEF IInv

LEMMA StutterStep ==
  ASSUME IInv, UNCHANGED vars
  PROVE  IInv'
<1>1. \A w \in Workers : Part(w)' = Part(w) /\ Form(w)' = Form(w)
  BY DEF vars, Part, Form
<1>2. \A n \in Names : Streams(n)' = Streams(n)
  BY <1>1 DEF vars, Streams
<1>3. TypeOK'
  BY DEF vars, files, past, IInv, TypeOK
<1>4. ASSUME NEW n \in Names PROVE FileOK(n)'
  <2>1. FileOK(n)
    BY DEF IInv
  <2>2. UNCHANGED <<size[n], cell[n], opener[n], length[n], alone[n], whole[n]>>
    BY DEF vars, files, past
  <2>3. \A w \in Streams(n) : UNCHANGED <<Part(w), off[w], bad[w]>>
    BY <1>1 DEF vars, Streams
  <2> QED
    BY <1>2, <2>1, <2>2, <2>3, FileKept
<1>5. \A w \in Workers : WorkerOK(w)' /\ DownloadOK(w)'
  <2> SUFFICES ASSUME NEW w \in Workers PROVE WorkerOK(w)' /\ DownloadOK(w)'
    OBVIOUS
  <2>1. req[w].url \in Names
    BY RequestParts DEF IInv
  <2> QED
    BY <1>2, <2>1, WorkerKept, DownloadKept DEF vars, files, IInv
<1> QED
  BY <1>3, <1>4, <1>5 DEF IInv

(* FileOK, and what goes with it, is inductive. *)
THEOREM FilesAreSound == Spec => []IInv
<1>1. ASSUME IInv, Next PROVE IInv'
  <2>1. PICK w \in Workers : HttpHandler(w) \/ Step(w)
    BY <1>1 DEF Next
  <2>2. CASE HttpHandler(w)
    BY <1>1, <2>2, HttpHandlerStep
  <2>3. CASE SkipPart(w) \/ OpenToWriteFails(w) \/ AnswerUpload(w) \/ NotFound(w)
    BY <1>1, <2>3, QuietStep
  <2>4. CASE OpenToRead(w)
    BY <1>1, <2>4, OpenToReadStep
  <2>5. CASE Read(w) \/ ReadEnd(w)
    BY <1>1, <2>5, ReadStep
  <2>6. CASE OpenToWrite(w)
    BY <1>1, <2>6, OpenToWriteStep
  <2>7. CASE Write(w)
    BY <1>1, <2>7, WriteStep
  <2>8. CASE WriteFails(w)
    BY <1>1, <2>8, WriteFailsStep
  <2>9. CASE Close(w)
    BY <1>1, <2>9, CloseStep
  <2> QED
    BY <2>1, <2>2, <2>3, <2>4, <2>5, <2>6, <2>7, <2>8, <2>9 DEF Step
<1>2. IInv /\ [Next]_vars => IInv'
  BY <1>1, StutterStep
<1> QED
  BY <1>2, InitIInv, PTL DEF Spec

(* The variables of the file handlers keep their types; above all, no      *)
(* stream writes behind the data of its part (main.cpp:282-296).           *)
THEOREM FileStoreTypeCorrect == Spec => []TypeOK
<1>1. IInv => TypeOK
  BY DEF IInv
<1> QED
  BY <1>1, FilesAreSound, PTL

(* Whoever uploads and downloads what at the same time: an upload that was *)
(* alone with its file when it opened it, and could write, is in the file  *)
(* as it was sent, until the next one opens it (main.cpp:289).             *)
THEOREM SoleUploadIsStoredCorrect == Spec => []SoleUploadIsStored
<1>1. IInv => SoleUploadIsStored
  BY DEF IInv, FileOK, SoleUploadIsStored
<1> QED
  BY <1>1, FilesAreSound, PTL

(* Of any number of uploads into one file the last to open it leaves no    *)
(* gap in what it covers (main.cpp:289).                                   *)
THEOREM NoGapInLastUploadCorrect == Spec => []NoGapInLastUpload
<1>1. IInv => NoGapInLastUpload
  BY DEF IInv, FileOK, NoGapInLastUpload
<1> QED
  BY <1>1, FilesAreSound, PTL

(* A download during which no upload of its file was open has delivered    *)
(* the file, whatever else was written meanwhile (main.cpp:208).           *)
THEOREM QuietDownloadIsFileCorrect == Spec => []QuietDownloadIsFile
<1>1. IInv => QuietDownloadIsFile
  BY DEF IInv, DownloadOK, QuietDownloadIsFile
<1> QED
  BY <1>1, FilesAreSound, PTL

-------------------------------------------------------------------------------
(***************************************************************************)
(* The answer to an upload.  Begun are the parts of the request that the   *)
(* worker has opened a file for or passed over.  While nothing has failed, *)
(* the file of a begun part exists, and one that nobody else has opened    *)
(* since has the data of the last part begun of its name: it is a later    *)
(* part of this request that may have opened it, not an earlier request of *)
(* the same worker.                                                        *)
(***************************************************************************)
Begun(w) ==
  {k \in DOMAIN Form(w) : k < index[w] \/ (k = index[w] /\ pc[w] = "writing")}

LastBegun(w, k) ==
  \A j \in Begun(w) : Form(w)[j].name = Form(w)[k].name => j <= k

PartStored(w, k) ==
  LET n == Form(w)[k].name IN
    /\ opener[n] # Hole
    /\ opener[n] = w => whole[n]
    /\ opener[n] = w /\ LastBegun(w, k) => length[n] = Form(w)[k].size

Uploading(w) ==
  /\ pc[w] \in {"parts", "writing", "ok"}
  /\ req[w].method = "POST"
  /\ req[w].is_multipart_formdata
  /\ ~failed[w]

UploadOK(w) ==
  Uploading(w) =>
    /\ pc[w] = "ok" => index[w] > Len(Form(w))
    /\ \A k \in Begun(w) : Form(w)[k].name # NoName => PartStored(w, k)

UploadsOK == \A w \in Workers : UploadOK(w)

-------------------------------------------------------------------------------
(* What another worker, or a write, can do to the files of an upload: open *)
(* one of them, or spoil one that another worker has opened.               *)
LEMMA BegunKept ==
  ASSUME NEW w \in Workers, UploadOK(w),
         UNCHANGED <<req[w], index[w]>>,
         pc'[w] = pc[w],
         Uploading(w)' => Uploading(w),
         \A n \in Names :
           \/ UNCHANGED <<opener[n], length[n], whole[n]>>
           \/ opener'[n] \notin {Hole, w}
           \/ UNCHANGED <<opener[n], length[n]>> /\ opener[n] \notin {Hole, w},
         TypeOK
  PROVE  UploadOK(w)'
<1> SUFFICES ASSUME Uploading(w)'
             PROVE  /\ pc[w] = "ok" => index[w] > Len(Form(w))
                    /\ \A k \in Begun(w) : Form(w)[k].name # NoName => PartStored(w, k)'
  <2>1. Form(w)' = Form(w) /\ Begun(w)' = Begun(w)
    BY DEF Form, Begun
  <2> QED
    BY <2>1 DEF UploadOK
<1>1. /\ pc[w] = "ok" => index[w] > Len(Form(w))
      /\ \A k \in Begun(w) : Form(w)[k].name # NoName => PartStored(w, k)
  BY DEF UploadOK
<1>2. Form(w)' = Form(w) /\ Begun(w)' = Begun(w)
  BY DEF Form, Begun
<1>3. ASSUME NEW k \in Begun(w), Form(w)[k].name # NoName PROVE PartStored(w, k)'
  <2>1. PICK n : n = Form(w)[k].name
    OBVIOUS
  <2>2. n \in Names
    BY <1>3, <2>1, RequestParts DEF Begun
  <2>3. LastBegun(w, k)' <=> LastBegun(w, k)
    BY <1>2 DEF LastBegun
  <2>4. PartStored(w, k)
    BY <1>1, <1>3
  <2> QED
    BY <1>2, <2>1, <2>2, <2>3, <2>4 DEF PartStored
<1> QED
  BY <1>1, <1>3

(* The steps of a worker that begin no upload. *)
LEMMA UploadGoesOn ==
  ASSUME IInv, UploadsOK, NEW w \in Workers, Step(w), ~OpenToWrite(w)
  PROVE  UploadOK(w)'
<1> SUFFICES ASSUME Uploading(w)' PROVE UploadOK(w)'
  BY DEF UploadOK
<1>1. UploadOK(w) /\ index[w] \in Nat \ {0} /\ Len(Form(w)) \in Nat
  BY RequestParts DEF UploadsOK, IInv
<1>2. CASE SkipPart(w) \/ Close(w) \/ AnswerUpload(w)
  <2>1. /\ Uploading(w) /\ UNCHANGED <<req, past, failed>>
        /\ pc[w] # "ok"
        /\ pc'[w] = "ok" => index[w] > Len(Form(w)) /\ index'[w] = index[w]
    BY <1>2 DEF SkipPart, Close, AnswerUpload, Uploading, IInv, TypeOK, Form
  <2>2. Form(w)' = Form(w)
    BY <2>1 DEF Form
  <2>3. \A k \in Begun(w) : k \in Begun(w)'
    <3>1. /\ pc'[w] # "writing"
          /\ pc[w] = "writing" => index'[w] = index[w] + 1
          /\ pc[w] # "writing" => index'[w] \in {index[w], index[w] + 1}
      BY <1>2 DEF SkipPart, Close, AnswerUpload, IInv, TypeOK
    <3> QED
      BY <1>1, <2>2, <3>1 DEF Begun
  <2>4. \A k \in Begun(w)' : k \in Begun(w) \/ Form(w)[k].name = NoName
    <3>1. /\ pc'[w] # "writing"
          /\ index'[w] # index[w] =>
               index'[w] = index[w] + 1 /\ (pc[w] = "writing" \/ Part(w).name = NoName)
      BY <1>2 DEF SkipPart, Close, AnswerUpload, IInv, TypeOK
    <3>2. SUFFICES ASSUME NEW k \in Begun(w)', k \notin Begun(w)
                   PROVE  Form(w)[k].name = NoName
      OBVIOUS
    <3>3. k \in DOMAIN Form(w) /\ k \in Nat /\ k < index'[w]
      BY <1>1, <2>2, <3>1, <3>2 DEF Begun
    <3>4. ~(k < index[w]) /\ ~(k = index[w] /\ pc[w] = "writing")
      BY <3>2, <3>3 DEF Begun
    <3> QED
      BY <1>1, <3>1, <3>3, <3>4 DEF Part, Form
  <2>5. ASSUME NEW k \in Begun(w)', Form(w)[k].name # NoName PROVE PartStored(w, k)'
    <3>1. k \in Begun(w) /\ PartStored(w, k)
      BY <1>1, <2>1, <2>4, <2>5 DEF UploadOK
    <3>2. LastBegun(w, k)' => LastBegun(w, k)
      BY <2>2, <2>3 DEF LastBegun
    <3> QED
      BY <2>1, <2>2, <3>1, <3>2 DEF PartStored, past
  <2> QED
    BY <1>1, <2>1, <2>2, <2>5 DEF UploadOK
<1>3. CASE Write(w)
  BY <1>1, <1>3, BegunKept DEF Write, Uploading, past, IInv
<1>4. CASE OpenToWriteFails(w) \/ WriteFails(w)
  BY <1>4 DEF OpenToWriteFails, WriteFails, Uploading, IInv, TypeOK
<1>5. CASE OpenToRead(w) \/ NotFound(w) \/ Read(w) \/ ReadEnd(w)
  BY <1>5 DEF OpenToRead, NotFound, Read, ReadEnd, Uploading, IInv, WorkerOK
<1> QED
  BY <1>2, <1>3, <1>4, <1>5 DEF Step

(* A part that is opened is the last begun of its name. *)
LEMMA UploadBegins ==
  ASSUME IInv, UploadsOK, NEW w \in Workers, OpenToWrite(w)
  PROVE  UploadOK(w)'
<1> SUFFICES ASSUME Uploading(w)' PROVE UploadOK(w)'
  BY DEF UploadOK
<1>1. UploadOK(w) /\ index[w] \in 1..Len(Form(w)) /\ Part(w).name \in Names
  BY PartAt DEF OpenToWrite, UploadsOK, IInv, Form
<1>2. PICK n \in Names : n = Form(w)[index[w]].name
  BY <1>1 DEF Part, Form
<1>3. /\ opener' = [opener EXCEPT ![n] = w]
      /\ length' = [length EXCEPT ![n] = Form(w)[index[w]].size]
      /\ whole' = [whole EXCEPT ![n] = TRUE]
      /\ UNCHANGED <<req, index, failed>>
      /\ pc[w] = "parts" /\ pc'[w] = "writing"
  BY <1>2 DEF OpenToWrite, Part, Form, IInv, TypeOK
<1>4. Uploading(w)
  BY <1>3 DEF Uploading
<1>5. Form(w)' = Form(w) /\ Begun(w)' = Begun(w) \cup {index[w]}
  BY <1>1, <1>3 DEF Form, Begun
<1>6. index[w] \in Begun(w)' /\ \A k \in Begun(w) : k < index[w]
  BY <1>3, <1>5 DEF Begun
<1>7. ASSUME NEW k \in Begun(w)', Form(w)[k].name # NoName PROVE PartStored(w, k)'
  <2>1. Form(w)[k].name \in Names
    BY <1>5, <1>7, RequestParts DEF Begun, IInv
  <2>2. /\ opener'[n] = w /\ length'[n] = Form(w)[index[w]].size /\ whole'[n]
        /\ \A m \in Names \ {n} : UNCHANGED <<opener[m], length[m], whole[m]>>
    BY <1>3 DEF IInv, TypeOK
  <2>3. CASE k = index[w]
    BY <1>2, <1>5, <2>2, <2>3, FileStoreAssumption DEF PartStored
  <2>4. CASE k # index[w]
    <3>1. k \in Begun(w) /\ k < index[w] /\ k \in Nat /\ index[w] \in Nat
      BY <1>1, <1>5, <1>6, <2>4 DEF Begun
    <3>2. PartStored(w, k)
      BY <1>1, <1>4, <1>7, <3>1 DEF UploadOK
    <3>3. LastBegun(w, k)' => Form(w)[k].name # n /\ LastBegun(w, k)
      BY <1>2, <1>5, <1>6, <3>1 DEF LastBegun
    <3>4. CASE Form(w)[k].name = n
      BY <1>5, <2>2, <3>3, <3>4, FileStoreAssumption DEF PartStored
    <3>5. CASE Form(w)[k].name # n
      BY <1>5, <2>1, <2>2, <3>2, <3>3, <3>5 DEF PartStored
    <3> QED
      BY <3>4, <3>5
  <2> QED
    BY <2>3, <2>4
<1>8. pc'[w] # "ok"
  BY <1>3
<1> QED
  BY <1>5, <1>7, <1>8 DEF UploadOK

(* A new request has begun nothing. *)
LEMMA UploadIsAsked ==
  ASSUME IInv, NEW w \in Workers, HttpHandler(w)
  PROVE  UploadOK(w)'
<1>1. PICK r \in Requests : req' = [req EXCEPT ![w] = r] /\ pc' = [pc EXCEPT ![w] = Handler(r)]
  BY DEF HttpHandler
<1>2. req'[w] = r /\ pc'[w] = Handler(r) /\ index'[w] = 1
  BY <1>1 DEF HttpHandler, IInv, TypeOK
<1>3. Handler(r) # "writing" /\ (Handler(r) = "ok" => ~r.is_multipart_formdata)
  BY FileStoreAssumption DEF Handler
<1>4. Form(w)' \in Seq(Parts)
  BY <1>2, FileStoreAssumption DEF Form
<1>5. Begun(w)' = {}
  BY <1>2, <1>3, <1>4 DEF Begun
<1> QED
  BY <1>2, <1>3, <1>5 DEF UploadOK, Uploading

(* What another worker does can take a file away from an upload, never     *)
(* change one that is still the upload's.                                  *)
LEMMA OthersUploads ==
  ASSUME IInv, UploadsOK, NEW w \in Workers, HttpHandler(w) \/ Step(w),
         NEW v \in Workers, v # w
  PROVE  UploadOK(v)'
<1>1. UNCHANGED <<pc[v], req[v], index[v], failed[v]>>
  <2>1. UNCHANGED req[v] /\ UNCHANGED pc[v]
    BY DEF HttpHandler, Step, SkipPart, OpenToWrite, OpenToWriteFails, Write, WriteFails,
           Close, AnswerUpload, OpenToRead, NotFound, Read, ReadEnd, IInv, TypeOK
  <2>2. UNCHANGED index[v] /\ UNCHANGED failed[v]
    BY DEF HttpHandler, Step, SkipPart, OpenToWrite, OpenToWriteFails, Write, WriteFails,
           Close, AnswerUpload, OpenToRead, NotFound, Read, ReadEnd, IInv, TypeOK
  <2> QED
    BY <2>1, <2>2
<1>2. \A n \in Names :
        \/ UNCHANGED <<opener[n], length[n], whole[n]>>
        \/ opener'[n] \notin {Hole, v}
        \/ UNCHANGED <<opener[n], length[n]>> /\ opener[n] \notin {Hole, v}
  <2>1. CASE OpenToWrite(w)
    BY <2>1, FileStoreAssumption DEF OpenToWrite, IInv, TypeOK
  <2>2. CASE WriteFails(w)
    BY <2>2, FileStoreAssumption DEF WriteFails, IInv, TypeOK
  <2>3. CASE UNCHANGED past
    BY <2>3 DEF past
  <2> QED
    BY <2>1, <2>2, <2>3 DEF HttpHandler, Step, SkipPart, OpenToWriteFails, Write,
           Close, AnswerUpload, OpenToRead, NotFound, Read, ReadEnd
<1>3. Uploading(v)' => Uploading(v)
  BY <1>1 DEF Uploading
<1> QED
  BY <1>1, <1>2, <1>3, BegunKept DEF UploadsOK, IInv

(* The size of the last part of a name, when the choice of it is resolved. *)
LEMMA LastSizeIs ==
  ASSUME NEW r, NEW n \in SavedNames(r), r.multipart_formdata \in Seq(Parts)
  PROVE  \E k \in DOMAIN r.multipart_formdata :
           /\ r.multipart_formdata[k].name = n
           /\ \A j \in DOMAIN r.multipart_formdata : r.multipart_formdata[j].name = n => j <= k
           /\ LastSize(r, n) = r.multipart_formdata[k].size
<1> DEFINE parts == r.multipart_formdata
           L(k) == parts[k].name = n /\ \A j \in DOMAIN parts : parts[j].name = n => j <= k
           S == {k \in 1..Len(parts) : parts[k].name = n}
<1>1. DOMAIN parts = 1..Len(parts) /\ Len(parts) \in Nat
  OBVIOUS
<1>2. S \in SUBSET (1..Len(parts)) /\ S # {}
  BY <1>1 DEF SavedNames
<1>3. PICK k \in S : \A j \in S : j <= k
  BY <1>1, <1>2, Greatest
<1>4. \E last \in DOMAIN parts : L(last)
  BY <1>1, <1>3
<1>5. PICK last : last = CHOOSE i \in DOMAIN parts : L(i)
  OBVIOUS
<1>6. last \in DOMAIN parts /\ L(last)
  BY <1>4, <1>5
<1>7. LastSize(r, n) = parts[last].size
  BY <1>5 DEF LastSize
<1> QED
  BY <1>6, <1>7

(* While nothing of a request has failed, what it has begun is in its      *)
(* files, or another upload has opened them since.                         *)
THEOREM UploadsAreSound == Spec => []UploadsOK
<1>1. Init => UploadsOK
  BY DEF Init, UploadsOK, UploadOK, Uploading
<1>2. ASSUME IInv, UploadsOK, Next PROVE UploadsOK'
  <2>1. PICK w \in Workers : HttpHandler(w) \/ Step(w)
    BY <1>2 DEF Next
  <2>2. UploadOK(w)'
    BY <1>2, <2>1, UploadGoesOn, UploadBegins, UploadIsAsked
  <2> QED
    BY <1>2, <2>1, <2>2, OthersUploads DEF UploadsOK
<1>3. ASSUME UploadsOK, UNCHANGED vars PROVE UploadsOK'
  BY <1>3 DEF vars, past, UploadsOK, UploadOK, Uploading, Begun, LastBegun, PartStored, Form
<1>4. IInv /\ UploadsOK /\ [Next]_vars => UploadsOK'
  BY <1>2, <1>3
<1> QED
  BY <1>1, <1>4, FilesAreSound, PTL DEF Spec

(* The peer that reads "200" has its files complete, each with the last    *)
(* part of its name, unless a step failed, which the answer does not tell, *)
(* or another upload came into them (main.cpp:289, 295).                   *)
THEOREM UploadedWhenAnsweredCorrect == Spec => []UploadedWhenAnswered
<1>1. ASSUME IInv, UploadsOK PROVE UploadedWhenAnswered
  <2> SUFFICES ASSUME NEW w \in Workers, NEW n \in Names,
                      pc[w] = "ok", Uploading(w), n \in SavedNames(req[w])
               PROVE  opener[n] # Hole /\ (opener[n] = w /\ alone[n] => Holds(n, LastSize(req[w], n)))
    BY DEF UploadedWhenAnswered, Uploading
  <2>1. Form(w) \in Seq(Parts) /\ index[w] \in Nat
    BY <1>1, RequestParts DEF IInv
  <2>2. PICK k \in DOMAIN Form(w) :
           /\ Form(w)[k].name = n
           /\ \A j \in DOMAIN Form(w) : Form(w)[j].name = n => j <= k
           /\ LastSize(req[w], n) = Form(w)[k].size
    BY <2>1, LastSizeIs DEF Form
  <2>3. k \in Begun(w)
    BY <1>1, <2>1 DEF UploadsOK, UploadOK, Begun
  <2>4. PartStored(w, k) /\ LastBegun(w, k)
    BY <1>1, <2>2, <2>3, FileStoreAssumption DEF UploadsOK, UploadOK, LastBegun, Begun
  <2>5. opener[n] = w => Complete(n)
    BY <2>2, <2>4 DEF PartStored, Complete, Streams
  <2>6. FileOK(n)
    BY <1>1 DEF IInv
  <2> QED
    BY <2>2, <2>4, <2>5, <2>6 DEF FileOK, PartStored
<1> QED
  BY <1>1, FilesAreSound, UploadsAreSound, PTL

-------------------------------------------------------------------------------
(* The recursive function of decode_percent_encoding_url. *)
BadEscape(u, i) == i + 2 > Len(u) \/ ~BothDigits(hex_to_decimal(u[i + 1]), hex_to_decimal(u[i + 2]))

EscapedByte(u, i) == 16 * hex_to_decimal(u[i + 1]) + hex_to_decimal(u[i + 2])

DecodedFrom(g, u, i) ==
  IF i > Len(u) THEN {<<>>}
  ELSE IF u[i] # PercentSign THEN {<<u[i]>> \o rest : rest \in g[i + 1]}
  ELSE IF BadEscape(u, i) THEN {}
  ELSE {<<EscapedByte(u, i)>> \o rest : rest \in g[i + 3]}

IsDecoding(f, u, j) == f = [i \in j..Len(u) + 1 |-> DecodedFrom(f, u, i)]

(* The loop looks at what lies behind only. *)
LEMMA DecodedFromBehind ==
  ASSUME NEW u, Len(u) \in Nat, NEW i \in Nat \ {0}, NEW f, NEW g,
         \A n \in i + 1..Len(u) + 1 : f[n] = g[n]
  PROVE  DecodedFrom(f, u, i) = DecodedFrom(g, u, i)
<1>1. ~(i > Len(u)) => f[i + 1] = g[i + 1]
  OBVIOUS
<1>2. ~BadEscape(u, i) => f[i + 3] = g[i + 3]
  BY DEF BadEscape
<1> QED
  BY <1>1, <1>2 DEF DecodedFrom

(* There is such a function ... *)
LEMMA DecodingExists ==
  ASSUME NEW u, Len(u) \in Nat
  PROVE  \E f : IsDecoding(f, u, 1)
<1> DEFINE I == {n \in Nat : n <= Len(u) => \E f : IsDecoding(f, u, Len(u) + 1 - n)}
<1>1. 0 \in I
  <2> DEFINE f == [i \in Len(u) + 1..Len(u) + 1 |-> DecodedFrom(<<>>, u, i)]
  <2>1. \A i \in Len(u) + 1..Len(u) + 1 : DecodedFrom(<<>>, u, i) = DecodedFrom(f, u, i)
    BY DecodedFromBehind
  <2>2. IsDecoding(f, u, Len(u) + 1)
    BY <2>1 DEF IsDecoding
  <2>3. Len(u) + 1 - 0 = Len(u) + 1
    OBVIOUS
  <2> HIDE DEF f
  <2> QED
    BY <2>2, <2>3
<1>2. ASSUME NEW n \in Nat, n \in I PROVE n + 1 \in I
  <2> SUFFICES ASSUME n + 1 <= Len(u) PROVE \E f : IsDecoding(f, u, Len(u) + 1 - (n + 1))
    OBVIOUS
  <2>1. PICK j \in 1..Len(u) : j = Len(u) + 1 - (n + 1) /\ j + 1 = Len(u) + 1 - n
    OBVIOUS
  <2>2. PICK f : IsDecoding(f, u, j + 1)
    BY <1>2, <2>1
  <2> DEFINE g == [i \in j..Len(u) + 1 |-> IF i = j THEN DecodedFrom(f, u, j) ELSE f[i]]
  <2>3. ASSUME NEW i \in j..Len(u) + 1 PROVE g[i] = DecodedFrom(g, u, i)
    <3>1. \A m \in i + 1..Len(u) + 1 : f[m] = g[m]
      BY <2>1
    <3>2. DecodedFrom(f, u, i) = DecodedFrom(g, u, i)
      BY <2>1, <2>3, <3>1, DecodedFromBehind
    <3>3. i # j => i \in j + 1..Len(u) + 1
      BY <2>1, <2>3
    <3>4. i # j => f[i] = DecodedFrom(f, u, i)
      BY <2>2, <3>3 DEF IsDecoding
    <3> QED
      BY <3>2, <3>4
  <2>4. IsDecoding(g, u, j)
    BY <2>3 DEF IsDecoding
  <2> HIDE DEF g
  <2> QED
    BY <2>1, <2>4
<1> HIDE DEF I
<1>3. Len(u) \in I
  BY <1>1, <1>2, SetInduction
<1>4. Len(u) + 1 - Len(u) = 1
  OBVIOUS
<1> QED
  BY <1>3, <1>4 DEF I

(* ... and the loop's text is its value at the first byte. *)
LEMMA DecodingIs ==
  ASSUME NEW u, Len(u) \in Nat
  PROVE  \E f : IsDecoding(f, u, 1) /\ decode_percent_encoding_url(u) = f[1]
<1> DEFINE F(f) == [i \in 1..Len(u) + 1 |-> DecodedFrom(f, u, i)]
           from == CHOOSE f : f = F(f)
<1>1. \E f : f = F(f)
  BY DecodingExists DEF IsDecoding
<1>2. from = F(from)
  BY <1>1
<1>3. decode_percent_encoding_url(u) = from[1]
  BY DEF decode_percent_encoding_url, DecodedFrom, BadEscape, EscapedByte
<1> HIDE DEF from
<1> QED
  BY <1>2, <1>3 DEF IsDecoding

-------------------------------------------------------------------------------
(* A digit's value is a byte's half. *)
LEMMA Hex ==
  ASSUME NEW c \in Nat
  PROVE  /\ hex_to_decimal(c) \in -1..15
         /\ hex_to_decimal(c) >= 0 => c # PercentSign
  BY DEF hex_to_decimal, PercentSign

(* An escape that is not bad has a byte. *)
LEMMA GoodEscape ==
  ASSUME NEW u \in Seq(Nat), NEW i \in 1..Len(u), u[i] = PercentSign
  PROVE  /\ ~BadEscape(u, i) <=> /\ i + 2 <= Len(u)
                                 /\ hex_to_decimal(u[i + 1]) >= 0
                                 /\ hex_to_decimal(u[i + 2]) >= 0
         /\ ~BadEscape(u, i) => /\ i + 2 \in 1..Len(u) /\ i + 1 \in 1..Len(u)
                                /\ u[i + 1] # PercentSign /\ u[i + 2] # PercentSign
                                /\ EscapedByte(u, i) \in Nat
<1>1. ~BadEscape(u, i) => i + 2 \in 1..Len(u) /\ i + 1 \in 1..Len(u)
  BY DEF BadEscape
<1>2. i + 2 <= Len(u) => i + 2 \in 1..Len(u) /\ i + 1 \in 1..Len(u)
  OBVIOUS
<1>3. \A k \in 1..Len(u) : /\ hex_to_decimal(u[k]) \in -1..15
                           /\ hex_to_decimal(u[k]) >= 0 => u[k] # PercentSign
  <2> SUFFICES ASSUME NEW k \in 1..Len(u)
               PROVE  /\ hex_to_decimal(u[k]) \in -1..15
                      /\ hex_to_decimal(u[k]) >= 0 => u[k] # PercentSign
    OBVIOUS
  <2>1. PICK c \in Nat : c = u[k]
    OBVIOUS
  <2> QED
    BY <2>1, Hex
<1>4. i + 2 <= Len(u) => hex_to_decimal(u[i + 1]) \in -1..15 /\ hex_to_decimal(u[i + 2]) \in -1..15
  BY <1>2, <1>3
<1>5. ~BadEscape(u, i) <=> /\ i + 2 <= Len(u)
                           /\ hex_to_decimal(u[i + 1]) >= 0
                           /\ hex_to_decimal(u[i + 2]) >= 0
  BY <1>4 DEF BadEscape, BothDigits
<1>6. ~BadEscape(u, i) => u[i + 1] # PercentSign /\ u[i + 2] # PercentSign
  BY <1>1, <1>3, <1>5
<1>7. ASSUME ~BadEscape(u, i) PROVE EscapedByte(u, i) \in Nat
  <2>1. PICK x \in Nat, y \in Nat : x = hex_to_decimal(u[i + 1]) /\ y = hex_to_decimal(u[i + 2])
    <3>1. hex_to_decimal(u[i + 1]) \in -1..15 /\ hex_to_decimal(u[i + 1]) >= 0
      BY <1>4, <1>5, <1>7
    <3>2. hex_to_decimal(u[i + 2]) \in -1..15 /\ hex_to_decimal(u[i + 2]) >= 0
      BY <1>4, <1>5, <1>7
    <3>3. \A x \in -1..15 : x >= 0 => x \in Nat
      OBVIOUS
    <3>4. hex_to_decimal(u[i + 1]) \in Nat /\ hex_to_decimal(u[i + 2]) \in Nat
      BY <3>1, <3>2, <3>3, Zenon
    <3> QED
      BY <3>4, Zenon
  <2>2. 16 * x + y \in Nat
    OBVIOUS
  <2> QED
    BY <2>1, <2>2 DEF EscapedByte
<1> QED
  BY <1>1, <1>5, <1>6, <1>7

(* A url that is not well formed is refused: up to its bad escape nothing  *)
(* is returned, since an escape that is skipped over holds no percent sign.*)
LEMMA IllFormedIsRefused ==
  ASSUME NEW u \in Seq(Nat), ~WellFormed(u)
  PROVE  decode_percent_encoding_url(u) = {}
<1>1. Len(u) \in Nat
  OBVIOUS
<1>2. PICK f : IsDecoding(f, u, 1) /\ decode_percent_encoding_url(u) = f[1]
  BY <1>1, DecodingIs
<1>3. PICK b \in 1..Len(u) : u[b] = PercentSign /\ BadEscape(u, b)
  <2>1. PICK k \in Escapes(u) : ~(/\ k + 2 <= Len(u)
                                  /\ hex_to_decimal(u[k + 1]) >= 0
                                  /\ hex_to_decimal(u[k + 2]) >= 0)
    BY DEF WellFormed
  <2>2. k \in 1..Len(u) /\ u[k] = PercentSign
    BY DEF Escapes
  <2> QED
    BY <2>1, <2>2, GoodEscape
<1> DEFINE I == {n \in Nat : \A i \in b - n..b : i > 0 => f[i] = {}}
<1>4. ASSUME NEW i \in 1..b, \A k \in i + 1..b : f[k] = {} PROVE f[i] = {}
  <2>1. i \in 1..Len(u) /\ f[i] = DecodedFrom(f, u, i) /\ ~(i > Len(u))
    <3>1. i \in 1..Len(u) /\ i \in 1..Len(u) + 1 /\ ~(i > Len(u))
      OBVIOUS
    <3> QED
      BY <1>2, <3>1 DEF IsDecoding
  <2>2. CASE u[i] # PercentSign
    <3>1. i + 1 \in i + 1..b
      BY <1>3, <2>2
    <3>2. f[i + 1] = {}
      BY <1>4, <3>1
    <3> QED
      BY <2>1, <2>2, <3>2 DEF DecodedFrom
  <2>3. CASE u[i] = PercentSign /\ BadEscape(u, i)
    BY <2>1, <2>3 DEF DecodedFrom
  <2>4. CASE u[i] = PercentSign /\ ~BadEscape(u, i)
    <3>1. u[i + 1] # PercentSign /\ u[i + 2] # PercentSign
      BY <2>1, <2>4, GoodEscape
    <3>2. b # i /\ b # i + 1 /\ b # i + 2
      BY <1>3, <2>4, <3>1
    <3>3. i + 3 \in i + 1..b
      BY <3>2
    <3>4. f[i + 3] = {}
      BY <1>4, <3>3
    <3> QED
      BY <2>1, <2>4, <3>4 DEF DecodedFrom
  <2> QED
    BY <2>2, <2>3, <2>4
<1>5. 0 \in I
  BY <1>4
<1>6. ASSUME NEW n \in Nat, n \in I PROVE n + 1 \in I
  <2> SUFFICES ASSUME NEW i \in b - (n + 1)..b, i > 0 PROVE f[i] = {}
    BY SMTT(30)
  <2>1. \A k \in i + 1..b : k \in b - n..b /\ k > 0
    OBVIOUS
  <2>2. \A k \in i + 1..b : f[k] = {}
    BY <1>6, <2>1
  <2> QED
    BY <1>4, <2>2
<1> HIDE DEF I
<1>7. b \in I
  <2>1. \A n \in Nat : n \in I
    BY <1>5, <1>6, SetInduction
  <2>2. b \in Nat
    OBVIOUS
  <2> QED
    BY <2>1, <2>2
<1>8. 1 \in b - b..b /\ 1 > 0
  OBVIOUS
<1> QED
  BY <1>2, <1>7, <1>8 DEF I

(* The bytes of a well-formed url that are not inside an escape. *)
Kept(u) == {k \in DOMAIN u : {k - 1, k - 2} \cap Escapes(u) = {}}

KeptUpTo(u, k) == {j \in Kept(u) : j <= k}

KeptBefore(u, k) == {j \in Kept(u) : j < k}

ByteAt(u, k) == IF u[k] = PercentSign THEN EscapedByte(u, k) ELSE u[k]

(* The bytes that are kept are counted ... *)
LEMMA KeptFinite ==
  ASSUME NEW u \in Seq(Nat), NEW T \in SUBSET Kept(u)
  PROVE  IsFiniteSet(T) /\ Cardinality(T) \in Nat
<1>1. Len(u) \in Int /\ 1 \in Int
  OBVIOUS
<1>2. IsFiniteSet(1..Len(u))
  BY <1>1, FS_Interval
<1>3. T \in SUBSET (1..Len(u))
  BY DEF Kept
<1>4. IsFiniteSet(T)
  BY <1>2, <1>3, FS_Subset
<1> QED
  BY <1>4, FS_CardinalityType

(* ... each has a place, ... *)
LEMMA KeptPlaces ==
  ASSUME NEW u \in Seq(Nat), NEW k \in Kept(u)
  PROVE  /\ Cardinality(KeptBefore(u, k)) \in Nat
         /\ Cardinality(KeptUpTo(u, k)) = Cardinality(KeptBefore(u, k)) + 1
         /\ Cardinality(KeptUpTo(u, k)) \in 1..Cardinality(Kept(u))
<1>1. Kept(u) \subseteq 1..Len(u)
  BY DEF Kept
<1>2. IsFiniteSet(KeptBefore(u, k)) /\ Cardinality(KeptBefore(u, k)) \in Nat
  <2>1. KeptBefore(u, k) \in SUBSET Kept(u)
    BY DEF KeptBefore
  <2> QED
    BY <2>1, KeptFinite
<1>3. KeptUpTo(u, k) = KeptBefore(u, k) \cup {k} /\ k \notin KeptBefore(u, k)
  BY <1>1 DEF KeptUpTo, KeptBefore
<1>4. Cardinality(KeptUpTo(u, k)) = Cardinality(KeptBefore(u, k)) + 1
  BY <1>2, <1>3, FS_AddElement
<1>5. Cardinality(KeptUpTo(u, k)) <= Cardinality(Kept(u)) /\ Cardinality(Kept(u)) \in Nat
  <2>1. KeptUpTo(u, k) \in SUBSET Kept(u)
    BY DEF KeptUpTo
  <2>2. IsFiniteSet(Kept(u)) /\ Cardinality(Kept(u)) \in Nat
    BY KeptFinite
  <2> QED
    BY <2>1, <2>2, FS_Subset
<1> QED
  BY <1>2, <1>4, <1>5

(* ... and no two the same. *)
LEMMA KeptPlacesDiffer ==
  ASSUME NEW u \in Seq(Nat), NEW j \in Kept(u), NEW k \in Kept(u),
         Cardinality(KeptUpTo(u, j)) = Cardinality(KeptUpTo(u, k))
  PROVE  j = k
<1>1. Kept(u) \subseteq 1..Len(u)
  BY DEF Kept
<1>2. ASSUME NEW a \in Kept(u), NEW b \in Kept(u), a < b
      PROVE  Cardinality(KeptUpTo(u, a)) # Cardinality(KeptUpTo(u, b))
  <2>1. KeptUpTo(u, a) \in SUBSET KeptUpTo(u, b) /\ b \in KeptUpTo(u, b) /\ b \notin KeptUpTo(u, a)
    BY <1>1, <1>2 DEF KeptUpTo
  <2>2. IsFiniteSet(KeptUpTo(u, b))
    <3>1. KeptUpTo(u, b) \in SUBSET Kept(u)
      BY DEF KeptUpTo
    <3> QED
      BY <3>1, KeptFinite
  <2> QED
    BY <2>1, <2>2, FS_Subset
<1>3. ~(j < k) /\ ~(k < j)
  BY <1>2
<1> QED
  BY <1>1, <1>3

(* So each place of the decoded url has its byte. *)
LEMMA DecodedAt ==
  ASSUME NEW u \in Seq(Nat), NEW k \in Kept(u)
  PROVE  Decoded(u)[Cardinality(KeptUpTo(u, k))] = ByteAt(u, k)
<1> DEFINE place(j) == Cardinality({i \in Kept(u) : i <= j})
           byte(n) == ByteAt(u, CHOOSE j \in Kept(u) : place(j) = n)
<1>1. Decoded(u) = [n \in 1..Cardinality(Kept(u)) |-> byte(n)]
  BY DEF Decoded, Kept, ByteAt, EscapedByte
<1>2. \A j : place(j) = Cardinality(KeptUpTo(u, j))
  BY DEF KeptUpTo
<1> HIDE DEF place
<1>3. PICK n \in 1..Cardinality(Kept(u)) : n = place(k)
  BY <1>2, KeptPlaces
<1>4. (CHOOSE j \in Kept(u) : place(j) = n) = k
  <2>1. PICK l : l = CHOOSE j \in Kept(u) : place(j) = n
    OBVIOUS
  <2>2. l \in Kept(u) /\ place(l) = n
    BY <1>3, <2>1
  <2>3. l = k
    BY <1>2, <1>3, <2>2, KeptPlacesDiffer
  <2> QED
    BY <2>1, <2>3
<1>5. Decoded(u)[n] = byte(n)
  BY <1>1, <1>3
<1>6. byte(n) = ByteAt(u, k)
  BY <1>4
<1> QED
  BY <1>2, <1>3, <1>5, <1>6

LEMMA DecodedDomain ==
  ASSUME NEW u \in Seq(Nat)
  PROVE  /\ Decoded(u) = [n \in 1..Cardinality(Kept(u)) |-> Decoded(u)[n]]
         /\ Cardinality(Kept(u)) \in Nat
<1>1. Cardinality(Kept(u)) \in Nat
  BY KeptFinite
<1>2. Decoded(u) = [n \in 1..Cardinality(Kept(u)) |-> Decoded(u)[n]]
  BY DEF Decoded, Kept
<1> QED
  BY <1>1, <1>2

(* From one kept byte to the next one, or to the end. *)
IsStop(u, i) == i \in Kept(u) \/ i = Len(u) + 1

NextStop(u, i) == IF u[i] = PercentSign THEN i + 3 ELSE i + 1

LEMMA NextStopIs ==
  ASSUME NEW u \in Seq(Nat), WellFormed(u), NEW i \in Kept(u)
  PROVE  /\ i \in 1..Len(u)
         /\ NextStop(u, i) \in i + 1..Len(u) + 1
         /\ IsStop(u, NextStop(u, i))
         /\ KeptBefore(u, NextStop(u, i)) = KeptUpTo(u, i)
         /\ u[i] = PercentSign => ~BadEscape(u, i)
         /\ ByteAt(u, i) \in Nat
<1>1. i \in 1..Len(u) /\ i - 1 \notin Escapes(u) /\ i - 2 \notin Escapes(u)
  BY DEF Kept
<1>2. Kept(u) \subseteq 1..Len(u)
  BY DEF Kept
<1>3. CASE u[i] # PercentSign
  <2>1. NextStop(u, i) = i + 1
    BY <1>3 DEF NextStop
  <2>2. i \notin Escapes(u)
    BY <1>3 DEF Escapes
  <2>3. i + 1 = Len(u) + 1 \/ (i + 1 \in 1..Len(u) /\ i + 1 - 1 = i /\ i + 1 - 2 = i - 1)
    BY <1>1
  <2>4. IsStop(u, i + 1)
    BY <1>1, <2>2, <2>3, SMTT(30) DEF IsStop, Kept
  <2>5. KeptBefore(u, i + 1) = KeptUpTo(u, i)
    BY <1>1, <1>2 DEF KeptBefore, KeptUpTo
  <2>6. ByteAt(u, i) \in Nat
    BY <1>1, <1>3 DEF ByteAt
  <2> QED
    BY <1>1, <1>3, <2>1, <2>4, <2>5, <2>6
<1>4. CASE u[i] = PercentSign
  <2>1. NextStop(u, i) = i + 3
    BY <1>4 DEF NextStop
  <2>2. i \in Escapes(u)
    BY <1>1, <1>4 DEF Escapes
  <2>3. ~BadEscape(u, i)
    BY <1>1, <1>4, <2>2, GoodEscape DEF WellFormed
  <2>4. /\ i + 2 \in 1..Len(u) /\ u[i + 1] # PercentSign /\ u[i + 2] # PercentSign
        /\ EscapedByte(u, i) \in Nat
    BY <1>1, <1>4, <2>3, GoodEscape
  <2>5. i + 1 \notin Escapes(u) /\ i + 2 \notin Escapes(u)
    BY <2>4 DEF Escapes
  <2>6. i + 3 = Len(u) + 1 \/ (i + 3 \in 1..Len(u) /\ i + 3 - 1 = i + 2 /\ i + 3 - 2 = i + 1)
    BY <1>1, <2>4
  <2>7. IsStop(u, i + 3)
    <3>1. CASE i + 3 = Len(u) + 1
      BY <3>1 DEF IsStop
    <3>2. CASE i + 3 \in 1..Len(u)
      <4>1. PICK k \in 1..Len(u) : k = i + 3 /\ k - 1 = i + 2 /\ k - 2 = i + 1
        BY <1>1, <3>2
      <4>2. k \in Kept(u)
        <5>1. k - 1 \notin Escapes(u) /\ k - 2 \notin Escapes(u)
          BY <2>5, <4>1
        <5>2. {k - 1, k - 2} \cap Escapes(u) = {}
          BY <5>1
        <5>3. k \in DOMAIN u
          OBVIOUS
        <5> QED
          BY <5>2, <5>3 DEF Kept
      <4> QED
        BY <4>1, <4>2 DEF IsStop
    <3> QED
      BY <2>6, <3>1, <3>2
  <2>8. i + 1 \notin Kept(u) /\ i + 2 \notin Kept(u)
    <3>1. (i + 1) - 1 = i /\ (i + 2) - 2 = i
      BY <1>1
    <3> QED
      BY <2>2, <3>1 DEF Kept
  <2>9. KeptBefore(u, i + 3) = KeptUpTo(u, i)
    <3>1. \A j \in Kept(u) : j < i + 3 <=> j <= i
      BY <1>1, <1>2, <2>8, SMTT(30)
    <3> QED
      BY <3>1 DEF KeptBefore, KeptUpTo
  <2>10. i + 3 \in i + 1..Len(u) + 1
    BY <1>1, <2>6
  <2>11. ByteAt(u, i) \in Nat
    BY <1>4, <2>4 DEF ByteAt
  <2> QED
    BY <1>1, <2>1, <2>3, <2>7, <2>9, <2>10, <2>11
<1> QED
  BY <1>3, <1>4

(* What is behind the first p of n bytes. *)
Suffix(d, n, p) == [i \in 1..n - p |-> d[i + p]]

LEMMA SuffixCons ==
  ASSUME NEW n \in Nat, NEW d, NEW p \in Nat, p + 1 <= n, d[p + 1] \in Nat,
         Suffix(d, n, p + 1) \in Seq(Nat)
  PROVE  /\ <<d[p + 1]>> \o Suffix(d, n, p + 1) = Suffix(d, n, p)
         /\ Suffix(d, n, p) \in Seq(Nat)
<1>1. PICK m \in Nat : m = n - (p + 1) /\ n - p = m + 1
  OBVIOUS
<1>2. PICK t \in Seq(Nat) : t = Suffix(d, n, p + 1) /\ Len(t) = m /\ \A i \in 1..m : t[i] = d[i + (p + 1)]
  <2>1. PICK t \in Seq(Nat) : t = Suffix(d, n, p + 1)
    OBVIOUS
  <2>2. t = [i \in 1..m |-> d[i + (p + 1)]]
    BY <1>1, <2>1 DEF Suffix
  <2>3. DOMAIN t = 1..m /\ \A i \in 1..m : t[i] = d[i + (p + 1)]
    BY <2>2
  <2>4. Len(t) = m
    BY <2>3, LenProperties
  <2> QED
    BY <2>1, <2>3, <2>4
<1>3. PICK v \in Seq(Nat) : v = <<d[p + 1]>> /\ Len(v) = 1 /\ v[1] = d[p + 1]
  <2>1. <<d[p + 1]>> \in Seq(Nat) /\ Len(<<d[p + 1]>>) = 1 /\ <<d[p + 1]>>[1] = d[p + 1]
    OBVIOUS
  <2> QED
    BY <2>1
<1>4. PICK s : s = Suffix(d, n, p) /\ s = [i \in 1..m + 1 |-> d[i + p]]
  BY <1>1 DEF Suffix
<1>5. ASSUME NEW i \in 1..m + 1 PROVE s[i] = (IF i <= 1 THEN v[i] ELSE t[i - 1]) /\ s[i] \in Nat
  <2>1. CASE i = 1
    <3>1. i + p = p + 1
      BY <2>1
    <3> QED
      BY <1>3, <1>4, <2>1, <3>1
  <2>2. CASE i # 1
    <3>1. PICK j \in 1..m : j = i - 1 /\ i + p = j + (p + 1) /\ ~(i <= 1)
      BY <2>2
    <3>2. t[j] = d[j + (p + 1)] /\ t[j] \in Nat
      BY <1>2
    <3> QED
      BY <1>4, <3>1, <3>2
  <2> QED
    BY <2>1, <2>2
<1>6. s \in Seq(Nat) /\ Len(s) = m + 1
  <2>1. s \in [1..m + 1 -> Nat]
    <3>1. s = [i \in 1..m + 1 |-> s[i]]
      BY <1>4
    <3> QED
      BY <1>5, <3>1
  <2>2. m + 1 \in Nat
    OBVIOUS
  <2> QED
    BY <2>1, <2>2, SMTT(30)
<1>7. PICK w \in Seq(Nat) : /\ w = v \o t /\ Len(w) = 1 + m
                            /\ \A i \in 1..1 + m : w[i] = IF i <= 1 THEN v[i] ELSE t[i - 1]
  <2>1. /\ v \o t \in Seq(Nat) /\ Len(v \o t) = Len(v) + Len(t)
        /\ \A i \in 1..Len(v) + Len(t) : (v \o t)[i] = IF i <= Len(v) THEN v[i] ELSE t[i - Len(v)]
    BY ConcatProperties
  <2>2. PICK w \in Seq(Nat) : /\ w = v \o t /\ Len(w) = Len(v) + Len(t)
                              /\ \A i \in 1..Len(v) + Len(t) : w[i] = IF i <= Len(v) THEN v[i] ELSE t[i - Len(v)]
    BY <2>1
  <2>3. Len(v) = 1 /\ Len(t) = m
    BY <1>2, <1>3
  <2> QED
    BY <2>2, <2>3
<1>8. w = s
  <2>1. \A i \in 1..m + 1 : w[i] = s[i]
    BY <1>5, <1>7
  <2> QED
    <3>1. 1 + m = m + 1
      OBVIOUS
    <3>2. Len(w) = m + 1
      BY <1>7, <3>1
    <3>3. \A i \in 1..Len(w) : w[i] = s[i]
      BY <2>1, <3>2
    <3>4. Len(s) = Len(w)
      BY <1>6, <3>2
    <3> QED
      BY <1>6, <3>3, <3>4, SeqEqual
<1> QED
  BY <1>2, <1>3, <1>4, <1>6, <1>7, <1>8

(* A well-formed url is decoded as the reference definition says: from the *)
(* end on, by induction.                                                   *)
LEMMA WellFormedIsDecoded ==
  ASSUME NEW u \in Seq(Nat), WellFormed(u)
  PROVE  decode_percent_encoding_url(u) = {Decoded(u)} /\ Decoded(u) \in Seq(Nat)
<1>1. Len(u) \in Nat
  OBVIOUS
<1>2. PICK f : IsDecoding(f, u, 1) /\ decode_percent_encoding_url(u) = f[1]
  BY <1>1, DecodingIs
<1>0. PICK d : d = Decoded(u)
  OBVIOUS
<1>3. PICK n \in Nat : n = Cardinality(Kept(u)) /\ d = [i \in 1..n |-> d[i]]
  BY <1>0, DecodedDomain
<1> DEFINE S(i) == Suffix(d, n, Cardinality(KeptBefore(u, i)))
           C(i) == IsStop(u, i) => f[i] = {S(i)} /\ S(i) \in Seq(Nat)
           I == {m \in Nat : \A i \in Len(u) + 1 - m..Len(u) + 1 : i > 0 => C(i)}
<1>4. ASSUME NEW i \in 1..Len(u) + 1, \A k \in i + 1..Len(u) + 1 : C(k) PROVE C(i)
  <2> SUFFICES ASSUME IsStop(u, i) PROVE f[i] = {S(i)} /\ S(i) \in Seq(Nat)
    OBVIOUS
  <2>1. f[i] = DecodedFrom(f, u, i)
    BY <1>2 DEF IsDecoding
  <2>2. CASE i = Len(u) + 1
    <3>1. KeptBefore(u, i) = Kept(u)
      <4>1. Kept(u) \subseteq 1..Len(u)
        BY DEF Kept
      <4> QED
        BY <2>2, <4>1 DEF KeptBefore
    <3>2. S(i) = <<>>
      <4>1. S(i) = [k \in 1..n - n |-> d[k + n]]
        BY <1>3, <3>1 DEF Suffix
      <4>2. 1..n - n = {}
        OBVIOUS
      <4> QED
        BY <4>1, <4>2
    <3>3. i > Len(u)
      BY <2>2
    <3>4. f[i] = {<<>>}
      BY <2>1, <3>3 DEF DecodedFrom
    <3> QED
      BY <3>2, <3>4
  <2>3. CASE i \in Kept(u)
    <3>1. PICK k : k = NextStop(u, i)
      OBVIOUS
    <3>2. /\ i \in 1..Len(u) /\ k \in i + 1..Len(u) + 1 /\ IsStop(u, k)
          /\ KeptBefore(u, k) = KeptUpTo(u, i)
          /\ u[i] = PercentSign => ~BadEscape(u, i)
          /\ ByteAt(u, i) \in Nat
      BY <2>3, <3>1, NextStopIs
    <3>3. PICK p \in Nat : /\ p = Cardinality(KeptBefore(u, i))
                           /\ Cardinality(KeptBefore(u, k)) = p + 1 /\ p + 1 <= n
      BY <1>3, <2>3, <3>2, KeptPlaces
    <3>4. d[p + 1] = ByteAt(u, i)
      BY <1>0, <2>3, <3>2, <3>3, DecodedAt
    <3>5. f[k] = {Suffix(d, n, p + 1)} /\ Suffix(d, n, p + 1) \in Seq(Nat)
      BY <1>4, <3>2, <3>3
    <3>6. f[i] = {<<ByteAt(u, i)>> \o rest : rest \in f[k]}
      <4>1. ~(i > Len(u))
        BY <3>2
      <4>2. CASE u[i] = PercentSign
        BY <2>1, <3>1, <3>2, <4>1, <4>2 DEF DecodedFrom, NextStop, ByteAt
      <4>3. CASE u[i] # PercentSign
        BY <2>1, <3>1, <3>2, <4>1, <4>3 DEF DecodedFrom, NextStop, ByteAt
      <4> QED
        BY <4>2, <4>3
    <3>7. <<d[p + 1]>> \o Suffix(d, n, p + 1) = Suffix(d, n, p) /\ Suffix(d, n, p) \in Seq(Nat)
      BY <3>2, <3>3, <3>4, <3>5, SuffixCons
    <3>8. f[i] = {Suffix(d, n, p)}
      <4>1. f[i] = {<<d[p + 1]>> \o rest : rest \in {Suffix(d, n, p + 1)}}
        BY <3>4, <3>5, <3>6
      <4>2. PICK x, y : x = Suffix(d, n, p + 1) /\ y = <<d[p + 1]>> \o x
        OBVIOUS
      <4>3. {<<d[p + 1]>> \o rest : rest \in {x}} = {y}
        BY <4>2
      <4> QED
        BY <3>7, <4>1, <4>2, <4>3
    <3> QED
      BY <3>3, <3>7, <3>8
  <2> QED
    BY <2>2, <2>3 DEF IsStop
<1> HIDE DEF C
<1>5. 0 \in I
  BY <1>1, <1>4
<1>6. ASSUME NEW m \in Nat, m \in I PROVE m + 1 \in I
  <2> SUFFICES ASSUME NEW i \in Len(u) + 1 - (m + 1)..Len(u) + 1, i > 0 PROVE C(i)
    OBVIOUS
  <2>1. i \in 1..Len(u) + 1 /\ \A k \in i + 1..Len(u) + 1 : k \in Len(u) + 1 - m..Len(u) + 1 /\ k > 0
    BY <1>1
  <2>2. \A k \in i + 1..Len(u) + 1 : C(k)
    BY <1>6, <2>1
  <2> QED
    BY <1>4, <2>1, <2>2
<1> HIDE DEF I
<1>7. Len(u) + 1 \in I
  BY <1>1, <1>5, <1>6, SetInduction
<1>8. C(1)
  <2>1. 1 \in Len(u) + 1 - (Len(u) + 1)..Len(u) + 1 /\ 1 > 0
    BY <1>1
  <2> QED
    BY <1>7, <2>1 DEF I
<1>9. IsStop(u, 1) /\ KeptBefore(u, 1) = {}
  <2>1. Escapes(u) \subseteq 1..Len(u) /\ Kept(u) \subseteq 1..Len(u)
    BY DEF Escapes, Kept
  <2>2. 1 - 1 \notin Escapes(u) /\ 1 - 2 \notin Escapes(u)
    BY <2>1
  <2>3. 1 \in 1..Len(u) => 1 \in Kept(u)
    BY <2>2 DEF Kept
  <2>4. 1 \notin 1..Len(u) => 1 = Len(u) + 1
    BY <1>1
  <2>5. KeptBefore(u, 1) = {}
    BY <2>1 DEF KeptBefore
  <2> QED
    BY <2>3, <2>4, <2>5 DEF IsStop
<1>10. S(1) = d
  <2>1. Cardinality(KeptBefore(u, 1)) = 0
    BY <1>9, FS_EmptySet
  <2>2. S(1) = [i \in 1..n - 0 |-> d[i + 0]]
    BY <2>1 DEF Suffix
  <2>3. n - 0 = n /\ \A i \in 1..n : i + 0 = i
    OBVIOUS
  <2> QED
    BY <1>3, <2>2, <2>3
<1> QED
  BY <1>0, <1>2, <1>8, <1>9, <1>10 DEF C

(* A url without a percent sign is its own decoded url. *)
LEMMA PlainIsDecoded ==
  ASSUME NEW u \in Seq(Nat), Escapes(u) = {}
  PROVE  WellFormed(u) /\ Decoded(u) = u
<1>1. WellFormed(u)
  BY DEF WellFormed
<1>2. Kept(u) = 1..Len(u)
  BY DEF Kept
<1>3. Cardinality(Kept(u)) = Len(u)
  <2>1. Len(u) \in Int /\ 1 \in Int
    OBVIOUS
  <2>2. Cardinality(1..Len(u)) = IF 1 > Len(u) THEN 0 ELSE Len(u) - 1 + 1
    BY <2>1, FS_Interval
  <2> QED
    BY <1>2, <2>2
<1>4. ASSUME NEW k \in 1..Len(u) PROVE Decoded(u)[k] = u[k]
  <2>1. KeptUpTo(u, k) = 1..k
    BY <1>2 DEF KeptUpTo
  <2>2. Cardinality(1..k) = k
    <3>1. k \in Int /\ 1 \in Int /\ ~(1 > k) /\ k - 1 + 1 = k
      OBVIOUS
    <3> QED
      BY <3>1, FS_Interval
  <2>3. ByteAt(u, k) = u[k]
    BY DEF ByteAt, Escapes
  <2> QED
    BY <1>2, <2>1, <2>2, <2>3, DecodedAt
<1>5. Decoded(u) = [n \in 1..Len(u) |-> Decoded(u)[n]]
  BY <1>3, DecodedDomain
<1>6. u = [n \in 1..Len(u) |-> u[n]]
  OBVIOUS
<1> QED
  BY <1>1, <1>4, <1>5, <1>6

-------------------------------------------------------------------------------
(* A place is a sequence of names that are not empty. *)
LEMMA PlaceType ==
  ASSUME NEW T, Slash \in T, NEW s \in Seq(T)
  PROVE  Place(s) \in Seq(Seq(T) \ {<<>>})
BY SplitByte DEF Place

(* A path that is cut at a slash: the names before it and behind it. *)
LEMMA PlaceJoined ==
  ASSUME NEW T, Slash \in T, NEW s \in Seq(T), NEW a \in Seq(T), NEW b \in Seq(T), Joined(s, a, Slash, b)
  PROVE  Place(s) = Place(a) \o Place(b)
<1>1. PICK c \in T : c = Slash
  OBVIOUS
<1>2. Split(s, <<c>>) = Split(a, <<c>>) \o Split(b, <<c>>)
  BY <1>1, SplitJoined, SMTT(30)
<1> QED
  BY <1>1, <1>2 DEF Place

LEMMA PlaceEmpty == Place(<<>>) = <<>>
<1>1. PICK c \in Nat : c = Slash
  BY DEF Slash
<1>2. Split(<<>>, <<c>>) = <<>>
  BY SplitEmpty
<1> QED
  BY <1>1, <1>2 DEF Place

(* A slash at the end or at the beginning of a path adds no name. *)
LEMMA PlaceWithoutEnd ==
  ASSUME NEW T, Slash \in T, NEW l \in Seq(T), l # <<>>, l[Len(l)] = Slash
  PROVE  Place(l) = Place(SubSeq(l, 1, Len(l) - 1))
<1>1. PICK m \in Seq(T) : m = SubSeq(l, 1, Len(l) - 1) /\ Joined(l, m, Slash, <<>>)
  BY WithoutEnd
<1>2. <<>> \in Seq(T)
  OBVIOUS
<1>3. Place(l) = Place(m) \o Place(<<>>)
  BY <1>1, <1>2, PlaceJoined
<1>4. Place(m) \in Seq(Seq(T) \ {<<>>})
  BY PlaceType
<1>5. Place(m) \o <<>> = Place(m)
  BY <1>4, WithNothing
<1> QED
  BY <1>1, <1>3, <1>5, PlaceEmpty

LEMMA PlaceWithoutBegin ==
  ASSUME NEW T, Slash \in T, NEW r \in Seq(T), r # <<>>, r[1] = Slash
  PROVE  Place(r) = Place(SubSeq(r, 2, Len(r)))
<1>1. PICK m \in Seq(T) : m = SubSeq(r, 2, Len(r)) /\ Joined(r, <<>>, Slash, m)
  BY WithoutBegin
<1>2. <<>> \in Seq(T)
  OBVIOUS
<1>3. Place(r) = Place(<<>>) \o Place(m)
  BY <1>1, <1>2, PlaceJoined
<1>4. Place(m) \in Seq(Seq(T) \ {<<>>})
  BY PlaceType
<1>5. <<>> \o Place(m) = Place(m)
  BY <1>4, WithNothing
<1> QED
  BY <1>1, <1>3, <1>5, PlaceEmpty

(* concatenate_path joins the places of its paths, whether or not they end *)
(* and begin in a slash.                                                   *)
LEMMA ConcatIs ==
  ASSUME NEW T, Slash \in T, NEW l \in Seq(T), NEW r \in Seq(T)
  PROVE  /\ concatenate_path(l, r) \in Seq(T)
         /\ Place(concatenate_path(l, r)) = Place(l) \o Place(r)
<1> DEFINE C == concatenate_path(l, r)
<1>1. Place(l) \in Seq(Seq(T) \ {<<>>}) /\ Place(r) \in Seq(Seq(T) \ {<<>>})
  BY PlaceType
<1>2. CASE l = <<>>
  <2>1. C = r
    BY <1>2 DEF concatenate_path
  <2> QED
    BY <1>1, <1>2, <2>1, PlaceEmpty, WithNothing
<1>3. CASE l # <<>> /\ r = <<>>
  <2>1. C = l
    BY <1>3 DEF concatenate_path
  <2> QED
    BY <1>1, <1>3, <2>1, PlaceEmpty, WithNothing
<1>4. CASE l # <<>> /\ r # <<>> /\ l[Len(l)] = Slash /\ r[1] = Slash
  <2>1. PICK m \in Seq(T) : m = SubSeq(l, 1, Len(l) - 1)
    BY <1>4, WithoutEnd
  <2>2. PICK t \in Seq(T) : t = SubSeq(r, 2, Len(r)) /\ Joined(r, <<>>, Slash, t)
    BY <1>4, WithoutBegin
  <2>3. C = m \o r
    BY <1>4, <2>1 DEF concatenate_path
  <2>4. m \o r \in Seq(T) /\ Joined(m \o r, m, Slash, t)
    BY <2>2, MoreAndJoined
  <2>5. Place(m \o r) = Place(m) \o Place(t)
    BY <2>4, PlaceJoined
  <2> QED
    BY <1>4, <2>1, <2>2, <2>3, <2>4, <2>5, PlaceWithoutEnd, PlaceWithoutBegin
<1>5. CASE l # <<>> /\ r # <<>> /\ l[Len(l)] = Slash /\ r[1] # Slash
  <2>1. PICK m \in Seq(T) : m = SubSeq(l, 1, Len(l) - 1) /\ Joined(l, m, Slash, <<>>)
    BY <1>5, WithoutEnd
  <2>2. C = l \o r
    BY <1>5 DEF concatenate_path
  <2>3. l \o r \in Seq(T) /\ Joined(l \o r, m, Slash, r)
    BY <2>1, JoinedAndMore
  <2>4. Place(l \o r) = Place(m) \o Place(r)
    BY <2>3, PlaceJoined
  <2> QED
    BY <1>5, <2>1, <2>2, <2>3, <2>4, PlaceWithoutEnd
<1>6. CASE l # <<>> /\ r # <<>> /\ l[Len(l)] # Slash /\ r[1] = Slash
  <2>1. PICK t \in Seq(T) : t = SubSeq(r, 2, Len(r)) /\ Joined(r, <<>>, Slash, t)
    BY <1>6, WithoutBegin
  <2>2. C = l \o r
    BY <1>6 DEF concatenate_path
  <2>3. l \o r \in Seq(T) /\ Joined(l \o r, l, Slash, t)
    BY <2>1, MoreAndJoined
  <2>4. Place(l \o r) = Place(l) \o Place(t)
    BY <2>3, PlaceJoined
  <2> QED
    BY <1>6, <2>1, <2>2, <2>3, <2>4, PlaceWithoutBegin
<1>7. CASE l # <<>> /\ r # <<>> /\ l[Len(l)] # Slash /\ r[1] # Slash
  <2>1. PICK m \in Seq(T) : m = <<Slash>> /\ m # <<>> /\ Len(m) = 1 /\ m[1] = Slash
    <3>1. <<Slash>> \in Seq(T) /\ <<Slash>> # <<>> /\ Len(<<Slash>>) = 1 /\ <<Slash>>[1] = Slash
      OBVIOUS
    <3> QED
      BY <3>1
  <2>2. C = l \o m \o r
    BY <1>7, <2>1 DEF concatenate_path
  <2>3. Joined(m, <<>>, Slash, <<>>)
    <3>1. Len(<<>>) = 0
      OBVIOUS
    <3> QED
      BY <2>1, <3>1 DEF Joined, Before, Follows
  <2>4. <<>> \in Seq(T)
    OBVIOUS
  <2>5. l \o m \in Seq(T) /\ Joined(l \o m, l, Slash, <<>>)
    BY <2>3, <2>4, MoreAndJoined
  <2>6. PICK k \in Seq(T) : k = l \o m
    BY <2>5
  <2>7. k \o r \in Seq(T) /\ Joined(k \o r, l, Slash, r)
    BY <2>5, <2>6, JoinedAndMore
  <2>8. Place(k \o r) = Place(l) \o Place(r)
    BY <2>7, PlaceJoined
  <2> QED
    BY <2>2, <2>6, <2>7, <2>8
<1> QED
  BY <1>2, <1>3, <1>4, <1>5, <1>6, <1>7

-------------------------------------------------------------------------------
(* What decode_percent_encoding_url returns for every url. *)
LEMMA DecodingOf ==
  ASSUME NEW u \in Seq(Nat)
  PROVE  /\ WellFormed(u) => decode_percent_encoding_url(u) = {Decoded(u)} /\ Decoded(u) \in Seq(Nat)
         /\ ~WellFormed(u) => decode_percent_encoding_url(u) = {}
  BY WellFormedIsDecoded, IllFormedIsRefused

(* A word without a percent sign. *)
PlainBytes == Nat \ {PercentSign}

LEMMA EscapesAre ==
  ASSUME NEW u \in Seq(Nat)
  PROVE  Escapes(u) = {} <=> u \in Seq(PlainBytes)
<1>1. CASE Escapes(u) = {}
  <2>1. \A k \in 1..Len(u) : u[k] \in PlainBytes
    BY <1>1 DEF Escapes, PlainBytes
  <2>2. u = [k \in 1..Len(u) |-> u[k]] /\ Len(u) \in Nat
    OBVIOUS
  <2> QED
    BY <1>1, <2>1, <2>2
<1>2. CASE u \in Seq(PlainBytes)
  BY <1>2 DEF Escapes, PlainBytes
<1> QED
  BY <1>1, <1>2

(* What a place consists of. *)
Word == Seq(Nat \ {Slash}) \ {<<>>}

BrowsingTypes ==
  /\ root \in Seq(Nat) /\ root # <<>>
  /\ \A p \in DOMAIN tree : p \in Seq(Word) /\ tree[p] \in {"dir", "reg", "link"}
  /\ url \in Seq(Nat) /\ at \in Seq(Seq(Nat))
  /\ page \in {"none", "list", "file", "notFound", "closed", "uploaded", "refused"}
  /\ saved \subseteq Seq(Seq(Nat)) \ {<<>>}

(* The page is the one that Get makes of the url and the tree. *)
PageIsMade ==
  /\ page = "closed" => ~WellFormed(url)
  /\ page \in {"list", "file", "notFound"} => WellFormed(url) /\ Shows(There(Place(Decoded(url))))
  /\ page = "list" => links = DirList(CompletePath(Decoded(url)), Decoded(url))
  /\ page = "file" => type = get_file_extension(CompletePath(Decoded(url)))

(* Names that need no decoding lead where they say. *)
PlainArrives == page # "none" /\ Plain(at) => url \in Seq(PlainBytes) /\ Place(url) = at

(* No upload into such a place is lost. *)
UploadsAreThere == \A s \in saved : Plain(SubSeq(s, 1, Len(s) - 1)) => There(s) \in DOMAIN tree

BrowsingInv == BrowsingTypes /\ PageIsMade /\ PlainArrives /\ UploadsAreThere

-------------------------------------------------------------------------------
LEMMA SlashIsByte == Slash \in Nat /\ Slash \in PlainBytes
  BY DEF Slash, PlainBytes, PercentSign

(* A name is the place that it leads to. *)
LEMMA NamesAreWords ==
  ASSUME NEW n, IsName(n)
  PROVE  n \in Word /\ n \in Seq(Nat) /\ Place(n) = <<n>>
<1>1. n \in Seq(Nat) /\ n # <<>> /\ \A k \in 1..Len(n) : n[k] # Slash
  BY DEF IsName
<1>2. n \in Word
  <2>1. n = [k \in 1..Len(n) |-> n[k]] /\ Len(n) \in Nat
    BY <1>1
  <2>2. \A k \in 1..Len(n) : n[k] \in Nat \ {Slash}
    BY <1>1
  <2> QED
    BY <1>1, <2>1, <2>2 DEF Word
<1>3. Place(n) = <<n>>
  <2>1. PICK c \in Nat : c = Slash
    BY SlashIsByte
  <2>2. Split(n, <<c>>) = <<n>>
    BY <1>1, <2>1, SplitWhole
  <2> QED
    BY <2>1, <2>2 DEF Place
<1> QED
  BY <1>1, <1>2, <1>3

(* Names without a percent sign. *)
LEMMA PlainAre ==
  ASSUME NEW p \in Seq(Seq(Nat))
  PROVE  Plain(p) <=> p \in Seq(Seq(PlainBytes))
<1>1. \A w \in Seq(Nat) : Escapes(w) = {} <=> w \in Seq(PlainBytes)
  BY EscapesAre
<1>2. PICK W, P : W = Seq(Nat) /\ P = Seq(PlainBytes)
  OBVIOUS
<1>3. /\ p \in Seq(W) /\ DOMAIN p = 1..Len(p)
      /\ \A k \in 1..Len(p) : p[k] \in W
  BY <1>2
<1>4. ASSUME Plain(p) PROVE p \in Seq(P)
  <2>1. \A k \in 1..Len(p) : Escapes(p[k]) = {}
    BY <1>3, <1>4 DEF Plain
  <2>2. \A k \in 1..Len(p) : p[k] \in P
    BY <1>1, <1>2, <1>3, <2>1
  <2>3. p = [k \in 1..Len(p) |-> p[k]] /\ Len(p) \in Nat
    OBVIOUS
  <2> QED
    BY <2>2, <2>3, SMTT(30)
<1>5. ASSUME p \in Seq(P) PROVE Plain(p)
  <2>1. \A k \in 1..Len(p) : p[k] \in P
    BY <1>5
  <2>2. \A k \in 1..Len(p) : Escapes(p[k]) = {}
    BY <1>1, <1>2, <1>3, <2>1
  <2> QED
    BY <1>3, <2>2 DEF Plain
<1> QED
  BY <1>2, <1>4, <1>5

(* A url is without percent signs if the names it leads to are. *)
LEMMA PlainPlace ==
  ASSUME NEW u \in Seq(Nat)
  PROVE  /\ Place(u) \in Seq(Seq(Nat))
         /\ Plain(Place(u)) <=> u \in Seq(PlainBytes)
<1>1. Place(u) \in Seq(Seq(Nat))
  <2>1. Place(u) \in Seq(Seq(Nat) \ {<<>>})
    BY SlashIsByte, PlaceType
  <2> QED
    BY <2>1
<1>2. ASSUME Plain(Place(u)) PROVE u \in Seq(PlainBytes)
  <2>1. Place(u) \in Seq(Seq(PlainBytes))
    BY <1>1, <1>2, PlainAre
  <2>2. PICK c \in Nat : c = Slash
    BY SlashIsByte
  <2>3. Split(u, <<c>>) \in Seq(Seq(PlainBytes))
    BY <2>1, <2>2 DEF Place
  <2>4. u \in Seq(PlainBytes \cup {c})
    BY <2>3, SplitCovers
  <2>5. PlainBytes \cup {c} = PlainBytes
    BY <2>2, SlashIsByte
  <2> QED
    BY <2>4, <2>5
<1>3. ASSUME u \in Seq(PlainBytes) PROVE Plain(Place(u))
  <2>1. Place(u) \in Seq(Seq(PlainBytes) \ {<<>>})
    BY <1>3, SlashIsByte, PlaceType
  <2>2. Place(u) \in Seq(Seq(PlainBytes))
    BY <2>1
  <2> QED
    BY <1>1, <2>2, PlainAre
<1> QED
  BY <1>1, <1>2, <1>3

(* Such a url is decoded to itself. *)
LEMMA PlainUrl ==
  ASSUME NEW u \in Seq(PlainBytes)
  PROVE  /\ u \in Seq(Nat) /\ WellFormed(u) /\ Decoded(u) = u
         /\ decode_percent_encoding_url(u) = {u}
<1>1. u \in Seq(Nat)
  BY DEF PlainBytes
<1>2. Escapes(u) = {}
  BY <1>1, EscapesAre
<1> QED
  BY <1>1, <1>2, PlainIsDecoded, DecodingOf

LEMMA PlainMore ==
  ASSUME NEW t \in Seq(Seq(Nat)), NEW n \in Seq(Nat), Plain(t \o <<n>>)
  PROVE  Plain(t) /\ n \in Seq(PlainBytes)
<1>1. PICK w \in Seq(Nat) : w = n
  OBVIOUS
<1>2. PICK p \in Seq(Seq(Nat)) : p = t \o <<w>> /\ IsMore(p, t, w)
  BY <1>1, OneElementMore
<1>3. p \in Seq(Seq(PlainBytes)) /\ p # <<>>
  BY <1>1, <1>2, PlainAre DEF IsMore
<1>4. \E r \in Seq(Seq(PlainBytes)), x \in Seq(PlainBytes) : p = r \o <<x>> /\ IsMore(p, r, x)
  BY <1>3, EndsInMore
<1>5. t \in Seq(Seq(PlainBytes)) /\ w \in Seq(PlainBytes)
  BY <1>2, <1>4 DEF IsMore
<1> QED
  BY <1>1, <1>5, PlainAre

(* The path of a url leads to its place under the root. *)
LEMMA CompletePathIs ==
  ASSUME BrowsingTypes, NEW b \in Seq(Nat)
  PROVE  CompletePath(b) \in Seq(Nat) /\ Place(CompletePath(b)) = There(Place(b))
BY SlashIsByte, ConcatIs DEF CompletePath, There, BrowsingTypes

(* The page of a GET, whichever url it is for. *)
LEMMA GetMakes ==
  ASSUME BrowsingTypes, NEW u \in Seq(Nat), Get(u)
  PROVE  /\ url' = u /\ UNCHANGED <<root, tree, saved>>
         /\ page' \in {"list", "file", "notFound", "closed"}
         /\ PageIsMade'
<1>1. url' = u /\ root' = root /\ tree' = tree /\ saved' = saved
  BY DEF Get
<1>2. CASE WellFormed(u)
  <2>1. PICK b \in Seq(Nat) : b = Decoded(u) /\ decode_percent_encoding_url(u) = {b}
    BY <1>2, DecodingOf
  <2>2. PICK path \in Seq(Nat) : path = CompletePath(b) /\ Place(path) = There(Place(b))
    BY CompletePathIs
  <2>3. /\ page' = IF IsDir(path) THEN "list" ELSE IF IsFile(path) THEN "file" ELSE "notFound"
        /\ links' = IF page' = "list" THEN DirList(path, b) ELSE {}
        /\ type' = IF page' = "file" THEN get_file_extension(path) ELSE <<>>
    BY <2>1, <2>2 DEF Get
  <2>4. \A p \in DOMAIN tree : tree[p] \in {"dir", "reg", "link"}
    BY DEF BrowsingTypes
  <2>5. page' = IF There(Place(b)) \notin DOMAIN tree THEN "notFound"
                ELSE IF tree[There(Place(b))] = "dir" THEN "list"
                ELSE IF EndsInSlash(path) THEN "notFound" ELSE "file"
    BY <2>2, <2>3, <2>4 DEF IsDir, IsFile
  <2>6. CompletePath(b)' = path /\ There(Place(b))' = There(Place(b))
    BY <1>1, <2>2 DEF CompletePath, There
  <2>7. Shows(There(Place(Decoded(url))))'
    BY <1>1, <2>1, <2>5, <2>6 DEF Shows
  <2>8. DirList(path, b)' = DirList(path, b)
    BY <1>1 DEF DirList, WalkDir
  <2>9. page' = "list" => (links = DirList(CompletePath(Decoded(url)), Decoded(url)))'
    BY <1>1, <2>1, <2>3, <2>6, <2>8
  <2>10. page' = "file" => (type = get_file_extension(CompletePath(Decoded(url))))'
    BY <1>1, <2>1, <2>3, <2>6
  <2>11. page' \in {"list", "file", "notFound"}
    BY <2>3
  <2> QED
    BY <1>1, <1>2, <2>7, <2>9, <2>10, <2>11 DEF PageIsMade
<1>3. CASE ~WellFormed(u)
  <2>1. page' = "closed"
    BY <1>3, DecodingOf DEF Get
  <2> QED
    BY <1>1, <1>3, <2>1 DEF PageIsMade
<1> QED
  BY <1>2, <1>3

(* The links of a page, their names and urls. *)
LEMMA DirListIs ==
  ASSUME BrowsingTypes, NEW path, NEW u \in Seq(Nat), NEW link \in DirList(path, u)
  PROVE  link.name \in Word /\ link.href = concatenate_path(u, link.name) /\ link.href \in Seq(Nat)
<1>1. PICK n \in WalkDir(path) : link = [name |-> n, href |-> concatenate_path(u, n)]
  BY DEF DirList
<1>2. PICK p \in DOMAIN tree : p # <<>> /\ n = p[Len(p)]
  BY <1>1 DEF WalkDir
<1>3. p \in Seq(Word)
  BY DEF BrowsingTypes
<1>4. n \in Word
  BY <1>2, <1>3
<1>5. n \in Seq(Nat)
  BY <1>4 DEF Word
<1> QED
  BY <1>1, <1>4, <1>5, SlashIsByte, ConcatIs

LEMMA InitBrowses == BrowsingInit => BrowsingInv
<1> SUFFICES ASSUME BrowsingInit PROVE BrowsingInv
  OBVIOUS
<1>1. root \in Seq(Nat) /\ root # <<>>
  BY BrowsingAssumption DEF BrowsingInit
<1>2. \A p \in DOMAIN tree : p \in Seq(Word) /\ tree[p] \in {"dir", "reg", "link"}
  <2> SUFFICES ASSUME NEW p \in DOMAIN tree PROVE p \in Seq(Word) /\ tree[p] \in {"dir", "reg", "link"}
    OBVIOUS
  <2>1. /\ p \in Seq(Seq(Nat)) /\ \A k \in DOMAIN p : IsName(p[k])
        /\ tree[p] \in {"dir", "reg", "link"}
    BY BrowsingAssumption DEF BrowsingInit
  <2>2. PICK W : W = Word
    OBVIOUS
  <2>3. \A k \in 1..Len(p) : p[k] \in W
    BY <2>1, <2>2, NamesAreWords
  <2>4. p = [k \in 1..Len(p) |-> p[k]] /\ Len(p) \in Nat
    BY <2>1
  <2>5. p \in Seq(W)
    BY <2>3, <2>4
  <2> QED
    BY <2>1, <2>2, <2>5
<1>3. BrowsingTypes
  BY <1>1, <1>2 DEF BrowsingTypes, BrowsingInit
<1>4. page = "none" /\ saved = {}
  BY DEF BrowsingInit
<1> QED
  BY <1>3, <1>4 DEF BrowsingInv, PageIsMade, PlainArrives, UploadsAreThere

(* A step that gets a page keeps the invariant, if it knows where it leads. *)
LEMMA GetBrowses ==
  ASSUME BrowsingInv, NEW u \in Seq(Nat), Get(u), at' \in Seq(Seq(Nat)), PlainArrives'
  PROVE  BrowsingInv'
<1>1. BrowsingTypes /\ UploadsAreThere
  BY DEF BrowsingInv
<1>2. /\ url' = u /\ root' = root /\ tree' = tree /\ saved' = saved
      /\ page' \in {"list", "file", "notFound", "closed"}
      /\ PageIsMade'
  BY <1>1, GetMakes
<1>3. BrowsingTypes'
  BY <1>1, <1>2 DEF BrowsingTypes
<1>4. UploadsAreThere'
  BY <1>1, <1>2 DEF UploadsAreThere, There
<1> QED
  BY <1>2, <1>3, <1>4 DEF BrowsingInv

LEMMA BeginBrowses == BrowsingInv /\ Begin => BrowsingInv'
<1> SUFFICES ASSUME BrowsingInv, Begin PROVE BrowsingInv'
  OBVIOUS
<1>1. PICK u \in StartUrls : Get(u) /\ at' = Place(u)
  BY DEF Begin
<1>2. u \in Seq(Nat)
  BY BrowsingAssumption
<1>3. url' = u
  BY <1>1 DEF Get
<1>4. PlainArrives'
  BY <1>1, <1>2, <1>3, PlainPlace DEF PlainArrives
<1> QED
  BY <1>1, <1>2, <1>4, PlainPlace, GetBrowses

(* A link of a page leads to the place that it names. *)
LEMMA FollowBrowses == BrowsingInv /\ Follow => BrowsingInv'
<1> SUFFICES ASSUME BrowsingInv, Follow PROVE BrowsingInv'
  OBVIOUS
<1>1. BrowsingTypes /\ PageIsMade /\ PlainArrives
  BY DEF BrowsingInv
<1>2. page = "list" /\ page # "none"
  BY DEF Follow
<1>3. PICK link \in links : Get(link.href) /\ at' = Append(at, link.name)
  BY DEF Follow
<1>4. PICK b \in Seq(Nat) : b = Decoded(url)
  BY <1>1, <1>2, DecodingOf DEF PageIsMade, BrowsingTypes
<1>5. links = DirList(CompletePath(b), b)
  BY <1>1, <1>2, <1>4 DEF PageIsMade
<1>6. PICK n : n = link.name /\ n \in Word /\ link.href = concatenate_path(b, n) /\ link.href \in Seq(Nat)
  BY <1>1, <1>3, <1>5, DirListIs
<1>7. n \in Seq(Nat) /\ at \in Seq(Seq(Nat))
  BY <1>1, <1>6 DEF Word, BrowsingTypes
<1>8. at' = at \o <<n>> /\ at' \in Seq(Seq(Nat))
  BY <1>3, <1>6, <1>7, AppendIsMore
<1>9. PlainArrives'
  <2> SUFFICES ASSUME Plain(at)' PROVE url' \in Seq(PlainBytes) /\ Place(url') = at'
    BY DEF PlainArrives
  <2>1. Plain(at \o <<n>>)
    BY <1>8 DEF Plain
  <2>2. Plain(at) /\ n \in Seq(PlainBytes)
    BY <1>7, <2>1, PlainMore
  <2>3. url \in Seq(PlainBytes) /\ Place(url) = at
    BY <1>1, <1>2, <2>2 DEF PlainArrives
  <2>4. b = url
    BY <1>4, <2>3, PlainUrl
  <2>5. url' = concatenate_path(url, n)
    BY <1>3, <1>6, <2>4 DEF Get
  <2>6. Place(n) = <<n>>
    <3>1. n # <<>> /\ \A k \in 1..Len(n) : n[k] # Slash
      BY <1>6 DEF Word
    <3>2. PICK c \in Nat : c = Slash
      BY SlashIsByte
    <3>3. Split(n, <<c>>) = <<n>>
      BY <1>7, <3>1, <3>2, SplitWhole
    <3> QED
      BY <3>2, <3>3 DEF Place
  <2> QED
    BY <1>8, <2>2, <2>3, <2>5, <2>6, SlashIsByte, ConcatIs
<1> QED
  BY <1>3, <1>6, <1>8, <1>9, GetBrowses

LEMMA GoBackBrowses == BrowsingInv /\ GoBack => BrowsingInv'
<1> SUFFICES ASSUME BrowsingInv, GoBack PROVE BrowsingInv'
  OBVIOUS
<1>1. page # "none" /\ Get(url) /\ at' = at
  BY DEF GoBack
<1>2. PlainArrives /\ url \in Seq(Nat) /\ at \in Seq(Seq(Nat))
  BY DEF BrowsingInv, BrowsingTypes
<1>3. url' = url
  BY <1>1 DEF Get
<1>4. PlainArrives'
  BY <1>1, <1>2, <1>3 DEF PlainArrives, Plain
<1> QED
  BY <1>1, <1>2, <1>4, GetBrowses

(* Places under the root. *)
LEMMA PlacesAre ==
  ASSUME BrowsingTypes, NEW p \in Seq(Seq(Nat)), NEW w \in Seq(Nat)
  PROVE  /\ There(p) \in Seq(Seq(Nat))
         /\ There(p \o <<w>>) = There(p) \o <<w>>
<1>1. Place(root) \in Seq(Seq(Nat))
  BY PlainPlace DEF BrowsingTypes
<1>2. PICK X : X = Seq(Nat)
  OBVIOUS
<1>3. Place(root) \in Seq(X) /\ p \in Seq(X) /\ w \in X
  BY <1>1, <1>2
<1>4. Place(root) \o p \in Seq(X)
  BY <1>3, ConcatProperties
<1>5. Place(root) \o (p \o <<w>>) = (Place(root) \o p) \o <<w>>
  BY <1>3, MoreBehind
<1> QED
  BY <1>2, <1>4, <1>5 DEF There

(* A saved file is added, in a directory that exists, and nothing else     *)
(* changes.                                                                *)
LEMMA SaveAdds ==
  ASSUME BrowsingTypes, NEW b \in Seq(Nat), NEW name \in FileNames, Save(b, name)
  PROVE  /\ \A p \in DOMAIN tree : p \in DOMAIN tree' /\ tree'[p] = tree[p]
         /\ \A p \in DOMAIN tree' : p \in Seq(Word) /\ tree'[p] \in {"dir", "reg", "link"}
         /\ There(Place(b)) \in DOMAIN tree /\ tree[There(Place(b))] = "dir" =>
              There(Place(b) \o <<name>>) \in DOMAIN tree'
<1>1. name \in Word /\ name \in Seq(Nat) /\ Place(name) = <<name>>
  BY BrowsingAssumption, NamesAreWords
<1>2. PICK front : front = There(Place(b)) /\ front \in Seq(Seq(Nat))
  BY PlainPlace, PlacesAre
<1>3. PICK place : place = Place(SavePath(b, name))
  OBVIOUS
<1>4. place = front \o <<name>> /\ place = There(Place(b) \o <<name>>)
  <2>1. CompletePath(b) \in Seq(Nat) /\ Place(CompletePath(b)) = front
    BY <1>2, CompletePathIs
  <2>2. place = front \o <<name>>
    BY <1>1, <1>3, <2>1, SlashIsByte, ConcatIs DEF SavePath
  <2>3. There(Place(b) \o <<name>>) = front \o <<name>>
    BY <1>1, <1>2, PlainPlace, PlacesAre
  <2> QED
    BY <2>2, <2>3
<1>5. SubSeq(place, 1, Len(place) - 1) = front
  <2>1. PICK w \in Seq(Nat) : w = name
    BY <1>1
  <2>2. IsMore(front \o <<w>>, front, w)
    BY <1>2, OneElementMore
  <2> QED
    BY <1>4, <2>1, <2>2 DEF IsMore
<1> DEFINE creates == place \notin DOMAIN tree /\ front \in DOMAIN tree /\ tree[front] = "dir"
<1>6. tree' = IF creates
              THEN [p \in DOMAIN tree \cup {place} |-> IF p = place THEN "reg" ELSE tree[p]] ELSE tree
  BY <1>3, <1>5 DEF Save
<1>7. \A p \in DOMAIN tree : p \in Seq(Word) /\ tree[p] \in {"dir", "reg", "link"}
  BY DEF BrowsingTypes
<1>8. CASE ~creates
  <2>1. tree' = tree
    BY <1>6, <1>8
  <2> QED
    BY <1>2, <1>4, <1>7, <1>8, <2>1
<1>9. CASE creates
  <2>1. tree' = [p \in DOMAIN tree \cup {place} |-> IF p = place THEN "reg" ELSE tree[p]]
    BY <1>6, <1>9
  <2>2. place \in Seq(Word)
    <3>1. PICK W : W = Word
      OBVIOUS
    <3>2. front \in Seq(W) /\ name \in W
      BY <1>1, <1>7, <1>9, <3>1
    <3>3. front \o <<name>> \in Seq(W)
      BY <3>2, OneElementMore
    <3> QED
      BY <1>4, <3>1, <3>3
  <2>3. DOMAIN tree' = DOMAIN tree \cup {place}
    BY <2>1
  <2>4. \A p \in DOMAIN tree : tree'[p] = tree[p]
    BY <1>9, <2>1
  <2>5. tree'[place] = "reg"
    BY <2>1
  <2> QED
    BY <1>4, <1>7, <2>2, <2>3, <2>4, <2>5
<1> QED
  BY <1>8, <1>9

(* An upload from a directory's page is saved in that directory. *)
LEMMA UploadBrowses == BrowsingInv /\ Upload => BrowsingInv'
<1> SUFFICES ASSUME BrowsingInv, Upload PROVE BrowsingInv'
  OBVIOUS
<1>1. BrowsingTypes /\ PageIsMade /\ PlainArrives /\ UploadsAreThere
  BY DEF BrowsingInv
<1>2. /\ page = "list" /\ page # "none"
      /\ root' = root /\ url' = url /\ at' = at /\ page' \in {"refused", "uploaded"}
  BY DEF Upload
<1>3. url \in Seq(Nat) /\ at \in Seq(Seq(Nat))
  BY <1>1 DEF BrowsingTypes
<1>4. PageIsMade'
  BY <1>2 DEF PageIsMade
<1>5. PlainArrives'
  BY <1>1, <1>2 DEF PlainArrives, Plain
<1>6. PICK name \in FileNames, action \in decode_percent_encoding_url(url) :
        \/ tree' = tree /\ saved' = saved
        \/ /\ \E basePath \in decode_percent_encoding_url(action) : Save(basePath, name)
           /\ saved' = saved \cup {Append(at, name)}
  BY DEF Upload
<1>7. CASE tree' = tree /\ saved' = saved
  <2>1. BrowsingTypes'
    BY <1>1, <1>2, <1>7 DEF BrowsingTypes
  <2>2. UploadsAreThere'
    BY <1>1, <1>2, <1>7 DEF UploadsAreThere, There
  <2> QED
    BY <1>4, <1>5, <2>1, <2>2 DEF BrowsingInv
<1>8. ASSUME NEW b \in decode_percent_encoding_url(action), Save(b, name), saved' = saved \cup {Append(at, name)}
      PROVE  BrowsingInv'
  <2>1. action \in Seq(Nat) /\ b \in Seq(Nat)
    BY <1>3, <1>8, DecodingOf
  <2>2. /\ \A p \in DOMAIN tree : p \in DOMAIN tree' /\ tree'[p] = tree[p]
        /\ \A p \in DOMAIN tree' : p \in Seq(Word) /\ tree'[p] \in {"dir", "reg", "link"}
        /\ There(Place(b)) \in DOMAIN tree /\ tree[There(Place(b))] = "dir" =>
              There(Place(b) \o <<name>>) \in DOMAIN tree'
    BY <1>1, <1>8, <2>1, SaveAdds
  <2>3. PICK w \in Seq(Nat) : w = name
    BY BrowsingAssumption, NamesAreWords
  <2>4. PICK s \in Seq(Seq(Nat)) : s = Append(at, name) /\ s = at \o <<w>> /\ IsMore(s, at, w)
    BY <1>3, <2>3, AppendIsMore, OneElementMore
  <2>5. BrowsingTypes'
    <3>1. saved' \subseteq Seq(Seq(Nat)) \ {<<>>}
      BY <1>1, <1>8, <2>4 DEF BrowsingTypes, IsMore
    <3>2. /\ root' \in Seq(Nat) /\ root' # <<>> /\ url' \in Seq(Nat) /\ at' \in Seq(Seq(Nat))
      BY <1>1, <1>2 DEF BrowsingTypes
    <3> QED
      BY <1>2, <2>2, <3>1, <3>2 DEF BrowsingTypes
  <2>6. ASSUME Plain(at) PROVE There(s) \in DOMAIN tree'
    <3>1. url \in Seq(PlainBytes) /\ Place(url) = at
      BY <1>1, <1>2, <2>6 DEF PlainArrives
    <3>2. Decoded(url) = url /\ action = url /\ b = url
      BY <1>8, <3>1, PlainUrl
    <3>3. Shows(There(at))
      BY <1>1, <1>2, <3>1, <3>2 DEF PageIsMade
    <3>4. There(at) \in DOMAIN tree /\ tree[There(at)] = "dir"
      BY <1>2, <3>3 DEF Shows
    <3> QED
      BY <2>2, <2>3, <2>4, <3>1, <3>2, <3>4
  <2>7. UploadsAreThere'
    <3> SUFFICES ASSUME NEW r \in saved', Plain(SubSeq(r, 1, Len(r) - 1)) PROVE There(r)' \in DOMAIN tree'
      BY DEF UploadsAreThere, Plain
    <3>1. There(r)' = There(r)
      BY <1>2 DEF There
    <3>2. CASE r \in saved
      BY <1>1, <2>2, <3>1, <3>2 DEF UploadsAreThere
    <3>3. CASE r = s
      BY <2>4, <2>6, <3>1, <3>3 DEF IsMore
    <3> QED
      BY <1>8, <2>4, <3>2, <3>3
  <2> QED
    BY <1>4, <1>5, <2>5, <2>7 DEF BrowsingInv
<1> QED
  BY <1>6, <1>7, <1>8

LEMMA BrowsingInvariant == BrowsingSpec => []BrowsingInv
<1>1. BrowsingInv /\ [BrowsingNext]_browsingVars => BrowsingInv'
  <2> SUFFICES ASSUME BrowsingInv, [BrowsingNext]_browsingVars PROVE BrowsingInv'
    OBVIOUS
  <2>1. CASE BrowsingNext
    BY <2>1, BeginBrowses, FollowBrowses, GoBackBrowses, UploadBrowses DEF BrowsingNext
  <2>2. CASE UNCHANGED browsingVars
    <3>1. BrowsingTypes' /\ PageIsMade' /\ PlainArrives' /\ UploadsAreThere'
      BY <2>2 DEF browsingVars, BrowsingInv, BrowsingTypes, PageIsMade, PlainArrives, UploadsAreThere,
                  Shows, There, CompletePath, DirList, WalkDir, Plain
    <3> QED
      BY <3>1 DEF BrowsingInv
  <2> QED
    BY <2>1, <2>2
<1> QED
  BY <1>1, InitBrowses, PTL DEF BrowsingSpec

(* A page is what is at the url's path under the root, and a link leads to *)
(* what it names.                                                          *)
THEOREM PageIsOfUrlCorrect == BrowsingSpec => []PageIsOfUrl
<1>1. BrowsingInv => PageIsOfUrl
  <2> SUFFICES ASSUME BrowsingInv, page \notin {"none", "uploaded", "refused"}
               PROVE  /\ page = "closed" <=> ~WellFormed(url)
                      /\ WellFormed(url) => /\ decode_percent_encoding_url(url) = {Decoded(url)}
                                            /\ Shows(There(Place(Decoded(url))))
                      /\ Plain(at) => Shows(There(at))
    BY DEF PageIsOfUrl
  <2>1. page \in {"list", "file", "notFound", "closed"} /\ url \in Seq(Nat)
    BY DEF BrowsingInv, BrowsingTypes
  <2>2. /\ page = "closed" => ~WellFormed(url)
        /\ page \in {"list", "file", "notFound"} => WellFormed(url) /\ Shows(There(Place(Decoded(url))))
    BY DEF BrowsingInv, PageIsMade
  <2>3. page = "closed" <=> ~WellFormed(url)
    BY <2>1, <2>2
  <2>4. WellFormed(url) => Shows(There(Place(Decoded(url))))
    BY <2>1, <2>2
  <2>5. WellFormed(url) => decode_percent_encoding_url(url) = {Decoded(url)}
    BY <2>1, DecodingOf
  <2>6. ASSUME Plain(at) PROVE Shows(There(at))
    <3>1. url \in Seq(PlainBytes) /\ Place(url) = at
      BY <2>1, <2>6 DEF BrowsingInv, PlainArrives
    <3>2. WellFormed(url) /\ Decoded(url) = url
      BY <3>1, PlainUrl
    <3> QED
      BY <2>4, <3>1, <3>2
  <2> QED
    BY <2>3, <2>4, <2>5, <2>6
<1> QED
  BY <1>1, BrowsingInvariant, PTL

(* An upload is in the directory from whose page it was sent, and the page *)
(* lists it.                                                               *)
THEOREM UploadIsListedCorrect == BrowsingSpec => []UploadIsListed
<1>1. BrowsingInv => UploadIsListed
  <2> SUFFICES ASSUME BrowsingInv, NEW s \in saved, Plain(SubSeq(s, 1, Len(s) - 1))
               PROVE  /\ There(s) \in DOMAIN tree
                      /\ page = "list" /\ at = SubSeq(s, 1, Len(s) - 1) /\ tree[There(s)] # "link" =>
                           \E link \in links : link.name = s[Len(s)]
    BY DEF UploadIsListed
  <2>1. BrowsingTypes /\ PageIsMade /\ PlainArrives
    BY DEF BrowsingInv
  <2>2. PICK t \in Seq(Seq(Nat)), w \in Seq(Nat) : s = t \o <<w>> /\ IsMore(s, t, w)
    <3>1. s \in Seq(Seq(Nat)) /\ s # <<>>
      BY <2>1 DEF BrowsingTypes
    <3> QED
      BY <3>1, EndsInMore
  <2>3. There(s) \in DOMAIN tree
    BY DEF BrowsingInv, UploadsAreThere
  <2>4. ASSUME page = "list", at = t, tree[There(s)] # "link"
        PROVE  \E link \in links : link.name = w
    <3>1. Plain(at)
      BY <2>2, <2>4 DEF IsMore
    <3>2. url \in Seq(PlainBytes) /\ Place(url) = t
      BY <2>1, <2>4, <3>1 DEF PlainArrives
    <3>3. PICK path : path = CompletePath(url) /\ Place(path) = There(t)
      BY <2>1, <3>2, PlainUrl, CompletePathIs
    <3>4. links = DirList(path, url)
      BY <2>1, <2>4, <3>2, <3>3, PlainUrl DEF PageIsMade
    <3>5. IsMore(There(s), There(t), w)
      <4>1. PICK front \in Seq(Seq(Nat)) : front = There(t)
        BY <2>1, PlacesAre
      <4>2. There(s) = front \o <<w>>
        BY <2>1, <2>2, <4>1, PlacesAre
      <4>3. IsMore(front \o <<w>>, front, w)
        BY OneElementMore
      <4> QED
        BY <4>1, <4>2, <4>3
    <3>6. tree[There(s)] \in {"dir", "reg"}
      BY <2>1, <2>3, <2>4 DEF BrowsingTypes
    <3>7. w \in WalkDir(path)
      BY <2>3, <3>3, <3>5, <3>6 DEF WalkDir, IsMore
    <3>8. [name |-> w, href |-> concatenate_path(url, w)] \in links
      BY <3>4, <3>7 DEF DirList
    <3> QED
      BY <3>8
  <2> QED
    BY <2>2, <2>3, <2>4 DEF IsMore
<1> QED
  BY <1>1, BrowsingInvariant, PTL

(* A byte of a text without dots. *)
NoDots == Nat \ {Dot}

LEMMA DotIsByte == Dot \in Nat /\ Slash \in NoDots
  BY DEF Dot, Slash, NoDots

(* A text has a dot, or is cut at its first one. *)
LEMMA DotsAre ==
  ASSUME NEW s \in Seq(Nat)
  PROVE  /\ ~HasDot(s) <=> s \in Seq(NoDots)
         /\ HasDot(s) => \E x \in Seq(NoDots), y \in Seq(Nat) :
              /\ Joined(s, x, Dot, y)
              /\ \E n \in 0..Len(s) : x = SubSeq(s, 1, n)
<1>1. PICK c \in Nat : c = Dot
  BY DotIsByte
<1>2. PICK p : p = <<c>>
  OBVIOUS
<1>3. PICK k : k = Find(p, s, 1)
  OBVIOUS
<1>4. \A n \in 1..Len(s) : Occurs(p, s, n) <=> s[n] = c
  BY <1>2, OccursByte
<1>5. HasDot(s) <=> k # npos
  BY <1>1, <1>2, <1>3 DEF HasDot
<1>6. \/ k = npos /\ \A n \in 1..Len(s) : ~Occurs(p, s, n)
      \/ k \in 1..Len(s) /\ Occurs(p, s, k) /\ \A n \in 1..k - 1 : ~Occurs(p, s, n)
  <2>1. 1 \in Nat \ {0} /\ Len(s) \in Nat
    OBVIOUS
  <2> QED
    BY <1>3, <2>1, FindIsFirst
<1>7. CASE k = npos
  <2>1. \A n \in 1..Len(s) : s[n] \in NoDots
    BY <1>1, <1>4, <1>6, <1>7 DEF npos, NoDots
  <2>2. s = [n \in 1..Len(s) |-> s[n]] /\ Len(s) \in Nat
    OBVIOUS
  <2>3. s \in Seq(NoDots)
    BY <2>1, <2>2
  <2> QED
    BY <1>5, <1>7, <2>3
<1>8. CASE k # npos
  <2>1. PICK n \in 1..Len(s) : n = k /\ s[n] = c /\ \A i \in 1..n - 1 : i \in 1..Len(s) /\ s[i] # c
    <3>1. k \in 1..Len(s) /\ Occurs(p, s, k) /\ \A n \in 1..k - 1 : ~Occurs(p, s, n)
      BY <1>6, <1>8
    <3>2. \A i \in 1..k - 1 : i \in 1..Len(s)
      BY <3>1
    <3> QED
      BY <1>4, <3>1, <3>2
  <2>0. PICK x \in Seq(Nat), y \in Seq(Nat) : IsCut(s, n, x, y)
    BY Cuts
  <2>2. /\ x = SubSeq(s, 1, n - 1) /\ Joined(s, x, c, y)
        /\ Len(x) = n - 1 /\ \A i \in 1..n - 1 : x[i] = s[i]
    BY <2>0, <2>1 DEF IsCut
  <2>3. x \in Seq(NoDots)
    <3>1. \A i \in 1..Len(x) : x[i] \in NoDots
      BY <1>1, <2>1, <2>2 DEF NoDots
    <3> QED
      BY <3>1, ElementsIn
  <2>4. s \notin Seq(NoDots)
    BY <1>1, <2>1 DEF NoDots
  <2>5. n - 1 \in 0..Len(s)
    OBVIOUS
  <2> QED
    BY <1>1, <1>5, <1>8, <2>2, <2>3, <2>4, <2>5
<1> QED
  BY <1>7, <1>8

(* get_file_extension returns what is behind the first dot. *)
LEMMA ExtensionIs ==
  ASSUME NEW s \in Seq(Nat), NEW x \in Seq(NoDots), NEW y \in Seq(Nat), Joined(s, x, Dot, y)
  PROVE  get_file_extension(s) = y
<1>1. PICK c \in Nat : c = Dot
  BY DotIsByte
<1>2. PICK n \in Nat, m \in Nat, l \in Nat : n = Len(x) + 1 /\ m = Len(y) /\ l = Len(s)
  OBVIOUS
<1>3. /\ l = n + m /\ n \in 1..l /\ s[n] = c
      /\ \A i \in 1..n - 1 : s[i] = x[i] /\ x[i] # c
      /\ \A j \in 1..m : s[n + j] = y[j]
  BY <1>1, <1>2 DEF Joined, Before, Follows, NoDots
<1>4. EndsAt(s, c, 1, n)
  BY <1>2, <1>3, SMTT(30) DEF EndsAt
<1>5. WordEnd(s, c, 1) = n
  <2>1. 1 \in 1..Len(s) + 1
    BY <1>2
  <2> QED
    BY <1>4, <2>1, EndIsUnique
<1>6. Find(<<c>>, s, 1) = n /\ n # npos
  BY <1>2, <1>3, <1>5 DEF WordEnd, npos
<1>7. get_file_extension(s) = SubSeq(s, n + 1, Len(s))
  BY <1>1, <1>6 DEF get_file_extension
<1>8. PICK t \in Seq(Nat) : t = SubSeq(s, n + 1, Len(s)) /\ Len(t) = m /\ \A j \in 1..m : t[j] = s[n + j]
  <2>1. n \in 1..Len(s)
    BY <1>2, <1>3
  <2>2. PICK a \in Seq(Nat), t \in Seq(Nat) : IsCut(s, n, a, t)
    BY <2>1, Cuts
  <2>3. t = SubSeq(s, n + 1, Len(s)) /\ Len(s) = n + Len(t) /\ \A i \in 1..Len(t) : t[i] = s[n + i]
    BY <2>2 DEF IsCut
  <2>4. PICK k \in Nat : k = Len(t)
    OBVIOUS
  <2>5. l = n + k
    BY <1>2, <2>3, <2>4
  <2>6. k = m
    <3>1. l = n + m /\ l = n + k
      BY <1>3, <2>5
    <3>2. n \in Nat /\ m \in Nat /\ k \in Nat
      BY <1>2, <2>4
    <3> HIDE <1>2
    <3> QED
      BY <3>1, <3>2
  <2> QED
    BY <2>3, <2>4, <2>6
<1>9. t = y
  <2>1. Len(t) = Len(y) /\ \A j \in 1..Len(t) : t[j] = y[j]
    BY <1>2, <1>3, <1>8
  <2> QED
    BY <2>1, SeqEqual
<1> QED
  BY <1>7, <1>8, <1>9

(* A text has no slash, or is cut at its last one. *)
LEMMA LastCut ==
  ASSUME NEW s \in Seq(Nat)
  PROVE  \/ s \in Seq(Nat \ {Slash})
         \/ \E a \in Seq(Nat), b \in Seq(Nat \ {Slash}) : Joined(s, a, Slash, b)
<1> DEFINE places == {n \in 1..Len(s) : s[n] = Slash}
<1>1. CASE places = {}
  <2>1. \A n \in 1..Len(s) : s[n] \in Nat \ {Slash}
    BY <1>1
  <2>2. s = [n \in 1..Len(s) |-> s[n]] /\ Len(s) \in Nat
    OBVIOUS
  <2> QED
    BY <2>1, <2>2
<1>2. CASE places # {}
  <2>1. PICK n \in places : \A j \in places : j <= n
    <3>1. Len(s) \in Nat /\ places \in SUBSET (1..Len(s))
      OBVIOUS
    <3> HIDE DEF places
    <3> QED
      BY <1>2, <3>1, Greatest
  <2>2. n \in 1..Len(s) /\ s[n] = Slash
    OBVIOUS
  <2>3. \A k \in 1..Len(s) : n < k => s[k] # Slash
    BY <2>1
  <2>0. PICK a \in Seq(Nat), b \in Seq(Nat) : IsCut(s, n, a, b)
    BY <2>2, Cuts
  <2>4. /\ Joined(s, a, Slash, b) /\ Len(s) = n + Len(b)
        /\ \A i \in 1..Len(b) : b[i] = s[n + i]
    BY <2>0, <2>2 DEF IsCut
  <2>5. Len(s) = n + Len(b) /\ Len(b) \in Nat
    BY <2>4
  <2>6. \A i \in 1..Len(b) : b[i] \in Nat \ {Slash}
    <3> SUFFICES ASSUME NEW i \in 1..Len(b) PROVE b[i] \in Nat \ {Slash}
      OBVIOUS
    <3>1. n + i \in 1..Len(s) /\ n < n + i
      BY <2>2, <2>5
    <3> QED
      BY <2>3, <2>4, <3>1, SMTT(30)
  <2>8. b \in Seq(Nat \ {Slash})
    BY <2>6, ElementsIn
  <2> QED
    BY <2>4, <2>8
<1> QED
  BY <1>1, <1>2

(* w is the last name of path: what stands before it has no dot. *)
EndsInName(path, w) ==
  path = w \/ \E a \in Seq(NoDots) : Joined(path, a, Slash, w)

(* A name without a dot has no extension, ... *)
LEMMA NoExtension ==
  ASSUME NEW path \in Seq(Nat), NEW w \in Seq(NoDots), EndsInName(path, w)
  PROVE  get_file_extension(path) = <<>>
<1>1. path \in Seq(NoDots)
  <2>1. CASE path = w
    BY <2>1
  <2>2. ASSUME NEW a \in Seq(NoDots), Joined(path, a, Slash, w) PROVE path \in Seq(NoDots)
    <3>1. PICK z \in Seq(NoDots) : z = a \o <<Slash>> \o w
      BY DotIsByte, ConcatJoined
    <3>2. a \in Seq(Nat) /\ w \in Seq(Nat) /\ Slash \in Nat
      BY DotIsByte DEF NoDots
    <3>3. path = z
      BY <2>2, <3>1, <3>2, JoinedIs
    <3> QED
      BY <3>3
  <2> QED
    BY <2>1, <2>2 DEF EndsInName
<1>2. ~HasDot(path)
  BY <1>1, DotsAre
<1> QED
  BY <1>2 DEF HasDot, get_file_extension

(* ... and one with a dot has what is behind it. *)
LEMMA ExtensionOfName ==
  ASSUME NEW path \in Seq(Nat), NEW w \in Seq(Nat), EndsInName(path, w),
         NEW x \in Seq(NoDots), NEW y \in Seq(Nat), Joined(w, x, Dot, y)
  PROVE  get_file_extension(path) = y
<1>1. CASE path = w
  BY <1>1, ExtensionIs
<1>2. ASSUME NEW a \in Seq(NoDots), Joined(path, a, Slash, w) PROVE get_file_extension(path) = y
  <2>1. PICK z \in Seq(NoDots) : z = a \o <<Slash>> \o x
    BY DotIsByte, ConcatJoined
  <2>2. a \in Seq(Nat) /\ x \in Seq(Nat) /\ Slash \in Nat
    BY DotIsByte DEF NoDots
  <2>3. Joined(path, z, Dot, y)
    BY <1>2, <2>1, <2>2, JoinedTwice
  <2> QED
    BY <2>3, ExtensionIs
<1> QED
  BY <1>1, <1>2 DEF EndsInName

(* The last name of the place is the last one of the path. *)
LEMMA LastName ==
  ASSUME NEW path \in Seq(Nat), path # <<>> => ~EndsInSlash(path),
         NEW q \in Seq(Seq(NoDots)), NEW w \in Seq(Nat), Place(path) = q \o <<w>>
  PROVE  EndsInName(path, w)
<1>1. PICK p \in Seq(Seq(Nat)) : p = q \o <<w>> /\ IsMore(p, q, w)
  <2>1. q \in Seq(Seq(Nat))
    BY DEF NoDots
  <2> QED
    BY <2>1, OneElementMore
<1>2. p # <<>> /\ Place(path) = p
  BY <1>1 DEF IsMore
<1>3. path # <<>>
  BY <1>2, PlaceEmpty
<1>4. PICK c \in Nat : c = Slash
  BY SlashIsByte
<1>5. CASE path \in Seq(Nat \ {Slash})
  <2>1. Split(path, <<c>>) = <<path>>
    <3>1. \A n \in 1..Len(path) : path[n] # c
      BY <1>4, <1>5
    <3> QED
      BY <1>3, <3>1, SplitWhole
  <2>2. p = <<path>>
    BY <1>2, <1>4, <2>1 DEF Place
  <2>3. p[Len(p)] = path
    BY <2>2
  <2> QED
    BY <1>1, <2>3 DEF EndsInName, IsMore
<1>6. ASSUME NEW a \in Seq(Nat), NEW b \in Seq(Nat \ {Slash}), Joined(path, a, Slash, b)
      PROVE  EndsInName(path, w)
  <2>1. b \in Seq(Nat)
    OBVIOUS
  <2>2. Place(path) = Place(a) \o Place(b)
    BY <1>6, <2>1, SlashIsByte, PlaceJoined, ZenonT(30)
  <2>3. b # <<>>
    <3> SUFFICES ASSUME b = <<>> PROVE FALSE
      OBVIOUS
    <3>1. Len(b) = 0
      OBVIOUS
    <3>2. Len(path) = Len(a) + 1 /\ path[Len(a) + 1] = Slash
      BY <1>6, <3>1 DEF Joined, Before, Follows
    <3> QED
      BY <1>3, <3>2 DEF EndsInSlash
  <2>4. Place(b) = <<b>>
    <3>1. \A n \in 1..Len(b) : b[n] # c
      BY <1>4
    <3>2. Split(b, <<c>>) = <<b>>
      BY <2>1, <2>3, <3>1, SplitWhole
    <3> QED
      BY <1>4, <3>2 DEF Place
  <2>5. Place(a) \in Seq(Seq(Nat))
    BY PlainPlace
  <2>6. IsMore(Place(a) \o <<b>>, Place(a), b)
    BY <2>1, <2>5, OneElementMore
  <2>7. IsMore(p, Place(a), b)
    BY <1>2, <2>2, <2>4, <2>6
  <2>8. Place(a) = q /\ b = w
    BY <1>1, <2>7 DEF IsMore
  <2>9. a \in Seq(NoDots)
    <3>1. Split(a, <<c>>) \in Seq(Seq(NoDots))
      BY <1>4, <2>8 DEF Place
    <3>2. a \in Seq(NoDots \cup {c})
      BY <3>1, SplitCovers
    <3>3. NoDots \cup {c} = NoDots
      BY <1>4, DotIsByte
    <3> QED
      BY <3>2, <3>3
  <2> QED
    BY <1>6, <2>8, <2>9 DEF EndsInName
<1> QED
  BY <1>5, <1>6, LastCut

LEMMA NamesWithoutDots ==
  ASSUME NEW t \in Seq(Seq(Nat)), \A k \in 1..Len(t) : ~HasDot(t[k])
  PROVE  t \in Seq(Seq(NoDots))
<1>1. \A w \in Seq(Nat) : ~HasDot(w) => w \in Seq(NoDots)
  BY DotsAre
<1>2. PICK W, P : W = Seq(Nat) /\ P = Seq(NoDots)
  OBVIOUS
<1>3. t \in Seq(W) /\ \A k \in 1..Len(t) : t[k] \in W
  BY <1>2
<1>4. \A k \in 1..Len(t) : t[k] \in P
  BY <1>1, <1>2, <1>3
<1>5. t \in Seq(P)
  BY <1>3, <1>4, ElementsIn
<1> QED
  BY <1>2, <1>5

(* The type of a download is that of its name. *)
THEOREM TypeIsOfNameCorrect == BrowsingSpec => []TypeIsOfName
<1>1. BrowsingInv => TypeIsOfName
  <2> DEFINE last == at[Len(at)]
             Stems == {SubSeq(last, 1, n) : n \in 0..Len(last)}
  <2> SUFFICES ASSUME BrowsingInv, page = "file", at # <<>>, Plain(at), ~HasDot(root),
                      \A k \in 1..Len(at) - 1 : ~HasDot(at[k])
               PROVE  IF HasDot(last) THEN \E stem \in Stems : ~HasDot(stem) /\ last = stem \o <<Dot>> \o type
                      ELSE type = <<>>
    BY DEF TypeIsOfName
  <2>1. BrowsingTypes /\ PageIsMade /\ PlainArrives
    BY DEF BrowsingInv
  <2>2. url \in Seq(PlainBytes) /\ Place(url) = at
    BY <2>1 DEF PlainArrives
  <2>3. PICK path \in Seq(Nat) : path = CompletePath(url) /\ Place(path) = There(at)
    BY <2>1, <2>2, PlainUrl, CompletePathIs
  <2>4. /\ type = get_file_extension(path)
        /\ Shows(There(at))
    BY <2>1, <2>2, <2>3, PlainUrl DEF PageIsMade
  <2>5. ~EndsInSlash(path)
    BY <2>2, <2>3, <2>4, PlainUrl DEF Shows
  <2>6. PICK t \in Seq(Seq(Nat)), w \in Seq(Nat) : at = t \o <<w>> /\ IsMore(at, t, w)
    <3>1. at \in Seq(Seq(Nat))
      BY <2>1 DEF BrowsingTypes
    <3> QED
      BY <3>1, EndsInMore
  <2>7. last = w
    BY <2>6 DEF IsMore
  <2>8. t \in Seq(Seq(NoDots))
    <3>1. PICK X : X = Seq(Nat)
      OBVIOUS
    <3>2. PICK v \in Seq(X) : v = <<w>> /\ Len(v) = 1
      <4>1. <<w>> \in Seq(X) /\ Len(<<w>>) = 1
        BY <3>1
      <4> QED
        BY <4>1
    <3>3. /\ Len(at) = Len(t) + Len(v)
          /\ \A i \in 1..Len(t) + Len(v) : at[i] = IF i <= Len(t) THEN t[i] ELSE v[i - Len(t)]
      BY <2>6, <3>1, <3>2, ConcatProperties
    <3>4. \A k \in 1..Len(t) : k \in 1..Len(at) - 1 /\ at[k] = t[k]
      BY <3>2, <3>3
    <3>5. \A k \in 1..Len(t) : ~HasDot(t[k])
      BY <3>4
    <3> QED
      BY <3>5, NamesWithoutDots
  <2>9. There(t) \in Seq(Seq(NoDots))
    <3>1. root \in Seq(Nat)
      BY <2>1 DEF BrowsingTypes
    <3>2. root \in Seq(NoDots)
      BY <3>1, DotsAre
    <3>3. Place(root) \in Seq(Seq(NoDots) \ {<<>>})
      BY <3>2, DotIsByte, PlaceType
    <3>4. PICK P : P = Seq(NoDots) /\ Place(root) \in Seq(P) /\ t \in Seq(P)
      BY <2>8, <3>3
    <3>5. Place(root) \o t \in Seq(P)
      BY <3>4, ConcatProperties
    <3> QED
      BY <3>4, <3>5 DEF There
  <2>10. EndsInName(path, w)
    <3>1. PICK q \in Seq(Seq(NoDots)) : q = There(t)
      BY <2>9
    <3>2. Place(path) = q \o <<w>>
      BY <2>1, <2>3, <2>6, <3>1, PlacesAre
    <3> QED
      BY <2>5, <3>2, LastName
  <2>11. CASE HasDot(w)
    <3>1. PICK x \in Seq(NoDots), y \in Seq(Nat) :
            /\ Joined(w, x, Dot, y)
            /\ \E n \in 0..Len(w) : x = SubSeq(w, 1, n)
      BY <2>11, DotsAre
    <3>2. type = y
      BY <2>4, <2>10, <3>1, ExtensionOfName
    <3>3. x \in Seq(Nat)
      BY DEF NoDots
    <3>4. ~HasDot(x)
      BY <3>3, DotsAre
    <3>5. w = x \o <<Dot>> \o y
      <4>1. PICK c \in Nat : c = Dot
        BY DotIsByte
      <4>2. w = x \o <<c>> \o y
        BY <3>1, <3>3, <4>1, JoinedIs
      <4> QED
        BY <4>1, <4>2
    <3>6. x \in Stems
      BY <2>7, <3>1
    <3> QED
      BY <2>7, <2>11, <3>2, <3>4, <3>5, <3>6
  <2>12. CASE ~HasDot(w)
    <3>1. w \in Seq(NoDots)
      BY <2>12, DotsAre
    <3> QED
      BY <2>4, <2>7, <2>10, <2>12, <3>1, NoExtension
  <2> QED
    BY <2>11, <2>12
<1> QED
  BY <1>1, BrowsingInvariant, PTL
===============================================================================
