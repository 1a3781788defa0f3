---------------------------- MODULE FileReplyProofs ---------------------------
(***************************************************************************)
(* Proofs about FileReply, for all files, contents, sizes and schedules:   *)
(* what the peer reads is one reply, a cut one can be told, and a complete *)
(* download is the file.                                                   *)
(*                                                                         *)
(* How a client reads, and what is left of a file, are recursive           *)
(* functions: that they exist, and what they return, is shown with         *)
(* SetInduction.                                                           *)
(***************************************************************************)
EXTENDS FileReply, TextLemmas

(* file_fd stands for a file only inside send_file_data's loop, or after   *)
(* an exception has left it.                                               *)
OpenInLoop == opened # NoObject => pc \in {"read", "chunk"} \/ outcome = "thrown"

(* The handler has ended when an exception has been thrown. *)
ThrownIsDone == outcome = "thrown" => pc = "done"

(* send_all runs only inside the statements that call it. *)
SendingIsCalled ==
  /\ ret \in {"busy", "ok", "error"}
  /\ ret = "busy" => pc \in {"dirHead", "fileHead", "page", "chunk", "end"}

ClosedInv == OpenInLoop /\ ThrownIsDone /\ SendingIsCalled

(* The strengthening is inductive: one step per action. *)
LEMMA ClosedInvariant == Spec => []ClosedInv
<1>1. Init => ClosedInv
  BY DEF Init, ClosedInv, OpenInLoop, ThrownIsDone, SendingIsCalled
<1>2. ClosedInv /\ [Next]_vars => ClosedInv'
  <2> SUFFICES ASSUME ClosedInv, [Next]_vars PROVE ClosedInv'
    OBVIOUS
  <2> USE DEF ClosedInv, OpenInLoop, ThrownIsDone, SendingIsCalled
  <2>1. CASE SendSome
    BY <2>1 DEF SendSome, history
  <2>2. CASE SendFails
    BY <2>2 DEF SendFails
  <2>3. CASE IsDir
    BY <2>3 DEF IsDir, Send, sender, history
  <2>4. CASE IsFile
    BY <2>4 DEF IsFile, Send, history
  <2>5. CASE DirHeadSent
    BY <2>5 DEF DirHeadSent, Send, history
  <2>6. CASE LastSent
    BY <2>6 DEF LastSent, sender, history
  <2>7. CASE Open
    BY <2>7 DEF Open, sender
  <2>8. CASE OpenFails
    BY <2>8 DEF OpenFails, sender
  <2>9. CASE FileHeadFailed
    BY <2>9 DEF FileHeadFailed, sender, history
  <2>10. CASE ReadBlock
    <3>1. pc = "read" /\ opened' = opened
      BY <2>10 DEF ReadBlock
    <3>2. \/ pc' = "chunk" /\ ret' = "busy" /\ outcome' = outcome
          \/ pc' = "done" /\ ret' = ret /\ outcome' = "thrown"
      BY <2>10 DEF ReadBlock, Send, sender
    <3> QED
      BY <3>1, <3>2
  <2>11. CASE ReadEof
    BY <2>11 DEF ReadEof, Send, history
  <2>12. CASE ReadFails
    BY <2>12 DEF ReadFails, sender
  <2>13. CASE ChunkSent
    BY <2>13 DEF ChunkSent, sender, history
  <2>14. CASE PeerMoves
    BY <2>14 DEF PeerMoves, sender, history
  <2>15. CASE Relink
    BY <2>15 DEF Relink, sender, history
  <2>16. CASE \E f \in Files : Rewrite(f)
    BY <2>16 DEF Rewrite, sender
  <2>17. CASE UNCHANGED vars
    BY <2>17 DEF vars, sender, history
  <2> QED
    BY <2>1, <2>2, <2>3, <2>4, <2>5, <2>6, <2>7, <2>8, <2>9, <2>10, <2>11,
       <2>12, <2>13, <2>14, <2>15, <2>16, <2>17 DEF Next, Worker
<1> QED
  BY <1>1, <1>2, PTL DEF Spec

(* send_file_data closes the file on each of its returns. *)
THEOREM FileIsClosedCorrect == Spec => []FileIsClosed
<1>1. ClosedInv => FileIsClosed
  BY DEF ClosedInv, OpenInLoop, FileIsClosed
<1> QED
  BY <1>1, ClosedInvariant, PTL

-------------------------------------------------------------------------------
(* Whatever is handed to send_all has at least one token.  The page of a   *)
(* directory, which is sent behind its head, has been built before.        *)
PageIsBuilt == pc = "dirHead" => page \in Listings

IsSeq(s) == \E T : s \in Seq(T)

SendInv == TypeOK /\ IsSeq(out) /\ PageIsBuilt

LEMMA ConcatIsSeq ==
  ASSUME NEW s, NEW t, IsSeq(s), IsSeq(t)
  PROVE  IsSeq(s \o t) /\ Len(s \o t) = Len(s) + Len(t) /\ Len(s) \in Nat /\ Len(t) \in Nat
<1>1. PICK S : s \in Seq(S)
  BY DEF IsSeq
<1>2. PICK T : t \in Seq(T)
  BY DEF IsSeq
<1>3. s \in Seq(S \cup T) /\ t \in Seq(S \cup T)
  BY <1>1, <1>2, SeqMonotonic
<1> QED
  BY <1>3, ConcatProperties, LenProperties DEF IsSeq

LEMMA BytesIsSeq ==
  ASSUME NEW s, IsSeq(s)
  PROVE  IsSeq(Bytes(s)) /\ Len(Bytes(s)) = Len(s) /\ Len(s) \in Nat
<1>1. PICK T : s \in Seq(T)
  BY DEF IsSeq
<1>2. Bytes(s) \in Seq({"data"} \X T) /\ Len(Bytes(s)) = Len(s)
  BY <1>1 DEF Bytes
<1> QED
  BY <1>1, <1>2, LenProperties DEF IsSeq

LEMMA TwoIsSeq ==
  ASSUME NEW a, NEW b PROVE IsSeq(<<a, b>>) /\ <<a, b>> # <<>> /\ Len(<<a, b>>) = 2
<1>1. <<a, b>> \in Seq({a, b})
  OBVIOUS
<1> QED
  BY <1>1 DEF IsSeq

(* The messages of the handler *)
LEMMA MessagesAreSeq ==
  /\ IsSeq(End) /\ End # <<>>
  /\ \A code, framing : IsSeq(ReplyHead(code, framing)) /\ ReplyHead(code, framing) # <<>>
  /\ \A code : IsSeq(Page(code)) /\ Page(code) # <<>>
  /\ \A s : IsSeq(s) => IsSeq(Chunk(s)) /\ Chunk(s) # <<>>
<1>1. IsSeq(End) /\ End # <<>>
  BY TwoIsSeq DEF End
<1>2. \A code, framing : IsSeq(ReplyHead(code, framing)) /\ Len(ReplyHead(code, framing)) = 2
  BY TwoIsSeq DEF ReplyHead
<1>3. ASSUME NEW code PROVE IsSeq(Page(code)) /\ Page(code) # <<>>
  <2>1. IsSeq(<<code>>)
    <3>1. <<code>> \in Seq({code})
      OBVIOUS
    <3> QED
      BY <3>1 DEF IsSeq
  <2>2. IsSeq(Bytes(<<code>>))
    BY <2>1, BytesIsSeq
  <2>3. IsSeq(Page(code)) /\ Len(Page(code)) = 2 + Len(Bytes(<<code>>)) /\ Len(Bytes(<<code>>)) \in Nat
    <3> DEFINE head == ReplyHead(code, Length(1))
    <3>1. IsSeq(head) /\ Len(head) = 2
      BY <1>2
    <3>2. Page(code) = head \o Bytes(<<code>>)
      BY DEF Page
    <3> HIDE DEF head
    <3> QED
      BY <2>2, <3>1, <3>2, ConcatIsSeq
  <2> QED
    BY <2>3
<1>4. ASSUME NEW s, IsSeq(s) PROVE IsSeq(Chunk(s)) /\ Chunk(s) # <<>>
  <2> DEFINE size == <<<<"size", Len(s)>>>>
             crlf == <<<<"crlf", 0>>>>
  <2>1. IsSeq(size) /\ IsSeq(crlf) /\ Len(size) = 1
    <3>1. size \in Seq({<<"size", Len(s)>>}) /\ crlf \in Seq({<<"crlf", 0>>})
      OBVIOUS
    <3> QED
      BY <3>1 DEF IsSeq
  <2>2. IsSeq(Bytes(s))
    BY <1>4, BytesIsSeq
  <2> HIDE DEF size, crlf
  <2>3. IsSeq(size \o Bytes(s)) /\ Len(size \o Bytes(s)) = 1 + Len(Bytes(s)) /\ Len(Bytes(s)) \in Nat
    BY <2>1, <2>2, ConcatIsSeq
  <2>4. IsSeq((size \o Bytes(s)) \o crlf) /\ Len((size \o Bytes(s)) \o crlf) # 0
    BY <2>1, <2>3, ConcatIsSeq
  <2>5. Chunk(s) = (size \o Bytes(s)) \o crlf
    BY DEF Chunk, size, crlf
  <2> QED
    BY <2>4, <2>5
<1> QED
  BY <1>1, <1>2, <1>3, <1>4

LEMMA KeptIsSeq ==
  ASSUME NEW content \in Contents, NEW p \in Nat, p < Len(content)
  PROVE  IsSeq(Kept(Block(content, p))) /\ Len(Block(content, p)) \in Nat
<1>1. PICK T : content \in Seq(T)
  BY FileReplyAssumption
<1>2. Block(content, p) \in Seq(T)
  BY <1>1, FileReplyAssumption, SubSeqProperties, LenProperties DEF Block
<1>3. Kept(Block(content, p)) \in Seq(T)
  BY <1>2, SubSeqProperties, LenProperties DEF Kept
<1> QED
  BY <1>2, <1>3, LenProperties DEF IsSeq

-------------------------------------------------------------------------------
LEMMA SendInvariant == Spec => []SendInv
<1>1. ASSUME Init PROVE SendInv
  <2>1. IsSeq(out)
    BY <1>1, EmptySeq DEF Init, IsSeq
  <2>2. path \in Objects /\ data \in [Files -> Contents] /\ changes \in 0..MaxChanges
    BY <1>1, FileReplyAssumption DEF Init
  <2>3. opened \in Objects /\ pos \in Nat /\ outcome = "whole" /\ rewritten \in BOOLEAN
    BY <1>1 DEF Init, Objects
  <2>4. served = <<>> /\ page = <<>> /\ pc = "isDir" /\ ret = "ok" /\ peer = "reading"
    BY <1>1 DEF Init
  <2> QED
    BY <2>1, <2>2, <2>3, <2>4 DEF SendInv, TypeOK, PageIsBuilt
<1>2. SendInv /\ [Next]_vars => SendInv'
  <2> SUFFICES ASSUME SendInv, [Next]_vars PROVE SendInv'
    OBVIOUS
  <2> USE FileReplyAssumption DEF SendInv, TypeOK, PageIsBuilt, Objects
  <2>1. CASE SendSome
    <3>1. PICK n \in 1..SendSize : n <= Len(out) /\ out' = SubSeq(out, n + 1, Len(out))
      BY <2>1 DEF SendSome
    <3>2. PICK T : out \in Seq(T)
      BY DEF IsSeq
    <3>3. out' \in Seq(T)
      BY <3>1, <3>2, SubSeqProperties, LenProperties
    <3>4. IsSeq(out')
      BY <3>3 DEF IsSeq
    <3>5. TypeOK' /\ PageIsBuilt'
      BY <2>1 DEF SendSome, disk, history
    <3> QED
      BY <3>4, <3>5
  <2>2. CASE SendFails
    BY <2>2, EmptySeq DEF SendFails, disk, IsSeq
  <2>3. CASE IsDir
    <3>1. CASE path \in Dirs
      <4>1. /\ page' \in Listings /\ ret' = "busy" /\ pc' = "dirHead"
            /\ out' = ReplyHead("200", Length(Len(page')))
        BY <2>3, <3>1 DEF IsDir, Send
      <4>2. IsSeq(out') /\ out' # <<>>
        BY <4>1, MessagesAreSeq
      <4> QED
        BY <2>3, <4>1, <4>2 DEF IsDir, disk, history, IsSeq
    <3>2. CASE path \notin Dirs
      BY <2>3, <3>2 DEF IsDir, disk, sender, history, IsSeq
    <3> QED
      BY <3>1, <3>2
  <2>4. CASE IsFile
    <3>1. IsSeq(out') /\ out' # <<>> /\ ret' = "busy" /\ pc' \in {"fileHead", "page"}
      BY <2>4, MessagesAreSeq DEF IsFile, Send
    <3> QED
      BY <2>4, <3>1 DEF IsFile, disk, history, IsSeq
  <2>5. CASE DirHeadSent
    <3>1. page \in Listings /\ out' = Bytes(page) /\ ret' = "busy" /\ pc' = "page"
      BY <2>5 DEF DirHeadSent, Send
    <3>2. page \in Seq(Range(page)) /\ page # <<>>
      BY <3>1
    <3>3. IsSeq(page) /\ Len(page) # 0
      BY <3>2, EmptySeq DEF IsSeq
    <3>4. IsSeq(out') /\ out' # <<>>
      BY <3>1, <3>3, BytesIsSeq
    <3> QED
      BY <2>5, <3>1, <3>4 DEF DirHeadSent, disk, history, IsSeq
  <2>6. CASE LastSent
    BY <2>6 DEF LastSent, disk, sender, history, IsSeq
  <2>7. CASE Open
    BY <2>7 DEF Open, disk, sender, IsSeq
  <2>8. CASE OpenFails \/ FileHeadFailed
    BY <2>8 DEF OpenFails, FileHeadFailed, disk, sender, history, IsSeq
  <2>9. CASE ReadBlock
    <3> DEFINE block == Block(data[opened], pos)
    <3>1. data[opened] \in Contents /\ pos < Len(data[opened])
      BY <2>9 DEF ReadBlock
    <3>2. IsSeq(Kept(block)) /\ Len(block) \in Nat
      BY <3>1, KeptIsSeq
    <3>3. IsSeq(Chunk(Kept(block))) /\ Chunk(Kept(block)) # <<>>
      BY <3>2, MessagesAreSeq
    <3>4. pos' = pos + Len(block)
      BY <2>9 DEF ReadBlock
    <3>5. \/ out' = Chunk(Kept(block)) /\ ret' = "busy" /\ pc' = "chunk" /\ outcome' = outcome
          \/ outcome' = "thrown" /\ pc' = "done" /\ UNCHANGED <<out, ret>>
      BY <2>9 DEF ReadBlock, Send, sender
    <3> HIDE DEF block
    <3>6. IsSeq(out') /\ (ret' = "busy" => out' # <<>>) /\ ret' \in {"busy", "ok", "error"}
      BY <3>3, <3>5 DEF IsSeq
    <3> QED
      BY <2>9, <3>2, <3>4, <3>5, <3>6 DEF ReadBlock, disk
  <2>10. CASE ReadEof
    <3>1. IsSeq(out') /\ out' # <<>> /\ ret' = "busy" /\ pc' = "end"
      BY <2>10, MessagesAreSeq DEF ReadEof, Send
    <3> QED
      BY <2>10, <3>1 DEF ReadEof, disk, history, IsSeq
  <2>11. CASE ReadFails \/ ChunkSent
    BY <2>11 DEF ReadFails, ChunkSent, disk, sender, history, IsSeq
  <2>12. CASE PeerMoves
    BY <2>12 DEF PeerMoves, disk, sender, history, IsSeq
  <2>13. CASE Relink
    BY <2>13 DEF Relink, sender, history, IsSeq
  <2>14. CASE \E f \in Files : Rewrite(f)
    BY <2>14 DEF Rewrite, sender, IsSeq
  <2>15. CASE UNCHANGED vars
    BY <2>15 DEF vars, disk, sender, history, IsSeq
  <2> QED
    BY <2>1, <2>2, <2>3, <2>4, <2>5, <2>6, <2>7, <2>8, <2>9, <2>10, <2>11, <2>12, <2>13, <2>14,
       <2>15 DEF Next, Worker
<1> QED
  BY <1>1, <1>2, PTL DEF Spec

(* Every variable has its type; send_all, which loops until nothing is     *)
(* left, is never called with nothing to send (reply.cpp:9).               *)
THEOREM TypeCorrect == Spec => []TypeOK
<1>1. SendInv => TypeOK
  BY DEF SendInv
<1> QED
  BY <1>1, SendInvariant, PTL
-------------------------------------------------------------------------------
(* The recursive function of Reads. *)
NextReader(f, u, tokens, n) == IF n = 0 THEN u ELSE Understand(f[n - 1], tokens[n])

IsReading(f, u, tokens, m) == f = [n \in 0..m |-> NextReader(f, u, tokens, n)]

LEMMA ReadingExists ==
  ASSUME NEW u, NEW tokens, NEW m \in Nat PROVE \E f : IsReading(f, u, tokens, m)
<1> DEFINE I == {n \in Nat : \E f : IsReading(f, u, tokens, n)}
<1>1. 0 \in I
  <2> DEFINE f == [i \in 0..0 |-> u]
  <2>1. IsReading(f, u, tokens, 0)
    BY DEF IsReading, NextReader
  <2> QED
    BY <2>1
<1>2. ASSUME NEW n \in Nat, n \in I PROVE n + 1 \in I
  <2>1. PICK f : IsReading(f, u, tokens, n)
    BY <1>2
  <2> DEFINE g == [i \in 0..n + 1 |-> IF i = n + 1 THEN Understand(f[n], tokens[n + 1]) ELSE f[i]]
  <2>2. ASSUME NEW i \in 0..n + 1 PROVE g[i] = NextReader(g, u, tokens, i)
    <3>1. CASE i = n + 1
      <4>1. i - 1 = n /\ n \in 0..n + 1 /\ i # 0
        BY <3>1
      <4> QED
        BY <3>1, <4>1 DEF NextReader
    <3>2. CASE i # n + 1
      <4>1. i \in 0..n
        BY <2>2, <3>2
      <4>2. f[i] = NextReader(f, u, tokens, i)
        BY <2>1, <4>1 DEF IsReading
      <4>3. i # 0 => i - 1 \in 0..n + 1 /\ i - 1 # n + 1
        BY <4>1
      <4> QED
        BY <3>2, <4>2, <4>3 DEF NextReader
    <3> QED
      BY <3>1, <3>2
  <2>3. IsReading(g, u, tokens, n + 1)
    BY <2>2 DEF IsReading
  <2> HIDE DEF g
  <2> QED
    BY <2>3
<1> HIDE DEF I
<1>3. m \in I
  BY <1>1, <1>2, SetInduction
<1> QED
  BY <1>3 DEF I

(* Reads is the last value of the recursive function. *)
LEMMA ReadsIs ==
  ASSUME NEW u, NEW tokens, Len(tokens) \in Nat
  PROVE  \E f : IsReading(f, u, tokens, Len(tokens)) /\ Reads(u, tokens) = f[Len(tokens)]
<1> DEFINE F(f) == [n \in 0..Len(tokens) |-> NextReader(f, u, tokens, n)]
           read == CHOOSE f : f = F(f)
<1>1. \E f : f = F(f)
  BY ReadingExists DEF IsReading
<1>2. read = F(read)
  BY <1>1
<1>3. Reads(u, tokens) = read[Len(tokens)]
  BY DEF Reads, NextReader
<1> HIDE DEF read
<1> QED
  BY <1>2, <1>3 DEF IsReading

(* Who reads on, behind d tokens, reads the same tokens in the same way.   *)
LEMMA ReadingOn ==
  ASSUME NEW f, NEW u, NEW s, NEW a \in Nat, IsReading(f, u, s, a),
         NEW d \in Nat, NEW b \in Nat, d + b <= a,
         NEW g, NEW t, IsReading(g, f[d], t, b),
         \A i \in 1..b : s[d + i] = t[i]
  PROVE  f[d + b] = g[b]
<1> DEFINE I == {n \in Nat : n <= b => f[d + n] = g[n]}
<1>1. 0 \in I
  BY DEF IsReading, NextReader
<1>2. ASSUME NEW n \in Nat, n \in I PROVE n + 1 \in I
  <2> SUFFICES ASSUME n + 1 <= b PROVE f[d + (n + 1)] = g[n + 1]
    OBVIOUS
  <2>1. f[d + n] = g[n]
    BY <1>2
  <2>2. PICK i \in 0..a : i = d + (n + 1) /\ i # 0 /\ i - 1 = d + n
    OBVIOUS
  <2>3. f[i] = Understand(f[d + n], s[i])
    BY <2>2 DEF IsReading, NextReader
  <2>4. PICK j \in 1..b : j = n + 1 /\ j - 1 = n
    OBVIOUS
  <2>5. g[j] = Understand(g[n], t[j])
    BY <2>4 DEF IsReading, NextReader
  <2>6. s[i] = t[j]
    BY <2>2, <2>4
  <2> QED
    BY <2>1, <2>2, <2>3, <2>4, <2>5, <2>6
<1> HIDE DEF I
<1>3. b \in I
  BY <1>1, <1>2, SetInduction
<1> QED
  BY <1>3 DEF I

(* Who reads s and then t reads their sum. *)
LEMMA ReadsConcat ==
  ASSUME NEW u, NEW s, NEW t, IsSeq(s), IsSeq(t)
  PROVE  Reads(u, s \o t) = Reads(Reads(u, s), t)
<1>1. PICK S : s \in Seq(S) /\ t \in Seq(S)
  <2>1. PICK S : s \in Seq(S)
    BY DEF IsSeq
  <2>2. PICK T : t \in Seq(T)
    BY DEF IsSeq
  <2>3. s \in Seq(S \cup T) /\ t \in Seq(S \cup T)
    BY <2>1, <2>2, SeqMonotonic
  <2> QED
    BY <2>3
<1>2. PICK st \in Seq(S) : st = s \o t
  BY <1>1, ConcatProperties
<1>3. PICK a \in Nat, b \in Nat : Len(s) = a /\ Len(t) = b /\ Len(st) = a + b
  BY <1>1, <1>2, ConcatProperties, LenProperties
<1>4. /\ \A i \in 1..a : st[0 + i] = s[i]
      /\ \A i \in 1..b : st[a + i] = t[i]
  BY <1>1, <1>2, <1>3
<1>5. PICK f : IsReading(f, u, st, a + b) /\ Reads(u, st) = f[a + b]
  BY <1>3, ReadsIs
<1>6. PICK g : IsReading(g, u, s, a) /\ Reads(u, s) = g[a]
  BY <1>3, ReadsIs
<1>7. f[0] = u
  BY <1>5, <1>3 DEF IsReading, NextReader
<1>8. f[a] = g[a]
  <2>1. PICK d \in Nat : d = 0
    OBVIOUS
  <2>2. d + a <= a + b /\ \A i \in 1..a : st[d + i] = s[i]
    BY <1>3, <1>4, <2>1
  <2>3. IsReading(g, f[d], s, a)
    BY <1>6, <1>7, <2>1
  <2>4. f[d + a] = g[a]
    BY <1>3, <1>5, <2>2, <2>3, ReadingOn, SMTT(30)
  <2> QED
    BY <1>3, <2>1, <2>4
<1>9. f[a] = Reads(u, s)
  BY <1>6, <1>8, <1>3
<1>10. PICK h : IsReading(h, f[a], t, b) /\ Reads(f[a], t) = h[b]
  BY <1>3, ReadsIs
<1>11. f[a + b] = h[b]
  BY <1>3, <1>4, <1>5, <1>10, ReadingOn
<1> QED
  BY <1>2, <1>5, <1>9, <1>10, <1>11

(* Nothing and one token *)
LEMMA ReadsFew ==
  ASSUME NEW u
  PROVE  /\ Reads(u, <<>>) = u
         /\ \A x : Reads(u, <<x>>) = Understand(u, x)
<1>1. Reads(u, <<>>) = u
  <2>1. Len(<<>>) = 0
    OBVIOUS
  <2>2. PICK f : IsReading(f, u, <<>>, 0) /\ Reads(u, <<>>) = f[0]
    BY <2>1, ReadsIs
  <2> QED
    BY <2>2 DEF IsReading, NextReader
<1>2. ASSUME NEW x PROVE Reads(u, <<x>>) = Understand(u, x)
  <2>1. Len(<<x>>) = 1 /\ <<x>>[1] = x
    OBVIOUS
  <2>2. PICK f : IsReading(f, u, <<x>>, 1) /\ Reads(u, <<x>>) = f[1]
    BY <2>1, ReadsIs
  <2>3. f[0] = u /\ f[1] = Understand(f[0], <<x>>[1])
    BY <2>2 DEF IsReading, NextReader
  <2> QED
    BY <2>1, <2>2, <2>3
<1> QED
  BY <1>1, <1>2

-------------------------------------------------------------------------------
(* How a client takes the tokens that it expects, and that it takes no     *)
(* other behind the end.                                                   *)
Reader(e, n, b, f) == [expects |-> e, left |-> n, body |-> b, framing |-> f]

LEMMA TakesData ==
  ASSUME NEW n, NEW b, NEW f, NEW x
  PROVE  /\ Understand(Reader("body", n, b, f), <<"data", x>>)
              = Reader(IF n = 1 THEN "nothing" ELSE "body", n - 1, Append(b, x), f)
         /\ Understand(Reader("chunk", n, b, f), <<"data", x>>)
              = Reader(IF n = 1 THEN "crlf" ELSE "chunk", n - 1, Append(b, x), f)
  BY DEF Understand, Reader

LEMMA TakesFrame ==
  ASSUME NEW n, NEW b, NEW f, NEW x
  PROVE  /\ Understand(Reader("size", n, b, f), <<"size", x>>)
              = Reader(IF x = 0 THEN "last" ELSE "chunk", x, b, f)
         /\ Understand(Reader("crlf", n, b, f), <<"crlf", x>>) = Reader("size", n, b, f)
         /\ Understand(Reader("last", n, b, f), <<"crlf", x>>) = Reader("nothing", n, b, f)
  BY DEF Understand, Reader

LEMMA TakesNoMore ==
  ASSUME NEW u, NEW x
  PROVE  /\ DOMAIN Understand(u, x) = DOMAIN u
         /\ "expects" \in DOMAIN u /\ u.expects \in {"error", "nothing"}
              => Understand(u, x).expects = "error"
<1>1. DOMAIN Understand(u, x) = DOMAIN u
  BY DEF Understand
<1>2. u.expects \in {"error", "nothing"} => Understand(u, x) = [u EXCEPT !.expects = "error"]
  BY DEF Understand
<1> QED
  BY <1>1, <1>2

(* What has gone wrong stays wrong, and so does what is too much.          *)
LEMMA ErrorStays ==
  ASSUME NEW u, "expects" \in DOMAIN u, NEW s, IsSeq(s)
  PROVE  /\ "expects" \in DOMAIN Reads(u, s)
         /\ u.expects = "error" => Reads(u, s).expects = "error"
         /\ u.expects = "nothing" /\ s # <<>> => Reads(u, s).expects = "error"
<1>1. PICK m \in Nat : m = Len(s) /\ (s # <<>> => m > 0)
  <2>1. PICK S : s \in Seq(S)
    BY DEF IsSeq
  <2> QED
    BY <2>1, LenProperties, EmptySeq
<1>2. PICK f : IsReading(f, u, s, m) /\ Reads(u, s) = f[m]
  BY <1>1, ReadsIs
<1> DEFINE I == {n \in Nat : n <= m =>
                   /\ "expects" \in DOMAIN f[n]
                   /\ u.expects = "error" => f[n].expects = "error"
                   /\ u.expects = "nothing" /\ n > 0 => f[n].expects = "error"}
<1>3. f[0] = u /\ 0 \in I
  BY <1>2 DEF IsReading, NextReader
<1>4. ASSUME NEW n \in Nat, n \in I PROVE n + 1 \in I
  <2> SUFFICES ASSUME n + 1 <= m PROVE n + 1 \in I
    OBVIOUS
  <2>1. f[n + 1] = Understand(f[n], s[n + 1])
    <3>1. PICK j \in 0..m : j = n + 1 /\ j # 0 /\ j - 1 = n
      OBVIOUS
    <3> QED
      BY <1>2, <3>1 DEF IsReading, NextReader
  <2>2. "expects" \in DOMAIN f[n] /\ (u.expects = "error" => f[n].expects = "error")
    BY <1>4
  <2>3. u.expects = "nothing" => f[n].expects \in {"error", "nothing"}
    BY <1>3, <1>4
  <2>4. /\ "expects" \in DOMAIN f[n + 1]
        /\ f[n].expects \in {"error", "nothing"} => f[n + 1].expects = "error"
    BY <2>1, <2>2, TakesNoMore
  <2> QED
    BY <2>2, <2>3, <2>4
<1> HIDE DEF I
<1>5. m \in I
  BY <1>3, <1>4, SetInduction
<1> QED
  BY <1>1, <1>2, <1>5 DEF I

(* A byte more of s behind b *)
LEMMA OneMore ==
  ASSUME NEW S, NEW b \in Seq(S), NEW s \in Seq(S), NEW j \in 1..Len(s)
  PROVE  Append(b \o SubSeq(s, 1, j - 1), s[j]) = b \o SubSeq(s, 1, j)
<1>1. PICK m \in 1..Len(s) : m = 1 /\ j \in m..Len(s) /\ m \in Int /\ j - 1 \in Int
  BY LenProperties
<1>2. SubSeq(s, m, j) = SubSeq(s, m, j - 1) \o <<s[j]>>
  BY <1>1, SubSeqRecursiveSecond
<1>3. s[j] \in S /\ \A i \in m..j - 1 : s[i] \in S
  BY <1>1, LenProperties
<1>4. SubSeq(s, m, j - 1) \in Seq(S)
  BY <1>1, <1>3, SubSeqProperties, Zenon
<1>5. Append(b \o SubSeq(s, m, j - 1), s[j]) = b \o (SubSeq(s, m, j - 1) \o <<s[j]>>)
  BY <1>3, <1>4, AppendToConcat
<1> QED
  BY <1>1, <1>2, <1>5

(* As many bytes as were announced are the body or a chunk of it.          *)
LEMMA ReadsData ==
  ASSUME NEW e \in {"body", "chunk"}, NEW S, NEW b \in Seq(S), NEW s \in Seq(S), s # <<>>, NEW f
  PROVE  Reads(Reader(e, Len(s), b, f), Bytes(s))
           = Reader(IF e = "body" THEN "nothing" ELSE "crlf", 0, b \o s, f)
<1> DEFINE u == Reader(e, Len(s), b, f)
           last == IF e = "body" THEN "nothing" ELSE "crlf"
<1>1. PICK m \in Nat \ {0} : m = Len(s)
  BY LenProperties, EmptySeq
<1>2. Len(Bytes(s)) = m /\ \A i \in 1..m : Bytes(s)[i] = <<"data", s[i]>>
  BY <1>1 DEF Bytes
<1>3. PICK g : IsReading(g, u, Bytes(s), m) /\ Reads(u, Bytes(s)) = g[m]
  BY <1>2, ReadsIs
<1> DEFINE Then(n) == Reader(IF n = m THEN last ELSE e, m - n, b \o SubSeq(s, 1, n), f)
           I == {n \in Nat : n <= m => g[n] = Then(n)}
<1>4. 0 \in I
  <2>1. SubSeq(s, 1, 0) = <<>> /\ b \o <<>> = b
    BY SubSeqEmpty, ConcatEmptySeq
  <2>2. g[0] = Reader(e, m, b, f)
    BY <1>1, <1>3 DEF IsReading, NextReader
  <2>3. m - 0 = m /\ 0 # m
    OBVIOUS
  <2> QED
    BY <2>1, <2>2, <2>3
<1>5. ASSUME NEW n \in Nat, n \in I PROVE n + 1 \in I
  <2> SUFFICES ASSUME n + 1 <= m PROVE g[n + 1] = Then(n + 1)
    OBVIOUS
  <2>1. PICK j \in 1..m : j = n + 1 /\ j - 1 = n
    OBVIOUS
  <2>2. g[j] = Understand(g[n], <<"data", s[j]>>)
    <3>1. g[j] = NextReader(g, u, Bytes(s), j)
      <4>1. j \in 0..m
        BY <2>1
      <4> HIDE DEF u
      <4> QED
        BY <1>3, <4>1 DEF IsReading
    <3>2. Bytes(s)[j] = <<"data", s[j]>> /\ j # 0
      BY <1>2, <2>1
    <3> QED
      BY <2>1, <3>1, <3>2 DEF NextReader
  <2>3. PICK c : c = b \o SubSeq(s, 1, n)
    OBVIOUS
  <2>4. g[n] = Reader(e, m - n, c, f)
    BY <1>5, <2>1, <2>3
  <2>5. Append(c, s[j]) = b \o SubSeq(s, 1, j)
    <3>1. j \in 1..Len(s)
      BY <1>1, <2>1
    <3>2. Append(b \o SubSeq(s, 1, j - 1), s[j]) = b \o SubSeq(s, 1, j)
      BY <3>1, OneMore
    <3> QED
      BY <2>1, <2>3, <3>2
  <2>6. g[j] = Reader(IF m - n = 1 THEN last ELSE e, (m - n) - 1, Append(c, s[j]), f)
    BY <2>2, <2>4, TakesData
  <2>7. (m - n = 1 <=> j = m) /\ (m - n) - 1 = m - j
    BY <2>1
  <2> QED
    BY <2>1, <2>5, <2>6, <2>7
<1>6. m \in I
  <2> HIDE DEF I
  <2> QED
    BY <1>4, <1>5, SetInduction
<1>7. SubSeq(s, 1, m) = s /\ m - m = 0
  BY <1>1, SubSeqFull
<1>8. g[m] = Reader(last, 0, b \o s, f)
  <2>1. g[m] = Then(m)
    <3> HIDE DEF Then
    <3> QED
      BY <1>6
  <2> QED
    BY <1>7, <2>1
<1> QED
  BY <1>1, <1>3, <1>8

(* The body that a length announces *)
LEMMA ReadsBody ==
  ASSUME NEW S, NEW b \in Seq(S), NEW s \in Seq(S), s # <<>>, NEW f
  PROVE  Reads(Reader("body", Len(s), b, f), Bytes(s)) = Reader("nothing", 0, b \o s, f)
<1>1. PICK e \in {"body", "chunk"} : e = "body"
  OBVIOUS
<1>2. Reads(Reader(e, Len(s), b, f), Bytes(s))
        = Reader(IF e = "body" THEN "nothing" ELSE "crlf", 0, b \o s, f)
  BY ReadsData
<1> QED
  BY <1>1, <1>2

LEMMA ReadsOne ==
  ASSUME NEW u, NEW s, IsSeq(s), NEW x
  PROVE  Reads(u, <<x>> \o s) = Reads(Understand(u, x), s)
<1>1. <<x>> \in Seq({x})
  OBVIOUS
<1>2. IsSeq(<<x>>)
  BY <1>1 DEF IsSeq
<1>3. Reads(u, <<x>> \o s) = Reads(Reads(u, <<x>>), s)
  BY <1>2, ReadsConcat
<1> QED
  BY <1>3, ReadsFew

(* The messages, as they are understood *)
LEMMA ReadsHead ==
  ASSUME NEW code, NEW framing
  PROVE  Reads(Unread, ReplyHead(code, framing))
           = Understand(Reader("framing", 0, <<>>, "none"), framing)
<1>1. ReplyHead(code, framing) = <<<<"status", code>>>> \o <<framing>>
  BY DEF ReplyHead
<1>2. <<framing>> \in Seq({framing})
  OBVIOUS
<1>3. IsSeq(<<framing>>)
  BY <1>2 DEF IsSeq
<1>4. Unread = Reader("status", 0, <<>>, "none")
  BY DEF Unread, Reader
<1>5. PICK x : x = <<"status", code>>
  OBVIOUS
<1>6. Understand(Unread, x) = Reader("framing", 0, <<>>, "none")
  BY <1>4, <1>5 DEF Understand, Reader
<1>7. Reads(Unread, <<x>> \o <<framing>>) = Reads(Understand(Unread, x), <<framing>>)
  BY <1>3, ReadsOne
<1> QED
  BY <1>1, <1>5, <1>6, <1>7, ReadsFew

(* A page is one complete reply. *)
LEMMA ReadsPage ==
  ASSUME NEW code
  PROVE  \E b : Reads(Unread, Page(code)) = Reader("nothing", 0, b, "length")
<1> DEFINE head == ReplyHead(code, Length(1))
<1>1. <<code>> \in Seq({code}) /\ <<>> \in Seq({code}) /\ Len(<<code>>) = 1 /\ <<code>> # <<>>
  OBVIOUS
<1>2. IsSeq(Bytes(<<code>>)) /\ IsSeq(head)
  BY <1>1, BytesIsSeq, MessagesAreSeq DEF IsSeq
<1>3. Reads(Unread, head) = Reader("body", 1, <<>>, "length")
  <2>1. Reads(Unread, head) = Understand(Reader("framing", 0, <<>>, "none"), <<"length", 1>>)
    BY ReadsHead DEF Length
  <2>2. Understand(Reader("framing", 0, <<>>, "none"), <<"length", 1>>)
          = Reader(IF 1 = 0 THEN "nothing" ELSE "body", 1, <<>>, "length")
    BY DEF Understand, Reader
  <2> QED
    BY <2>1, <2>2
<1>4. Reads(Reader("body", 1, <<>>, "length"), Bytes(<<code>>))
        = Reader("nothing", 0, <<>> \o <<code>>, "length")
  BY <1>1, ReadsBody
<1>5. Page(code) = head \o Bytes(<<code>>)
  BY DEF Page
<1> HIDE DEF head
<1> QED
  BY <1>2, <1>3, <1>4, <1>5, ReadsConcat

(* A chunk adds its bytes to the body. *)
LEMMA ReadsChunk ==
  ASSUME NEW S, NEW b \in Seq(S), NEW s \in Seq(S), s # <<>>, NEW f
  PROVE  Reads(Reader("size", 0, b, f), Chunk(s)) = Reader("size", 0, b \o s, f)
<1> DEFINE size == <<"size", Len(s)>>
           crlf == <<"crlf", 0>>
<1>1. Chunk(s) = (<<size>> \o Bytes(s)) \o <<crlf>>
  BY DEF Chunk
<1> HIDE DEF size, crlf
<1>2. <<size>> \in Seq({size}) /\ <<crlf>> \in Seq({crlf})
  OBVIOUS
<1>3. IsSeq(<<size>>) /\ IsSeq(<<crlf>>) /\ IsSeq(Bytes(s))
  BY <1>2, BytesIsSeq DEF IsSeq
<1>4. IsSeq(<<size>> \o Bytes(s))
  BY <1>3, ConcatIsSeq
<1>5. Reads(Reader("size", 0, b, f), <<size>> \o Bytes(s))
        = Reads(Reader("chunk", Len(s), b, f), Bytes(s))
  <2>1. Len(s) # 0
    BY EmptySeq
  <2>2. Understand(Reader("size", 0, b, f), size)
          = Reader(IF Len(s) = 0 THEN "last" ELSE "chunk", Len(s), b, f)
    BY DEF size, Understand, Reader
  <2> QED
    BY <1>3, <2>1, <2>2, ReadsOne
<1>6. Reads(Reader("chunk", Len(s), b, f), Bytes(s)) = Reader("crlf", 0, b \o s, f)
  BY ReadsData
<1>7. Reads(Reader("crlf", 0, b \o s, f), <<crlf>>) = Reader("size", 0, b \o s, f)
  <2>1. Understand(Reader("crlf", 0, b \o s, f), crlf) = Reader("size", 0, b \o s, f)
    BY TakesFrame, Zenon DEF crlf
  <2> QED
    BY <2>1, ReadsFew
<1>8. PICK r, t : r = <<size>> \o Bytes(s) /\ t = <<crlf>>
  OBVIOUS
<1>9. Reads(Reader("size", 0, b, f), r \o t) = Reads(Reads(Reader("size", 0, b, f), r), t)
  BY <1>3, <1>4, <1>8, ReadsConcat
<1> QED
  BY <1>1, <1>5, <1>6, <1>7, <1>8, <1>9

(* The last chunk ends the reply. *)
LEMMA ReadsEnd ==
  ASSUME NEW n, NEW b, NEW f
  PROVE  Reads(Reader("size", n, b, f), End) = Reader("nothing", 0, b, f)
<1>1. End = <<<<"size", 0>>>> \o <<<<"crlf", 0>>>>
  BY DEF End
<1>2. <<<<"crlf", 0>>>> \in Seq({<<"crlf", 0>>})
  OBVIOUS
<1>3. IsSeq(<<<<"crlf", 0>>>>)
  BY <1>2 DEF IsSeq
<1>4. Understand(Reader("size", n, b, f), <<"size", 0>>) = Reader("last", 0, b, f)
  BY DEF Understand, Reader
<1>5. Understand(Reader("last", 0, b, f), <<"crlf", 0>>) = Reader("nothing", 0, b, f)
  BY TakesFrame
<1>6. PICK x, t : x = <<"size", 0>> /\ t = <<<<"crlf", 0>>>>
  OBVIOUS
<1>7. Reads(Reader("size", n, b, f), <<x>> \o t) = Reads(Understand(Reader("size", n, b, f), x), t)
  BY <1>3, <1>6, ReadsOne
<1> QED
  BY <1>1, <1>4, <1>5, <1>6, <1>7, ReadsFew

-------------------------------------------------------------------------------
(* The recursive function of Left. *)
NextLeft(f, content, p) ==
  IF p = 0 THEN <<>>
  ELSE IF InMark(content, p) THEN f[p - 1]
  ELSE Append(f[p - 1], content[p])

IsLeft(f, content, m) == f = [p \in 0..m |-> NextLeft(f, content, p)]

LEMMA LeftExists ==
  ASSUME NEW content, NEW m \in Nat PROVE \E f : IsLeft(f, content, m)
<1> DEFINE I == {n \in Nat : \E f : IsLeft(f, content, n)}
<1>1. 0 \in I
  <2> DEFINE f == [i \in 0..0 |-> <<>>]
  <2>1. IsLeft(f, content, 0)
    BY DEF IsLeft, NextLeft
  <2> QED
    BY <2>1
<1>2. ASSUME NEW n \in Nat, n \in I PROVE n + 1 \in I
  <2>1. PICK f : IsLeft(f, content, n)
    BY <1>2
  <2> DEFINE g == [i \in 0..n + 1 |-> IF i = n + 1 THEN NextLeft(f, content, i) ELSE f[i]]
  <2>2. ASSUME NEW i \in 0..n + 1 PROVE g[i] = NextLeft(g, content, i)
    <3>1. i # 0 => i - 1 \in 0..n + 1 /\ i - 1 # n + 1
      BY <2>2
    <3>2. NextLeft(f, content, i) = NextLeft(g, content, i)
      BY <3>1 DEF NextLeft
    <3>3. i # n + 1 => i \in 0..n
      BY <2>2
    <3>4. i # n + 1 => f[i] = NextLeft(f, content, i)
      BY <2>1, <3>3 DEF IsLeft
    <3> QED
      BY <3>2, <3>4
  <2>3. IsLeft(g, content, n + 1)
    BY <2>2 DEF IsLeft
  <2> HIDE DEF g
  <2> QED
    BY <2>3
<1> HIDE DEF I
<1>3. m \in I
  BY <1>1, <1>2, SetInduction
<1> QED
  BY <1>3 DEF I

(* Left is the last value of the recursive function. *)
LEMMA LeftIs ==
  ASSUME NEW content, NEW n \in Nat
  PROVE  \E f : IsLeft(f, content, n) /\ Left(content, n) = f[n]
<1> DEFINE F(f) == [p \in 0..n |-> NextLeft(f, content, p)]
           left == CHOOSE f : f = F(f)
<1>1. \E f : f = F(f)
  BY LeftExists DEF IsLeft
<1>2. left = F(left)
  BY <1>1
<1>3. Left(content, n) = left[n]
  BY DEF Left, NextLeft
<1> HIDE DEF left
<1> QED
  BY <1>2, <1>3 DEF IsLeft

(* It depends on the bytes before only. *)
LEMMA LeftAgrees ==
  ASSUME NEW content, NEW m \in Nat, NEW n \in 0..m,
         NEW f, NEW g, IsLeft(f, content, m), IsLeft(g, content, n)
  PROVE  f[n] = g[n]
<1> DEFINE I == {k \in Nat : k <= n => f[k] = g[k]}
<1>1. 0 \in I
  BY DEF IsLeft, NextLeft
<1>2. ASSUME NEW k \in Nat, k \in I PROVE k + 1 \in I
  <2> SUFFICES ASSUME k + 1 <= n PROVE f[k + 1] = g[k + 1]
    OBVIOUS
  <2>1. PICK j \in 0..n : j = k + 1 /\ j - 1 = k /\ j \in 0..m
    OBVIOUS
  <2>2. f[j] = NextLeft(f, content, j) /\ g[j] = NextLeft(g, content, j)
    BY <2>1 DEF IsLeft
  <2>3. f[k] = g[k]
    BY <1>2
  <2> QED
    BY <2>1, <2>2, <2>3 DEF NextLeft
<1> HIDE DEF I
<1>3. n \in I
  BY <1>1, <1>2, SetInduction
<1> QED
  BY <1>3 DEF I

(* One byte more *)
LEMMA LeftStep ==
  ASSUME NEW content
  PROVE  /\ Left(content, 0) = <<>>
         /\ \A j \in Nat \ {0} :
              Left(content, j) = IF InMark(content, j) THEN Left(content, j - 1)
                                 ELSE Append(Left(content, j - 1), content[j])
<1>1. Left(content, 0) = <<>>
  <2>1. PICK f : IsLeft(f, content, 0) /\ Left(content, 0) = f[0]
    BY LeftIs
  <2> QED
    BY <2>1 DEF IsLeft, NextLeft
<1>2. ASSUME NEW j \in Nat \ {0}
      PROVE  Left(content, j) = IF InMark(content, j) THEN Left(content, j - 1)
                                ELSE Append(Left(content, j - 1), content[j])
  <2>1. PICK f : IsLeft(f, content, j) /\ Left(content, j) = f[j]
    BY LeftIs
  <2>2. PICK i \in 0..j : i = j - 1 /\ i \in Nat
    OBVIOUS
  <2>3. PICK g : IsLeft(g, content, i) /\ Left(content, i) = g[i]
    BY <2>2, LeftIs
  <2>4. f[i] = g[i]
    BY <2>1, <2>3, LeftAgrees
  <2>5. f[j] = NextLeft(f, content, j)
    BY <2>1 DEF IsLeft
  <2> QED
    BY <2>1, <2>2, <2>3, <2>4, <2>5 DEF NextLeft
<1> QED
  BY <1>1, <1>2

(* What is left of a sequence consists of its bytes. *)
LEMMA LeftType ==
  ASSUME NEW S, NEW content \in Seq(S), NEW m \in 0..Len(content)
  PROVE  Left(content, m) \in Seq(S)
<1> DEFINE I == {n \in Nat : n <= Len(content) => Left(content, n) \in Seq(S)}
<1>1. 0 \in I
  BY LeftStep, EmptySeq
<1>2. ASSUME NEW n \in Nat, n \in I PROVE n + 1 \in I
  <2> SUFFICES ASSUME n + 1 <= Len(content) PROVE Left(content, n + 1) \in Seq(S)
    OBVIOUS
  <2>1. PICK j \in 1..Len(content) : j = n + 1 /\ j - 1 = n /\ j \in Nat \ {0}
    BY LenProperties
  <2>2. PICK l \in Seq(S) : l = Left(content, n)
    BY <1>2, LenProperties
  <2>3. Append(l, content[j]) \in Seq(S)
    BY <2>1, <2>2
  <2> QED
    BY <2>1, <2>2, <2>3, LeftStep
<1> HIDE DEF I
<1>3. m \in Nat
  BY LenProperties
<1>4. m \in I
  BY <1>1, <1>2, <1>3, SetInduction
<1> QED
  BY <1>3, <1>4 DEF I

(* Bytes in no mark are left, those in a mark are not. *)
LEMMA LeftRun ==
  ASSUME NEW S, NEW content \in Seq(S), NEW a \in Nat, NEW b \in a..Len(content),
         \A p \in a + 1..b : ~InMark(content, p)
  PROVE  Left(content, b) = Left(content, a) \o SubSeq(content, a + 1, b)
<1> DEFINE Run(n) == Left(content, n) = Left(content, a) \o SubSeq(content, a + 1, n)
           I == {n \in Nat : a + n <= b => Run(a + n)}
<1>0. b \in Nat /\ a \in 0..Len(content) /\ Left(content, a) \in Seq(S)
  BY LenProperties, LeftType
<1>1. 0 \in I
  <2>1. PICK e : e = <<>> /\ SubSeq(content, a + 1, a) = e
    <3>1. PICK m \in Int : m = a + 1 /\ a \in Int /\ a < m
      OBVIOUS
    <3>2. SubSeq(content, m, a) = <<>>
      BY <3>1, SubSeqEmpty
    <3> QED
      BY <3>1, <3>2
  <2>2. \A l \in Seq(S) : l \o e = l
    BY <2>1, ConcatEmptySeq
  <2>3. PICK l \in Seq(S) : l = Left(content, a)
    BY <1>0
  <2>4. l \o e = l
    BY <2>2, <2>3
  <2>5. Run(a)
    BY <2>1, <2>3, <2>4
  <2> HIDE DEF Run
  <2>6. a + 0 = a
    OBVIOUS
  <2> QED
    BY <2>5, <2>6
<1>2. ASSUME NEW n \in Nat, n \in I PROVE n + 1 \in I
  <2> HIDE DEF Run
  <2> SUFFICES ASSUME a + (n + 1) <= b PROVE Run(a + (n + 1))
    OBVIOUS
  <2>1. PICK j : j = a + (n + 1) /\ j - 1 = a + n /\ j \in Nat \ {0} /\ j \in a + 1..b
                  /\ j \in a + 1..Len(content) /\ a + 1 \in 1..Len(content) /\ a + 1 \in Int
                  /\ j - 1 \in Int /\ j \in 1..Len(content)
    BY <1>0, LenProperties
  <2>2. Left(content, j) = Append(Left(content, j - 1), content[j])
    BY <2>1, LeftStep
  <2>3. Run(j - 1)
    BY <1>0, <1>2, <2>1
  <2>4. SubSeq(content, a + 1, j) = SubSeq(content, a + 1, j - 1) \o <<content[j]>>
    BY <2>1, SubSeqRecursiveSecond
  <2>5. content[j] \in S /\ \A i \in a + 1..j - 1 : content[i] \in S
    BY <2>1, LenProperties
  <2>6. SubSeq(content, a + 1, j - 1) \in Seq(S)
    BY <2>1, <2>5, SubSeqProperties, Zenon
  <2>7. Append(Left(content, a) \o SubSeq(content, a + 1, j - 1), content[j])
          = Left(content, a) \o (SubSeq(content, a + 1, j - 1) \o <<content[j]>>)
    BY <1>0, <2>5, <2>6, AppendToConcat
  <2> QED
    BY <2>1, <2>2, <2>3, <2>4, <2>7 DEF Run
<1>3. b - a \in I
  <2> HIDE DEF I
  <2>1. b - a \in Nat
    BY <1>0
  <2> QED
    BY <1>1, <1>2, <2>1, SetInduction
<1>4. a + (b - a) = b
  BY <1>0
<1>5. Run(b)
  <2> HIDE DEF Run
  <2> QED
    BY <1>0, <1>3, <1>4
<1> QED
  BY <1>5

(* A mark adds nothing. *)
LEMMA LeftMark ==
  ASSUME NEW content, NEW a \in Nat, NEW b \in Nat, a <= b,
         \A p \in a + 1..b : InMark(content, p)
  PROVE  Left(content, b) = Left(content, a)
<1> DEFINE I == {n \in Nat : a + n <= b => Left(content, a + n) = Left(content, a)}
<1>1. 0 \in I
  OBVIOUS
<1>2. ASSUME NEW n \in Nat, n \in I PROVE n + 1 \in I
  <2> SUFFICES ASSUME a + (n + 1) <= b PROVE Left(content, a + (n + 1)) = Left(content, a)
    OBVIOUS
  <2>1. PICK j \in a + 1..b : j = a + (n + 1) /\ j - 1 = a + n /\ j \in Nat \ {0}
    OBVIOUS
  <2>2. Left(content, j) = Left(content, j - 1)
    BY <2>1, LeftStep
  <2>3. Left(content, j - 1) = Left(content, a)
    BY <1>2, <2>1
  <2> QED
    BY <2>1, <2>2, <2>3
<1> HIDE DEF I
<1>3. b - a \in Nat /\ a + (b - a) = b
  OBVIOUS
<1>4. b - a \in I
  BY <1>1, <1>2, <1>3, SetInduction
<1> QED
  BY <1>3, <1>4 DEF I

(* In which block a byte is *)
LEMMA BlockOf ==
  ASSUME NEW R \in Nat \ {0}, NEW q \in Nat, NEW k \in 0..R - 1
  PROVE  (q * R + k) \div R = q
<1>1. q * R \in Nat /\ q * R + k \in Nat
  OBVIOUS
<1> QED
  BY <1>1

(* A block begins with a mark and is longer.                               *)
Marked(content, p) == p + 3 < Len(content) /\ SubSeq(content, p + 1, p + 3) = BOM

(* Which bytes of a block are in a mark *)
LEMMA InMarkIs ==
  ASSUME NEW content, NEW q \in Nat, NEW p \in Nat, p = q * ReadSize,
         NEW i \in p + 1..p + ReadSize
  PROVE  InMark(content, i) <=> i <= p + 3 /\ Marked(content, p)
<1>1. ReadSize \in Nat \ {0} /\ i - 1 - p \in 0..ReadSize - 1
  BY FileReplyAssumption
<1>2. (i - 1) \div ReadSize = q
  <2>1. (q * ReadSize + (i - 1 - p)) \div ReadSize = q
    BY <1>1, BlockOf
  <2>2. p + (i - 1 - p) = i - 1
    OBVIOUS
  <2> QED
    BY <2>1, <2>2
<1> QED
  BY <1>2 DEF InMark, Marked

(* read returns a full block, or what there is. *)
LEMMA BlockIs ==
  ASSUME NEW S, NEW content \in Seq(S), NEW p \in Nat, p < Len(content)
  PROVE  \E m \in 1..ReadSize :
           /\ p + m = Len(content) \/ (m = ReadSize /\ p + m < Len(content))
           /\ Block(content, p) = SubSeq(content, p + 1, p + m)
           /\ Block(content, p) \in Seq(S) /\ Len(Block(content, p)) = m
<1>1. ReadSize \in Nat \ {0} /\ Len(content) \in Nat
  BY FileReplyAssumption, LenProperties
<1>2. PICK m \in 1..ReadSize :
        /\ p + m = Len(content) \/ (m = ReadSize /\ p + m < Len(content))
        /\ p + m = IF p + ReadSize < Len(content) THEN p + ReadSize ELSE Len(content)
  <2>1. CASE p + ReadSize < Len(content)
    BY <1>1, <2>1
  <2>2. CASE ~(p + ReadSize < Len(content))
    <3>1. PICK m \in 1..ReadSize : m = Len(content) - p
      BY <1>1, <2>2
    <3> QED
      BY <1>1, <2>2, <3>1
  <2> QED
    BY <2>1, <2>2
<1>3. Block(content, p) = SubSeq(content, p + 1, p + m)
  BY <1>2 DEF Block
<1>4. PICK a \in Int, b \in Int : a = p + 1 /\ b = p + m /\ a <= b /\ b - a + 1 = m
  BY <1>1
<1>5. \A i \in a..b : content[i] \in S
  BY <1>1, <1>2, <1>4, LenProperties
<1>6. /\ SubSeq(content, a, b) \in Seq(S)
      /\ Len(SubSeq(content, a, b)) = IF a <= b THEN b - a + 1 ELSE 0
  BY <1>5, SubSeqProperties
<1> QED
  BY <1>2, <1>3, <1>4, <1>6

(* What is sent of a block is what is left of it.                          *)
LEMMA KeptIsLeft ==
  ASSUME NEW S, NEW content \in Seq(S), NEW q \in Nat, NEW p \in Nat, p = q * ReadSize,
         p < Len(content)
  PROVE  /\ Left(content, p + Len(Block(content, p))) = Left(content, p) \o Kept(Block(content, p))
         /\ Kept(Block(content, p)) \in Seq(S) /\ Kept(Block(content, p)) # <<>>
         /\ p + Len(Block(content, p)) \in 0..Len(content)
         /\ \/ p + Len(Block(content, p)) = Len(content)
            \/ p + Len(Block(content, p)) = (q + 1) * ReadSize
<1>1. ReadSize \in Nat /\ ReadSize > 3 /\ Len(content) \in Nat
  BY FileReplyAssumption, LenProperties
<1>2. PICK m \in 1..ReadSize :
           /\ p + m = Len(content) \/ (m = ReadSize /\ p + m < Len(content))
           /\ Block(content, p) = SubSeq(content, p + 1, p + m)
           /\ Block(content, p) \in Seq(S) /\ Len(Block(content, p)) = m
  BY BlockIs
<1>3. PICK block \in Seq(S) : block = Block(content, p)
  BY <1>2
<1>4. m > 3 <=> p + 3 < Len(content)
  BY <1>1, <1>2
<1>5. ASSUME m > 3
      PROVE  /\ SubSeq(block, 1, 3) = SubSeq(content, p + 1, p + 3)
             /\ SubSeq(block, 4, m) = SubSeq(content, p + 4, p + m)
             /\ SubSeq(block, 4, m) \in Seq(S) /\ SubSeq(block, 4, m) # <<>>
  <2>1. /\ p + 1 \in 1..Len(content) /\ p + m \in 1..Len(content)
        /\ {1, 3, 4, m} \subseteq 1..(p + m) - (p + 1) + 1
    BY <1>1, <1>2, <1>5
  <2>2. PICK i \in 1..Len(content), j \in 1..Len(content) : i = p + 1 /\ j = p + m
    BY <2>1
  <2>3. \A a, b \in 1..j - i + 1 :
          SubSeq(SubSeq(content, i, j), a, b) = SubSeq(content, i + a - 1, i + b - 1)
    BY SubSeqOfSubSeq
  <2>4. /\ i + 1 - 1 = p + 1 /\ i + 3 - 1 = p + 3 /\ i + 4 - 1 = p + 4 /\ i + m - 1 = p + m
    BY <2>2, SMTT(30)
  <2>5. 1 \in 1..j - i + 1 /\ 3 \in 1..j - i + 1 /\ 4 \in 1..j - i + 1 /\ m \in 1..j - i + 1
    BY <2>1, <2>2
  <2>6. block = SubSeq(content, i, j)
    BY <1>2, <1>3, <2>2
  <2>7. \A k \in 4..m : block[k] \in S
    <3>1. Len(block) = m
      BY <1>2, <1>3
    <3> QED
      BY <3>1, ElementOfSeq
  <2>8. PICK a \in Int : a = 4 /\ m \in Int /\ a <= m
    BY <1>5
  <2>9. /\ SubSeq(block, a, m) \in Seq(S)
        /\ Len(SubSeq(block, a, m)) = IF a <= m THEN m - a + 1 ELSE 0
    BY <2>7, <2>8, SubSeqProperties
  <2>10. SubSeq(block, 4, m) # <<>>
    <3>1. Len(SubSeq(block, a, m)) # 0
      BY <2>8, <2>9
    <3> QED
      BY <2>8, <3>1, NotEmpty
  <2> QED
    BY <2>3, <2>4, <2>5, <2>6, <2>8, <2>9, <2>10
<1>6. Kept(block) = IF Marked(content, p) THEN SubSeq(block, 4, m) ELSE block
  <2>1. Len(BOM) = 3 /\ SubSeq(BOM, 1, 3) = BOM
    <3>1. BOM \in Seq({"EF", "BB", "BF"}) /\ Len(BOM) = 3
      BY DEF BOM
    <3> QED
      BY <3>1, SubSeqFull
  <2>2. Len(block) = m
    BY <1>2, <1>3
  <2>3. m > 3 => (IsPrefix(BOM, block) <=> SubSeq(content, p + 1, p + 3) = BOM)
    <3>1. IsPrefix(BOM, block) <=> 3 <= m /\ SubSeq(BOM, 1, 3) = SubSeq(block, 1, 3)
      BY <2>1, <2>2 DEF IsPrefix
    <3>2. m > 3 => 3 <= m
      BY <1>2
    <3> QED
      BY <1>5, <2>1, <3>1, <3>2, Zenon
  <2> QED
    BY <1>4, <2>2, <2>3 DEF Kept, Marked
<1>7. \A i \in p + 1..p + m : InMark(content, i) <=> i <= p + 3 /\ Marked(content, p)
  <2>1. \A i \in p + 1..p + m : i \in p + 1..p + ReadSize
    BY <1>1, <1>2
  <2> QED
    BY <2>1, InMarkIs
<1>8. Left(content, p + m) = Left(content, p) \o Kept(block)
  <2>1. CASE ~Marked(content, p)
    <3>1. p + m \in p..Len(content) /\ \A i \in p + 1..p + m : ~InMark(content, i)
      BY <1>1, <1>2, <1>7, <2>1
    <3>2. PICK b \in p..Len(content) : b = p + m /\ \A i \in p + 1..b : ~InMark(content, i)
      BY <3>1
    <3>3. Left(content, b) = Left(content, p) \o SubSeq(content, p + 1, b)
      BY <3>2, LeftRun
    <3> QED
      BY <1>2, <1>3, <1>6, <2>1, <3>2, <3>3
  <2>2. CASE Marked(content, p)
    <3>1. m > 3
      BY <1>4, <2>2 DEF Marked
    <3>2. PICK a \in Nat : a = p + 3 /\ p <= a /\ p + m \in a..Len(content) /\ a + 1 = p + 4
      BY <1>1, <1>2, <3>1
    <3>3. \A i \in p + 1..a : InMark(content, i)
      <4> TAKE i \in p + 1..a
      <4>1. i \in p + 1..p + m /\ i <= p + 3
        BY <1>1, <3>1, <3>2
      <4>2. InMark(content, i) <=> i <= p + 3 /\ Marked(content, p)
        BY <1>7, <4>1, Zenon
      <4> QED
        BY <2>2, <4>1, <4>2, Zenon
    <3>4. \A i \in a + 1..p + m : ~InMark(content, i)
      <4> TAKE i \in a + 1..p + m
      <4>1. i \in p + 1..p + m /\ ~(i <= p + 3)
        BY <1>1, <3>1, <3>2
      <4>2. InMark(content, i) <=> i <= p + 3 /\ Marked(content, p)
        BY <1>7, <4>1, Zenon
      <4> QED
        BY <4>1, <4>2, Zenon
    <3>5. Left(content, a) = Left(content, p)
      BY <3>2, <3>3, LeftMark
    <3>6. Left(content, p + m) = Left(content, a) \o SubSeq(content, a + 1, p + m)
      BY <3>2, <3>4, LeftRun, ZenonT(30)
    <3> QED
      BY <1>5, <1>6, <2>2, <3>1, <3>2, <3>5, <3>6
  <2> QED
    BY <2>1, <2>2
<1>9. Kept(block) \in Seq(S) /\ Kept(block) # <<>>
  <2>1. block # <<>>
    <3>1. Len(block) # 0
      BY <1>1, <1>2, <1>3
    <3> QED
      BY <3>1, NotEmpty
  <2>2. Marked(content, p) => m > 3
    BY <1>4 DEF Marked
  <2> QED
    BY <1>5, <1>6, <2>1, <2>2
<1>10. p + m \in 0..Len(content) /\ (p + m = Len(content) \/ p + m = (q + 1) * ReadSize)
  <2>1. q * ReadSize + ReadSize = (q + 1) * ReadSize
    BY <1>1
  <2> QED
    BY <1>1, <1>2, <2>1
<1> QED
  BY <1>2, <1>3, <1>8, <1>9, <1>10

(* Whatever is read, some of it is kept. *)
LEMMA KeptType ==
  ASSUME NEW S, NEW content \in Seq(S), NEW p \in Nat, p < Len(content)
  PROVE  Kept(Block(content, p)) \in Seq(S) /\ Kept(Block(content, p)) # <<>>
<1>1. PICK m \in 1..ReadSize :
           Block(content, p) \in Seq(S) /\ Len(Block(content, p)) = m
  BY BlockIs
<1>2. PICK block \in Seq(S) : block = Block(content, p) /\ Len(block) = m /\ m \in Nat \ {0}
  BY <1>1, FileReplyAssumption
<1>3. block # <<>>
  BY <1>2, NotEmpty
<1>4. ASSUME m > 3 PROVE SubSeq(block, 4, m) \in Seq(S) /\ SubSeq(block, 4, m) # <<>>
  <2>1. PICK a \in Int : a = 4 /\ m \in Int /\ a <= m
    BY <1>2, <1>4
  <2>2. \A k \in a..m : block[k] \in S
    BY <1>2, <2>1, ElementOfSeq
  <2>3. /\ SubSeq(block, a, m) \in Seq(S)
        /\ Len(SubSeq(block, a, m)) = IF a <= m THEN m - a + 1 ELSE 0
    BY <2>1, <2>2, SubSeqProperties
  <2>4. Len(SubSeq(block, a, m)) # 0
    BY <2>1, <2>3
  <2> QED
    BY <2>1, <2>3, <2>4, NotEmpty
<1> QED
  BY <1>2, <1>3, <1>4 DEF Kept

-------------------------------------------------------------------------------
(* What the peer will have understood when send_all is through, at each    *)
(* statement of the handler, as long as it reads: this is what wire has    *)
(* made of Unread, and it is the beginning of one reply.                   *)
Data == UNION {Range(s) : s \in Contents \cup Listings}

Heard == peer \in {"reading", "paused"}

Meant == Reads(Unread, wire \o out)

FileSoFar(u) ==
  /\ u = Reader("size", 0, u.body, "chunked")
  /\ u.body \in Seq(Data)
  /\ opened \in Files /\ ~rewritten => u.body = Left(served, pos)

Expected(u) ==
  /\ pc \in {"isDir", "isFile"} => u = Unread
  /\ pc = "dirHead" => u = Reader("body", Len(page), <<>>, "length")
  /\ pc = "page" => u.expects = "nothing" /\ u.framing = "length"
  /\ pc = "fileHead" => u = Reader("size", 0, <<>>, "chunked")
  /\ pc \in {"read", "chunk"} => FileSoFar(u)
  /\ pc = "end" =>
       /\ u.expects = "nothing" /\ u.framing = "chunked"
       /\ ~rewritten => u.body = Downloaded(served)
  /\ pc = "done" => u.expects # "error" /\ (u.expects = "nothing" <=> outcome = "whole")

(* send_all has ended with all sent, or with the connection.               *)
SendEnds ==
  /\ ret # "busy" => out = <<>>
  /\ Heard => ret # "error" /\ (pc # "done" => outcome = "whole")

(* A file that is not written has been read up to the end of a block.      *)
AtBlock ==
  /\ pc \in {"isDir", "isFile", "dirHead", "fileHead"} => pos = 0
  /\ opened \in Files /\ ~rewritten =>
       /\ served = data[opened]
       /\ pos \in 0..Len(served)
       /\ pos = Len(served) \/ \E q \in Nat : pos = q * ReadSize

(* A peer that has a complete download has it from the handler's end.      *)
DownloadEnds ==
  Complete /\ Understood.framing = "chunked" =>
    /\ pc \in {"end", "done"}
    /\ ~rewritten => Understood.body = Downloaded(served)

ReplyInv ==
  /\ SendEnds
  /\ AtBlock
  /\ IsSeq(wire)
  /\ Heard => Expected(Meant)
  /\ Intelligible
  /\ DownloadEnds

(* Contents and pages consist of bytes. *)
LEMMA ContentType == \A s \in Contents \cup Listings : s \in Seq(Data)
<1> TAKE s \in Contents \cup Listings
<1>1. s \in Seq(Range(s)) /\ Range(s) \subseteq Data
  BY FileReplyAssumption DEF Data
<1> QED
  BY <1>1, SeqMonotonic

LEMMA EmptyIsSeq == IsSeq(<<>>)
<1>1. <<>> \in Seq({})
  BY EmptySeq
<1> QED
  BY <1>1 DEF IsSeq

(* Calling send_all adds the message to what the peer will understand.     *)
LEMMA Sends ==
  ASSUME NEW w, NEW s, IsSeq(w), IsSeq(s)
  PROVE  /\ Reads(Unread, w \o s) = Reads(Reads(Unread, w \o <<>>), s)
         /\ w \o <<>> = w
<1>1. Reads(Unread, w \o s) = Reads(Reads(Unread, w), s)
  BY ReadsConcat
<1>2. PICK S : w \in Seq(S)
  BY DEF IsSeq
<1>3. w \o <<>> = w
  BY <1>2, ConcatEmptySeq
<1> QED
  BY <1>1, <1>3

(* One turn of send_all's loop: the sum of what has been sent and what is  *)
(* left stays.                                                             *)
LEMMA SendMoves ==
  ASSUME NEW w, NEW s, IsSeq(w), IsSeq(s), NEW n \in Nat, n <= Len(s)
  PROVE  /\ IsSeq(w \o SubSeq(s, 1, n)) /\ IsSeq(SubSeq(s, n + 1, Len(s)))
         /\ (w \o SubSeq(s, 1, n)) \o SubSeq(s, n + 1, Len(s)) = w \o s
<1>1. PICK S : w \in Seq(S) /\ s \in Seq(S)
  <2>1. PICK S : w \in Seq(S)
    BY DEF IsSeq
  <2>2. PICK T : s \in Seq(T)
    BY DEF IsSeq
  <2>3. w \in Seq(S \cup T) /\ s \in Seq(S \cup T)
    BY <2>1, <2>2, SeqMonotonic
  <2> QED
    BY <2>3
<1>2. PICK a, m : a = 1 /\ m = Len(s) /\ a \in 1..m + 1 /\ n \in a - 1..m /\ m \in n..m /\ m \in Nat
  BY <1>1, LenProperties
<1>3. SubSeq(s, a, n) \o SubSeq(s, n + 1, m) = SubSeq(s, a, m)
  BY <1>1, <1>2, ConcatAdjacentSubSeq
<1>4. SubSeq(s, a, m) = s
  BY <1>1, <1>2, SubSeqFull
<1>5. SubSeq(s, a, n) \in Seq(S) /\ SubSeq(s, n + 1, m) \in Seq(S)
  <2>1. \A i \in 1..m : s[i] \in S
    BY <1>1, <1>2, ElementOfSeq
  <2>2. a \in Int /\ n \in Int /\ m \in Int /\ n + 1 \in Int
    BY <1>2
  <2>3. (\A i \in a..n : s[i] \in S) /\ (\A i \in n + 1..m : s[i] \in S)
    BY <1>2, <2>1
  <2> QED
    BY <2>2, <2>3, SubSeqProperties, Zenon
<1>6. \A p \in Seq(S), q \in Seq(S) : w \o p \in Seq(S) /\ (w \o p) \o q = w \o (p \o q)
  <2> TAKE p \in Seq(S), q \in Seq(S)
  <2> QED
    BY <1>1, ConcatProperties, ConcatAssociative, SMTT(30)
<1>7. /\ w \o SubSeq(s, a, n) \in Seq(S)
      /\ (w \o SubSeq(s, a, n)) \o SubSeq(s, n + 1, m) = w \o (SubSeq(s, a, n) \o SubSeq(s, n + 1, m))
  BY <1>5, <1>6
<1> QED
  BY <1>2, <1>3, <1>4, <1>5, <1>7 DEF IsSeq

(* The two heads that a body follows *)
LEMMA HeadsRead ==
  /\ \A code : Reads(Unread, ReplyHead(code, Chunked)) = Reader("size", 0, <<>>, "chunked")
  /\ \A code, n : n # 0 =>
       Reads(Unread, ReplyHead(code, Length(n))) = Reader("body", n, <<>>, "length")
<1>1. Understand(Reader("framing", 0, <<>>, "none"), Chunked) = Reader("size", 0, <<>>, "chunked")
  BY DEF Chunked, Understand, Reader
<1>2. ASSUME NEW n, n # 0
      PROVE  Understand(Reader("framing", 0, <<>>, "none"), Length(n))
               = Reader("body", n, <<>>, "length")
  BY <1>2 DEF Length, Understand, Reader
<1> QED
  BY <1>1, <1>2, ReadsHead

LEMMA UnreadIs == Unread.expects = "status" /\ "expects" \in DOMAIN Unread
  BY DEF Unread

(* Nothing has been said yet. *)
LEMMA ReplyInit == Init => ReplyInv
<1> SUFFICES ASSUME Init PROVE ReplyInv
  OBVIOUS
<1>1. /\ wire = <<>> /\ out = <<>> /\ pc = "isDir" /\ peer = "reading" /\ ret = "ok"
      /\ opened = NoObject /\ pos = 0 /\ outcome = "whole"
  BY DEF Init
<1>2. Understood = Unread /\ Meant = Unread
  <2>1. PICK w, s : w = wire /\ s = out /\ w = <<>> /\ s = <<>>
    BY <1>1
  <2>2. w \o s = <<>>
    BY <2>1, Sends, EmptyIsSeq
  <2> QED
    BY <2>1, <2>2, ReadsFew DEF Understood, Meant
<1>3. opened \notin Files
  BY <1>1, FileReplyAssumption
<1> QED
  BY <1>1, <1>2, <1>3, UnreadIs, EmptyIsSeq
     DEF ReplyInv, SendEnds, AtBlock, Heard, Expected, Intelligible, DownloadEnds, Complete

(* While the peer is told what is expected, nothing is an error.           *)
LEMMA ExpectedIsRight ==
  ASSUME TypeOK, NEW u, Expected(u) PROVE u.expects # "error"
<1>1. pc \in {"isDir", "isFile", "dirHead", "page", "fileHead", "read", "chunk", "end", "done"}
  BY DEF TypeOK
<1>2. \A e, n, b, f : Reader(e, n, b, f).expects = e
  BY DEF Reader
<1> QED
  BY <1>1, <1>2, UnreadIs DEF Expected, FileSoFar

(* send_all's loop *)
LEMMA SendSomeKeeps ==
  ASSUME SendInv, ClosedInv, ReplyInv, SendSome PROVE ReplyInv'
<1>1. /\ peer' = peer /\ pc' = pc /\ page' = page /\ opened' = opened /\ pos' = pos
      /\ outcome' = outcome /\ served' = served /\ rewritten' = rewritten /\ data' = data
      /\ ret = "busy" /\ ret' \in {"busy", "ok"} /\ (ret' # "busy" => out' = <<>>)
      /\ peer \in {"reading", "closing"}
  BY DEF SendSome, history, disk
<1>2. pc \in {"dirHead", "fileHead", "page", "chunk", "end"}
  BY <1>1 DEF ClosedInv, SendingIsCalled
<1>3. PICK n \in 1..SendSize :
        /\ n <= Len(out)
        /\ wire' = IF peer = "reading" THEN wire \o SubSeq(out, 1, n) ELSE wire
        /\ out' = SubSeq(out, n + 1, Len(out))
  BY DEF SendSome
<1>4. n \in Nat /\ IsSeq(wire) /\ IsSeq(out)
  BY FileReplyAssumption DEF SendInv, ReplyInv
<1>5. /\ IsSeq(wire \o SubSeq(out, 1, n)) /\ IsSeq(SubSeq(out, n + 1, Len(out)))
      /\ (wire \o SubSeq(out, 1, n)) \o SubSeq(out, n + 1, Len(out)) = wire \o out
  BY <1>3, <1>4, SendMoves
<1>6. SendEnds' /\ AtBlock'
  BY <1>1 DEF ReplyInv, SendEnds, AtBlock, Heard
<1>7. CASE peer = "closing"
  <2>1. wire' = wire /\ ~Heard'
    BY <1>1, <1>3, <1>7 DEF Heard
  <2> QED
    BY <1>1, <1>6, <2>1 DEF ReplyInv, Intelligible, DownloadEnds, Complete, Understood
<1>8. CASE peer = "reading"
  <2>1. Heard /\ wire' = wire \o SubSeq(out, 1, n) /\ IsSeq(wire') /\ IsSeq(out')
    BY <1>3, <1>5, <1>8 DEF Heard
  <2>2. wire' \o out' = wire \o out
    BY <1>3, <1>5, <2>1
  <2>3. Meant' = Meant /\ Expected(Meant)
    BY <2>1, <2>2 DEF Meant, ReplyInv
  <2>4. Expected(Meant)'
    BY <1>1, <2>3 DEF Expected, FileSoFar
  <2>5. Meant.expects # "error"
    BY <2>3, ExpectedIsRight DEF SendInv
  <2>6. PICK w, s : w = wire' /\ s = out'
    OBVIOUS
  <2>7. Meant = Reads(Reads(Unread, w), s) /\ IsSeq(w) /\ IsSeq(s) /\ Understood' = Reads(Unread, w)
    <3>1. Meant = Reads(Unread, w \o s)
      BY <2>2, <2>6 DEF Meant
    <3> QED
      BY <2>1, <2>6, <3>1, ReadsConcat DEF Understood
  <2>8. "expects" \in DOMAIN Reads(Unread, w)
    BY <2>7, UnreadIs, ErrorStays
  <2>9. /\ Reads(Unread, w).expects # "error"
        /\ Reads(Unread, w).expects = "nothing" => s = <<>>
    BY <2>5, <2>7, <2>8, ErrorStays
  <2>10. Intelligible'
    BY <2>7, <2>9 DEF Intelligible
  <2>11. Complete' => Understood' = Meant
    <3>1. s = <<>> => Reads(Reads(Unread, w), s) = Reads(Unread, w)
      BY ReadsFew
    <3> QED
      BY <2>7, <2>9, <3>1 DEF Complete
  <2>12. DownloadEnds'
    <3> SUFFICES ASSUME Meant.expects = "nothing", Meant.framing = "chunked"
                 PROVE  pc = "end"
      <4>1. pc = "end" => (~rewritten => Meant.body = Downloaded(served))
        BY <2>3 DEF Expected
      <4> QED
        BY <1>1, <2>11, <4>1 DEF DownloadEnds, Complete
    <3>1. \A e, k, b, f : Reader(e, k, b, f).expects = e
      BY DEF Reader
    <3>2. pc \in {"dirHead", "fileHead", "chunk"} => Meant.expects \in {"body", "size"}
      BY <2>3, <3>1 DEF Expected, FileSoFar
    <3>3. pc = "page" => Meant.framing = "length"
      BY <2>3 DEF Expected
    <3> QED
      BY <1>2, <3>2, <3>3
  <2> QED
    BY <1>6, <2>1, <2>4, <2>10, <2>12 DEF ReplyInv
<1> QED
  BY <1>1, <1>7, <1>8

(* The other steps do not send; some of them call send_all.                *)
LEMMA WireKept ==
  ASSUME ReplyInv, wire' = wire,
         pc \in {"end", "done"} =>
           pc' \in {"end", "done"} /\ served' = served /\ (rewritten => rewritten')
  PROVE  IsSeq(wire') /\ Intelligible' /\ DownloadEnds'
  BY DEF ReplyInv, Intelligible, DownloadEnds, Complete, Understood

LEMMA CallMeans ==
  ASSUME ReplyInv, ret # "busy", wire' = wire, IsSeq(out')
  PROVE  Meant' = Reads(Meant, out')
<1>1. PICK w, s : w = wire /\ s = out' /\ IsSeq(w) /\ IsSeq(s)
  BY DEF ReplyInv
<1>2. Reads(Unread, w \o s) = Reads(Reads(Unread, w \o <<>>), s)
  BY <1>1, Sends
<1>3. Meant = Reads(Unread, w \o <<>>)
  BY <1>1 DEF Meant, ReplyInv, SendEnds
<1> QED
  BY <1>1, <1>2, <1>3 DEF Meant

LEMMA CallsKeep ==
  ASSUME SendInv, ClosedInv, ReplyInv, SendInv', IsDir \/ IsFile \/ DirHeadSent \/ ReadEof
  PROVE  ReplyInv'
<1>1. ret # "busy" /\ IsSeq(out')
  BY DEF SendInv, ClosedInv, SendingIsCalled, IsDir, IsFile, DirHeadSent, ReadEof
<1>2. CASE IsDir
  <2>1. /\ wire' = wire /\ UNCHANGED <<data, peer, opened, pos, outcome, served, rewritten>>
        /\ pc = "isDir" /\ pc' \in {"dirHead", "isFile"}
    BY <1>2 DEF IsDir, Send, disk, history
  <2>2. IsSeq(wire') /\ Intelligible' /\ DownloadEnds'
    BY <2>1, WireKept
  <2>3. CASE path \in Dirs
    <3>1. /\ page' \in Listings /\ ret' = "busy" /\ pc' = "dirHead"
          /\ out' = ReplyHead("200", Length(Len(page')))
      BY <1>2, <2>3 DEF IsDir, Send
    <3>2. Len(page') # 0
      <4>1. page' \in Seq(Data) /\ page' # <<>>
        BY <3>1, ContentType, FileReplyAssumption
      <4> QED
        BY <4>1, EmptySeq
    <3>3. Heard => Meant = Unread
      BY <2>1 DEF ReplyInv, Expected
    <3>4. Heard => Meant' = Reader("body", Len(page'), <<>>, "length")
      BY <1>1, <2>1, <3>1, <3>2, <3>3, CallMeans, HeadsRead
    <3>5. Heard' => Expected(Meant)'
      BY <2>1, <3>1, <3>4 DEF Expected, Heard
    <3> QED
      BY <2>1, <2>2, <3>1, <3>5 DEF ReplyInv, SendEnds, AtBlock, Heard
  <2>4. CASE path \notin Dirs
    <3>1. pc' = "isFile" /\ out' = out /\ ret' = ret
      BY <1>2, <2>4 DEF IsDir, sender
    <3>2. Heard' => Expected(Meant)'
      BY <2>1, <3>1 DEF ReplyInv, Expected, Heard, Meant
    <3> QED
      BY <2>1, <2>2, <3>1, <3>2 DEF ReplyInv, SendEnds, AtBlock, Heard
  <2> QED
    BY <2>3, <2>4
<1>3. CASE IsFile
  <2>1. /\ wire' = wire /\ UNCHANGED <<data, peer, page, opened, pos, outcome, served, rewritten>>
        /\ pc = "isFile" /\ ret' = "busy"
        /\ \/ pc' = "fileHead" /\ out' = ReplyHead("200", Chunked)
           \/ pc' = "page" /\ out' = Page("404")
    BY <1>3 DEF IsFile, Send, disk, history
  <2>2. IsSeq(wire') /\ Intelligible' /\ DownloadEnds'
    BY <2>1, WireKept
  <2>3. Heard => Meant' = Reads(Unread, out')
    BY <1>1, <2>1, CallMeans DEF ReplyInv, Expected
  <2>4. Reads(Unread, ReplyHead("200", Chunked)) = Reader("size", 0, <<>>, "chunked")
    BY HeadsRead
  <2>5. PICK b : Reads(Unread, Page("404")) = Reader("nothing", 0, b, "length")
    BY ReadsPage
  <2>6. Heard' => Expected(Meant)'
    <3>1. CASE pc' = "fileHead" /\ out' = ReplyHead("200", Chunked)
      BY <2>1, <2>3, <2>4, <3>1 DEF Expected, Heard
    <3>2. CASE pc' = "page" /\ out' = Page("404")
      <4>1. Heard => Meant' = Reader("nothing", 0, b, "length")
        BY <2>3, <2>5, <3>2
      <4> QED
        BY <2>1, <3>2, <4>1 DEF Expected, Heard, Reader
    <3> QED
      BY <2>1, <3>1, <3>2
  <2> QED
    BY <2>1, <2>2, <2>6 DEF ReplyInv, SendEnds, AtBlock, Heard
<1>4. CASE DirHeadSent
  <2>1. /\ wire' = wire /\ UNCHANGED <<data, peer, page, opened, pos, outcome, served, rewritten>>
        /\ pc = "dirHead" /\ ret' = "busy" /\ pc' = "page" /\ out' = Bytes(page)
    BY <1>4 DEF DirHeadSent, Send, disk, history
  <2>2. IsSeq(wire') /\ Intelligible' /\ DownloadEnds'
    BY <2>1, WireKept
  <2>3. page \in Seq(Data) /\ page # <<>> /\ <<>> \in Seq(Data)
    BY <2>1, ContentType, FileReplyAssumption, EmptySeq DEF SendInv, PageIsBuilt
  <2>4. Heard => Meant' = Reads(Reader("body", Len(page), <<>>, "length"), Bytes(page))
    BY <1>1, <2>1, CallMeans DEF ReplyInv, Expected
  <2>5. PICK e \in Seq(Data) : e = <<>>
    BY <2>3
  <2>6. Reads(Reader("body", Len(page), e, "length"), Bytes(page))
          = Reader("nothing", 0, e \o page, "length")
    BY <2>3, ReadsBody
  <2>7. PICK b : b = e \o page
    OBVIOUS
  <2>8. Heard => Meant' = Reader("nothing", 0, b, "length")
    BY <2>4, <2>5, <2>6, <2>7
  <2>9. Heard' => Expected(Meant)'
    BY <2>1, <2>8 DEF Expected, Heard, Reader
  <2> QED
    BY <2>1, <2>2, <2>9 DEF ReplyInv, SendEnds, AtBlock, Heard
<1>5. CASE ReadEof
  <2>1. /\ wire' = wire /\ UNCHANGED <<data, peer, page, pos, outcome, served, rewritten>>
        /\ opened \in Files /\ pos >= Len(data[opened])
        /\ pc = "read" /\ ret' = "busy" /\ pc' = "end" /\ out' = End /\ opened' = NoObject
    BY <1>5 DEF ReadEof, Send, disk, history
  <2>2. IsSeq(wire') /\ Intelligible' /\ DownloadEnds'
    BY <2>1, WireKept
  <2>3. Heard => FileSoFar(Meant)
    BY <2>1 DEF ReplyInv, Expected
  <2>4. PICK b : Heard => Meant = Reader("size", 0, b, "chunked") /\ b = Meant.body
    BY <2>3 DEF FileSoFar
  <2>5. Heard => Meant' = Reader("nothing", 0, b, "chunked")
    <3>1. Reads(Reader("size", 0, b, "chunked"), End) = Reader("nothing", 0, b, "chunked")
      BY ReadsEnd
    <3> QED
      BY <1>1, <2>1, <2>4, <3>1, CallMeans
  <2>6. ~rewritten => pos = Len(served)
    <3>1. SUFFICES ASSUME ~rewritten PROVE pos = Len(served)
      OBVIOUS
    <3>2. served = data[opened] /\ pos \in 0..Len(served)
      BY <2>1, <3>1 DEF ReplyInv, AtBlock
    <3>3. Len(served) \in Nat
      <4>1. data[opened] \in Contents
        BY <2>1 DEF SendInv, TypeOK
      <4>2. served \in Seq(Data)
        BY <3>2, <4>1, ContentType
      <4> QED
        BY <4>2, LenProperties
    <3> QED
      BY <2>1, <3>2, <3>3
  <2>7. Heard /\ ~rewritten => b = Downloaded(served)
    BY <2>1, <2>3, <2>4, <2>6 DEF FileSoFar, Downloaded
  <2>8. Heard' => Expected(Meant)'
    BY <2>1, <2>5, <2>7 DEF Expected, Heard, Reader
  <2>9. opened' \notin Files
    BY <2>1, FileReplyAssumption
  <2> QED
    BY <2>1, <2>2, <2>8, <2>9 DEF ReplyInv, SendEnds, AtBlock, Heard
<1> QED
  BY <1>2, <1>3, <1>4, <1>5

(* A block more: what is kept of it goes to the peer, in a chunk of its    *)
(* own.                                                                    *)
LEMMA ReadBlockKeeps ==
  ASSUME SendInv, ClosedInv, ReplyInv, SendInv', ReadBlock
  PROVE  ReplyInv'
<1> DEFINE content == data[opened]
           block == Block(content, pos)
<1>1. /\ wire' = wire /\ UNCHANGED <<data, peer, page, opened, served, rewritten>>
      /\ pc = "read" /\ opened \in Files /\ pos < Len(content) /\ pos' = pos + Len(block)
      /\ \/ /\ pc' = "chunk" /\ ret' = "busy" /\ out' = Chunk(Kept(block)) /\ outcome' = outcome
         \/ /\ outcome' = "thrown" /\ pc' = "done" /\ out' = out /\ ret' = ret
  BY DEF ReadBlock, Send, disk, sender
<1>2. IsSeq(wire') /\ Intelligible' /\ DownloadEnds'
  BY <1>1, WireKept
<1>3. ret # "busy"
  BY <1>1 DEF ClosedInv, SendingIsCalled
<1>4. content \in Seq(Data) /\ pos \in Nat /\ content \in Contents
  BY <1>1, ContentType DEF SendInv, TypeOK
<1>5. Heard => FileSoFar(Meant) /\ outcome = "whole" /\ ret # "error"
  BY <1>1 DEF ReplyInv, Expected, SendEnds
<1>6. PICK b : Heard => Meant = Reader("size", 0, b, "chunked") /\ b = Meant.body /\ b \in Seq(Data)
  BY <1>5 DEF FileSoFar
<1>7. Len(content) \in Nat
  BY <1>4, LenProperties
<1>8. ~rewritten => \E q \in Nat : pos = q * ReadSize
  BY <1>1, <1>4, <1>7 DEF ReplyInv, AtBlock
<1>9. Kept(block) \in Seq(Data) /\ Kept(block) # <<>>
  BY <1>1, <1>4, KeptType
<1>10. ~rewritten =>
         /\ Left(content, pos') = Left(content, pos) \o Kept(block)
         /\ pos' \in 0..Len(content)
         /\ pos' = Len(content) \/ \E q \in Nat : pos' = q * ReadSize
  <2> SUFFICES ASSUME ~rewritten
               PROVE  /\ Left(content, pos') = Left(content, pos) \o Kept(block)
                      /\ pos' \in 0..Len(content)
                      /\ pos' = Len(content) \/ \E q \in Nat : pos' = q * ReadSize
    OBVIOUS
  <2>1. PICK q \in Nat : pos = q * ReadSize
    BY <1>8
  <2>2. /\ Left(content, pos + Len(block)) = Left(content, pos) \o Kept(block)
        /\ pos + Len(block) \in 0..Len(content)
        /\ \/ pos + Len(block) = Len(content)
           \/ pos + Len(block) = (q + 1) * ReadSize
    BY <1>1, <1>4, <2>1, KeptIsLeft, ZenonT(30)
  <2>3. q + 1 \in Nat
    OBVIOUS
  <2> QED
    BY <1>1, <2>2, <2>3
<1> HIDE DEF block, content
<1>11. AtBlock'
  <2>1. pc' \in {"chunk", "done"}
    BY <1>1
  <2>2. ~rewritten => served = content /\ content = data[opened]
    BY <1>1 DEF ReplyInv, AtBlock, content
  <2> QED
    BY <1>1, <1>10, <2>1, <2>2 DEF AtBlock
<1>12. CASE pc' = "chunk" /\ ret' = "busy" /\ out' = Chunk(Kept(block)) /\ outcome' = outcome
  <2>1. IsSeq(out')
    BY DEF SendInv
  <2>2. Heard => Reads(Reader("size", 0, b, "chunked"), Chunk(Kept(block)))
                   = Reader("size", 0, b \o Kept(block), "chunked")
    BY <1>6, <1>9, ReadsChunk
  <2>3. Heard => Meant' = Reader("size", 0, b \o Kept(block), "chunked")
    BY <1>1, <1>3, <1>6, <1>12, <2>1, <2>2, CallMeans
  <2>4. PICK c : c = b \o Kept(block)
    OBVIOUS
  <2>5. Heard => c \in Seq(Data)
    BY <1>6, <1>9, <2>4, ConcatProperties
  <2>6. Heard /\ ~rewritten => c = Left(served, pos')
    <3>1. ~rewritten => served = content
      BY <1>1 DEF ReplyInv, AtBlock, content
    <3>2. Heard /\ ~rewritten => b = Left(served, pos)
      BY <1>1, <1>5, <1>6 DEF FileSoFar
    <3> QED
      BY <1>10, <2>4, <3>1, <3>2
  <2>7. Heard' => FileSoFar(Meant)'
    <3>1. Heard' => Heard /\ Meant' = Reader("size", 0, c, "chunked")
      BY <1>1, <2>3, <2>4 DEF Heard
    <3>2. Reader("size", 0, c, "chunked").body = c
      BY DEF Reader
    <3> QED
      BY <1>1, <2>5, <2>6, <3>1, <3>2 DEF FileSoFar
  <2>8. Heard' => Expected(Meant)'
    BY <1>12, <2>7 DEF Expected
  <2> QED
    BY <1>1, <1>2, <1>5, <1>11, <1>12, <2>8 DEF ReplyInv, SendEnds, Heard
<1>13. CASE outcome' = "thrown" /\ pc' = "done" /\ out' = out /\ ret' = ret
  <2>1. Meant' = Meant
    BY <1>1, <1>13 DEF Meant
  <2>2. Heard => Meant.expects = "size"
    BY <1>6 DEF Reader
  <2>3. Heard' => Expected(Meant)'
    BY <1>1, <1>13, <2>1, <2>2 DEF Expected, Heard
  <2> QED
    BY <1>1, <1>2, <1>3, <1>5, <1>11, <1>13, <2>3 DEF ReplyInv, SendEnds, Heard
<1> QED
  BY <1>1, <1>12, <1>13

(* The steps that leave wire and out as they are *)
LEMMA QuietKeeps ==
  ASSUME SendInv, ClosedInv, ReplyInv, SendInv',
         \/ SendFails \/ LastSent \/ Open \/ OpenFails \/ FileHeadFailed \/ ReadFails
         \/ ChunkSent
  PROVE  ReplyInv'
<1>1. wire' = wire /\ UNCHANGED <<data, peer, page, rewritten>>
  BY DEF SendFails, LastSent, Open, OpenFails, FileHeadFailed, ReadFails, ChunkSent, disk, history
<1>2. IsSeq(wire') /\ Intelligible' /\ DownloadEnds'
  <2>1. pc \in {"end", "done"} => pc' \in {"end", "done"} /\ served' = served
    BY DEF SendFails, LastSent, Open, OpenFails, FileHeadFailed, ReadFails, ChunkSent, history
  <2> QED
    BY <1>1, <2>1, WireKept
<1>3. CASE SendFails
  <2>1. ~Heard' /\ UNCHANGED <<pc, opened, pos, served>> /\ out' = <<>>
    BY <1>3 DEF SendFails, Heard
  <2> QED
    BY <1>1, <1>2, <2>1 DEF ReplyInv, SendEnds, AtBlock
<1>4. CASE ~SendFails
  <2>1. ret # "busy" /\ ret' = ret /\ out' = out
    BY <1>4 DEF LastSent, Open, OpenFails, FileHeadFailed, ReadFails, ChunkSent, sender,
                ClosedInv, SendingIsCalled
  <2>2. Meant' = Meant /\ (Heard' <=> Heard) /\ (ret = "error" => ~Heard)
    BY <1>1, <2>1 DEF Meant, Heard, ReplyInv, SendEnds
  <2>3. Heard => Expected(Meant)
    BY DEF ReplyInv
  <2>4. \A e, k, b, f : Reader(e, k, b, f).expects = e
    BY DEF Reader
  <2>5. CASE LastSent
    <3>1. pc \in {"page", "end"} /\ pc' = "done" /\ UNCHANGED <<opened, pos, outcome, served>>
      BY <2>5 DEF LastSent, history
    <3>2. Heard => Meant.expects = "nothing" /\ outcome = "whole"
      BY <2>3, <3>1 DEF Expected, ReplyInv, SendEnds
    <3>3. Heard' => Expected(Meant)'
      BY <2>2, <3>1, <3>2 DEF Expected
    <3> QED
      BY <1>1, <1>2, <2>1, <2>2, <3>1, <3>3 DEF ReplyInv, SendEnds, AtBlock
  <2>6. CASE Open
    <3>1. /\ pc = "fileHead" /\ pc' = "read" /\ opened' = path /\ UNCHANGED <<pos, outcome>>
          /\ served' = IF path \in Files THEN data[path] ELSE <<>>
      BY <2>6 DEF Open
    <3>2. pos = 0
      BY <3>1 DEF ReplyInv, AtBlock
    <3>3. path \in Files => served' = data[path] /\ Len(served') \in Nat
      <4>1. path \in Files => data[path] \in Seq(Data)
        BY ContentType DEF SendInv, TypeOK
      <4> QED
        BY <3>1, <4>1, LenProperties
    <3>4. AtBlock'
      <4>1. 0 = 0 * ReadSize /\ 0 \in Nat
        BY FileReplyAssumption
      <4> QED
        BY <1>1, <3>1, <3>2, <3>3, <4>1 DEF AtBlock
    <3>5. Heard => Meant = Reader("size", 0, <<>>, "chunked")
      BY <2>3, <3>1 DEF Expected
    <3>6. Left(served', 0) = <<>>
      BY LeftStep
    <3>7. Heard => FileSoFar(Meant)'
      <4>1. Reader("size", 0, <<>>, "chunked").body = <<>> /\ <<>> \in Seq(Data)
        BY EmptySeq DEF Reader
      <4> QED
        BY <2>2, <3>1, <3>2, <3>5, <3>6, <4>1 DEF FileSoFar
    <3>8. Heard' => Expected(Meant)'
      BY <2>2, <3>1, <3>7 DEF Expected
    <3> QED
      BY <1>1, <1>2, <2>1, <2>2, <3>1, <3>4, <3>8 DEF ReplyInv, SendEnds
  <2>7. CASE OpenFails
    <3>1. /\ pc = "fileHead" /\ pc' = "done" /\ outcome' = "cut"
          /\ UNCHANGED <<opened, pos, served>>
      BY <2>7 DEF OpenFails
    <3>2. Heard => Meant.expects = "size"
      BY <2>3, <2>4, <3>1 DEF Expected
    <3>3. Heard' => Expected(Meant)'
      BY <2>2, <3>1, <3>2 DEF Expected
    <3> QED
      BY <1>1, <1>2, <2>1, <2>2, <3>1, <3>3 DEF ReplyInv, SendEnds, AtBlock
  <2>8. CASE FileHeadFailed
    <3>1. /\ ret = "error" /\ pc' = "done" /\ UNCHANGED <<opened, pos, served>>
      BY <2>8 DEF FileHeadFailed, history
    <3> QED
      BY <1>1, <1>2, <2>1, <2>2, <3>1 DEF ReplyInv, SendEnds, AtBlock
  <2>9. CASE ReadFails
    <3>1. /\ pc = "read" /\ pc' = "done" /\ outcome' = "cut" /\ opened' = NoObject
          /\ UNCHANGED <<pos, served>>
      BY <2>9 DEF ReadFails
    <3>2. Heard => Meant.expects = "size"
      BY <2>3, <2>4, <3>1 DEF Expected, FileSoFar
    <3>3. Heard' => Expected(Meant)'
      BY <2>2, <3>1, <3>2 DEF Expected
    <3> QED
      BY <1>1, <1>2, <2>1, <2>2, <3>1, <3>3, FileReplyAssumption DEF ReplyInv, SendEnds, AtBlock
  <2>10. CASE ChunkSent
    <3>1. /\ pc = "chunk" /\ UNCHANGED <<pos, outcome, served>>
          /\ \/ ret = "ok" /\ pc' = "read" /\ opened' = opened
             \/ ret = "error" /\ pc' = "done" /\ opened' = NoObject
      BY <2>10 DEF ChunkSent, history
    <3>2. CASE ret = "ok" /\ pc' = "read" /\ opened' = opened
      <4>1. Heard => FileSoFar(Meant)
        BY <2>3, <3>1 DEF Expected
      <4>2. Heard' => Expected(Meant)'
        BY <1>1, <2>2, <3>1, <3>2, <4>1 DEF Expected, FileSoFar
      <4> QED
        BY <1>1, <1>2, <2>1, <2>2, <3>1, <3>2, <4>2 DEF ReplyInv, SendEnds, AtBlock
    <3>3. CASE ret = "error" /\ pc' = "done" /\ opened' = NoObject
      BY <1>1, <1>2, <2>1, <2>2, <3>1, <3>3, FileReplyAssumption DEF ReplyInv, SendEnds, AtBlock
    <3> QED
      BY <3>1, <3>2, <3>3
  <2> QED
    BY <1>4, <2>5, <2>6, <2>7, <2>8, <2>9, <2>10
<1> QED
  BY <1>3, <1>4

(* The peer, the file system and stuttering *)
LEMMA OthersKeep ==
  ASSUME SendInv, ReplyInv, PeerMoves \/ Relink \/ (\E f \in Files : Rewrite(f)) \/ UNCHANGED vars
  PROVE  ReplyInv'
<1>1. UNCHANGED <<wire, pc, out, ret, page, opened, pos, outcome, served>>
  BY DEF PeerMoves, Relink, Rewrite, vars, sender, history
<1>2. /\ Heard' => Heard
      /\ rewritten => rewritten'
      /\ opened \in Files /\ ~rewritten' => data'[opened] = data[opened] /\ ~rewritten
  <2>1. CASE PeerMoves
    BY <2>1 DEF PeerMoves, Heard, disk, history
  <2>2. CASE Relink \/ UNCHANGED vars
    BY <2>2 DEF Relink, vars, Heard, disk, history
  <2>3. CASE \E f \in Files : Rewrite(f)
    <3>1. PICK f \in Files : Rewrite(f)
      BY <2>3
    <3>2. peer' = peer /\ rewritten' = (rewritten \/ opened = f)
      BY <3>1 DEF Rewrite
    <3>3. PICK content : data' = [data EXCEPT ![f] = content]
      BY <3>1 DEF Rewrite
    <3>4. opened \in Files /\ opened # f => data'[opened] = data[opened]
      BY <3>3 DEF SendInv, TypeOK
    <3> QED
      BY <3>2, <3>4 DEF Heard
  <2> QED
    BY <2>1, <2>2, <2>3
<1>3. IsSeq(wire') /\ Intelligible' /\ DownloadEnds'
  BY <1>1, <1>2, WireKept
<1>4. Meant' = Meant
  BY <1>1 DEF Meant
<1>5. ~rewritten' => ~rewritten
  BY <1>2
<1>6. Heard' => Expected(Meant)'
  BY <1>1, <1>2, <1>4, <1>5 DEF ReplyInv, Expected, FileSoFar
<1>7. AtBlock'
  BY <1>1, <1>2 DEF ReplyInv, AtBlock
<1>8. SendEnds'
  BY <1>1, <1>2 DEF ReplyInv, SendEnds
<1> QED
  BY <1>3, <1>6, <1>7, <1>8 DEF ReplyInv

(* All steps together *)
LEMMA ReplyInvariant == Spec => []ReplyInv
<1>1. SendInv /\ ClosedInv /\ ReplyInv /\ SendInv' /\ [Next]_vars => ReplyInv'
  BY SendSomeKeeps, CallsKeep, ReadBlockKeeps, QuietKeeps, OthersKeep DEF Next, Worker
<1> QED
  BY <1>1, ReplyInit, SendInvariant, ClosedInvariant, PTL DEF Spec

(* Whatever send takes of a message, whatever fails and whenever the peer  *)
(* goes, what has reached it is the beginning of one well-formed reply:    *)
(* sizes agree, no chunk but the last is empty, nothing follows the end.   *)
THEOREM IntelligibleCorrect == Spec => []Intelligible
<1>1. ReplyInv => Intelligible
  BY DEF ReplyInv
<1> QED
  BY <1>1, ReplyInvariant, PTL

(* A peer that reads can tell a reply that was cut, at whichever statement *)
(* of send_file_data, from one that was not.                               *)
THEOREM FailureIsVisibleCorrect == Spec => []FailureIsVisible
<1>1. SendInv /\ ClosedInv /\ ReplyInv => FailureIsVisible
  <2> SUFFICES ASSUME SendInv, ClosedInv, ReplyInv, pc = "done", Heard
               PROVE  Complete <=> outcome = "whole"
    BY DEF FailureIsVisible, Heard
  <2>1. out = <<>>
    BY DEF ClosedInv, SendingIsCalled, ReplyInv, SendEnds
  <2>2. Meant = Understood
    <3>1. PICK w : w = wire /\ IsSeq(w)
      BY DEF ReplyInv
    <3>2. w \o <<>> = w
      BY <3>1, Sends, EmptyIsSeq
    <3> QED
      BY <2>1, <3>1, <3>2 DEF Meant, Understood
  <2>3. Meant.expects = "nothing" <=> outcome = "whole"
    BY DEF ReplyInv, Expected
  <2> QED
    BY <2>2, <2>3 DEF Complete
<1> QED
  BY <1>1, ReplyInvariant, SendInvariant, ClosedInvariant, PTL

(* Whatever the file's length, the size of the buffer and the pieces that  *)
(* send takes, a complete download is the file without its marks.          *)
THEOREM DownloadIsFileCorrect == Spec => []DownloadIsFile
<1>1. ReplyInv => DownloadIsFile
  BY DEF ReplyInv, DownloadEnds, DownloadIsFile
<1> QED
  BY <1>1, ReplyInvariant, PTL
===============================================================================
