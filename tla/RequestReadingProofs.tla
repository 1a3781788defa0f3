-------------------------- MODULE RequestReadingProofs ------------------------
(***************************************************************************)
(* The request parser for every request and every other text that a peer   *)
(* may send: what it accepts is the text of what it has filed, and what a  *)
(* peer that speaks HTTP sends is read as it was meant.  And the parser of *)
(* the body for every form and every other body: where its parts lie.      *)
(***************************************************************************)
EXTENDS RequestReading, Multipart, TextLemmas

(* A sum of sequences, seen as a recursive function.                      *)
IsFlattening(f, seqs, n) ==
  /\ n > 0 => f[1] = seqs[1]
  /\ \A i \in 1..n - 1 : f[i + 1] = f[i] \o seqs[i + 1]

LEMMA FlatteningExists ==
  ASSUME NEW seqs, NEW m \in Nat
  PROVE  \E f : IsFlattening(f, seqs, m) /\ f = [i \in 1..m |-> f[i]]
<1> DEFINE I == {n \in Nat : \E f : IsFlattening(f, seqs, n) /\ f = [i \in 1..n |-> f[i]]}
<1>1. 0 \in I
  <2> DEFINE f == [i \in 1..0 |-> 0]
  <2>1. IsFlattening(f, seqs, 0) /\ f = [i \in 1..0 |-> f[i]]
    BY DEF IsFlattening
  <2> QED
    BY <2>1
<1>2. ASSUME NEW n \in Nat, n \in I PROVE n + 1 \in I
  <2>1. PICK f : IsFlattening(f, seqs, n)
    BY <1>2
  <2> DEFINE last == IF n = 0 THEN seqs[1] ELSE f[n] \o seqs[n + 1]
             g == [i \in 1..n + 1 |-> IF i = n + 1 THEN last ELSE f[i]]
  <2>2. \A i \in 1..n : g[i] = f[i]
    OBVIOUS
  <2>3. g[n + 1] = last
    OBVIOUS
  <2>4. g = [i \in 1..n + 1 |-> g[i]]
    OBVIOUS
  <2> HIDE DEF g
  <2>5. g[1] = seqs[1]
    BY <1>2, <2>1, <2>2, <2>3 DEF IsFlattening
  <2>6. ASSUME NEW i \in 1..n PROVE g[i + 1] = g[i] \o seqs[i + 1]
    <3>1. CASE i = n
      <4>1. n # 0 /\ g[i] = f[n]
        BY <1>2, <2>2, <2>6, <3>1
      <4> QED
        BY <2>3, <3>1, <4>1
    <3>2. CASE i \in 1..n - 1
      <4>1. f[i + 1] = f[i] \o seqs[i + 1]
        BY <2>1, <3>2 DEF IsFlattening
      <4>2. g[i] = f[i] /\ g[i + 1] = f[i + 1]
        BY <1>2, <2>2, <3>2
      <4> QED
        BY <4>1, <4>2
    <3>3. i = n \/ i \in 1..n - 1
      BY <1>2, <2>6
    <3> QED
      BY <3>1, <3>2, <3>3
  <2>7. IsFlattening(g, seqs, n + 1)
    <3>1. (n + 1) - 1 = n
      BY <1>2
    <3> QED
      BY <2>5, <2>6, <3>1 DEF IsFlattening
  <2> QED
    BY <2>4, <2>7
<1> HIDE DEF I
<1>3. m \in I
  BY <1>1, <1>2, SetInduction
<1> QED
  BY <1>3 DEF I

LEMMA FlatteningIs ==
  ASSUME NEW f, NEW g, NEW seqs, NEW n \in Nat,
         IsFlattening(f, seqs, n), IsFlattening(g, seqs, n)
  PROVE  \A i \in 1..n : f[i] = g[i]
<1> DEFINE I == {i \in Nat : i \in 1..n => f[i] = g[i]}
<1>1. 0 \in I
  OBVIOUS
<1>2. ASSUME NEW i \in Nat, i \in I PROVE i + 1 \in I
  <2> SUFFICES ASSUME i + 1 \in 1..n PROVE f[i + 1] = g[i + 1]
    OBVIOUS
  <2>1. CASE i = 0
    BY <2>1 DEF IsFlattening
  <2>2. CASE i # 0
    <3>1. i \in 1..n - 1 /\ f[i] = g[i]
      BY <1>2, <2>2
    <3>2. f[i + 1] = f[i] \o seqs[i + 1] /\ g[i + 1] = g[i] \o seqs[i + 1]
      BY <3>1 DEF IsFlattening
    <3> QED
      BY <3>1, <3>2
  <2> QED
    BY <2>1, <2>2
<1> HIDE DEF I
<1>3. \A i \in Nat : i \in I
  BY <1>1, <1>2, SetInduction
<1> QED
  BY <1>3 DEF I

LEMMA FlattenIs ==
  ASSUME NEW seqs, Len(seqs) \in Nat \ {0}
  PROVE  \E f : IsFlattening(f, seqs, Len(seqs)) /\ FlattenSeq(seqs) = f[Len(seqs)]
<1> DEFINE n == Len(seqs)
           F(f) == [i \in 1..n |-> IF i = 1 THEN seqs[i] ELSE f[i-1] \o seqs[i]]
           flatten == CHOOSE f : f = F(f)
<1>1. PICK f : IsFlattening(f, seqs, n) /\ f = [i \in 1..n |-> f[i]]
  BY FlatteningExists
<1>2. f = F(f)
  <2>1. \A i \in 1..n : f[i] = IF i = 1 THEN seqs[i] ELSE f[i-1] \o seqs[i]
    <3> SUFFICES ASSUME NEW i \in 1..n
                 PROVE  f[i] = IF i = 1 THEN seqs[i] ELSE f[i-1] \o seqs[i]
      OBVIOUS
    <3>1. CASE i = 1
      BY <1>1, <3>1 DEF IsFlattening
    <3>2. CASE i # 1
      <4>1. i - 1 \in 1..n - 1 /\ (i - 1) + 1 = i
        BY <3>2
      <4>2. f[(i - 1) + 1] = f[i - 1] \o seqs[(i - 1) + 1]
        BY <1>1, <4>1 DEF IsFlattening
      <4> QED
        BY <3>2, <4>1, <4>2
    <3> QED
      BY <3>1, <3>2
  <2> QED
    BY <1>1, <2>1
<1>3. flatten = F(flatten)
  BY <1>2
<1>4. FlattenSeq(seqs) = flatten[n]
  BY DEF FlattenSeq
<1> HIDE DEF flatten
<1>5. IsFlattening(flatten, seqs, n)
  <2>1. flatten[1] = seqs[1]
    BY <1>3
  <2>2. ASSUME NEW i \in 1..n - 1 PROVE flatten[i + 1] = flatten[i] \o seqs[i + 1]
    <3>1. i + 1 \in 1..n /\ i + 1 # 1 /\ (i + 1) - 1 = i
      BY <2>2
    <3>2. flatten[i + 1] = flatten[(i + 1) - 1] \o seqs[i + 1]
      BY <1>3, <3>1
    <3> QED
      BY <3>1, <3>2
  <2> QED
    BY <2>1, <2>2 DEF IsFlattening
<1> QED
  BY <1>4, <1>5

LEMMA FlattenEmpty == FlattenSeq(<<>>) = <<>>
  BY DEF FlattenSeq

LEMMA FlattenAppend ==
  ASSUME NEW S, NEW seqs \in Seq(Seq(S)), NEW s \in Seq(S)
  PROVE  FlattenSeq(Append(seqs, s)) = FlattenSeq(seqs) \o s
<1> DEFINE n == Len(seqs)
           more == Append(seqs, s)
<1>0. n \in Nat /\ Len(more) = n + 1 /\ more[n + 1] = s /\ \A i \in 1..n : more[i] = seqs[i]
  OBVIOUS
<1> HIDE DEF n, more
<1>1. PICK g : IsFlattening(g, more, n + 1) /\ FlattenSeq(more) = g[n + 1]
  BY <1>0, FlattenIs
<1>2. CASE n = 0
  <2>1. seqs = <<>>
    BY <1>2 DEF n
  <2>2. FlattenSeq(more) = s
    BY <1>0, <1>1, <1>2 DEF IsFlattening
  <2> QED
    BY <2>1, <2>2, FlattenEmpty, ConcatEmptySeq DEF more
<1>3. CASE n # 0
  <2>1. PICK f : IsFlattening(f, seqs, n) /\ FlattenSeq(seqs) = f[n]
    BY <1>0, <1>3, FlattenIs DEF n
  <2>2. IsFlattening(f, more, n)
    <3>1. f[1] = more[1]
      BY <1>0, <1>3, <2>1 DEF IsFlattening
    <3>2. ASSUME NEW i \in 1..n - 1 PROVE f[i + 1] = f[i] \o more[i + 1]
      <4>1. i + 1 \in 1..n
        BY <1>0, <3>2
      <4>2. f[i + 1] = f[i] \o seqs[i + 1]
        BY <2>1, <3>2 DEF IsFlattening
      <4> QED
        BY <1>0, <4>1, <4>2
    <3> QED
      BY <3>1, <3>2 DEF IsFlattening
  <2>5. IsFlattening(g, more, n)
    <3>1. g[1] = more[1]
      BY <1>0, <1>1 DEF IsFlattening
    <3>2. ASSUME NEW i \in 1..n - 1 PROVE g[i + 1] = g[i] \o more[i + 1]
      <4>1. i \in 1..(n + 1) - 1
        BY <1>0, <3>2
      <4> QED
        BY <1>1, <4>1 DEF IsFlattening
    <3> QED
      BY <3>1, <3>2 DEF IsFlattening
  <2>3. f[n] = g[n]
    BY <1>0, <1>3, <2>2, <2>5, FlatteningIs
  <2>4. g[n + 1] = g[n] \o s
    <3>1. n \in 1..(n + 1) - 1
      BY <1>0, <1>3
    <3> QED
      BY <1>0, <1>1, <3>1 DEF IsFlattening
  <2> QED
    BY <1>1, <2>1, <2>3, <2>4 DEF more
<1> QED
  BY <1>2, <1>3

LEMMA FlattenType ==
  ASSUME NEW S, NEW seqs \in Seq(Seq(S))
  PROVE  FlattenSeq(seqs) \in Seq(S)
<1> DEFINE I == {n \in Nat : \A ss \in Seq(Seq(S)) : Len(ss) = n => FlattenSeq(ss) \in Seq(S)}
<1>1. 0 \in I
  <2>1. \A ss \in Seq(Seq(S)) : Len(ss) = 0 => ss = <<>>
    OBVIOUS
  <2> QED
    BY <2>1, FlattenEmpty
<1>2. ASSUME NEW n \in Nat, n \in I PROVE n + 1 \in I
  <2> SUFFICES ASSUME NEW ss \in Seq(Seq(S)), Len(ss) = n + 1
               PROVE  FlattenSeq(ss) \in Seq(S)
    OBVIOUS
  <2>1. PICK init \in Seq(Seq(S)), s \in Seq(S) : ss = Append(init, s)
    <3>1. ss # <<>>
      BY <1>2
    <3> QED
      BY <3>1, SequenceEmptyOrAppend
  <2>2. Len(init) = n
    BY <2>1
  <2>3. FlattenSeq(init) \in Seq(S)
    BY <1>2, <2>2
  <2> QED
    BY <2>1, <2>3, FlattenAppend, ConcatProperties
<1> HIDE DEF I
<1>3. \A n \in Nat : n \in I
  BY <1>1, <1>2, SetInduction
<1>4. Len(seqs) \in Nat
  OBVIOUS
<1> QED
  BY <1>3, <1>4 DEF I

-------------------------------------------------------------------------------
(* Sequences, and the texts made of them                                   *)
LEMMA Append2 ==
  ASSUME NEW S, NEW s \in Seq(S), NEW a \in S, NEW b \in S
  PROVE  s \o <<a, b>> = Append(Append(s, a), b)
<1> DEFINE t == Append(Append(s, a), b)
<1>1. <<a, b>> \in Seq(S) /\ t \in Seq(S)
  OBVIOUS
<1>2. s \o <<a, b>> \in Seq(S) /\ Len(s \o <<a, b>>) = Len(t)
  BY <1>1, ConcatProperties
<1>3. \A i \in 1..Len(s) + 2 : (s \o <<a, b>>)[i] = t[i]
  OBVIOUS
<1> QED
  BY <1>1, <1>2, <1>3, SeqEqual

LEMMA Append6 ==
  ASSUME NEW S, NEW s \in Seq(S), NEW a \in S, NEW b \in S, NEW c \in S, NEW d \in S, NEW e \in S, NEW f \in S
  PROVE  s \o <<a, b, c, d, e, f>> = Append(Append(Append(Append(Append(Append(s, a), b), c), d), e), f)
<1> DEFINE t == Append(Append(Append(Append(Append(Append(s, a), b), c), d), e), f)
<1>1. <<a, b, c, d, e, f>> \in Seq(S) /\ t \in Seq(S)
  OBVIOUS
<1>2. s \o <<a, b, c, d, e, f>> \in Seq(S) /\ Len(s \o <<a, b, c, d, e, f>>) = Len(t)
  BY <1>1, ConcatProperties
<1>3. \A i \in 1..Len(s) + 6 : (s \o <<a, b, c, d, e, f>>)[i] = t[i]
  OBVIOUS
<1> QED
  BY <1>1, <1>2, <1>3, SeqEqual, SMTT(30)

ConcatAppends(S) ==
  \A s \in Seq(S) : \A t \in Seq(S) : \A c \in S : Append(s \o t, c) = s \o Append(t, c)

LEMMA ConcatAppend == \A S : ConcatAppends(S)
<1> SUFFICES ASSUME NEW S, NEW s \in Seq(S), NEW t \in Seq(S), NEW c \in S
             PROVE  Append(s \o t, c) = s \o Append(t, c)
  BY DEF ConcatAppends
<1>1. /\ Append(s \o t, c) = (s \o t) \o <<c>> /\ Append(t, c) = t \o <<c>>
      /\ <<c>> \in Seq(S)
  BY AppendIsConcat, ConcatProperties
<1> QED
  BY <1>1, ConcatAssociative

LEMMA TupleType ==
  \A S :
    /\ \A a \in S : <<a>> \in Seq(S)
    /\ \A a \in S : \A b \in S : <<a, b>> \in Seq(S)
    /\ \A a \in S : \A b \in S : \A c \in S : \A d \in S : \A e \in S : \A f \in S :
         <<a, b, c, d, e, f>> \in Seq(S)
OBVIOUS

LEMMA BytesAre ==
  /\ Tokens \subseteq Bytes
  /\ " " \in Bytes /\ ":" \in Bytes /\ "/" \in Bytes /\ "CR" \in Bytes /\ "LF" \in Bytes
  /\ "H" \in Bytes /\ "T" \in Bytes /\ "P" \in Bytes /\ "." \in Bytes
BY DEF Bytes, Special, Control, Tokens

LEMMA AppendsToConcat ==
  ASSUME NEW s \in Seq(Bytes)
  PROVE  /\ s \o <<"CR", "LF">> = Append(Append(s, "CR"), "LF")
         /\ s \o <<":", " ">> = Append(Append(s, ":"), " ")
         /\ s \o <<" ", "H", "T", "T", "P", "/">>
              = Append(Append(Append(Append(Append(Append(s, " "), "H"), "T"), "T"), "P"), "/")
<1>1. s \o <<"CR", "LF">> = Append(Append(s, "CR"), "LF")
  <2>1. ASSUME NEW a \in Bytes, NEW b \in Bytes PROVE s \o <<a, b>> = Append(Append(s, a), b)
    BY Append2
  <2> QED
    BY <2>1, BytesAre, Zenon
<1>2. s \o <<":", " ">> = Append(Append(s, ":"), " ")
  <2>1. ASSUME NEW a \in Bytes, NEW b \in Bytes PROVE s \o <<a, b>> = Append(Append(s, a), b)
    BY Append2
  <2> QED
    BY <2>1, BytesAre, Zenon
<1>3. s \o <<" ", "H", "T", "T", "P", "/">>
              = Append(Append(Append(Append(Append(Append(s, " "), "H"), "T"), "T"), "P"), "/")
  <2>1. ASSUME NEW a, NEW b, NEW c, NEW d, NEW e,
               a = " ", b = "H", c = "T", d = "P", e = "/"
        PROVE  s \o <<" ", "H", "T", "T", "P", "/">>
                 = Append(Append(Append(Append(Append(Append(s, " "), "H"), "T"), "T"), "P"), "/")
    <3>1. a \in Bytes /\ b \in Bytes /\ c \in Bytes /\ d \in Bytes /\ e \in Bytes
      BY <2>1, BytesAre
    <3>2. s \o <<a, b, c, c, d, e>>
            = Append(Append(Append(Append(Append(Append(s, a), b), c), c), d), e)
      BY <3>1, Append6, SMTT(90)
    <3> QED
      BY <2>1, <3>2, Zenon
  <2> QED
    BY <2>1, Zenon
<1> QED
  BY <1>1, <1>2, <1>3

(* The laws of concatenation, for texts *)
LEMMA TextGroups ==
  \A s, t, u \in Seq(Bytes) : s \o (t \o u) = (s \o t) \o u
<1> SUFFICES ASSUME NEW s \in Seq(Bytes), NEW t \in Seq(Bytes), NEW u \in Seq(Bytes)
             PROVE  s \o (t \o u) = (s \o t) \o u
  OBVIOUS
<1> QED
  BY ConcatAssociative, SMTT(30)

LEMMA TextConcat ==
  \A s, t \in Seq(Bytes) : s \o t \in Seq(Bytes)
  BY ConcatProperties

LEMMA TextAppend ==
  \A s, t \in Seq(Bytes), c \in Bytes : Append(s \o t, c) = s \o Append(t, c)
<1> SUFFICES ASSUME NEW s \in Seq(Bytes), NEW t \in Seq(Bytes), NEW c \in Bytes
             PROVE  Append(s \o t, c) = s \o Append(t, c)
  OBVIOUS
<1>1. s \o t \in Seq(Bytes) /\ <<c>> \in Seq(Bytes)
  BY TextConcat, TupleType
<1>2. Append(s \o t, c) = (s \o t) \o <<c>> /\ Append(t, c) = t \o <<c>>
  BY <1>1, AppendIsConcat
<1> QED
  BY <1>1, <1>2, TextGroups

Line == [name : Seq(Tokens), value : Seq(Bytes)]

LEMMA LineTextType ==
  ASSUME NEW l \in Line
  PROVE  /\ l.name \in Seq(Bytes) /\ l.value \in Seq(Bytes)
         /\ LineText(l) \in Seq(Bytes)
<1>1. Tokens \subseteq Bytes
  BY DEF Bytes
<1>2. l.name \in Seq(Bytes) /\ l.value \in Seq(Bytes)
  BY <1>1, SeqMonotonic DEF Line
<1>3. <<":", " ">> \in Seq(Bytes) /\ <<"CR", "LF">> \in Seq(Bytes)
  BY DEF Bytes, Special, Control
<1>4. l.name \o <<":", " ">> \in Seq(Bytes)
  BY <1>2, <1>3, ConcatProperties
<1>5. l.name \o <<":", " ">> \o l.value \in Seq(Bytes)
  BY <1>2, <1>4, ConcatProperties
<1>6. l.name \o <<":", " ">> \o l.value \o <<"CR", "LF">> \in Seq(Bytes)
  BY <1>3, <1>5, ConcatProperties
<1> QED
  BY <1>2, <1>6 DEF LineText

LEMMA TextsType ==
  ASSUME NEW ls \in Seq(Line)
  PROVE  [i \in DOMAIN ls |-> LineText(ls[i])] \in Seq(Seq(Bytes))
<1>1. DOMAIN ls = 1..Len(ls) /\ Len(ls) \in Nat /\ \A i \in 1..Len(ls) : ls[i] \in Line
  OBVIOUS
<1>2. [i \in DOMAIN ls |-> LineText(ls[i])] \in [1..Len(ls) -> Seq(Bytes)]
  BY <1>1, LineTextType
<1> QED
  BY <1>1, <1>2, SeqDef

LEMMA HeaderLinesType ==
  ASSUME NEW ls \in Seq(Line)
  PROVE  HeaderLines(ls) \in Seq(Bytes)
BY TextsType, FlattenType DEF HeaderLines

LEMMA HeaderLinesEmpty == HeaderLines(<<>>) = <<>>
<1>1. [i \in DOMAIN <<>> |-> LineText(<<>>[i])] = <<>>
  OBVIOUS
<1> QED
  BY <1>1, FlattenEmpty DEF HeaderLines

LEMMA HeaderLinesAppend ==
  ASSUME NEW ls \in Seq(Line), NEW l \in Line
  PROVE  HeaderLines(Append(ls, l)) = HeaderLines(ls) \o LineText(l)
<1> DEFINE more == Append(ls, l)
           texts == [i \in DOMAIN ls |-> LineText(ls[i])]
           moreTexts == [i \in DOMAIN more |-> LineText(more[i])]
<1>1. more \in Seq(Line) /\ Len(more) = Len(ls) + 1 /\ Len(ls) \in Nat
      /\ (\A i \in 1..Len(ls) : more[i] = ls[i]) /\ more[Len(ls) + 1] = l
  OBVIOUS
<1>2. DOMAIN ls = 1..Len(ls) /\ DOMAIN more = 1..Len(ls) + 1
  BY <1>1
<1>3. /\ texts \in Seq(Seq(Bytes)) /\ Len(texts) = Len(ls)
      /\ moreTexts \in Seq(Seq(Bytes)) /\ Len(moreTexts) = Len(ls) + 1
  <2>1. texts \in Seq(Seq(Bytes)) /\ moreTexts \in Seq(Seq(Bytes))
    BY <1>1, TextsType
  <2>2. DOMAIN texts = 1..Len(ls) /\ DOMAIN moreTexts = 1..Len(ls) + 1
    BY <1>2
  <2> HIDE DEF texts, moreTexts, more
  <2> QED
    BY <1>1, <2>1, <2>2, LenProperties
<1>4. \A i \in 1..Len(ls) : texts[i] = LineText(ls[i]) /\ moreTexts[i] = LineText(ls[i])
  BY <1>1, <1>2
<1>5. moreTexts[Len(ls) + 1] = LineText(l)
  BY <1>1, <1>2
<1>6. LineText(l) \in Seq(Bytes)
  BY LineTextType
<1> HIDE DEF texts, moreTexts, more
<1>7. moreTexts = Append(texts, LineText(l))
  <2>1. /\ Append(texts, LineText(l)) \in Seq(Seq(Bytes))
        /\ Len(Append(texts, LineText(l))) = Len(ls) + 1
        /\ \A i \in 1..Len(ls) : Append(texts, LineText(l))[i] = texts[i]
        /\ Append(texts, LineText(l))[Len(ls) + 1] = LineText(l)
    BY <1>3, <1>6, AppendProperties
  <2>2. \A i \in 1..Len(ls) + 1 : moreTexts[i] = Append(texts, LineText(l))[i]
    BY <1>1, <1>4, <1>5, <2>1
  <2> QED
    BY <1>3, <2>1, <2>2, SeqEqual
<1>8. FlattenSeq(moreTexts) = FlattenSeq(texts) \o LineText(l)
  BY <1>3, <1>6, <1>7, FlattenAppend
<1> QED
  BY <1>8 DEF HeaderLines, texts, moreTexts, more

LEMMA FlattenFirst ==
  ASSUME NEW s \in Seq(Bytes), NEW seqs \in Seq(Seq(Bytes))
  PROVE  FlattenSeq(<<s>> \o seqs) = s \o FlattenSeq(seqs)
<1> DEFINE one == <<s>>
           I == {n \in Nat : \A ss \in Seq(Seq(Bytes)) :
                   Len(ss) = n => FlattenSeq(one \o ss) = s \o FlattenSeq(ss)}
<1>0. one \in Seq(Seq(Bytes)) /\ <<>> \in Seq(Bytes)
  BY TupleType, EmptySeq
<1>1. 0 \in I
  <2>1. \A ss \in Seq(Seq(Bytes)) : Len(ss) = 0 => ss = <<>>
    OBVIOUS
  <2>2. one = Append(<<>>, s) /\ <<>> \in Seq(Seq(Bytes))
    OBVIOUS
  <2>3. FlattenSeq(Append(<<>>, s)) = FlattenSeq(<<>>) \o s
    BY <2>2, FlattenAppend
  <2>4. <<>> \o s = s /\ s \o <<>> = s
    BY ConcatEmptySeq
  <2> HIDE DEF one
  <2>5. one \o <<>> = one
    BY <1>0, ConcatEmptySeq
  <2>6. FlattenSeq(one \o <<>>) = s \o FlattenSeq(<<>>)
    BY <2>2, <2>3, <2>4, <2>5, FlattenEmpty
  <2> QED
    BY <2>1, <2>6
<1> HIDE DEF one
<1>2. ASSUME NEW n \in Nat, n \in I PROVE n + 1 \in I
  <2> SUFFICES ASSUME NEW ss \in Seq(Seq(Bytes)), Len(ss) = n + 1
               PROVE  FlattenSeq(one \o ss) = s \o FlattenSeq(ss)
    OBVIOUS
  <2>1. PICK init \in Seq(Seq(Bytes)), t \in Seq(Bytes) : ss = Append(init, t)
    <3>1. ss # <<>>
      BY <1>2
    <3> QED
      BY <3>1, SequenceEmptyOrAppend
  <2>2. Len(init) = n
    BY <2>1
  <2>3. FlattenSeq(one \o init) = s \o FlattenSeq(init)
    BY <1>2, <2>2
  <2>4. one \o ss = Append(one \o init, t) /\ one \o init \in Seq(Seq(Bytes))
    <3>1. Append(one \o init, t) = one \o Append(init, t)
      <4>1. ConcatAppends(Seq(Bytes))
        BY ConcatAppend
      <4> QED
        BY <1>0, <4>1, Zenon DEF ConcatAppends
    <3>2. one \o init \in Seq(Seq(Bytes))
      BY <1>0, ConcatProperties
    <3> QED
      BY <2>1, <3>1, <3>2, Zenon
  <2>5. /\ FlattenSeq(one \o ss) = FlattenSeq(one \o init) \o t
        /\ FlattenSeq(ss) = FlattenSeq(init) \o t
    BY <2>1, <2>4, FlattenAppend
  <2>6. PICK a : a = FlattenSeq(init)
    OBVIOUS
  <2>7. a \in Seq(Bytes)
    BY <2>6, FlattenType
  <2>8. (s \o a) \o t = s \o (a \o t)
    BY <2>7, TextGroups
  <2> QED
    BY <2>3, <2>5, <2>6, <2>8
<1> HIDE DEF I
<1>3. \A n \in Nat : n \in I
  BY <1>1, <1>2, SetInduction
<1>4. Len(seqs) \in Nat
  OBVIOUS
<1> QED
  BY <1>3, <1>4 DEF I, one

-------------------------------------------------------------------------------
(* The tables of the parser, and what the steps of consume_one do           *)
LEMMA LiteralIs ==
  /\ DOMAIN Literal =
       {"http_version_h", "http_version_t_1", "http_version_t_2", "http_version_p",
        "http_version_slash", "expecting_new_line_1", "space_before_header_value",
        "expecting_new_line_2"}
  /\ Literal["http_version_h"].byte = "H" /\ Literal["http_version_h"].next = "http_version_t_1"
  /\ Literal["http_version_t_1"].byte = "T" /\ Literal["http_version_t_1"].next = "http_version_t_2"
  /\ Literal["http_version_t_2"].byte = "T" /\ Literal["http_version_t_2"].next = "http_version_p"
  /\ Literal["http_version_p"].byte = "P" /\ Literal["http_version_p"].next = "http_version_slash"
  /\ Literal["http_version_slash"].byte = "/" /\ Literal["http_version_slash"].next = "http_version_major_start"
  /\ Literal["expecting_new_line_1"].byte = "LF" /\ Literal["expecting_new_line_1"].next = "header_line_start"
  /\ Literal["space_before_header_value"].byte = " " /\ Literal["space_before_header_value"].next = "header_value"
  /\ Literal["expecting_new_line_2"].byte = "LF" /\ Literal["expecting_new_line_2"].next = "header_line_start"
BY DEF Literal, To

LEMMA EndsIs ==
  /\ DOMAIN Ends =
       {"method", "uri", "http_version_major", "http_version_minor", "header_line_start",
        "header_name"}
  /\ Ends["method"].byte = " " /\ Ends["method"].next = "uri"
  /\ Ends["uri"].byte = " " /\ Ends["uri"].next = "http_version_h"
  /\ Ends["http_version_major"].byte = "." /\ Ends["http_version_major"].next = "http_version_minor_start"
  /\ Ends["http_version_minor"].byte = "CR" /\ Ends["http_version_minor"].next = "expecting_new_line_1"
  /\ Ends["header_line_start"].byte = "CR" /\ Ends["header_line_start"].next = "expecting_new_line_3"
  /\ Ends["header_name"].byte = ":" /\ Ends["header_name"].next = "space_before_header_value"
BY DEF Ends, To

LEMMA FieldIs ==
  /\ DOMAIN Field = {"method_start", "method", "uri", "http_version_major_start",
                     "http_version_major", "http_version_minor_start", "http_version_minor",
                     "header_line_start", "header_name", "header_value"}
  /\ Field["method_start"] = Tokens /\ Field["method"] = Tokens
  /\ Field["uri"] = (Bytes \ Control) \ {" "}
  /\ Field["http_version_major_start"] = Digits /\ Field["http_version_major"] = Digits
  /\ Field["http_version_minor_start"] = Digits /\ Field["http_version_minor"] = Digits
  /\ Field["header_line_start"] = Tokens /\ Field["header_name"] = Tokens
  /\ Field["header_value"] = Bytes \ Control
BY DEF Field, FieldOf

(* What is filed is a byte, and a token where a name is filed. *)
LEMMA FieldType ==
  /\ \A s \in DOMAIN Field : Field[s] \subseteq Bytes
  /\ Field["header_line_start"] \subseteq Tokens /\ Field["header_name"] \subseteq Tokens
BY FieldIs DEF Tokens, Digits, Bytes

LEMMA StatesAre ==
  States = {"http_version_h", "http_version_t_1", "http_version_t_2", "http_version_p",
            "http_version_slash", "expecting_new_line_1", "space_before_header_value",
            "expecting_new_line_2", "expecting_new_line_3", "method_start", "method", "uri",
            "http_version_major_start", "http_version_major", "http_version_minor_start",
            "http_version_minor", "header_line_start", "header_name", "header_value"}
BY LiteralIs, EndsIs, FieldIs DEF States

LEMMA SkipMoves ==
  ASSUME NEW c, SkipLiteral(c)
  PROVE  /\ UNCHANGED <<tmp, request, verdict, lines>>
         /\ \/ state = "http_version_h" /\ c = "H" /\ state' = "http_version_t_1"
            \/ state = "http_version_t_1" /\ c = "T" /\ state' = "http_version_t_2"
            \/ state = "http_version_t_2" /\ c = "T" /\ state' = "http_version_p"
            \/ state = "http_version_p" /\ c = "P" /\ state' = "http_version_slash"
            \/ state = "http_version_slash" /\ c = "/" /\ state' = "http_version_major_start"
            \/ state = "expecting_new_line_1" /\ c = "LF" /\ state' = "header_line_start"
            \/ state = "space_before_header_value" /\ c = " " /\ state' = "header_value"
            \/ state = "expecting_new_line_2" /\ c = "LF" /\ state' = "header_line_start"
<1>1. UNCHANGED <<tmp, request, verdict, lines>>
  BY DEF SkipLiteral
<1>2. state \in DOMAIN Literal /\ c = Literal[state].byte /\ state' = Literal[state].next
  BY DEF SkipLiteral
<1>3. \/ state = "http_version_h" /\ c = "H" /\ state' = "http_version_t_1"
      \/ state = "http_version_t_1" /\ c = "T" /\ state' = "http_version_t_2"
      \/ state = "http_version_t_2" /\ c = "T" /\ state' = "http_version_p"
      \/ state = "http_version_p" /\ c = "P" /\ state' = "http_version_slash"
      \/ state = "http_version_slash" /\ c = "/" /\ state' = "http_version_major_start"
      \/ state = "expecting_new_line_1" /\ c = "LF" /\ state' = "header_line_start"
      \/ state = "space_before_header_value" /\ c = " " /\ state' = "header_value"
      \/ state = "expecting_new_line_2" /\ c = "LF" /\ state' = "header_line_start"
  BY <1>2, LiteralIs, ZenonT(30)
<1> QED
  BY <1>1, <1>3

LEMMA EndMoves ==
  ASSUME NEW c, EndField(c)
  PROVE  /\ UNCHANGED <<tmp, request, verdict, lines>>
         /\ \/ state = "method" /\ c = " " /\ state' = "uri"
            \/ state = "uri" /\ c = " " /\ state' = "http_version_h"
            \/ state = "http_version_major" /\ c = "." /\ state' = "http_version_minor_start"
            \/ state = "http_version_minor" /\ c = "CR" /\ state' = "expecting_new_line_1"
            \/ state = "header_line_start" /\ c = "CR" /\ state' = "expecting_new_line_3"
            \/ state = "header_name" /\ c = ":" /\ state' = "space_before_header_value"
<1>1. UNCHANGED <<tmp, request, verdict, lines>>
  BY DEF EndField
<1>2. state \in DOMAIN Ends /\ c = Ends[state].byte /\ state' = Ends[state].next
  BY DEF EndField
<1>3. \/ state = "method" /\ c = " " /\ state' = "uri"
      \/ state = "uri" /\ c = " " /\ state' = "http_version_h"
      \/ state = "http_version_major" /\ c = "." /\ state' = "http_version_minor_start"
      \/ state = "http_version_minor" /\ c = "CR" /\ state' = "expecting_new_line_1"
      \/ state = "header_line_start" /\ c = "CR" /\ state' = "expecting_new_line_3"
      \/ state = "header_name" /\ c = ":" /\ state' = "space_before_header_value"
  BY <1>2, EndsIs
<1> QED
  BY <1>1, <1>3

LEMMA FileMoves ==
  ASSUME NEW c, FileByte(c)
  PROVE  /\ UNCHANGED <<headers, verdict, lines>>
         /\ c \in Field[state]
         /\ \/ /\ state \in {"method_start", "method"} /\ state' = "method"
               /\ method' = Append(method, c)
               /\ UNCHANGED <<url, major, minor, tmpKey, tmpValue>>
            \/ /\ state = "uri" /\ state' = "uri"
               /\ url' = Append(url, c)
               /\ UNCHANGED <<method, major, minor, tmpKey, tmpValue>>
            \/ /\ state \in {"http_version_major_start", "http_version_major"}
               /\ state' = "http_version_major"
               /\ major' = Append(major, c)
               /\ UNCHANGED <<method, url, minor, tmpKey, tmpValue>>
            \/ /\ state \in {"http_version_minor_start", "http_version_minor"}
               /\ state' = "http_version_minor"
               /\ minor' = Append(minor, c)
               /\ UNCHANGED <<method, url, major, tmpKey, tmpValue>>
            \/ /\ state \in {"header_line_start", "header_name"} /\ state' = "header_name"
               /\ tmpKey' = Append(tmpKey, c)
               /\ UNCHANGED <<method, url, major, minor, tmpValue>>
            \/ /\ state = "header_value" /\ state' = "header_value"
               /\ tmpValue' = Append(tmpValue, c)
               /\ UNCHANGED <<method, url, major, minor, tmpKey>>
<1>1. state \in {"method_start", "method", "uri", "http_version_major_start",
                 "http_version_major", "http_version_minor_start", "http_version_minor",
                 "header_line_start", "header_name", "header_value"}
  BY DEF FileByte, Field, FieldOf
<1>2. UNCHANGED <<headers, verdict, lines>> /\ c \in Field[state]
  BY DEF FileByte
<1> QED
  BY <1>1, <1>2 DEF FileByte

(* What consume_one does with a byte is determined by the state. *)
LEMMA FilesIt ==
  ASSUME NEW c, ConsumeOne(c), state \in DOMAIN Field, c \in Field[state]
  PROVE  FileByte(c)
<1>1. ~SkipLiteral(c)
  BY SkipMoves, FieldIs
<1>2. ~EndField(c)
  BY EndMoves, FieldIs DEF Tokens, Digits, Control
<1>3. ~EndLine(c)
  BY FieldIs DEF EndLine, Control
<1>4. ~Complete(c)
  BY FieldIs DEF Complete
<1>5. ~Refuse(c)
  BY DEF Refuse, Legal
<1> QED
  BY <1>1, <1>2, <1>3, <1>4, <1>5 DEF ConsumeOne

LEMMA EndsIt ==
  ASSUME NEW c, ConsumeOne(c),
         \/ state = "method" /\ c = " "
         \/ state = "uri" /\ c = " "
         \/ state = "http_version_major" /\ c = "."
         \/ state = "http_version_minor" /\ c = "CR"
         \/ state = "header_line_start" /\ c = "CR"
         \/ state = "header_name" /\ c = ":"
  PROVE  EndField(c)
<1>0. state \in DOMAIN Ends /\ c = Ends[state].byte
  BY EndsIs
<1>1. ~SkipLiteral(c)
  BY SkipMoves
<1>2. ~FileByte(c)
  BY FileMoves, FieldIs DEF Tokens, Digits, Control
<1>3. ~EndLine(c)
  BY DEF EndLine
<1>4. ~Complete(c)
  BY DEF Complete
<1>5. ~Refuse(c)
  BY <1>0 DEF Refuse, Legal
<1> QED
  BY <1>1, <1>2, <1>3, <1>4, <1>5 DEF ConsumeOne

LEMMA SkipsIt ==
  ASSUME NEW c, ConsumeOne(c),
         \/ state = "http_version_h" /\ c = "H"
         \/ state = "http_version_t_1" /\ c = "T"
         \/ state = "http_version_t_2" /\ c = "T"
         \/ state = "http_version_p" /\ c = "P"
         \/ state = "http_version_slash" /\ c = "/"
         \/ state = "expecting_new_line_1" /\ c = "LF"
         \/ state = "space_before_header_value" /\ c = " "
         \/ state = "expecting_new_line_2" /\ c = "LF"
  PROVE  SkipLiteral(c)
<1>0. state \in DOMAIN Literal /\ c = Literal[state].byte
  BY LiteralIs
<1>1. ~EndField(c)
  BY EndMoves
<1>2. ~FileByte(c)
  BY FileMoves
<1>3. ~EndLine(c)
  BY DEF EndLine
<1>4. ~Complete(c)
  BY DEF Complete
<1>5. ~Refuse(c)
  BY <1>0 DEF Refuse, Legal
<1> QED
  BY <1>1, <1>2, <1>3, <1>4, <1>5 DEF ConsumeOne

LEMMA EndsLine ==
  ASSUME NEW c, ConsumeOne(c), state = "header_value", c = "CR"
  PROVE  EndLine(c)
<1>1. ~SkipLiteral(c)
  BY SkipMoves
<1>2. ~EndField(c)
  BY EndMoves
<1>3. ~FileByte(c)
  BY FileMoves, FieldIs DEF Control
<1>4. ~Complete(c)
  BY DEF Complete
<1>5. ~Refuse(c)
  BY DEF Refuse, Legal
<1> QED
  BY <1>1, <1>2, <1>3, <1>4, <1>5 DEF ConsumeOne

LEMMA Completes ==
  ASSUME NEW c, ConsumeOne(c), state = "expecting_new_line_3", c = "LF"
  PROVE  Complete(c)
<1>1. ~SkipLiteral(c)
  BY SkipMoves
<1>2. ~EndField(c)
  BY EndMoves
<1>3. ~FileByte(c)
  BY FileMoves
<1>4. ~EndLine(c)
  BY DEF EndLine
<1>5. ~Refuse(c)
  BY DEF Refuse, Legal
<1> QED
  BY <1>1, <1>2, <1>3, <1>4, <1>5 DEF ConsumeOne

LEMMA RefusesIt ==
  ASSUME NEW c, ConsumeOne(c),
         \/ state = "space_before_header_value" /\ c # " "
         \/ state = "header_value" /\ c = "TAB"
  PROVE  Refuse(c)
<1>1. ~SkipLiteral(c)
  BY SkipMoves
<1>2. ~EndField(c)
  BY EndMoves
<1>3. ~FileByte(c)
  BY FileMoves, FieldIs DEF Control
<1>4. ~EndLine(c)
  BY DEF EndLine
<1>5. ~Complete(c)
  BY DEF Complete
<1> QED
  BY <1>1, <1>2, <1>3, <1>4, <1>5 DEF ConsumeOne

-------------------------------------------------------------------------------
(* The type of every variable                                              *)
LEMMA LiteralLeads == \A s \in DOMAIN Literal : Literal[s].next \in States
  BY LiteralIs, StatesAre

LEMMA EndLeads == \A s \in DOMAIN Ends : Ends[s].next \in States
  BY EndsIs, StatesAre

LEMMA FileByteType ==
  ASSUME TypeOK, NEW c \in Bytes, FileByte(c)
  PROVE  /\ state' \in States
         /\ tmpKey' \in Seq(Tokens) /\ tmpValue' \in Seq(Bytes)
         /\ method' \in Seq(Bytes) /\ url' \in Seq(Bytes)
         /\ major' \in Seq(Bytes) /\ minor' \in Seq(Bytes)
<1>1. state \in DOMAIN Field /\ c \in Field[state]
  BY DEF FileByte
<1>2. state' \in DOMAIN Field
  BY <1>1 DEF FileByte, Field, FieldOf
<1>3. method' \in {method, Append(method, c)} /\ url' \in {url, Append(url, c)}
      /\ major' \in {major, Append(major, c)} /\ minor' \in {minor, Append(minor, c)}
      /\ tmpValue' \in {tmpValue, Append(tmpValue, c)}
  BY DEF FileByte
<1>4. tmpKey' \in Seq(Tokens)
  <2>1. CASE tmpKey' = tmpKey
    BY <2>1 DEF TypeOK
  <2>2. CASE state' = "header_name" /\ tmpKey' = Append(tmpKey, c)
    <3>1. state \in {"header_line_start", "header_name"}
      BY <2>2 DEF FileByte
    <3>2. c \in Tokens
      BY <1>1, <3>1, FieldType
    <3> QED
      BY <2>2, <3>2 DEF TypeOK
  <2>3. tmpKey' = IF state' = "header_name" THEN Append(tmpKey, c) ELSE tmpKey
    BY DEF FileByte
  <2> QED
    BY <2>1, <2>2, <2>3
<1>5. \A s \in Seq(Bytes) : Append(s, c) \in Seq(Bytes)
  OBVIOUS
<1>6. /\ method' \in Seq(Bytes) /\ url' \in Seq(Bytes) /\ major' \in Seq(Bytes)
      /\ minor' \in Seq(Bytes) /\ tmpValue' \in Seq(Bytes)
  BY <1>3, <1>5 DEF TypeOK
<1>7. state' \in States
  BY <1>2 DEF States
<1> QED
  BY <1>4, <1>6, <1>7

LEMMA ConsumeType ==
  ASSUME TypeOK, NEW c \in Bytes, ConsumeOne(c)
  PROVE  TypeOK'
<1>1. input' \in Seq(Bytes)
  BY DEF ConsumeOne, TypeOK
<1>2. CASE SkipLiteral(c) \/ EndField(c)
  <2>1. state' \in States
    BY <1>2, LiteralLeads, EndLeads DEF SkipLiteral, EndField
  <2> QED
    BY <1>1, <1>2, <2>1 DEF SkipLiteral, EndField, tmp, request, TypeOK
<1>3. CASE FileByte(c)
  <2>1. UNCHANGED <<headers, verdict, lines>>
    BY <1>3 DEF FileByte
  <2> QED
    BY <1>1, <1>3, <2>1, FileByteType DEF TypeOK
<1>4. CASE EndLine(c)
  <2>1. lines' \in Seq(Line)
    BY <1>4 DEF EndLine, TypeOK, Line
  <2>2. state' \in States /\ tmpKey' = <<>> /\ tmpValue' = <<>>
    BY <1>4 DEF EndLine, States, Literal
  <2> QED
    BY <1>1, <1>4, <2>1, <2>2, EmptySeq DEF EndLine, TypeOK, Line
<1>5. CASE Complete(c) \/ Refuse(c)
  BY <1>1, <1>5 DEF Complete, Refuse, tmp, request, TypeOK
<1> QED
  BY <1>2, <1>3, <1>4, <1>5 DEF ConsumeOne

-------------------------------------------------------------------------------
(* Of several header lines with one name the first counts.                 *)
(* A header line that ends: its name is new, and it counts, or it is not,  *)
(* and the one before it does.                                             *)
LEMMA EndLineCounts ==
  ASSUME TypeOK, FirstLineCounts, NEW c, EndLine(c)
  PROVE  FirstLineCounts'
<1> DEFINE key == Lower(tmpKey)
           n == Len(lines)
<1>1. n \in Nat /\ DOMAIN lines = 1..n
  BY DEF TypeOK
<1>2. /\ DOMAIN lines' = 1..n + 1
      /\ \A i \in 1..n : lines'[i] = lines[i]
      /\ lines'[n + 1] = [name |-> tmpKey, value |-> tmpValue]
  BY <1>1 DEF EndLine, TypeOK
<1>3. /\ DOMAIN headers' = DOMAIN headers \cup {key}
      /\ \A k \in DOMAIN headers : headers'[k] = headers[k]
      /\ key \notin DOMAIN headers => headers'[key] = tmpValue
  BY DEF EndLine, Emplaced
<1>4. Lower(lines'[n + 1].name) = key /\ \A i \in 1..n : Lower(lines'[i].name) = Lower(lines[i].name)
  BY <1>2
<1>5. DOMAIN headers' = {Lower(lines'[i].name) : i \in DOMAIN lines'}
  BY <1>1, <1>2, <1>3, <1>4, SMTT(30) DEF FirstLineCounts
<1>6. ASSUME NEW i \in DOMAIN lines',
             \A j \in 1..i - 1 : Lower(lines'[j].name) # Lower(lines'[i].name)
      PROVE  headers'[Lower(lines'[i].name)] = lines'[i].value
  <2>1. CASE i \in 1..n
    <3>1. \A j \in 1..i - 1 : Lower(lines[j].name) # Lower(lines[i].name)
      BY <1>1, <1>4, <1>6, <2>1
    <3>2. Lower(lines[i].name) \in DOMAIN headers /\ headers[Lower(lines[i].name)] = lines[i].value
      BY <1>1, <2>1, <3>1 DEF FirstLineCounts
    <3> QED
      BY <1>2, <1>3, <1>4, <2>1, <3>2
  <2>2. CASE i = n + 1
    <3>1. key \notin DOMAIN headers
      BY <1>1, <1>4, <1>6, <2>2 DEF FirstLineCounts
    <3> QED
      BY <1>2, <1>3, <1>4, <2>2, <3>1
  <2> QED
    BY <1>1, <1>2, <2>1, <2>2
<1> QED
  BY <1>5, <1>6 DEF FirstLineCounts

LEMMA ConsumeCounts ==
  ASSUME TypeOK, FirstLineCounts, NEW c, ConsumeOne(c)
  PROVE  FirstLineCounts'
<1>1. CASE EndLine(c)
  BY <1>1, EndLineCounts
<1>2. CASE ~EndLine(c)
  <2>1. UNCHANGED <<headers, lines>>
    BY <1>2 DEF ConsumeOne, SkipLiteral, EndField, FileByte, Complete, Refuse, request
  <2> QED
    BY <2>1 DEF FirstLineCounts
<1> QED
  BY <1>1, <1>2

-------------------------------------------------------------------------------
(* What has been consumed is the text of what has been filed.              *)
(* The text of what has been filed, up to a field and including it *)
UpToUrl == method \o <<" ">> \o url
UpToMajor == UpToUrl \o <<" ", "H", "T", "T", "P", "/">> \o major
UpToMinor == UpToMajor \o <<".">> \o minor
UpToLines == UpToMinor \o <<"CR", "LF">> \o HeaderLines(lines)
UpToKey == UpToLines \o tmpKey
UpToColon == Append(UpToKey, ":")
UpToBlank == Append(UpToUrl, " ")
UpToValue == UpToKey \o <<":", " ">> \o tmpValue

Consumed ==
  /\ state = "method_start" => input = <<>>
  /\ state = "method" => input = method
  /\ state = "uri" => input = UpToUrl
  /\ state = "http_version_h" => input = UpToBlank
  /\ state = "http_version_t_1" => input = Append(UpToBlank, "H")
  /\ state = "http_version_t_2" => input = Append(Append(UpToBlank, "H"), "T")
  /\ state = "http_version_p" =>
       input = Append(Append(Append(UpToBlank, "H"), "T"), "T")
  /\ state = "http_version_slash" =>
       input = Append(Append(Append(Append(UpToBlank, "H"), "T"), "T"), "P")
  /\ state \in {"http_version_major_start", "http_version_major"} => input = UpToMajor
  /\ state = "http_version_minor_start" => input = Append(UpToMajor, ".")
  /\ state = "http_version_minor" => input = UpToMinor
  /\ state = "expecting_new_line_1" => input = Append(UpToMinor, "CR")
  /\ state = "header_line_start" => input = UpToLines
  /\ state = "header_name" => input = UpToKey
  /\ state = "space_before_header_value" => input = UpToColon
  /\ state = "header_value" => input = UpToValue
  /\ state = "expecting_new_line_2" => Append(input, "LF") = UpToLines
  /\ state = "expecting_new_line_3" => input = Append(UpToLines, "CR")

(* What has not been reached is empty. *)
BeforeUrl == {"method_start", "method"}
BeforeMajor ==
  BeforeUrl \cup {"uri", "http_version_h", "http_version_t_1", "http_version_t_2",
                  "http_version_p", "http_version_slash", "http_version_major_start"}
BeforeMinor == BeforeMajor \cup {"http_version_major", "http_version_minor_start"}
BeforeLines == BeforeMinor \cup {"http_version_minor", "expecting_new_line_1"}
InLine == {"header_name", "space_before_header_value", "header_value"}

EmptyAhead ==
  /\ state = "method_start" => method = <<>>
  /\ state \in BeforeUrl => url = <<>>
  /\ state \in BeforeMajor => major = <<>>
  /\ state \in BeforeMinor => minor = <<>>
  /\ state \in BeforeLines => lines = <<>>
  /\ state \notin InLine => tmpKey = <<>>
  /\ state # "header_value" => tmpValue = <<>>

LEMMA UpToType ==
  ASSUME TypeOK
  PROVE  /\ UpToUrl \in Seq(Bytes) /\ UpToMajor \in Seq(Bytes) /\ UpToMinor \in Seq(Bytes)
         /\ UpToLines \in Seq(Bytes) /\ UpToKey \in Seq(Bytes) /\ UpToValue \in Seq(Bytes)
         /\ HeaderLines(lines) \in Seq(Bytes)
<1>1. /\ <<" ">> \in Seq(Bytes) /\ <<" ", "H", "T", "T", "P", "/">> \in Seq(Bytes)
      /\ <<".">> \in Seq(Bytes) /\ <<"CR", "LF">> \in Seq(Bytes) /\ <<":", " ">> \in Seq(Bytes)
  BY BytesAre, TupleType
<1>2. /\ HeaderLines(lines) \in Seq(Bytes) /\ tmpKey \in Seq(Bytes)
      /\ method \in Seq(Bytes) /\ url \in Seq(Bytes)
      /\ major \in Seq(Bytes) /\ minor \in Seq(Bytes) /\ tmpValue \in Seq(Bytes)
  BY HeaderLinesType, BytesAre, SeqMonotonic DEF TypeOK, Line
<1>3. UpToUrl \in Seq(Bytes)
  BY <1>1, <1>2, ConcatProperties DEF UpToUrl
<1>4. UpToMajor \in Seq(Bytes)
  BY <1>1, <1>2, <1>3, ConcatProperties DEF UpToMajor
<1>5. UpToMinor \in Seq(Bytes)
  BY <1>1, <1>2, <1>4, ConcatProperties DEF UpToMinor
<1>6. UpToLines \in Seq(Bytes)
  BY <1>1, <1>2, <1>5, ConcatProperties DEF UpToLines
<1>7. UpToKey \in Seq(Bytes)
  BY <1>1, <1>2, <1>6, ConcatProperties DEF UpToKey
<1>8. UpToValue \in Seq(Bytes)
  BY <1>1, <1>2, <1>7, ConcatProperties DEF UpToValue
<1> QED
  BY <1>2, <1>3, <1>4, <1>5, <1>6, <1>7, <1>8

LEMMA AheadStep ==
  ASSUME EmptyAhead, NEW c, ConsumeOne(c)
  PROVE  EmptyAhead'
<1> USE DEF EmptyAhead, BeforeLines, BeforeMinor, BeforeMajor, BeforeUrl, InLine
<1>1. CASE SkipLiteral(c)
  BY <1>1, SkipMoves DEF tmp, request
<1>2. CASE EndField(c)
  BY <1>2, EndMoves DEF tmp, request
<1>3. CASE FileByte(c)
  BY <1>3, FileMoves
<1>4. CASE EndLine(c)
  BY <1>4 DEF EndLine
<1>5. CASE Complete(c) \/ Refuse(c)
  BY <1>5 DEF Complete, Refuse, tmp, request
<1> QED
  BY <1>1, <1>2, <1>3, <1>4, <1>5 DEF ConsumeOne

(* A field that is empty adds nothing. *)
LEMMA EmptyFields ==
  ASSUME TypeOK
  PROVE  /\ url = <<>> => UpToUrl = Append(method, " ")
         /\ major = <<>> =>
              UpToMajor = Append(Append(Append(Append(Append(Append(UpToUrl, " "), "H"), "T"), "T"), "P"), "/")
         /\ minor = <<>> => UpToMinor = Append(UpToMajor, ".")
         /\ lines = <<>> => UpToLines = Append(Append(UpToMinor, "CR"), "LF")
         /\ tmpKey = <<>> => UpToKey = UpToLines
         /\ tmpValue = <<>> => UpToValue = Append(Append(UpToKey, ":"), " ")
<1>1. /\ UpToUrl \in Seq(Bytes) /\ UpToMajor \in Seq(Bytes) /\ UpToMinor \in Seq(Bytes)
      /\ UpToLines \in Seq(Bytes) /\ UpToKey \in Seq(Bytes) /\ method \in Seq(Bytes)
  BY UpToType DEF TypeOK
<1>2. \A s \in Seq(Bytes) : s \o <<>> = s
  BY ConcatEmptySeq
<1>3. ASSUME url = <<>> PROVE UpToUrl = Append(method, " ")
  <2>1. Append(method, " ") = method \o <<" ">> /\ Append(method, " ") \in Seq(Bytes)
    BY <1>1, BytesAre, AppendIsConcat, AppendProperties
  <2> QED
    BY <1>2, <1>3, <2>1 DEF UpToUrl
<1>4. ASSUME major = <<>>
      PROVE  UpToMajor = Append(Append(Append(Append(Append(Append(UpToUrl, " "), "H"), "T"), "T"), "P"), "/")
  <2> DEFINE b == <<" ", "H", "T", "T", "P", "/">>
  <2>1. b \in Seq(Bytes)
    BY BytesAre, TupleType
  <2>2. UpToUrl \o b = Append(Append(Append(Append(Append(Append(UpToUrl, " "), "H"), "T"), "T"), "P"), "/")
    BY <1>1, AppendsToConcat
  <2> HIDE DEF b
  <2>3. UpToUrl \o b \in Seq(Bytes)
    BY <1>1, <2>1, ConcatProperties
  <2>4. UpToMajor = (UpToUrl \o b) \o <<>>
    BY <1>4 DEF UpToMajor, b
  <2> QED
    BY <1>2, <2>2, <2>3, <2>4
<1>5. ASSUME minor = <<>> PROVE UpToMinor = Append(UpToMajor, ".")
  <2>1. Append(UpToMajor, ".") = UpToMajor \o <<".">> /\ Append(UpToMajor, ".") \in Seq(Bytes)
    BY <1>1, BytesAre, AppendIsConcat, AppendProperties
  <2> QED
    BY <1>2, <1>5, <2>1 DEF UpToMinor
<1>6. ASSUME lines = <<>> PROVE UpToLines = Append(Append(UpToMinor, "CR"), "LF")
  <2> DEFINE b == <<"CR", "LF">>
  <2>1. b \in Seq(Bytes)
    BY BytesAre, TupleType
  <2>2. UpToMinor \o b = Append(Append(UpToMinor, "CR"), "LF")
    BY <1>1, AppendsToConcat
  <2> HIDE DEF b
  <2>3. UpToMinor \o b \in Seq(Bytes)
    BY <1>1, <2>1, ConcatProperties
  <2>4. UpToLines = (UpToMinor \o b) \o <<>>
    BY <1>6, HeaderLinesEmpty DEF UpToLines, b
  <2> QED
    BY <1>2, <2>2, <2>3, <2>4
<1>7. ASSUME tmpKey = <<>> PROVE UpToKey = UpToLines
  BY <1>1, <1>2, <1>7 DEF UpToKey
<1>8. ASSUME tmpValue = <<>> PROVE UpToValue = Append(Append(UpToKey, ":"), " ")
  <2> DEFINE b == <<":", " ">>
  <2>1. b \in Seq(Bytes)
    BY BytesAre, TupleType
  <2>2. UpToKey \o b = Append(Append(UpToKey, ":"), " ")
    BY <1>1, AppendsToConcat
  <2> HIDE DEF b
  <2>3. UpToKey \o b \in Seq(Bytes)
    BY <1>1, <2>1, ConcatProperties
  <2>4. UpToValue = (UpToKey \o b) \o <<>>
    BY <1>8 DEF UpToValue, b
  <2> QED
    BY <1>2, <2>2, <2>3, <2>4
<1> QED
  BY <1>3, <1>4, <1>5, <1>6, <1>7, <1>8

LEMMA SameTexts ==
  /\ UNCHANGED <<method, url>> => UpToUrl' = UpToUrl
  /\ UNCHANGED <<method, url, major>> => UpToMajor' = UpToMajor
  /\ UNCHANGED <<method, url, major, minor>> => UpToMinor' = UpToMinor
  /\ UNCHANGED <<method, url, major, minor, lines>> => UpToLines' = UpToLines
  /\ UNCHANGED <<method, url, major, minor, lines, tmpKey>> => UpToKey' = UpToKey
  /\ UNCHANGED <<method, url, major, minor, lines, tmpKey, tmpValue>> => UpToValue' = UpToValue
<1>1. UNCHANGED lines => HeaderLines(lines)' = HeaderLines(lines)
  OBVIOUS
<1>2. UNCHANGED <<method, url>> => UpToUrl' = UpToUrl
  BY DEF UpToUrl
<1>3. UNCHANGED <<method, url, major>> => UpToMajor' = UpToMajor
  BY <1>2 DEF UpToMajor
<1>4. UNCHANGED <<method, url, major, minor>> => UpToMinor' = UpToMinor
  BY <1>3 DEF UpToMinor
<1>5. UNCHANGED <<method, url, major, minor, lines>> => UpToLines' = UpToLines
  BY <1>1, <1>4 DEF UpToLines
<1>6. UNCHANGED <<method, url, major, minor, lines, tmpKey>> => UpToKey' = UpToKey
  BY <1>5 DEF UpToKey
<1>7. UNCHANGED <<method, url, major, minor, lines, tmpKey, tmpValue>> => UpToValue' = UpToValue
  BY <1>6 DEF UpToValue
<1> QED
  BY <1>2, <1>3, <1>4, <1>5, <1>6, <1>7

LEMMA SkipConsumed ==
  ASSUME TypeOK, EmptyAhead, Consumed, NEW c, SkipLiteral(c) \/ EndField(c), input' = Append(input, c)
  PROVE  Consumed'
<1>1. UNCHANGED <<tmp, request, verdict, lines>>
  BY SkipMoves, EndMoves
<1>2. /\ UpToUrl' = UpToUrl /\ UpToMajor' = UpToMajor /\ UpToMinor' = UpToMinor
      /\ UpToLines' = UpToLines /\ UpToKey' = UpToKey /\ UpToValue' = UpToValue /\ method' = method
  BY <1>1, SameTexts DEF tmp, request
<1>3. UpToBlank' = UpToBlank
  BY <1>2 DEF UpToBlank
<1>4. CASE SkipLiteral(c)
  <2>1. CASE state = "http_version_h" /\ c = "H" /\ state' = "http_version_t_1"
    BY <1>2, <1>3, <2>1 DEF Consumed
  <2>2. CASE state = "http_version_t_1" /\ c = "T" /\ state' = "http_version_t_2"
    BY <1>2, <1>3, <2>2 DEF Consumed
  <2>3. CASE state = "http_version_t_2" /\ c = "T" /\ state' = "http_version_p"
    BY <1>2, <1>3, <2>3 DEF Consumed
  <2>4. CASE state = "http_version_p" /\ c = "P" /\ state' = "http_version_slash"
    BY <1>2, <1>3, <2>4 DEF Consumed
  <2>5. CASE state = "http_version_slash" /\ c = "/" /\ state' = "http_version_major_start"
    <3>1. major = <<>>
      BY <2>5 DEF EmptyAhead, BeforeMajor
    <3> QED
      BY <1>2, <1>3, <2>5, <3>1, EmptyFields DEF Consumed, UpToBlank
  <2>6. CASE state = "expecting_new_line_1" /\ c = "LF" /\ state' = "header_line_start"
    <3>1. lines = <<>>
      BY <2>6 DEF EmptyAhead, BeforeLines
    <3> QED
      BY <1>2, <2>6, <3>1, EmptyFields DEF Consumed
  <2>7. CASE state = "space_before_header_value" /\ c = " " /\ state' = "header_value"
    <3>1. tmpValue = <<>>
      BY <2>7 DEF EmptyAhead
    <3> QED
      BY <1>2, <2>7, <3>1, EmptyFields DEF Consumed, UpToColon
  <2>8. CASE state = "expecting_new_line_2" /\ c = "LF" /\ state' = "header_line_start"
    BY <1>2, <2>8 DEF Consumed
  <2> QED
    BY <1>4, <2>1, <2>2, <2>3, <2>4, <2>5, <2>6, <2>7, <2>8, SkipMoves, ZenonT(30)
<1>5. CASE EndField(c)
  <2>1. CASE state = "method" /\ c = " " /\ state' = "uri"
    <3>1. url = <<>>
      BY <2>1 DEF EmptyAhead, BeforeUrl
    <3> QED
      BY <1>2, <2>1, <3>1, EmptyFields DEF Consumed
  <2>2. CASE state = "uri" /\ c = " " /\ state' = "http_version_h"
    BY <1>2, <2>2 DEF Consumed, UpToBlank
  <2>3. CASE state = "http_version_major" /\ c = "." /\ state' = "http_version_minor_start"
    BY <1>2, <2>3 DEF Consumed
  <2>4. CASE state = "http_version_minor" /\ c = "CR" /\ state' = "expecting_new_line_1"
    BY <1>2, <2>4 DEF Consumed
  <2>5. CASE state = "header_line_start" /\ c = "CR" /\ state' = "expecting_new_line_3"
    BY <1>2, <2>5 DEF Consumed
  <2>6. CASE state = "header_name" /\ c = ":" /\ state' = "space_before_header_value"
    BY <1>2, <2>6 DEF Consumed, UpToColon
  <2> QED
    BY <1>5, <2>1, <2>2, <2>3, <2>4, <2>5, <2>6, EndMoves
<1> QED
  BY <1>4, <1>5

LEMMA FileConsumed ==
  ASSUME TypeOK, EmptyAhead, Consumed, NEW c \in Bytes, FileByte(c), input' = Append(input, c)
  PROVE  Consumed'
<1>1. UNCHANGED <<headers, verdict, lines>>
  BY FileMoves
<1>2. /\ UpToUrl \in Seq(Bytes) /\ UpToMajor \in Seq(Bytes) /\ UpToMinor \in Seq(Bytes)
      /\ UpToLines \in Seq(Bytes) /\ UpToKey \in Seq(Bytes) /\ UpToValue \in Seq(Bytes)
      /\ method \in Seq(Bytes) /\ url \in Seq(Bytes) /\ major \in Seq(Bytes)
      /\ minor \in Seq(Bytes) /\ tmpKey \in Seq(Bytes) /\ tmpValue \in Seq(Bytes)
  BY UpToType, BytesAre, SeqMonotonic DEF TypeOK
<1>3. CASE /\ state \in {"method_start", "method"} /\ state' = "method"
           /\ method' = Append(method, c)
  <2>1. state = "method_start" => method = <<>>
    BY DEF EmptyAhead
  <2>2. input = method
    BY <1>3, <2>1 DEF Consumed
  <2> QED
    BY <1>3, <2>2 DEF Consumed
<1>4. CASE /\ state = "uri" /\ state' = "uri"
           /\ url' = Append(url, c)
           /\ UNCHANGED <<method, major, minor, tmpKey, tmpValue>>
  <2> DEFINE s == method \o <<" ">>
  <2>1. s \in Seq(Bytes)
    BY <1>2, BytesAre, TupleType, ConcatProperties
  <2> HIDE DEF s
  <2>2. Append(s \o url, c) = s \o Append(url, c)
    BY <1>2, <2>1, TextAppend, ZenonT(30)
  <2>3. UpToUrl = s \o url /\ UpToUrl' = s \o Append(url, c)
    BY <1>4 DEF UpToUrl, s
  <2> QED
    BY <1>4, <2>2, <2>3 DEF Consumed
<1>5. CASE /\ state \in {"http_version_major_start", "http_version_major"}
           /\ state' = "http_version_major"
           /\ major' = Append(major, c)
           /\ UNCHANGED <<method, url, minor, tmpKey, tmpValue>>
  <2> DEFINE s == UpToUrl \o <<" ", "H", "T", "T", "P", "/">>
  <2>1. s \in Seq(Bytes)
    <3>1. <<" ", "H", "T", "T", "P", "/">> \in Seq(Bytes)
      BY BytesAre, TupleType
    <3> QED
      BY <1>2, <3>1, ConcatProperties
  <2>4. UpToUrl' = UpToUrl
    BY <1>5, SameTexts
  <2>3. UpToMajor = s \o major /\ UpToMajor' = s \o Append(major, c)
    BY <1>5, <2>4 DEF UpToMajor
  <2> HIDE DEF s
  <2>2. Append(s \o major, c) = s \o Append(major, c)
    BY <1>2, <2>1, TextAppend, ZenonT(30)
  <2> QED
    BY <1>5, <2>2, <2>3 DEF Consumed
<1>6. CASE /\ state \in {"http_version_minor_start", "http_version_minor"}
           /\ state' = "http_version_minor"
           /\ minor' = Append(minor, c)
           /\ UNCHANGED <<method, url, major, tmpKey, tmpValue>>
  <2> DEFINE s == UpToMajor \o <<".">>
  <2>1. s \in Seq(Bytes)
    BY <1>2, BytesAre, TupleType, ConcatProperties
  <2>4. UpToMajor' = UpToMajor
    BY <1>6, SameTexts
  <2>3. UpToMinor = s \o minor /\ UpToMinor' = s \o Append(minor, c)
    BY <1>6, <2>4 DEF UpToMinor
  <2> HIDE DEF s
  <2>2. Append(s \o minor, c) = s \o Append(minor, c)
    BY <1>2, <2>1, TextAppend, ZenonT(30)
  <2>5. input = UpToMinor
    <3>1. state = "http_version_minor_start" => minor = <<>>
      BY DEF EmptyAhead, BeforeMinor
    <3> QED
      BY <1>6, <3>1, EmptyFields DEF Consumed
  <2> QED
    BY <1>6, <2>2, <2>3, <2>5 DEF Consumed
<1>7. CASE /\ state \in {"header_line_start", "header_name"} /\ state' = "header_name"
           /\ tmpKey' = Append(tmpKey, c)
           /\ UNCHANGED <<method, url, major, minor, tmpValue>>
  <2> DEFINE s == UpToLines
  <2>1. s \in Seq(Bytes)
    BY <1>2
  <2>4. UpToLines' = UpToLines
    BY <1>1, <1>7, SameTexts
  <2>3. UpToKey = s \o tmpKey /\ UpToKey' = s \o Append(tmpKey, c)
    BY <1>7, <2>4 DEF UpToKey
  <2> HIDE DEF s
  <2>2. Append(s \o tmpKey, c) = s \o Append(tmpKey, c)
    BY <1>2, <2>1, TextAppend, ZenonT(30)
  <2>5. input = UpToKey
    <3>1. state = "header_line_start" => tmpKey = <<>>
      BY DEF EmptyAhead, InLine
    <3> QED
      BY <1>7, <3>1, EmptyFields DEF Consumed
  <2> QED
    BY <1>7, <2>2, <2>3, <2>5 DEF Consumed
<1>8. CASE /\ state = "header_value" /\ state' = "header_value"
           /\ tmpValue' = Append(tmpValue, c)
           /\ UNCHANGED <<method, url, major, minor, tmpKey>>
  <2> DEFINE s == UpToKey \o <<":", " ">>
  <2>1. s \in Seq(Bytes)
    <3>1. <<":", " ">> \in Seq(Bytes)
      BY BytesAre, TupleType
    <3> QED
      BY <1>2, <3>1, ConcatProperties
  <2>4. UpToKey' = UpToKey
    BY <1>1, <1>8, SameTexts
  <2>3. UpToValue = s \o tmpValue /\ UpToValue' = s \o Append(tmpValue, c)
    BY <1>8, <2>4 DEF UpToValue
  <2> HIDE DEF s
  <2>2. Append(s \o tmpValue, c) = s \o Append(tmpValue, c)
    BY <1>2, <2>1, TextAppend, ZenonT(30)
  <2> QED
    BY <1>8, <2>2, <2>3 DEF Consumed
<1> QED
  BY <1>3, <1>4, <1>5, <1>6, <1>7, <1>8, FileMoves

LEMMA EndLineConsumed ==
  ASSUME TypeOK, Consumed, NEW c, EndLine(c), input' = Append(input, c)
  PROVE  Consumed'
<1> DEFINE l == [name |-> tmpKey, value |-> tmpValue]
           h == HeaderLines(lines)
           s == UpToMinor \o <<"CR", "LF">>
           b == <<":", " ">>
           e == <<"CR", "LF">>
<1>1. /\ state = "header_value" /\ c = "CR" /\ state' = "expecting_new_line_2"
      /\ UNCHANGED <<method, url, major, minor>>
      /\ lines' = Append(lines, l)
  BY DEF EndLine
<1>2. /\ UpToMinor \in Seq(Bytes) /\ UpToValue \in Seq(Bytes)
      /\ h \in Seq(Bytes) /\ tmpKey \in Seq(Bytes) /\ tmpValue \in Seq(Bytes)
      /\ b \in Seq(Bytes) /\ e \in Seq(Bytes)
  BY UpToType, BytesAre, SeqMonotonic, TupleType DEF TypeOK
<1>3. l \in Line /\ lines \in Seq(Line)
  BY DEF TypeOK, Line
<1>4. HeaderLines(lines)' = h \o LineText(l)
  BY <1>1, <1>3, HeaderLinesAppend
<1>5. LineText(l) = ((tmpKey \o b) \o tmpValue) \o e
  BY DEF LineText
<1>6. UpToValue = (((s \o h) \o tmpKey) \o b) \o tmpValue
  BY DEF UpToValue, UpToKey, UpToLines
<1>7. UpToLines' = s \o HeaderLines(lines)'
  BY <1>1, SameTexts DEF UpToLines
<1>8. s \in Seq(Bytes)
  BY <1>2, ConcatProperties
<1>9. Append(Append(UpToValue, "CR"), "LF") = UpToValue \o e
  BY <1>2, AppendsToConcat
<1> HIDE DEF l, h, s, b, e
<1>10. s \o h \in Seq(Bytes)
  BY <1>2, <1>8, ConcatProperties
<1>11. LineText(l) \in Seq(Bytes)
  BY <1>3, LineTextType
<1>12. s \o (h \o LineText(l)) = (s \o h) \o LineText(l)
  <2> DEFINE t == LineText(l)
  <2>1. s \in Seq(Bytes) /\ h \in Seq(Bytes) /\ t \in Seq(Bytes)
    BY <1>2, <1>8, <1>11
  <2> HIDE DEF t
  <2>2. s \o (h \o t) = (s \o h) \o t
    BY <2>1, TextGroups
  <2> QED
    BY <2>2 DEF t
<1>13. (s \o h) \o (((tmpKey \o b) \o tmpValue) \o e)
         = ((((s \o h) \o tmpKey) \o b) \o tmpValue) \o e
  <2> DEFINE x == s \o h
             k == tmpKey \o b
             v == k \o tmpValue
  <2>1. x \in Seq(Bytes)
    BY <1>10
  <2> HIDE DEF x
  <2>2. \A t, u \in Seq(Bytes) : x \o (t \o u) = (x \o t) \o u
    BY <2>1, TextGroups
  <2>3. k \in Seq(Bytes)
    BY <1>2, TextConcat
  <2>4. x \o k = (x \o tmpKey) \o b
    BY <1>2, <2>2, Zenon
  <2> HIDE DEF k
  <2>5. v \in Seq(Bytes)
    BY <1>2, <2>3, TextConcat
  <2>6. x \o v = (x \o k) \o tmpValue
    BY <1>2, <2>2, <2>3, Zenon
  <2> HIDE DEF v
  <2>7. x \o (v \o e) = (x \o v) \o e
    BY <1>2, <2>2, <2>5, Zenon
  <2> QED
    BY <2>4, <2>6, <2>7, Zenon DEF x, k, v
<1>14. Append(input', "LF") = UpToLines'
  <2>1. input' = Append(UpToValue, "CR")
    BY <1>1 DEF Consumed
  <2> QED
    BY <2>1, <1>4, <1>5, <1>6, <1>7, <1>9, <1>12, <1>13
<1> QED
  BY <1>1, <1>14 DEF Consumed

LEMMA CompleteIsText ==
  ASSUME TypeOK, Consumed, NEW c, Complete(c), input' = Append(input, c)
  PROVE  input' = HeadText(Parsed)'
<1>1. input = Append(UpToLines, "CR") /\ c = "LF"
  BY DEF Complete, Consumed
<1>2. UNCHANGED <<method, url, major, minor, lines>>
  BY DEF Complete, request
<1>3. UpToLines' = UpToLines
  BY <1>2, SameTexts
<1>4. HeadText(Parsed)' = UpToLines' \o <<"CR", "LF">>
  BY DEF HeadText, Parsed, RequestLine, UpToLines, UpToMinor, UpToMajor, UpToUrl
<1>5. Append(Append(UpToLines, "CR"), "LF") = UpToLines \o <<"CR", "LF">>
  BY UpToType, AppendsToConcat
<1> QED
  BY <1>1, <1>3, <1>4, <1>5

LEMMA ConsumeText ==
  ASSUME TypeOK, EmptyAhead, verdict = "indeterminate" => Consumed, NEW c \in Bytes, ConsumeOne(c)
  PROVE  /\ verdict' = "indeterminate" => Consumed'
         /\ AcceptedIsText'
<1>1. Consumed /\ input' = Append(input, c)
  BY DEF ConsumeOne
<1>2. CASE SkipLiteral(c) \/ EndField(c)
  BY <1>1, <1>2, SkipConsumed DEF SkipLiteral, EndField, ConsumeOne, AcceptedIsText
<1>3. CASE FileByte(c)
  <2>1. verdict' = "indeterminate"
    BY <1>3, FileMoves DEF ConsumeOne
  <2> QED
    BY <1>1, <1>3, <2>1, FileConsumed DEF AcceptedIsText
<1>4. CASE EndLine(c)
  <2>1. verdict' = "indeterminate"
    BY <1>4 DEF EndLine, ConsumeOne
  <2> QED
    BY <1>1, <1>4, <2>1, EndLineConsumed DEF AcceptedIsText
<1>5. CASE Complete(c)
  <2>1. verdict' = "complete"
    BY <1>5 DEF Complete
  <2> QED
    BY <1>1, <1>5, <2>1, CompleteIsText DEF AcceptedIsText
<1>6. CASE Refuse(c)
  BY <1>6 DEF Refuse, AcceptedIsText
<1> QED
  BY <1>2, <1>3, <1>4, <1>5, <1>6 DEF ConsumeOne

-------------------------------------------------------------------------------
(* What has been read of a text, and the byte that is read next            *)
(* What has been read of a sequence, and what is left of it *)
Read(part, whole) ==
  Len(part) <= Len(whole) /\ \A i \in 1..Len(part) : part[i] = whole[i]
From(whole, n) == SubSeq(whole, n + 1, Len(whole))

LEMMA FromType ==
  ASSUME NEW S, NEW whole \in Seq(S), NEW n \in Nat
  PROVE  From(whole, n) \in Seq(S)
<1>1. \A i \in n + 1..Len(whole) : whole[i] \in S
  BY LenProperties, ElementOfSeq
<1> QED
  BY <1>1, SubSeqProperties, LenProperties DEF From

LEMMA ReadMore ==
  ASSUME NEW S, NEW whole \in Seq(S), NEW part \in Seq(S),
         Read(part, whole), Len(part) < Len(whole)
  PROVE  LET c == whole[Len(part) + 1] IN
         /\ c \in S
         /\ Read(Append(part, c), whole)
         /\ Len(Append(part, c)) = Len(part) + 1
         /\ From(whole, Len(part)) = <<c>> \o From(whole, Len(part) + 1)
<1> DEFINE c == whole[Len(part) + 1]
<1>1. Len(part) \in Nat /\ Len(whole) \in Nat /\ Len(part) + 1 \in 1..Len(whole)
  OBVIOUS
<1>2. c \in S
  BY <1>1, ElementOfSeq
<1>3. From(whole, Len(part)) = <<c>> \o From(whole, Len(part) + 1)
  BY <1>1, SubSeqRecursiveFirst DEF From
<1>4. /\ Len(Append(part, c)) = Len(part) + 1
      /\ \A i \in 1..Len(part) : Append(part, c)[i] = part[i]
      /\ Append(part, c)[Len(part) + 1] = c
  BY <1>2, AppendProperties
<1>5. Read(Append(part, c), whole)
  BY <1>1, <1>4 DEF Read
<1> QED
  BY <1>2, <1>3, <1>4, <1>5

LEMMA ReadAll ==
  ASSUME NEW S, NEW whole \in Seq(S), NEW part \in Seq(S),
         Read(part, whole), ~(Len(part) < Len(whole))
  PROVE  part = whole /\ From(whole, Len(part)) = <<>>
<1>1. Len(part) = Len(whole) /\ Len(whole) \in Nat
  BY LenProperties DEF Read
<1>2. part = whole
  BY <1>1, SeqEqual DEF Read
<1>3. From(whole, Len(part)) = <<>>
  BY <1>1, SubSeqEmpty DEF From
<1> QED
  BY <1>2, <1>3

(* The next byte of a text of which `in` has been read *)
LEMMA NextByte ==
  ASSUME NEW w, NEW in \in Seq(Bytes), NEW c \in Bytes, NEW rest \in Seq(Bytes),
         w = in \o (<<c>> \o rest)
  PROVE  Len(in) < Len(w) /\ w[Len(in) + 1] = c /\ w = Append(in, c) \o rest
<1>1. <<c>> \in Seq(Bytes) /\ Len(<<c>>) = 1 /\ <<c>>[1] = c
  BY TupleType
<1>2. in \o (<<c>> \o rest) = (in \o <<c>>) \o rest
  BY <1>1, TextGroups
<1>3. in \o <<c>> = Append(in, c)
  BY AppendIsConcat
<1>4. /\ Append(in, c) \in Seq(Bytes) /\ Len(Append(in, c)) = Len(in) + 1
      /\ Append(in, c)[Len(in) + 1] = c
  BY AppendProperties
<1>5. w = Append(in, c) \o rest
  BY <1>2, <1>3
<1>6. Len(in) \in Nat /\ Len(rest) \in Nat
  BY LenProperties
<1>7. /\ Len(w) = (Len(in) + 1) + Len(rest)
      /\ \A i \in 1..(Len(in) + 1) + Len(rest) :
           w[i] = IF i <= Len(in) + 1 THEN Append(in, c)[i] ELSE rest[i - (Len(in) + 1)]
  <2> DEFINE s == Append(in, c)
  <2> HIDE DEF s
  <2> QED
    BY <1>4, <1>5, ConcatProperties DEF s
<1> QED
  BY <1>4, <1>5, <1>6, <1>7

(* The next byte when a field of it is being read *)
FieldLeft(w, in, whole, part, rest) == w = in \o (From(whole, Len(part)) \o rest)

NextInField(w, in, whole, part, rest, c) ==
  /\ c \in Bytes /\ Len(in) < Len(w) /\ w[Len(in) + 1] = c
  /\ Read(Append(part, c), whole) /\ Append(part, c) \in Seq(Bytes)
  /\ FieldLeft(w, Append(in, c), whole, Append(part, c), rest)

LEMMA NextOfField ==
  ASSUME NEW w, NEW in \in Seq(Bytes), NEW whole \in Seq(Bytes), NEW part \in Seq(Bytes),
         NEW rest \in Seq(Bytes), Read(part, whole), FieldLeft(w, in, whole, part, rest),
         Len(part) < Len(whole)
  PROVE  NextInField(w, in, whole, part, rest, whole[Len(part) + 1])
<1> DEFINE c == whole[Len(part) + 1]
           left == From(whole, Len(part) + 1)
<1>1. /\ c \in Bytes /\ Read(Append(part, c), whole)
      /\ Len(Append(part, c)) = Len(part) + 1
      /\ From(whole, Len(part)) = <<c>> \o left
  BY ReadMore
<1>2. left \in Seq(Bytes)
  BY FromType, LenProperties
<1>3. <<c>> \in Seq(Bytes) /\ Append(part, c) \in Seq(Bytes)
  BY <1>1, TupleType, AppendProperties
<1> HIDE DEF c, left
<1>4. (<<c>> \o left) \o rest = <<c>> \o (left \o rest)
  BY <1>2, <1>3, TextGroups
<1>5. left \o rest \in Seq(Bytes)
  BY <1>2, TextConcat
<1>6. w = in \o (<<c>> \o (left \o rest))
  BY <1>1, <1>4 DEF FieldLeft
<1>7. Len(in) < Len(w) /\ w[Len(in) + 1] = c /\ w = Append(in, c) \o (left \o rest)
  <2> DEFINE r == left \o rest
  <2>1. r \in Seq(Bytes) /\ w = in \o (<<c>> \o r)
    BY <1>5, <1>6
  <2> HIDE DEF r
  <2>2. Len(in) < Len(w) /\ w[Len(in) + 1] = c /\ w = Append(in, c) \o r
    <3>1. c \in Bytes
      BY <1>1
    <3> QED
      BY <2>1, <3>1, NextByte, SMTT(60)
  <2> QED
    BY <2>2 DEF r
<1> QED
  BY <1>1, <1>3, <1>7 DEF NextInField, FieldLeft, c, left

LEMMA FieldRead ==
  ASSUME NEW w, NEW in \in Seq(Bytes), NEW whole \in Seq(Bytes), NEW part \in Seq(Bytes),
         NEW rest \in Seq(Bytes), Read(part, whole), FieldLeft(w, in, whole, part, rest),
         ~(Len(part) < Len(whole))
  PROVE  part = whole /\ w = in \o rest
<1>1. part = whole /\ From(whole, Len(part)) = <<>>
  BY ReadAll
<1>2. <<>> \o rest = rest
  BY ConcatEmptySeq
<1> QED
  BY <1>1, <1>2 DEF FieldLeft

-------------------------------------------------------------------------------
(* The text of a request, cut where the parser changes its state           *)
LineAt(r, n) == r.lines[n]
LinesAfter(r, n) == FlattenSeq(From(LineTexts(r), n)) \o <<"CR", "LF">>
AfterValue(r, n) == <<"CR">> \o (<<"LF">> \o LinesAfter(r, n))
AfterColon(r, n) == LineAt(r, n).value \o AfterValue(r, n)
AfterKey(r, n) == <<":">> \o AfterColon(r, n)
AfterMajor(r) == <<".">> \o (r.minor \o AfterValue(r, 0))
AfterSlash(r) == r.major \o AfterMajor(r)
AfterP(r) == <<"/">> \o AfterSlash(r)
AfterT2(r) == <<"P">> \o AfterP(r)
AfterT1(r) == <<"T">> \o AfterT2(r)
AfterH(r) == <<"T">> \o AfterT1(r)
AfterBlank(r) == <<"H">> \o AfterH(r)
AfterUrl(r) == <<" ">> \o AfterBlank(r)
AfterMethod(r) == <<" ">> \o (r.url \o AfterUrl(r))

LEMMA SentType ==
  ASSUME NEW r \in Requests
  PROVE  /\ r.method \in Seq(Tokens) /\ r.method # <<>>
         /\ r.url \in Seq((Bytes \ Control) \ {" "})
         /\ r.major \in Seq(Digits) /\ r.major # <<>>
         /\ r.minor \in Seq(Digits) /\ r.minor # <<>>
         /\ r.lines \in Seq(Line)
         /\ \A n \in 1..Len(r.lines) :
              /\ LineAt(r, n).name \in Seq(Tokens) /\ LineAt(r, n).name # <<>>
              /\ LineAt(r, n).value \in Seq((Bytes \ Control) \cup {"TAB"})
         /\ r = [method |-> r.method, url |-> r.url, major |-> r.major,
                    minor |-> r.minor, lines |-> r.lines]
<1>1. /\ r.method \in Methods /\ r.url \in Urls /\ r.major \in Versions
      /\ r.minor \in Versions /\ r.lines \in SentLines
      /\ r = [method |-> r.method, url |-> r.url, major |-> r.major,
                 minor |-> r.minor, lines |-> r.lines]
  BY DEF Requests
<1>2. PICK n \in 0..MaxLines : r.lines \in [1..n -> [name : Names, value : Values]]
  BY <1>1 DEF SentLines
<1>3. n \in Nat
  BY BoundsAssumption
<1>4. r.lines \in Seq([name : Names, value : Values])
  BY <1>2, <1>3, SeqDef
<1>5. \A k \in 1..Len(r.lines) : LineAt(r, k) \in [name : Names, value : Values]
  BY <1>4, ElementOfSeq DEF LineAt
<1>6. /\ Methods \subseteq Seq(Tokens) \ {<<>>} /\ Names \subseteq Seq(Tokens) \ {<<>>}
      /\ Versions \subseteq Seq(Digits) \ {<<>>}
      /\ Urls \subseteq Seq((Bytes \ Control) \ {" "})
      /\ Values \subseteq Seq((Bytes \ Control) \cup {"TAB"})
  BY WordsAssumption
<1>7. [name : Names, value : Values] \subseteq Line
  <2>1. (Bytes \ Control) \cup {"TAB"} \subseteq Bytes
    BY DEF Bytes, Control
  <2>2. Seq((Bytes \ Control) \cup {"TAB"}) \subseteq Seq(Bytes)
    BY <2>1, SeqMonotonic
  <2> QED
    BY <1>6, <2>2 DEF Line
<1>8. r.lines \in Seq(Line)
  BY <1>4, <1>7, SeqMonotonic
<1>9. \A k \in 1..Len(r.lines) :
        /\ LineAt(r, k).name \in Seq(Tokens) /\ LineAt(r, k).name # <<>>
        /\ LineAt(r, k).value \in Seq((Bytes \ Control) \cup {"TAB"})
  BY <1>5, <1>6
<1> QED
  BY <1>1, <1>6, <1>8, <1>9

LEMMA SentLineType ==
  ASSUME NEW l \in Line
  PROVE  SentLine(l) \in Seq(Bytes)
<1>1. l.name \in Seq(Bytes) /\ l.value \in Seq(Bytes)
  BY LineTextType
<1>2. <<":">> \in Seq(Bytes) /\ <<"CR", "LF">> \in Seq(Bytes)
  BY BytesAre, TupleType
<1>3. l.name \o <<":">> \in Seq(Bytes)
  BY <1>1, <1>2, TextConcat
<1>4. l.name \o <<":">> \o l.value \in Seq(Bytes)
  BY <1>1, <1>3, TextConcat
<1> QED
  BY <1>2, <1>4, TextConcat DEF SentLine

LEMMA LineTextsType ==
  ASSUME NEW r \in Requests
  PROVE  /\ LineTexts(r) \in Seq(Seq(Bytes)) /\ Len(LineTexts(r)) = Len(r.lines)
         /\ \A n \in 1..Len(r.lines) : LineTexts(r)[n] = SentLine(LineAt(r, n))
<1> DEFINE ls == r.lines
<1>1. ls \in Seq(Line)
  BY SentType
<1>2. Len(ls) \in Nat /\ DOMAIN ls = 1..Len(ls) /\ \A i \in 1..Len(ls) : ls[i] \in Line
  BY <1>1
<1>3. LineTexts(r) = [i \in 1..Len(ls) |-> SentLine(ls[i])]
  BY <1>2 DEF LineTexts
<1>4. LineTexts(r) \in [1..Len(ls) -> Seq(Bytes)]
  BY <1>2, <1>3, SentLineType
<1>5. LineTexts(r) \in Seq(Seq(Bytes))
  BY <1>2, <1>4, SeqDef
<1>6. Len(LineTexts(r)) = Len(ls)
  BY <1>2, <1>4, <1>5, LenProperties
<1> QED
  BY <1>3, <1>5, <1>6 DEF LineAt

LEMMA AfterType ==
  ASSUME NEW r \in Requests
  PROVE  /\ \A n \in Nat : LinesAfter(r, n) \in Seq(Bytes) /\ AfterValue(r, n) \in Seq(Bytes)
         /\ \A n \in 1..Len(r.lines) :
              /\ LineAt(r, n).name \in Seq(Bytes) /\ LineAt(r, n).value \in Seq(Bytes)
              /\ AfterColon(r, n) \in Seq(Bytes) /\ AfterKey(r, n) \in Seq(Bytes)
         /\ r.method \in Seq(Bytes) /\ r.url \in Seq(Bytes)
         /\ r.major \in Seq(Bytes) /\ r.minor \in Seq(Bytes)
         /\ AfterMajor(r) \in Seq(Bytes) /\ AfterSlash(r) \in Seq(Bytes) /\ AfterP(r) \in Seq(Bytes)
         /\ AfterT2(r) \in Seq(Bytes) /\ AfterT1(r) \in Seq(Bytes) /\ AfterH(r) \in Seq(Bytes)
         /\ AfterBlank(r) \in Seq(Bytes) /\ AfterUrl(r) \in Seq(Bytes) /\ AfterMethod(r) \in Seq(Bytes)
<1>1. /\ r.method \in Seq(Bytes) /\ r.url \in Seq(Bytes)
      /\ r.major \in Seq(Bytes) /\ r.minor \in Seq(Bytes)
  <2>1. Tokens \subseteq Bytes /\ Digits \subseteq Bytes /\ (Bytes \ Control) \ {" "} \subseteq Bytes
    BY DEF Bytes, Tokens
  <2> QED
    BY <2>1, SentType, SeqMonotonic
<1>2. \A n \in 1..Len(r.lines) : LineAt(r, n).name \in Seq(Bytes) /\ LineAt(r, n).value \in Seq(Bytes)
  <2>1. Tokens \subseteq Bytes /\ (Bytes \ Control) \cup {"TAB"} \subseteq Bytes
    BY DEF Bytes, Control
  <2> QED
    BY <2>1, SentType, SeqMonotonic
<1>3. /\ <<"CR">> \in Seq(Bytes) /\ <<"LF">> \in Seq(Bytes) /\ <<" ">> \in Seq(Bytes)
      /\ <<":">> \in Seq(Bytes) /\ <<".">> \in Seq(Bytes) /\ <<"H">> \in Seq(Bytes)
      /\ <<"T">> \in Seq(Bytes) /\ <<"P">> \in Seq(Bytes) /\ <<"/">> \in Seq(Bytes)
      /\ <<"CR", "LF">> \in Seq(Bytes)
  BY BytesAre, TupleType
<1>4. ASSUME NEW n \in Nat PROVE LinesAfter(r, n) \in Seq(Bytes) /\ AfterValue(r, n) \in Seq(Bytes)
  <2>1. From(LineTexts(r), n) \in Seq(Seq(Bytes))
    BY <1>4, LineTextsType, FromType
  <2>2. LinesAfter(r, n) \in Seq(Bytes)
    BY <1>3, <2>1, FlattenType, TextConcat DEF LinesAfter
  <2> QED
    BY <1>3, <2>2, TextConcat DEF AfterValue
<1>5. ASSUME NEW n \in 1..Len(r.lines)
      PROVE  AfterColon(r, n) \in Seq(Bytes) /\ AfterKey(r, n) \in Seq(Bytes)
  <2>1. n \in Nat
    BY <1>5
  <2>2. AfterColon(r, n) \in Seq(Bytes)
    BY <1>2, <1>3, <1>4, <1>5, <2>1, TextConcat DEF AfterColon
  <2> QED
    BY <1>3, <2>2, TextConcat DEF AfterKey
<1>6. AfterMajor(r) \in Seq(Bytes)
  BY <1>1, <1>3, <1>4, TextConcat DEF AfterMajor
<1>7. AfterSlash(r) \in Seq(Bytes)
  BY <1>1, <1>6, TextConcat DEF AfterSlash
<1>8. AfterP(r) \in Seq(Bytes)
  BY <1>3, <1>7, TextConcat DEF AfterP
<1>9. AfterT2(r) \in Seq(Bytes)
  BY <1>3, <1>8, TextConcat DEF AfterT2
<1>10. AfterT1(r) \in Seq(Bytes)
  BY <1>3, <1>9, TextConcat DEF AfterT1
<1>11. AfterH(r) \in Seq(Bytes)
  BY <1>3, <1>10, TextConcat DEF AfterH
<1>12. AfterBlank(r) \in Seq(Bytes)
  BY <1>3, <1>11, TextConcat DEF AfterBlank
<1>13. AfterUrl(r) \in Seq(Bytes)
  BY <1>3, <1>12, TextConcat DEF AfterUrl
<1>14. AfterMethod(r) \in Seq(Bytes)
  BY <1>1, <1>3, <1>13, TextConcat DEF AfterMethod
<1> QED
  BY <1>1, <1>2, <1>4, <1>5, <1>6, <1>7, <1>8, <1>9, <1>10, <1>11, <1>12, <1>13, <1>14

LEMMA Peel ==
  \A s, x \in Seq(Bytes), c \in Bytes : Append(s, c) \o x = s \o (<<c>> \o x)
<1> SUFFICES ASSUME NEW s \in Seq(Bytes), NEW x \in Seq(Bytes), NEW c \in Bytes
             PROVE  Append(s, c) \o x = s \o (<<c>> \o x)
  OBVIOUS
<1>1. <<c>> \in Seq(Bytes) /\ Append(s, c) = s \o <<c>>
  BY TupleType, AppendIsConcat
<1>2. s \o (<<c>> \o x) = (s \o <<c>>) \o x
  BY <1>1, TextGroups
<1> QED
  BY <1>1, <1>2

(* The literal texts, byte by byte *)
LEMMA PeelCrlf ==
  \A s, x \in Seq(Bytes) : (s \o <<"CR", "LF">>) \o x = s \o (<<"CR">> \o (<<"LF">> \o x))
<1> SUFFICES ASSUME NEW s \in Seq(Bytes), NEW x \in Seq(Bytes)
             PROVE  (s \o <<"CR", "LF">>) \o x = s \o (<<"CR">> \o (<<"LF">> \o x))
  OBVIOUS
<1> DEFINE t == Append(s, "CR")
           y == <<"LF">> \o x
<1>1. s \o <<"CR", "LF">> = Append(t, "LF")
  BY AppendsToConcat
<1>2. t \in Seq(Bytes) /\ y \in Seq(Bytes) /\ "CR" \in Bytes /\ "LF" \in Bytes
  BY BytesAre, TupleType, TextConcat, AppendProperties
<1>3. t \o y = s \o (<<"CR">> \o y)
  BY <1>2, Peel, Zenon
<1> HIDE DEF t
<1>4. Append(t, "LF") \o x = t \o y
  BY <1>2, Peel, Zenon
<1> QED
  BY <1>1, <1>3, <1>4

LEMMA PeelHttp ==
  \A s, x \in Seq(Bytes) :
    (s \o <<" ", "H", "T", "T", "P", "/">>) \o x
      = s \o (<<" ">> \o (<<"H">> \o (<<"T">> \o (<<"T">> \o (<<"P">> \o (<<"/">> \o x))))))
<1> SUFFICES ASSUME NEW s \in Seq(Bytes), NEW x \in Seq(Bytes)
             PROVE  (s \o <<" ", "H", "T", "T", "P", "/">>) \o x
                      = s \o (<<" ">> \o (<<"H">> \o (<<"T">> \o (<<"T">> \o (<<"P">> \o (<<"/">> \o x))))))
  OBVIOUS
<1> DEFINE s1 == Append(s, " ")
           s2 == Append(s1, "H")
           s3 == Append(s2, "T")
           s4 == Append(s3, "T")
           s5 == Append(s4, "P")
           x5 == <<"/">> \o x
           x4 == <<"P">> \o x5
           x3 == <<"T">> \o x4
           x2 == <<"T">> \o x3
           x1 == <<"H">> \o x2
<1>0. s \o <<" ", "H", "T", "T", "P", "/">> = Append(s5, "/")
  BY AppendsToConcat
<1>1. /\ <<" ">> \in Seq(Bytes) /\ <<"H">> \in Seq(Bytes) /\ <<"T">> \in Seq(Bytes)
      /\ <<"P">> \in Seq(Bytes) /\ <<"/">> \in Seq(Bytes)
  BY BytesAre, TupleType
<1>2. /\ " " \in Bytes /\ "H" \in Bytes /\ "T" \in Bytes /\ "P" \in Bytes /\ "/" \in Bytes
  BY BytesAre
<1>3. \A t \in Seq(Bytes), c \in Bytes : Append(t, c) \in Seq(Bytes)
  BY AppendProperties
<1>4. s1 \in Seq(Bytes)
  BY <1>2, <1>3, Zenon
<1> HIDE DEF s1
<1>5. s2 \in Seq(Bytes)
  BY <1>2, <1>3, <1>4, Zenon
<1> HIDE DEF s2
<1>6. s3 \in Seq(Bytes)
  BY <1>2, <1>3, <1>5, Zenon
<1> HIDE DEF s3
<1>7. s4 \in Seq(Bytes)
  BY <1>2, <1>3, <1>6, Zenon
<1> HIDE DEF s4
<1>8. s5 \in Seq(Bytes)
  BY <1>2, <1>3, <1>7, Zenon
<1> HIDE DEF s5
<1>9. x5 \in Seq(Bytes)
  BY <1>1, TextConcat, Zenon
<1>10. Append(s5, "/") \o x = s5 \o x5
  BY <1>2, <1>8, Peel, Zenon
<1> HIDE DEF x5
<1>11. x4 \in Seq(Bytes)
  BY <1>1, <1>9, TextConcat, Zenon
<1>12. s5 \o x5 = s4 \o x4
  BY <1>2, <1>7, <1>9, Peel, Zenon DEF s5
<1> HIDE DEF x4
<1>13. x3 \in Seq(Bytes)
  BY <1>1, <1>11, TextConcat, Zenon
<1>14. s4 \o x4 = s3 \o x3
  BY <1>2, <1>6, <1>11, Peel, Zenon DEF s4
<1> HIDE DEF x3
<1>15. x2 \in Seq(Bytes)
  BY <1>1, <1>13, TextConcat, Zenon
<1>16. s3 \o x3 = s2 \o x2
  BY <1>2, <1>5, <1>13, Peel, Zenon DEF s3
<1> HIDE DEF x2
<1>17. x1 \in Seq(Bytes)
  BY <1>1, <1>15, TextConcat, Zenon
<1>18. s2 \o x2 = s1 \o x1
  BY <1>2, <1>4, <1>15, Peel, Zenon DEF s2
<1> HIDE DEF x1
<1>19. s1 \o x1 = s \o (<<" ">> \o x1)
  BY <1>2, <1>17, Peel, Zenon DEF s1
<1> QED
  BY <1>0, <1>10, <1>12, <1>14, <1>16, <1>18, <1>19 DEF x1, x2, x3, x4, x5

Groups(s, t, u) == s \o (t \o u) = (s \o t) \o u

LEMMA TextsGroup == \A s, t, u \in Seq(Bytes) : Groups(s, t, u)
  BY TextGroups DEF Groups

LEMMA SentLineGroups ==
  ASSUME NEW l \in Line, NEW x \in Seq(Bytes)
  PROVE  SentLine(l) \o x
           = l.name \o (<<":">> \o (l.value \o (<<"CR">> \o (<<"LF">> \o x))))
<1> DEFINE k == l.name
           v == l.value
           b == <<":">>
           e == <<"CR", "LF">>
           y == <<"CR">> \o (<<"LF">> \o x)
           z == v \o y
<1>1. k \in Seq(Bytes) /\ v \in Seq(Bytes) /\ b \in Seq(Bytes) /\ e \in Seq(Bytes)
  BY LineTextType, BytesAre, TupleType
<1>2. y \in Seq(Bytes)
  <2>1. <<"CR">> \in Seq(Bytes) /\ <<"LF">> \in Seq(Bytes)
    BY BytesAre, TupleType
  <2> QED
    BY <2>1, TextConcat
<1>3. SentLine(l) = ((k \o b) \o v) \o e
  BY DEF SentLine
<1> HIDE DEF k, v, b
<1>4. k \o b \in Seq(Bytes)
  BY <1>1, TextConcat, Zenon
<1>5. (k \o b) \o v \in Seq(Bytes)
  BY <1>1, <1>4, TextConcat, Zenon
<1>6. (((k \o b) \o v) \o e) \o x = ((k \o b) \o v) \o y
  BY <1>5, PeelCrlf, Zenon
<1> HIDE DEF e, y
<1>7. ((k \o b) \o v) \o y = (k \o b) \o z
  <2>1. Groups(k \o b, v, y)
    BY <1>1, <1>2, <1>4, TextsGroup
  <2> QED
    BY <2>1 DEF Groups
<1>8. z \in Seq(Bytes)
  BY <1>1, <1>2, TextConcat, Zenon
<1> HIDE DEF z
<1>9. (k \o b) \o z = k \o (b \o z)
  <2>1. Groups(k, b, z)
    BY <1>1, <1>8, TextsGroup
  <2> QED
    BY <2>1 DEF Groups
<1> QED
  BY <1>3, <1>6, <1>7, <1>9 DEF k, v, b, y, z

LEMMA LinesAfterIs ==
  ASSUME NEW r \in Requests, NEW n \in Nat
  PROVE  /\ n < Len(r.lines) => LinesAfter(r, n) = LineAt(r, n + 1).name \o AfterKey(r, n + 1)
         /\ ~(n < Len(r.lines)) => LinesAfter(r, n) = <<"CR">> \o (<<"LF">> \o <<>>)
<1> DEFINE ts == LineTexts(r)
           e == <<"CR", "LF">>
<1>1. /\ ts \in Seq(Seq(Bytes)) /\ Len(ts) = Len(r.lines) /\ Len(ts) \in Nat
      /\ \A i \in 1..Len(ts) : ts[i] = SentLine(LineAt(r, i))
  BY LineTextsType, LenProperties
<1>2. e \in Seq(Bytes) /\ <<>> \in Seq(Bytes)
  BY BytesAre, TupleType, EmptySeq
<1>3. ASSUME n < Len(r.lines) PROVE LinesAfter(r, n) = LineAt(r, n + 1).name \o AfterKey(r, n + 1)
  <2> DEFINE l == LineAt(r, n + 1)
             t == SentLine(l)
             m == From(ts, n + 1)
             h == FlattenSeq(m)
  <2>1. n + 1 \in 1..Len(ts) /\ n + 1 \in 1..Len(r.lines)
    BY <1>1, <1>3
  <2>2. l \in Line /\ t \in Seq(Bytes)
    <3>1. r.lines \in Seq(Line)
      BY SentType
    <3> QED
      BY <2>1, <3>1, ElementOfSeq, SentLineType DEF LineAt
  <2>3. From(ts, n) = <<t>> \o m
    <3>1. ts[n + 1] = t
      BY <1>1, <2>1
    <3> HIDE DEF ts, t
    <3>2. SubSeq(ts, n + 1, Len(ts)) = <<ts[n + 1]>> \o SubSeq(ts, (n + 1) + 1, Len(ts))
      <4>1. n + 1 \in 1..Len(ts) /\ Len(ts) \in n + 1..Len(ts)
        BY <1>1, <2>1
      <4> QED
        BY <1>1, <4>1, SubSeqRecursiveFirst
    <3> QED
      BY <3>1, <3>2 DEF From
  <2>4. m \in Seq(Seq(Bytes))
    BY <1>1, FromType
  <2>5. h \in Seq(Bytes)
    BY <2>4, FlattenType
  <2>6. FlattenSeq(From(ts, n)) = t \o h
    BY <2>2, <2>3, <2>4, FlattenFirst
  <2>7. LinesAfter(r, n) = (t \o h) \o e /\ LinesAfter(r, n + 1) = h \o e
    BY <2>6 DEF LinesAfter
  <2>8. LinesAfter(r, n + 1) \in Seq(Bytes)
    BY AfterType
  <2> HIDE DEF ts, l, t, m, h, e
  <2>9. LinesAfter(r, n) = t \o LinesAfter(r, n + 1)
    <3>1. t \o (h \o e) = (t \o h) \o e
      BY <1>2, <2>2, <2>5, TextGroups, Zenon
    <3> QED
      BY <2>7, <3>1
  <2>10. t \o LinesAfter(r, n + 1)
           = l.name \o (<<":">> \o (l.value \o (<<"CR">> \o (<<"LF">> \o LinesAfter(r, n + 1)))))
    BY <2>2, <2>8, SentLineGroups DEF t
  <2> QED
    BY <2>9, <2>10 DEF AfterKey, AfterColon, AfterValue, l
<1>4. ASSUME ~(n < Len(r.lines)) PROVE LinesAfter(r, n) = <<"CR">> \o (<<"LF">> \o <<>>)
  <2>1. From(ts, n) = <<>>
    BY <1>1, <1>4, SubSeqEmpty DEF From
  <2>2. LinesAfter(r, n) = <<>> \o e
    BY <2>1, FlattenEmpty DEF LinesAfter
  <2>3. (<<>> \o e) \o <<>> = <<>> \o (<<"CR">> \o (<<"LF">> \o <<>>))
    BY <1>2, PeelCrlf, Zenon
  <2>4. \A s \in Seq(Bytes) : <<>> \o s = s /\ s \o <<>> = s
    BY ConcatEmptySeq
  <2>5. <<"CR">> \o (<<"LF">> \o <<>>) \in Seq(Bytes)
    <3>1. <<"CR">> \in Seq(Bytes) /\ <<"LF">> \in Seq(Bytes)
      BY BytesAre, TupleType
    <3> QED
      BY <1>2, <3>1, TextConcat
  <2> HIDE DEF e
  <2>6. <<>> \o e = e /\ e \o <<>> = e
    BY <1>2, <2>4, Zenon
  <2>7. <<>> \o (<<"CR">> \o (<<"LF">> \o <<>>)) = <<"CR">> \o (<<"LF">> \o <<>>)
    BY <2>4, <2>5, Zenon
  <2> QED
    BY <2>2, <2>3, <2>6, <2>7, Zenon
<1> QED
  BY <1>3, <1>4

(* The same text, byte by byte where the parser reads it byte by byte *)
LineThen(m, u, i, j, l) ==
  m \o (<<" ">> \o (u \o
    (<<" ">> \o (<<"H">> \o (<<"T">> \o (<<"T">> \o (<<"P">> \o (<<"/">> \o
      (i \o (<<".">> \o (j \o (<<"CR">> \o (<<"LF">> \o l)))))))))))))

LEMMA HeadGroups ==
  \A m, u, i, j, l \in Seq(Bytes) :
    /\ RequestLine(m, u, i, j) \in Seq(Bytes)
    /\ RequestLine(m, u, i, j) \o l = LineThen(m, u, i, j, l)
<1> SUFFICES ASSUME NEW m \in Seq(Bytes), NEW u \in Seq(Bytes), NEW i \in Seq(Bytes),
                    NEW j \in Seq(Bytes), NEW l \in Seq(Bytes)
             PROVE  /\ RequestLine(m, u, i, j) \in Seq(Bytes)
                    /\ RequestLine(m, u, i, j) \o l = LineThen(m, u, i, j, l)
  OBVIOUS
<1>1. /\ <<" ">> \in Seq(Bytes) /\ <<".">> \in Seq(Bytes) /\ <<"CR", "LF">> \in Seq(Bytes)
      /\ <<" ", "H", "T", "T", "P", "/">> \in Seq(Bytes)
  BY BytesAre, TupleType
<1>50. PICK dot : dot = <<".">>
  OBVIOUS
<1>51. PICK blank : blank = <<" ">>
  OBVIOUS
<1>52. dot \in Seq(Bytes) /\ blank \in Seq(Bytes)
  BY <1>1, <1>50, <1>51
<1>40. PICK v : v = <<"CR">> \o (<<"LF">> \o l)
  OBVIOUS
<1>3. v \in Seq(Bytes)
  <2>1. <<"CR">> \in Seq(Bytes) /\ <<"LF">> \in Seq(Bytes)
    BY BytesAre, TupleType
  <2>2. <<"LF">> \o l \in Seq(Bytes)
    BY <2>1, TextConcat, Zenon
  <2> QED
    BY <1>40, <2>1, <2>2, TextConcat, Zenon
<1>41. PICK jv : jv = j \o v
  OBVIOUS
<1>4. jv \in Seq(Bytes)
  BY <1>3, <1>41, TextConcat, Zenon
<1>42. PICK dv : dv = <<".">> \o jv
  OBVIOUS
<1>5. dv \in Seq(Bytes)
  BY <1>1, <1>4, <1>42, TextConcat, Zenon
<1>43. PICK s : s = i \o dv
  OBVIOUS
<1>6. s \in Seq(Bytes)
  BY <1>5, <1>43, TextConcat, Zenon
<1>44. PICK r : r = <<" ">> \o (<<"H">> \o (<<"T">> \o (<<"T">> \o (<<"P">> \o (<<"/">> \o s)))))
  OBVIOUS
<1>7. r \in Seq(Bytes)
  <2>1. /\ <<"H">> \in Seq(Bytes) /\ <<"T">> \in Seq(Bytes)
        /\ <<"P">> \in Seq(Bytes) /\ <<"/">> \in Seq(Bytes)
    BY BytesAre, TupleType
  <2>2. <<"/">> \o s \in Seq(Bytes)
    BY <1>6, <2>1, TextConcat, Zenon
  <2>3. <<"P">> \o (<<"/">> \o s) \in Seq(Bytes)
    BY <2>1, <2>2, TextConcat, Zenon
  <2>4. <<"T">> \o (<<"P">> \o (<<"/">> \o s)) \in Seq(Bytes)
    BY <2>1, <2>3, TextConcat, Zenon
  <2>5. <<"T">> \o (<<"T">> \o (<<"P">> \o (<<"/">> \o s))) \in Seq(Bytes)
    BY <2>1, <2>4, TextConcat, Zenon
  <2>6. <<"H">> \o (<<"T">> \o (<<"T">> \o (<<"P">> \o (<<"/">> \o s)))) \in Seq(Bytes)
    BY <2>1, <2>5, TextConcat, Zenon
  <2> QED
    BY <1>1, <1>44, <2>6, TextConcat, Zenon
<1>45. PICK ur : ur = u \o r
  OBVIOUS
<1>46. ur \in Seq(Bytes)
  BY <1>7, <1>45, TextConcat, Zenon
<1>8. PICK q1 : q1 = m \o <<" ">>
  OBVIOUS
<1>9. PICK q2 : q2 = q1 \o u
  OBVIOUS
<1>10. PICK q3 : q3 = q2 \o <<" ", "H", "T", "T", "P", "/">>
  OBVIOUS
<1>11. PICK q4 : q4 = q3 \o i
  OBVIOUS
<1>12. PICK q5 : q5 = q4 \o <<".">>
  OBVIOUS
<1>13. PICK q6 : q6 = q5 \o j
  OBVIOUS
<1>14. PICK q7 : q7 = q6 \o <<"CR", "LF">>
  OBVIOUS
<1>15. q1 \in Seq(Bytes)
  BY <1>1, <1>8, TextConcat, Zenon
<1>16. q2 \in Seq(Bytes)
  BY <1>9, <1>15, TextConcat, Zenon
<1>17. q3 \in Seq(Bytes)
  BY <1>1, <1>10, <1>16, TextConcat, Zenon
<1>18. q4 \in Seq(Bytes)
  BY <1>11, <1>17, TextConcat, Zenon
<1>19. q5 \in Seq(Bytes)
  BY <1>1, <1>12, <1>18, TextConcat, Zenon
<1>20. q6 \in Seq(Bytes)
  BY <1>13, <1>19, TextConcat, Zenon
<1>21. q7 \in Seq(Bytes)
  BY <1>1, <1>14, <1>20, TextConcat, Zenon
<1>23. q7 \o l = q6 \o v
  BY <1>40, <1>14, <1>20, PeelCrlf, Zenon
<1>24. q6 \o v = q5 \o jv
  <2>1. Groups(q5, j, v)
    BY <1>3, <1>19, TextsGroup
  <2> QED
    BY <1>13, <1>41, <2>1, Zenon DEF Groups
<1>25. q5 \o jv = q4 \o dv
  <2>1. Groups(q4, dot, jv)
    BY <1>4, <1>18, <1>52, TextsGroup
  <2> QED
    BY <1>12, <1>42, <1>50, <2>1, Zenon DEF Groups
<1>26. q4 \o dv = q3 \o s
  <2>1. Groups(q3, i, dv)
    BY <1>5, <1>17, TextsGroup
  <2> QED
    BY <1>11, <1>43, <2>1, Zenon DEF Groups
<1>27. q3 \o s = q2 \o r
  BY <1>6, <1>10, <1>16, <1>44, PeelHttp, Zenon
<1>28. q2 \o r = q1 \o ur
  <2>1. Groups(q1, u, r)
    BY <1>7, <1>15, TextsGroup
  <2> QED
    BY <1>9, <1>45, <2>1, Zenon DEF Groups
<1>29. q1 \o ur = m \o (<<" ">> \o ur)
  <2>1. Groups(m, blank, ur)
    BY <1>46, <1>52, TextsGroup
  <2> QED
    BY <1>8, <1>51, <2>1, Zenon DEF Groups
<1>30. q7 \o l = m \o (<<" ">> \o ur)
  BY <1>23, <1>24, <1>25, <1>26, <1>27, <1>28, <1>29, Zenon
<1> QED
  BY <1>8, <1>9, <1>10, <1>11, <1>12, <1>13, <1>14, <1>21, <1>30,
     <1>40, <1>41, <1>42, <1>43, <1>44, <1>45, Zenon
     DEF RequestLine, LineThen

LEMMA HeadIs ==
  ASSUME NEW r \in Requests
  PROVE  SentHead(r) = r.method \o AfterMethod(r)
<1> DEFINE h == FlattenSeq(LineTexts(r))
           last == <<"CR", "LF">>
<1>1. /\ r.method \in Seq(Bytes) /\ r.url \in Seq(Bytes)
      /\ r.major \in Seq(Bytes) /\ r.minor \in Seq(Bytes)
  BY AfterType
<1>2. last \in Seq(Bytes)
  BY BytesAre, TupleType
<1>3. h \in Seq(Bytes) /\ LinesAfter(r, 0) = h \o last
  <2>1. LineTexts(r) \in Seq(Seq(Bytes))
    BY LineTextsType
  <2>2. From(LineTexts(r), 0) = LineTexts(r)
    BY <2>1, SubSeqFull DEF From
  <2> QED
    BY <2>1, <2>2, FlattenType DEF LinesAfter
<1> DEFINE line == RequestLine(r.method, r.url, r.major, r.minor)
<1>4. SentHead(r) = (line \o h) \o last
  BY DEF SentHead
<1>5. line \in Seq(Bytes) /\ line \o LinesAfter(r, 0) = r.method \o AfterMethod(r)
  <2>1. LinesAfter(r, 0) \in Seq(Bytes)
    BY AfterType
  <2>2. /\ line \in Seq(Bytes)
        /\ line \o LinesAfter(r, 0)
             = LineThen(r.method, r.url, r.major, r.minor, LinesAfter(r, 0))
    <3>1. PICK m, u, i, j, l : /\ m = r.method /\ u = r.url /\ i = r.major
                               /\ j = r.minor /\ l = LinesAfter(r, 0)
      OBVIOUS
    <3>2. /\ m \in Seq(Bytes) /\ u \in Seq(Bytes) /\ i \in Seq(Bytes) /\ j \in Seq(Bytes)
          /\ l \in Seq(Bytes)
      BY <1>1, <2>1, <3>1
    <3>3. /\ RequestLine(m, u, i, j) \in Seq(Bytes)
          /\ RequestLine(m, u, i, j) \o l = LineThen(m, u, i, j, l)
      BY <3>2, HeadGroups
    <3> QED
      BY <3>1, <3>3, Zenon
  <2> QED
    BY <2>2, Zenon
       DEF LineThen, AfterMethod, AfterUrl, AfterBlank, AfterH, AfterT1, AfterT2, AfterP,
           AfterSlash, AfterMajor, AfterValue
<1> HIDE DEF line, h, last
<1>6. (line \o h) \o last = line \o (h \o last)
  BY <1>2, <1>3, <1>5, TextGroups, Zenon
<1> QED
  BY <1>3, <1>4, <1>5, <1>6, Zenon

-------------------------------------------------------------------------------
(* The parser in step with the request that the peer sends                 *)
(* What has been filed of the peer's request is a part of it. *)
BeginsBlank(l) == l.value # <<>> /\ l.value[1] = " "

LinesAgree ==
  /\ Len(lines) <= Len(sent.lines)
  /\ \A i \in 1..Len(lines) : Readable(LineAt(sent, i)) /\ lines[i] = AsRead(LineAt(sent, i))

Agrees ==
  /\ Read(method, sent.method) /\ Read(url, sent.url)
  /\ Read(major, sent.major) /\ Read(minor, sent.minor)
  /\ state \notin BeforeUrl => method = sent.method
  /\ state \notin BeforeUrl \cup {"uri"} => url = sent.url
  /\ state \notin BeforeMajor \cup {"http_version_major"} => major = sent.major
  /\ state \notin BeforeMinor \cup {"http_version_minor"} => minor = sent.minor
  /\ LinesAgree
  /\ state \in InLine => Len(lines) < Len(sent.lines)
  /\ state = "header_name" => Read(tmpKey, LineAt(sent, Len(lines) + 1).name)
  /\ state \in {"space_before_header_value", "header_value"} =>
       tmpKey = LineAt(sent, Len(lines) + 1).name
  /\ state = "header_value" =>
       /\ BeginsBlank(LineAt(sent, Len(lines) + 1))
       /\ Read(tmpValue, Tail(LineAt(sent, Len(lines) + 1).value))
       /\ tmpValue \in Seq(Bytes \ Control)
  /\ state = "expecting_new_line_3" => Len(lines) = Len(sent.lines)

(* What of its text the parser has yet to read *)
Left(rest) == SentHead(sent) = input \o rest
LeftOf(whole, part, rest) == FieldLeft(SentHead(sent), input, whole, part, rest)

Ahead ==
  /\ state \in BeforeUrl => LeftOf(sent.method, method, AfterMethod(sent))
  /\ state = "uri" => LeftOf(sent.url, url, AfterUrl(sent))
  /\ state = "http_version_h" => Left(AfterBlank(sent))
  /\ state = "http_version_t_1" => Left(AfterH(sent))
  /\ state = "http_version_t_2" => Left(AfterT1(sent))
  /\ state = "http_version_p" => Left(AfterT2(sent))
  /\ state = "http_version_slash" => Left(AfterP(sent))
  /\ state \in {"http_version_major_start", "http_version_major"} =>
       LeftOf(sent.major, major, AfterMajor(sent))
  /\ state \in {"http_version_minor_start", "http_version_minor"} =>
       LeftOf(sent.minor, minor, AfterValue(sent, 0))
  /\ state = "expecting_new_line_1" => Left(<<"LF">> \o LinesAfter(sent, 0))
  /\ state = "header_line_start" => Left(LinesAfter(sent, Len(lines)))
  /\ state = "header_name" =>
       LeftOf(LineAt(sent, Len(lines) + 1).name, tmpKey, AfterKey(sent, Len(lines) + 1))
  /\ state = "space_before_header_value" => Left(AfterColon(sent, Len(lines) + 1))
  /\ state = "header_value" =>
       LeftOf(Tail(LineAt(sent, Len(lines) + 1).value), tmpValue, AfterValue(sent, Len(lines) + 1))
  /\ state = "expecting_new_line_2" => Left(<<"LF">> \o LinesAfter(sent, Len(lines)))
  /\ state = "expecting_new_line_3" => Left(<<"LF">> \o <<>>)

AllReadable(r) == \A i \in DOMAIN r.lines : Readable(r.lines[i])

RequestAsRead(r) ==
  [r EXCEPT !.lines = [i \in DOMAIN r.lines |-> AsRead(r.lines[i])]]

IsFiled(r) == AllReadable(r) /\ Parsed = RequestAsRead(r)

InStep ==
  /\ Agrees
  /\ verdict = "indeterminate" => Ahead
  /\ verdict = "complete" => IsFiled(sent) /\ input = SentHead(sent)
  /\ verdict = "bad" => ~AllReadable(sent)

(* The byte that is read is the next one of the text of the head. *)
Expects(c) == Len(input) < Len(SentHead(sent)) => c = SentHead(sent)[Len(input) + 1]

OneByte(c) ==
  /\ TypeOK /\ EmptyAhead /\ Agrees /\ Ahead
  /\ sent \in Requests /\ sent' = sent
  /\ Expects(c) /\ ConsumeOne(c)

GoesOn == Agrees' /\ Ahead' /\ verdict' = "indeterminate" /\ Len(input) < Len(SentHead(sent))

(* ... or it stops at a line that it does not read. *)
StopsAtLine == Agrees' /\ verdict' = "bad" /\ ~AllReadable(sent)

LEMMA NextIs ==
  ASSUME TypeOK, NEW c, Expects(c)
  PROVE  \A x \in Bytes, rest \in Seq(Bytes) :
           Left(<<x>> \o rest) => /\ c = x
                                  /\ Len(input) < Len(SentHead(sent))
                                  /\ SentHead(sent) = Append(input, c) \o rest
<1> SUFFICES ASSUME NEW x \in Bytes, NEW rest \in Seq(Bytes), Left(<<x>> \o rest)
             PROVE  /\ c = x
                    /\ Len(input) < Len(SentHead(sent))
                    /\ SentHead(sent) = Append(input, c) \o rest
  OBVIOUS
<1>1. PICK w, in : w = SentHead(sent) /\ in = input
  OBVIOUS
<1>2. in \in Seq(Bytes) /\ w = in \o (<<x>> \o rest)
  BY <1>1 DEF TypeOK, Left
<1>3. Len(in) < Len(w) /\ w[Len(in) + 1] = x /\ w = Append(in, x) \o rest
  BY <1>2, NextByte
<1>4. c = x
  BY <1>1, <1>3 DEF Expects
<1> QED
  BY <1>1, <1>3, <1>4

FieldMoves(c, whole, part, rest) ==
  /\ c = whole[Len(part) + 1] /\ c \in Bytes
  /\ Len(input) < Len(SentHead(sent))
  /\ Read(Append(part, c), whole)
  /\ FieldLeft(SentHead(sent), Append(input, c), whole, Append(part, c), rest)

LEMMA FieldNext ==
  ASSUME TypeOK, NEW c, Expects(c), NEW whole \in Seq(Bytes), NEW part \in Seq(Bytes),
         NEW rest \in Seq(Bytes), Read(part, whole), LeftOf(whole, part, rest),
         Len(part) < Len(whole)
  PROVE  FieldMoves(c, whole, part, rest)
<1>1. PICK w, in : w = SentHead(sent) /\ in = input
  OBVIOUS
<1>2. in \in Seq(Bytes) /\ FieldLeft(w, in, whole, part, rest)
  BY <1>1 DEF TypeOK, LeftOf
<1>3. NextInField(w, in, whole, part, rest, whole[Len(part) + 1])
  BY <1>2, NextOfField
<1>4. c = whole[Len(part) + 1]
  BY <1>1, <1>3 DEF Expects, NextInField
<1>5. NextInField(w, in, whole, part, rest, c)
  BY <1>3, <1>4
<1> QED
  BY <1>1, <1>4, <1>5 DEF NextInField, FieldMoves

LEMMA FieldDone ==
  ASSUME TypeOK, NEW c, Expects(c), NEW whole \in Seq(Bytes), NEW part \in Seq(Bytes),
         NEW rest \in Seq(Bytes), Read(part, whole), LeftOf(whole, part, rest),
         ~(Len(part) < Len(whole))
  PROVE  part = whole /\ Left(rest)
<1>1. PICK w, in : w = SentHead(sent) /\ in = input
  OBVIOUS
<1>2. in \in Seq(Bytes) /\ FieldLeft(w, in, whole, part, rest)
  BY <1>1 DEF TypeOK, LeftOf
<1>3. part = whole /\ w = in \o rest
  BY <1>2, FieldRead
<1> QED
  BY <1>1, <1>3 DEF Left

(* Before its first byte is read all of a field is left. *)
LEMMA AllLeft ==
  ASSUME NEW S, NEW whole \in Seq(S)
  PROVE  Read(<<>>, whole) /\ From(whole, Len(<<>>)) = whole
<1>1. From(whole, 0) = whole
  BY SubSeqFull DEF From
<1>2. Len(<<>>) = 0 /\ Len(whole) \in Nat
  BY LenProperties
<1> QED
  BY <1>1, <1>2 DEF Read

LEMMA FieldByte ==
  \A S : \A whole \in Seq(S), part \in Seq(Bytes) :
    Len(part) < Len(whole) => whole[Len(part) + 1] \in S
<1> SUFFICES ASSUME NEW S, NEW whole \in Seq(S), NEW part \in Seq(Bytes),
                    Len(part) < Len(whole)
             PROVE  whole[Len(part) + 1] \in S
  OBVIOUS
<1>1. Len(part) + 1 \in 1..Len(whole)
  BY LenProperties
<1> QED
  BY <1>1, ElementOfSeq

LEMMA HttpGoesOn ==
  ASSUME NEW c, OneByte(c),
         state \in {"http_version_h", "http_version_t_1", "http_version_t_2", "http_version_p"}
  PROVE  GoesOn
<1>1. /\ TypeOK /\ Agrees /\ Ahead /\ sent \in Requests /\ sent' = sent /\ Expects(c)
      /\ ConsumeOne(c) /\ EmptyAhead
  BY DEF OneByte
<1>2. /\ AfterP(sent) \in Seq(Bytes) /\ AfterT2(sent) \in Seq(Bytes)
      /\ AfterT1(sent) \in Seq(Bytes) /\ AfterH(sent) \in Seq(Bytes)
  BY <1>1, AfterType
<1>3. "H" \in Bytes /\ "T" \in Bytes /\ "P" \in Bytes
  BY BytesAre
<1>4. ASSUME SkipLiteral(c)
      PROVE  /\ UNCHANGED <<method, url, major, minor, tmpKey, tmpValue, lines>>
             /\ verdict' = "indeterminate" /\ input' = Append(input, c)
  BY <1>1, <1>4, SkipMoves DEF tmp, request, ConsumeOne
<1>5. CASE state = "http_version_h"
  <2>1. Left(<<"H">> \o AfterH(sent))
    BY <1>1, <1>5 DEF Ahead, AfterBlank
  <2>2. /\ c = "H" /\ Len(input) < Len(SentHead(sent))
        /\ SentHead(sent) = Append(input, c) \o AfterH(sent)
    BY <1>1, <1>2, <1>3, <2>1, NextIs, Zenon
  <2>3. SkipLiteral(c) /\ state' = "http_version_t_1"
    BY <1>1, <1>5, <2>2, SkipsIt, SkipMoves
  <2>4. Agrees'
    BY <1>1, <1>4, <1>5, <2>3 DEF Agrees, LinesAgree, BeforeUrl, BeforeMajor, BeforeMinor, InLine
  <2>5. Ahead'
    BY <1>1, <1>4, <2>2, <2>3 DEF Ahead, Left, BeforeUrl
  <2> QED
    BY <1>4, <2>2, <2>3, <2>4, <2>5 DEF GoesOn
<1>6. CASE state = "http_version_t_1"
  <2>1. Left(<<"T">> \o AfterT1(sent))
    BY <1>1, <1>6 DEF Ahead, AfterH
  <2>2. /\ c = "T" /\ Len(input) < Len(SentHead(sent))
        /\ SentHead(sent) = Append(input, c) \o AfterT1(sent)
    BY <1>1, <1>2, <1>3, <2>1, NextIs, Zenon
  <2>3. SkipLiteral(c) /\ state' = "http_version_t_2"
    BY <1>1, <1>6, <2>2, SkipsIt, SkipMoves
  <2>4. Agrees'
    BY <1>1, <1>4, <1>6, <2>3 DEF Agrees, LinesAgree, BeforeUrl, BeforeMajor, BeforeMinor, InLine
  <2>5. Ahead'
    BY <1>1, <1>4, <2>2, <2>3 DEF Ahead, Left, BeforeUrl
  <2> QED
    BY <1>4, <2>2, <2>3, <2>4, <2>5 DEF GoesOn
<1>7. CASE state = "http_version_t_2"
  <2>1. Left(<<"T">> \o AfterT2(sent))
    BY <1>1, <1>7 DEF Ahead, AfterT1
  <2>2. /\ c = "T" /\ Len(input) < Len(SentHead(sent))
        /\ SentHead(sent) = Append(input, c) \o AfterT2(sent)
    BY <1>1, <1>2, <1>3, <2>1, NextIs, Zenon
  <2>3. SkipLiteral(c) /\ state' = "http_version_p"
    BY <1>1, <1>7, <2>2, SkipsIt, SkipMoves
  <2>4. Agrees'
    BY <1>1, <1>4, <1>7, <2>3 DEF Agrees, LinesAgree, BeforeUrl, BeforeMajor, BeforeMinor, InLine
  <2>5. Ahead'
    BY <1>1, <1>4, <2>2, <2>3 DEF Ahead, Left, BeforeUrl
  <2> QED
    BY <1>4, <2>2, <2>3, <2>4, <2>5 DEF GoesOn
<1>8. CASE state = "http_version_p"
  <2>1. Left(<<"P">> \o AfterP(sent))
    BY <1>1, <1>8 DEF Ahead, AfterT2
  <2>2. /\ c = "P" /\ Len(input) < Len(SentHead(sent))
        /\ SentHead(sent) = Append(input, c) \o AfterP(sent)
    BY <1>1, <1>2, <1>3, <2>1, NextIs, Zenon
  <2>3. SkipLiteral(c) /\ state' = "http_version_slash"
    BY <1>1, <1>8, <2>2, SkipsIt, SkipMoves
  <2>4. Agrees'
    BY <1>1, <1>4, <1>8, <2>3 DEF Agrees, LinesAgree, BeforeUrl, BeforeMajor, BeforeMinor, InLine
  <2>5. Ahead'
    BY <1>1, <1>4, <2>2, <2>3 DEF Ahead, Left, BeforeUrl
  <2> QED
    BY <1>4, <2>2, <2>3, <2>4, <2>5 DEF GoesOn
<1> QED
  BY <1>5, <1>6, <1>7, <1>8

LEMMA MethodGoesOn ==
  ASSUME NEW c, OneByte(c), state \in BeforeUrl
  PROVE  GoesOn
<1>1. /\ TypeOK /\ Agrees /\ Ahead /\ sent \in Requests /\ sent' = sent /\ Expects(c)
      /\ ConsumeOne(c) /\ EmptyAhead /\ verdict = "indeterminate" /\ input' = Append(input, c)
  BY DEF OneByte, ConsumeOne
<1>2. /\ sent.method \in Seq(Bytes) /\ method \in Seq(Bytes) /\ AfterMethod(sent) \in Seq(Bytes)
      /\ sent.url \in Seq(Bytes) /\ AfterUrl(sent) \in Seq(Bytes)
  BY <1>1, AfterType DEF TypeOK
<1>3. Read(method, sent.method) /\ LeftOf(sent.method, method, AfterMethod(sent))
  BY <1>1 DEF Agrees, Ahead, BeforeUrl
<1>4. CASE Len(method) < Len(sent.method)
  <2>1. FieldMoves(c, sent.method, method, AfterMethod(sent))
    BY <1>1, <1>2, <1>3, <1>4, FieldNext
  <2>2. c \in Tokens
    <3>1. sent.method \in Seq(Tokens)
      BY <1>1, <1>2, SentType
    <3>2. sent.method[Len(method) + 1] \in Tokens
      BY <1>2, <1>4, <3>1, FieldByte, Zenon
    <3> QED
      BY <2>1, <3>2 DEF FieldMoves
  <2>3. FileByte(c)
    BY <1>1, <2>2, FilesIt, FieldIs DEF BeforeUrl
  <2>4. /\ state' = "method" /\ method' = Append(method, c) /\ verdict' = "indeterminate"
        /\ UNCHANGED <<url, major, minor, tmpKey, tmpValue, lines>>
    BY <1>1, <2>3, FileMoves DEF BeforeUrl
  <2>5. Agrees'
    BY <1>1, <2>1, <2>4 DEF FieldMoves, Agrees, LinesAgree, BeforeUrl, BeforeMajor, BeforeMinor, InLine
  <2>6. Ahead'
    BY <1>1, <2>1, <2>4 DEF FieldMoves, Ahead, LeftOf, BeforeUrl
  <2> QED
    BY <2>1, <2>4, <2>5, <2>6 DEF FieldMoves, GoesOn
<1>5. CASE ~(Len(method) < Len(sent.method))
  <2>1. method = sent.method /\ Left(AfterMethod(sent))
    BY <1>1, <1>2, <1>3, <1>5, FieldDone
  <2>2. state = "method" /\ url = <<>>
    BY <1>1, <1>2, <2>1, SentType DEF EmptyAhead, BeforeUrl, BeforeMajor, BeforeMinor, InLine
  <2>3. /\ c = " " /\ Len(input) < Len(SentHead(sent))
        /\ SentHead(sent) = Append(input, c) \o (sent.url \o AfterUrl(sent))
    <3>1. " " \in Bytes /\ sent.url \o AfterUrl(sent) \in Seq(Bytes)
      BY <1>2, BytesAre, TupleType, TextConcat
    <3>2. Left(<<" ">> \o (sent.url \o AfterUrl(sent)))
      BY <2>1 DEF AfterMethod
    <3> QED
      BY <1>1, <3>1, <3>2, NextIs, Zenon
  <2>4. EndField(c)
    BY <1>1, <2>2, <2>3, EndsIt
  <2>5. /\ state' = "uri" /\ verdict' = "indeterminate"
        /\ UNCHANGED <<method, url, major, minor, tmpKey, tmpValue, lines>>
    BY <1>1, <2>2, <2>4, EndMoves DEF tmp, request
  <2>6. Agrees'
    BY <1>1, <2>1, <2>2, <2>5 DEF Agrees, LinesAgree, BeforeUrl, BeforeMajor, BeforeMinor, InLine
  <2>7. Ahead'
    <3>1. FieldLeft(SentHead(sent), Append(input, c), sent.url, <<>>, AfterUrl(sent))
      BY <1>2, <2>3, AllLeft DEF FieldLeft
    <3> QED
      BY <1>1, <2>2, <2>5, <3>1 DEF Ahead, LeftOf, BeforeUrl
  <2> QED
    BY <2>3, <2>5, <2>6, <2>7 DEF GoesOn
<1> QED
  BY <1>4, <1>5

LEMMA UriGoesOn ==
  ASSUME NEW c, OneByte(c), state = "uri"
  PROVE  GoesOn
<1>1. /\ TypeOK /\ Agrees /\ Ahead /\ sent \in Requests /\ sent' = sent /\ Expects(c)
      /\ ConsumeOne(c) /\ EmptyAhead /\ verdict = "indeterminate" /\ input' = Append(input, c)
  BY DEF OneByte, ConsumeOne
<1>2. /\ sent.url \in Seq(Bytes) /\ url \in Seq(Bytes) /\ AfterUrl(sent) \in Seq(Bytes)
      /\ AfterBlank(sent) \in Seq(Bytes)
  BY <1>1, AfterType DEF TypeOK
<1>3. Read(url, sent.url) /\ LeftOf(sent.url, url, AfterUrl(sent))
  BY <1>1 DEF Agrees, Ahead, BeforeUrl
<1>4. CASE Len(url) < Len(sent.url)
  <2>1. FieldMoves(c, sent.url, url, AfterUrl(sent))
    BY <1>1, <1>2, <1>3, <1>4, FieldNext
  <2>2. c \in ((Bytes \ Control) \ {" "})
    <3>1. sent.url \in Seq(((Bytes \ Control) \ {" "}))
      BY <1>1, <1>2, SentType
    <3>2. sent.url[Len(url) + 1] \in ((Bytes \ Control) \ {" "})
      BY <1>2, <1>4, <3>1, FieldByte, Zenon
    <3> QED
      BY <2>1, <3>2 DEF FieldMoves
  <2>3. FileByte(c)
    BY <1>1, <2>2, FilesIt, FieldIs DEF BeforeUrl
  <2>4. /\ state' = "uri" /\ url' = Append(url, c) /\ verdict' = "indeterminate"
        /\ UNCHANGED <<method, major, minor, tmpKey, tmpValue, lines>>
    BY <1>1, <2>3, FileMoves DEF BeforeUrl
  <2>5. Agrees'
    BY <1>1, <2>1, <2>4 DEF FieldMoves, Agrees, LinesAgree, BeforeUrl, BeforeMajor, BeforeMinor, InLine
  <2>6. Ahead'
    BY <1>1, <2>1, <2>4 DEF FieldMoves, Ahead, LeftOf, BeforeUrl
  <2> QED
    BY <2>1, <2>4, <2>5, <2>6 DEF FieldMoves, GoesOn
<1>5. CASE ~(Len(url) < Len(sent.url))
  <2>1. url = sent.url /\ Left(AfterUrl(sent))
    BY <1>1, <1>2, <1>3, <1>5, FieldDone
  <2>2. state = "uri"
    BY <1>1, <1>2, <2>1, SentType DEF EmptyAhead, BeforeUrl, BeforeMajor, BeforeMinor, InLine
  <2>3. /\ c = " " /\ Len(input) < Len(SentHead(sent))
        /\ SentHead(sent) = Append(input, c) \o (AfterBlank(sent))
    <3>1. " " \in Bytes /\ AfterBlank(sent) \in Seq(Bytes)
      BY <1>2, BytesAre, TupleType, TextConcat
    <3>2. Left(<<" ">> \o (AfterBlank(sent)))
      BY <2>1 DEF AfterUrl
    <3> QED
      BY <1>1, <3>1, <3>2, NextIs, Zenon
  <2>4. EndField(c)
    BY <1>1, <2>2, <2>3, EndsIt
  <2>5. /\ state' = "http_version_h" /\ verdict' = "indeterminate"
        /\ UNCHANGED <<method, url, major, minor, tmpKey, tmpValue, lines>>
    BY <1>1, <2>2, <2>4, EndMoves DEF tmp, request
  <2>6. Agrees'
    BY <1>1, <2>1, <2>2, <2>5 DEF Agrees, LinesAgree, BeforeUrl, BeforeMajor, BeforeMinor, InLine
  <2>7. Ahead'
    BY <1>1, <2>3, <2>5 DEF Ahead, Left, BeforeUrl
  <2> QED
    BY <2>3, <2>5, <2>6, <2>7 DEF GoesOn
<1> QED
  BY <1>4, <1>5

LEMMA MajorGoesOn ==
  ASSUME NEW c, OneByte(c), state \in {"http_version_major_start", "http_version_major"}
  PROVE  GoesOn
<1>1. /\ TypeOK /\ Agrees /\ Ahead /\ sent \in Requests /\ sent' = sent /\ Expects(c)
      /\ ConsumeOne(c) /\ EmptyAhead /\ verdict = "indeterminate" /\ input' = Append(input, c)
  BY DEF OneByte, ConsumeOne
<1>2. /\ sent.major \in Seq(Bytes) /\ major \in Seq(Bytes) /\ AfterMajor(sent) \in Seq(Bytes)
      /\ sent.minor \in Seq(Bytes) /\ AfterValue(sent, 0) \in Seq(Bytes)
  BY <1>1, AfterType DEF TypeOK
<1>3. Read(major, sent.major) /\ LeftOf(sent.major, major, AfterMajor(sent))
  BY <1>1 DEF Agrees, Ahead, BeforeUrl
<1>4. CASE Len(major) < Len(sent.major)
  <2>1. FieldMoves(c, sent.major, major, AfterMajor(sent))
    BY <1>1, <1>2, <1>3, <1>4, FieldNext
  <2>2. c \in Digits
    <3>1. sent.major \in Seq(Digits)
      BY <1>1, <1>2, SentType
    <3>2. sent.major[Len(major) + 1] \in Digits
      BY <1>2, <1>4, <3>1, FieldByte, Zenon
    <3> QED
      BY <2>1, <3>2 DEF FieldMoves
  <2>3. FileByte(c)
    BY <1>1, <2>2, FilesIt, FieldIs DEF BeforeUrl
  <2>4. /\ state' = "http_version_major" /\ major' = Append(major, c) /\ verdict' = "indeterminate"
        /\ UNCHANGED <<method, url, minor, tmpKey, tmpValue, lines>>
    BY <1>1, <2>3, FileMoves DEF BeforeUrl
  <2>5. Agrees'
    BY <1>1, <2>1, <2>4 DEF FieldMoves, Agrees, LinesAgree, BeforeUrl, BeforeMajor, BeforeMinor, InLine
  <2>6. Ahead'
    BY <1>1, <2>1, <2>4 DEF FieldMoves, Ahead, LeftOf, BeforeUrl
  <2> QED
    BY <2>1, <2>4, <2>5, <2>6 DEF FieldMoves, GoesOn
<1>5. CASE ~(Len(major) < Len(sent.major))
  <2>1. major = sent.major /\ Left(AfterMajor(sent))
    BY <1>1, <1>2, <1>3, <1>5, FieldDone
  <2>2. state = "http_version_major" /\ minor = <<>>
    BY <1>1, <1>2, <2>1, SentType DEF EmptyAhead, BeforeUrl, BeforeMajor, BeforeMinor, InLine
  <2>3. /\ c = "." /\ Len(input) < Len(SentHead(sent))
        /\ SentHead(sent) = Append(input, c) \o (sent.minor \o AfterValue(sent, 0))
    <3>1. "." \in Bytes /\ sent.minor \o AfterValue(sent, 0) \in Seq(Bytes)
      BY <1>2, BytesAre, TupleType, TextConcat
    <3>2. Left(<<".">> \o (sent.minor \o AfterValue(sent, 0)))
      BY <2>1 DEF AfterMajor
    <3> QED
      BY <1>1, <3>1, <3>2, NextIs, Zenon
  <2>4. EndField(c)
    BY <1>1, <2>2, <2>3, EndsIt
  <2>5. /\ state' = "http_version_minor_start" /\ verdict' = "indeterminate"
        /\ UNCHANGED <<method, url, major, minor, tmpKey, tmpValue, lines>>
    BY <1>1, <2>2, <2>4, EndMoves DEF tmp, request
  <2>6. Agrees'
    BY <1>1, <2>1, <2>2, <2>5 DEF Agrees, LinesAgree, BeforeUrl, BeforeMajor, BeforeMinor, InLine
  <2>7. Ahead'
    <3>1. FieldLeft(SentHead(sent), Append(input, c), sent.minor, <<>>, AfterValue(sent, 0))
      BY <1>2, <2>3, AllLeft DEF FieldLeft
    <3> QED
      BY <1>1, <2>2, <2>5, <3>1 DEF Ahead, LeftOf, BeforeUrl
  <2> QED
    BY <2>3, <2>5, <2>6, <2>7 DEF GoesOn
<1> QED
  BY <1>4, <1>5

LEMMA MinorGoesOn ==
  ASSUME NEW c, OneByte(c), state \in {"http_version_minor_start", "http_version_minor"}
  PROVE  GoesOn
<1>1. /\ TypeOK /\ Agrees /\ Ahead /\ sent \in Requests /\ sent' = sent /\ Expects(c)
      /\ ConsumeOne(c) /\ EmptyAhead /\ verdict = "indeterminate" /\ input' = Append(input, c)
  BY DEF OneByte, ConsumeOne
<1>2. /\ sent.minor \in Seq(Bytes) /\ minor \in Seq(Bytes) /\ AfterValue(sent, 0) \in Seq(Bytes)
      /\ LinesAfter(sent, 0) \in Seq(Bytes)
  BY <1>1, AfterType DEF TypeOK
<1>3. Read(minor, sent.minor) /\ LeftOf(sent.minor, minor, AfterValue(sent, 0))
  BY <1>1 DEF Agrees, Ahead, BeforeUrl
<1>4. CASE Len(minor) < Len(sent.minor)
  <2>1. FieldMoves(c, sent.minor, minor, AfterValue(sent, 0))
    BY <1>1, <1>2, <1>3, <1>4, FieldNext
  <2>2. c \in Digits
    <3>1. sent.minor \in Seq(Digits)
      BY <1>1, <1>2, SentType
    <3>2. sent.minor[Len(minor) + 1] \in Digits
      BY <1>2, <1>4, <3>1, FieldByte, Zenon
    <3> QED
      BY <2>1, <3>2 DEF FieldMoves
  <2>3. FileByte(c)
    BY <1>1, <2>2, FilesIt, FieldIs DEF BeforeUrl
  <2>4. /\ state' = "http_version_minor" /\ minor' = Append(minor, c) /\ verdict' = "indeterminate"
        /\ UNCHANGED <<method, url, major, tmpKey, tmpValue, lines>>
    BY <1>1, <2>3, FileMoves DEF BeforeUrl
  <2>5. Agrees'
    BY <1>1, <2>1, <2>4 DEF FieldMoves, Agrees, LinesAgree, BeforeUrl, BeforeMajor, BeforeMinor, InLine
  <2>6. Ahead'
    BY <1>1, <2>1, <2>4 DEF FieldMoves, Ahead, LeftOf, BeforeUrl
  <2> QED
    BY <2>1, <2>4, <2>5, <2>6 DEF FieldMoves, GoesOn
<1>5. CASE ~(Len(minor) < Len(sent.minor))
  <2>1. minor = sent.minor /\ Left(AfterValue(sent, 0))
    BY <1>1, <1>2, <1>3, <1>5, FieldDone
  <2>2. state = "http_version_minor"
    BY <1>1, <1>2, <2>1, SentType DEF EmptyAhead, BeforeUrl, BeforeMajor, BeforeMinor, InLine
  <2>3. /\ c = "CR" /\ Len(input) < Len(SentHead(sent))
        /\ SentHead(sent) = Append(input, c) \o (<<"LF">> \o LinesAfter(sent, 0))
    <3>1. "CR" \in Bytes /\ <<"LF">> \o LinesAfter(sent, 0) \in Seq(Bytes)
      BY <1>2, BytesAre, TupleType, TextConcat
    <3>2. Left(<<"CR">> \o (<<"LF">> \o LinesAfter(sent, 0)))
      BY <2>1 DEF AfterValue
    <3> QED
      BY <1>1, <3>1, <3>2, NextIs, Zenon
  <2>4. EndField(c)
    BY <1>1, <2>2, <2>3, EndsIt
  <2>5. /\ state' = "expecting_new_line_1" /\ verdict' = "indeterminate"
        /\ UNCHANGED <<method, url, major, minor, tmpKey, tmpValue, lines>>
    BY <1>1, <2>2, <2>4, EndMoves DEF tmp, request
  <2>6. Agrees'
    BY <1>1, <2>1, <2>2, <2>5 DEF Agrees, LinesAgree, BeforeUrl, BeforeMajor, BeforeMinor, InLine
  <2>7. Ahead'
    BY <1>1, <2>3, <2>5 DEF Ahead, Left, BeforeUrl
  <2> QED
    BY <2>3, <2>5, <2>6, <2>7 DEF GoesOn
<1> QED
  BY <1>4, <1>5

LEMMA LineRead ==
  ASSUME TypeOK, Agrees, sent \in Requests
  PROVE  /\ Len(lines) \in Nat /\ Len(sent.lines) \in Nat
         /\ Len(lines) < Len(sent.lines) => Len(lines) + 1 \in 1..Len(sent.lines)
         /\ state \in InLine => Len(lines) < Len(sent.lines)
<1>1. Len(lines) \in Nat
  <2>1. \A s \in Seq([name : Seq(Tokens), value : Seq(Bytes)]) : Len(s) \in Nat
    BY LenProperties
  <2> QED
    BY <2>1 DEF TypeOK
<1>2. Len(sent.lines) \in Nat
  <2>1. sent.lines \in Seq(Line)
    BY SentType
  <2> QED
    BY <2>1, LenProperties
<1>3. state \in InLine => Len(lines) < Len(sent.lines)
  BY DEF Agrees
<1> QED
  BY <1>1, <1>2, <1>3

LEMMA NameGoesOn ==
  ASSUME NEW c, OneByte(c), state = "header_name"
  PROVE  GoesOn
<1>1. /\ TypeOK /\ Agrees /\ Ahead /\ sent \in Requests /\ sent' = sent /\ Expects(c)
      /\ ConsumeOne(c) /\ EmptyAhead /\ verdict = "indeterminate" /\ input' = Append(input, c)
  BY DEF OneByte, ConsumeOne
<1>6. Len(lines) + 1 \in 1..Len(sent.lines) /\ Len(lines) \in Nat
  BY <1>1, LineRead DEF InLine
<1>7. PICK name, value : name = LineAt(sent, Len(lines) + 1).name /\ value = LineAt(sent, Len(lines) + 1).value
  OBVIOUS
<1>8. name \in Seq(Bytes) /\ name \in Seq(Tokens)
  BY <1>1, <1>6, <1>7, AfterType, SentType
<1>9. tmpKey \in Seq(Bytes)
  BY <1>1, BytesAre, SeqMonotonic DEF TypeOK
<1>10. AfterKey(sent, Len(lines) + 1) \in Seq(Bytes) /\ AfterColon(sent, Len(lines) + 1) \in Seq(Bytes)
  BY <1>1, <1>6, AfterType
<1>2. /\ name \in Seq(Bytes) /\ name \in Seq(Tokens) /\ tmpKey \in Seq(Bytes)
      /\ AfterKey(sent, Len(lines) + 1) \in Seq(Bytes) /\ AfterColon(sent, Len(lines) + 1) \in Seq(Bytes)
  BY <1>8, <1>9, <1>10
<1>3. Read(tmpKey, name) /\ LeftOf(name, tmpKey, AfterKey(sent, Len(lines) + 1))
  BY <1>1, <1>7 DEF Agrees, Ahead, BeforeUrl
<1>4. CASE Len(tmpKey) < Len(name)
  <2>1. FieldMoves(c, name, tmpKey, AfterKey(sent, Len(lines) + 1))
    BY <1>1, <1>2, <1>3, <1>4, FieldNext
  <2>2. c \in Tokens
    <3>1. name \in Seq(Tokens)
      BY <1>1, <1>2, SentType
    <3>2. name[Len(tmpKey) + 1] \in Tokens
      BY <1>2, <1>4, <3>1, FieldByte, Zenon
    <3> QED
      BY <2>1, <3>2 DEF FieldMoves
  <2>3. FileByte(c)
    BY <1>1, <2>2, FilesIt, FieldIs DEF BeforeUrl
  <2>4. /\ state' = "header_name" /\ tmpKey' = Append(tmpKey, c) /\ verdict' = "indeterminate"
        /\ UNCHANGED <<method, url, major, minor, tmpValue, lines>>
    BY <1>1, <2>3, FileMoves DEF BeforeUrl
  <2>5. Agrees'
    BY <1>1, <1>7, <2>1, <2>4 DEF FieldMoves, Agrees, LinesAgree, BeforeUrl, BeforeMajor, BeforeMinor, InLine
  <2>6. Ahead'
    BY <1>1, <1>7, <2>1, <2>4 DEF FieldMoves, Ahead, LeftOf, BeforeUrl
  <2> QED
    BY <2>1, <2>4, <2>5, <2>6 DEF FieldMoves, GoesOn
<1>5. CASE ~(Len(tmpKey) < Len(name))
  <2>1. tmpKey = name /\ Left(AfterKey(sent, Len(lines) + 1))
    BY <1>1, <1>2, <1>3, <1>5, FieldDone
  <2>2. state = "header_name"
    BY <1>1, <1>2, <2>1, SentType DEF EmptyAhead, BeforeUrl, BeforeMajor, BeforeMinor, InLine
  <2>3. /\ c = ":" /\ Len(input) < Len(SentHead(sent))
        /\ SentHead(sent) = Append(input, c) \o (AfterColon(sent, Len(lines) + 1))
    <3>1. ":" \in Bytes /\ AfterColon(sent, Len(lines) + 1) \in Seq(Bytes)
      BY <1>2, BytesAre, TupleType, TextConcat
    <3>2. Left(<<":">> \o (AfterColon(sent, Len(lines) + 1)))
      BY <2>1 DEF AfterKey
    <3> QED
      BY <1>1, <3>1, <3>2, NextIs, Zenon
  <2>4. EndField(c)
    BY <1>1, <2>2, <2>3, EndsIt
  <2>5. /\ state' = "space_before_header_value" /\ verdict' = "indeterminate"
        /\ UNCHANGED <<method, url, major, minor, tmpKey, tmpValue, lines>>
    BY <1>1, <2>2, <2>4, EndMoves DEF tmp, request
  <2>6. Agrees'
    BY <1>1, <1>7, <2>1, <2>2, <2>5 DEF Agrees, LinesAgree, BeforeUrl, BeforeMajor, BeforeMinor, InLine
  <2>7. Ahead'
    BY <1>1, <2>3, <2>5 DEF Ahead, Left, BeforeUrl
  <2> QED
    BY <2>3, <2>5, <2>6, <2>7 DEF GoesOn
<1> QED
  BY <1>4, <1>5

(* The parser that refuses a byte keeps what it has. *)
LEMMA RefusedStops ==
  ASSUME Agrees, sent \in Requests, sent' = sent, NEW c, Refuse(c),
         NEW n \in 1..Len(sent.lines), ~Readable(LineAt(sent, n))
  PROVE  StopsAtLine
<1>1. /\ UNCHANGED <<state, tmpKey, tmpValue, method, url, major, minor, lines>>
      /\ verdict' = "bad"
  BY DEF Refuse, tmp, request
<1>2. Agrees'
  BY <1>1 DEF Agrees, LinesAgree
<1>3. ~AllReadable(sent)
  <2>1. DOMAIN sent.lines = 1..Len(sent.lines)
    BY SentType, LenProperties
  <2> QED
    BY <2>1 DEF AllReadable, LineAt
<1> QED
  BY <1>1, <1>2, <1>3 DEF StopsAtLine

(* A line that begins with a blank is this blank and what follows it. *)
LEMMA BlankThen ==
  ASSUME NEW v \in Seq(Bytes), v # <<>>
  PROVE  /\ v[1] \in Bytes /\ Tail(v) \in Seq(Bytes) /\ v = <<v[1]>> \o Tail(v)
         /\ Len(v) \in Nat \ {0} /\ Len(Tail(v)) = Len(v) - 1
         /\ \A i \in 1..Len(Tail(v)) : Tail(v)[i] = v[i + 1]
<1>1. Len(v) \in Nat \ {0}
  BY EmptySeq, LenProperties
<1>2. Tail(v) = From(v, 1) /\ Tail(v) \in Seq(Bytes)
  BY HeadTailProperties DEF From
<1>3. v[1] \in Bytes /\ v = <<v[1]>> \o Tail(v)
  <2>1. From(v, 0) = <<v[1]>> \o From(v, 1)
    BY <1>1, SubSeqRecursiveFirst DEF From
  <2>2. From(v, 0) = v
    BY SubSeqFull DEF From
  <2> QED
    BY <1>1, <1>2, <2>1, <2>2, ElementOfSeq
<1> QED
  BY <1>1, <1>2, <1>3, HeadTailProperties

(* Refused is a line that has no blank behind its colon ... *)
LEMMA SpaceGoesOn ==
  ASSUME NEW c, OneByte(c), state = "space_before_header_value"
  PROVE  GoesOn \/ StopsAtLine
<1>1. /\ TypeOK /\ Agrees /\ Ahead /\ sent \in Requests /\ sent' = sent /\ Expects(c)
      /\ ConsumeOne(c) /\ EmptyAhead /\ verdict = "indeterminate" /\ input' = Append(input, c)
  BY DEF OneByte, ConsumeOne
<1>2. Len(lines) + 1 \in 1..Len(sent.lines) /\ Len(lines) \in Nat
  BY <1>1, LineRead DEF InLine
<1>3. PICK value, after : /\ value = LineAt(sent, Len(lines) + 1).value
                          /\ after = AfterValue(sent, Len(lines) + 1)
  OBVIOUS
<1>4. value \in Seq(Bytes) /\ after \in Seq(Bytes)
  <2>1. value \in Seq(Bytes)
    BY <1>1, <1>2, <1>3, AfterType
  <2>2. Len(lines) + 1 \in Nat
    BY <1>2
  <2> QED
    BY <1>1, <1>3, <2>1, <2>2, AfterType
<1>5. Left(value \o after)
  BY <1>1, <1>3 DEF Ahead, AfterColon
<1>6. CASE value # <<>> /\ value[1] = " "
  <2>1. PICK rest : rest = Tail(value)
    OBVIOUS
  <2>2. rest \in Seq(Bytes) /\ value = <<" ">> \o rest
    BY <1>4, <1>6, <2>1, BlankThen
  <2>3. Left(<<" ">> \o (rest \o after))
    <3>1. PICK blank : blank = <<" ">>
      OBVIOUS
    <3>2. blank \in Seq(Bytes)
      BY <3>1, BytesAre, TupleType
    <3>3. Groups(blank, rest, after)
      BY <1>4, <2>2, <3>2, TextsGroup
    <3> QED
      BY <1>5, <2>2, <3>1, <3>3 DEF Groups
  <2>4. /\ c = " " /\ Len(input) < Len(SentHead(sent))
        /\ SentHead(sent) = Append(input, c) \o (rest \o after)
    <3>1. " " \in Bytes /\ rest \o after \in Seq(Bytes)
      BY <1>4, <2>2, BytesAre, TextConcat
    <3> QED
      BY <1>1, <2>3, <3>1, NextIs, Zenon
  <2>5. SkipLiteral(c)
    BY <1>1, <2>4, SkipsIt
  <2>6. /\ state' = "header_value" /\ verdict' = "indeterminate" /\ tmpValue = <<>>
        /\ UNCHANGED <<method, url, major, minor, tmpKey, tmpValue, lines>>
    BY <1>1, <2>5, SkipMoves DEF tmp, request, EmptyAhead
  <2>7. Agrees'
    <3>1. Read(<<>>, rest) /\ <<>> \in Seq(Bytes \ Control)
      BY <2>2, AllLeft, EmptySeq
    <3>2. BeginsBlank(LineAt(sent, Len(lines) + 1)) /\ rest = Tail(LineAt(sent, Len(lines) + 1).value)
      BY <1>3, <1>6, <2>1 DEF BeginsBlank
    <3> QED
      BY <1>1, <2>6, <3>1, <3>2 DEF Agrees, LinesAgree, BeforeUrl, BeforeMajor, BeforeMinor, InLine
  <2>8. Ahead'
    <3>1. FieldLeft(SentHead(sent), Append(input, c), rest, <<>>, after)
      BY <2>2, <2>4, AllLeft DEF FieldLeft
    <3> QED
      BY <1>1, <1>3, <2>1, <2>6, <3>1 DEF Ahead, LeftOf, BeforeUrl
  <2> QED
    BY <2>4, <2>6, <2>7, <2>8 DEF GoesOn
<1>7. CASE ~(value # <<>> /\ value[1] = " ")
  <2>1. c # " "
    <3>1. CASE value = <<>>
      <4>1. /\ Len(lines) + 1 \in Nat
            /\ after = <<"CR">> \o (<<"LF">> \o LinesAfter(sent, Len(lines) + 1))
        BY <1>2, <1>3 DEF AfterValue
      <4>2. "CR" \in Bytes /\ <<"LF">> \o LinesAfter(sent, Len(lines) + 1) \in Seq(Bytes)
        BY <1>1, <4>1, BytesAre, TupleType, AfterType, TextConcat
      <4>3. Left(<<"CR">> \o (<<"LF">> \o LinesAfter(sent, Len(lines) + 1)))
        <5>1. <<>> \o after = after
          BY <1>4, ConcatEmptySeq
        <5> QED
          BY <1>5, <3>1, <4>1, <5>1
      <4>4. c = "CR"
        BY <1>1, <4>2, <4>3, NextIs, Zenon
      <4> QED
        BY <4>4
    <3>2. CASE value # <<>>
      <4>1. PICK first, rest : first = value[1] /\ rest = Tail(value)
        OBVIOUS
      <4>2. first \in Bytes /\ rest \in Seq(Bytes) /\ value = <<first>> \o rest
        BY <1>4, <3>2, <4>1, BlankThen
      <4>3. Left(<<first>> \o (rest \o after))
        <5>1. PICK one : one = <<first>>
          OBVIOUS
        <5>2. one \in Seq(Bytes)
          BY <4>2, <5>1, TupleType
        <5>3. Groups(one, rest, after)
          BY <1>4, <4>2, <5>2, TextsGroup
        <5> QED
          BY <1>5, <4>2, <5>1, <5>3 DEF Groups
      <4>4. rest \o after \in Seq(Bytes)
        BY <1>4, <4>2, TextConcat
      <4>5. c = first
        BY <1>1, <4>2, <4>3, <4>4, NextIs, Zenon
      <4> QED
        BY <1>7, <3>2, <4>1, <4>5
    <3> QED
      BY <3>1, <3>2
  <2>2. Refuse(c)
    BY <1>1, <2>1, RefusesIt
  <2>3. ~Readable(LineAt(sent, Len(lines) + 1))
    BY <1>3, <1>7 DEF Readable
  <2> QED
    BY <1>1, <1>2, <2>2, <2>3, RefusedStops
<1> QED
  BY <1>6, <1>7

LEMMA SlashGoesOn ==
  ASSUME NEW c, OneByte(c), state = "http_version_slash"
  PROVE  GoesOn
<1>1. /\ TypeOK /\ Agrees /\ Ahead /\ sent \in Requests /\ sent' = sent /\ Expects(c)
      /\ ConsumeOne(c) /\ EmptyAhead /\ verdict = "indeterminate" /\ input' = Append(input, c)
  BY DEF OneByte, ConsumeOne
<1>2. sent.major \in Seq(Bytes) /\ AfterMajor(sent) \in Seq(Bytes) /\ AfterSlash(sent) \in Seq(Bytes)
  BY <1>1, AfterType
<1>3. /\ c = "/" /\ Len(input) < Len(SentHead(sent))
      /\ SentHead(sent) = Append(input, c) \o (sent.major \o AfterMajor(sent))
  <2>1. "/" \in Bytes /\ sent.major \o AfterMajor(sent) \in Seq(Bytes)
    BY <1>2, BytesAre, TextConcat
  <2>2. Left(<<"/">> \o (sent.major \o AfterMajor(sent)))
    BY <1>1 DEF Ahead, AfterP, AfterSlash
  <2> QED
    BY <1>1, <2>1, <2>2, NextIs, Zenon
<1>4. SkipLiteral(c)
  BY <1>1, <1>3, SkipsIt
<1>5. /\ state' = "http_version_major_start" /\ verdict' = "indeterminate" /\ major = <<>>
      /\ UNCHANGED <<method, url, major, minor, tmpKey, tmpValue, lines>>
  BY <1>1, <1>4, SkipMoves DEF tmp, request, EmptyAhead, BeforeMajor
<1>6. Agrees'
  BY <1>1, <1>5 DEF Agrees, LinesAgree, BeforeUrl, BeforeMajor, BeforeMinor, InLine
<1>7. Ahead'
  <2>1. FieldLeft(SentHead(sent), Append(input, c), sent.major, <<>>, AfterMajor(sent))
    BY <1>2, <1>3, AllLeft DEF FieldLeft
  <2> QED
    BY <1>1, <1>5, <2>1 DEF Ahead, LeftOf, BeforeUrl
<1> QED
  BY <1>3, <1>5, <1>6, <1>7 DEF GoesOn

LEMMA NewLineGoesOn ==
  ASSUME NEW c, OneByte(c), state \in {"expecting_new_line_1", "expecting_new_line_2"}
  PROVE  GoesOn
<1>1. /\ TypeOK /\ Agrees /\ Ahead /\ sent \in Requests /\ sent' = sent /\ Expects(c)
      /\ ConsumeOne(c) /\ EmptyAhead /\ verdict = "indeterminate" /\ input' = Append(input, c)
  BY DEF OneByte, ConsumeOne
<1>2. Len(lines) \in Nat /\ (state = "expecting_new_line_1" => Len(lines) = 0)
  BY <1>1, LineRead DEF EmptyAhead, BeforeLines
<1>3. LinesAfter(sent, Len(lines)) \in Seq(Bytes) /\ Left(<<"LF">> \o LinesAfter(sent, Len(lines)))
  BY <1>1, <1>2, AfterType DEF Ahead
<1>4. /\ c = "LF" /\ Len(input) < Len(SentHead(sent))
      /\ SentHead(sent) = Append(input, c) \o LinesAfter(sent, Len(lines))
  BY <1>1, <1>3, BytesAre, NextIs, Zenon
<1>5. SkipLiteral(c)
  BY <1>1, <1>4, SkipsIt
<1>6. /\ state' = "header_line_start" /\ verdict' = "indeterminate"
      /\ UNCHANGED <<method, url, major, minor, tmpKey, tmpValue, lines>>
  BY <1>1, <1>5, SkipMoves DEF tmp, request
<1>7. Agrees'
  BY <1>1, <1>6 DEF Agrees, LinesAgree, BeforeUrl, BeforeMajor, BeforeMinor, InLine
<1>8. Ahead'
  BY <1>1, <1>4, <1>6 DEF Ahead, Left, BeforeUrl
<1> QED
  BY <1>4, <1>6, <1>7, <1>8 DEF GoesOn

LEMMA LineStartGoesOn ==
  ASSUME NEW c, OneByte(c), state = "header_line_start"
  PROVE  GoesOn
<1>1. /\ TypeOK /\ Agrees /\ Ahead /\ sent \in Requests /\ sent' = sent /\ Expects(c)
      /\ ConsumeOne(c) /\ EmptyAhead /\ verdict = "indeterminate" /\ input' = Append(input, c)
  BY DEF OneByte, ConsumeOne
<1>2. Len(lines) \in Nat /\ Len(sent.lines) \in Nat /\ Left(LinesAfter(sent, Len(lines)))
  BY <1>1, LineRead DEF Ahead
<1>3. CASE Len(lines) < Len(sent.lines)
  <2>1. PICK n, name : n = Len(lines) + 1 /\ name = LineAt(sent, n).name
    OBVIOUS
  <2>2. n \in 1..Len(sent.lines)
    BY <1>2, <1>3, <2>1
  <2>3. /\ name \in Seq(Bytes) /\ name \in Seq(Tokens) /\ name # <<>>
        /\ AfterKey(sent, n) \in Seq(Bytes)
    BY <1>1, <2>1, <2>2, AfterType, SentType
  <2>4. LinesAfter(sent, Len(lines)) = name \o AfterKey(sent, n)
    BY <1>1, <1>2, <1>3, <2>1, LinesAfterIs
  <2>5. tmpKey = <<>> /\ tmpKey \in Seq(Bytes)
    BY <1>1, EmptySeq DEF EmptyAhead, InLine
  <2>6. Read(tmpKey, name) /\ LeftOf(name, tmpKey, AfterKey(sent, n)) /\ Len(tmpKey) < Len(name)
    <3>1. Len(<<>>) = 0 /\ Len(name) \in Nat /\ Len(name) # 0
      BY <2>3, EmptySeq, LenProperties
    <3>2. Read(<<>>, name) /\ From(name, Len(<<>>)) = name
      BY <2>3, AllLeft
    <3>3. SentHead(sent) = input \o (name \o AfterKey(sent, n))
      BY <1>2, <2>4 DEF Left
    <3> QED
      BY <2>5, <3>1, <3>2, <3>3 DEF LeftOf, FieldLeft
  <2>7. FieldMoves(c, name, tmpKey, AfterKey(sent, n))
    BY <1>1, <2>3, <2>5, <2>6, FieldNext
  <2>8. c \in Tokens
    <3>1. name[Len(tmpKey) + 1] \in Tokens
      BY <2>3, <2>5, <2>6, FieldByte, Zenon
    <3> QED
      BY <2>7, <3>1 DEF FieldMoves
  <2>9. FileByte(c)
    BY <1>1, <2>8, FilesIt, FieldIs
  <2>10. /\ state' = "header_name" /\ tmpKey' = Append(tmpKey, c) /\ verdict' = "indeterminate"
         /\ UNCHANGED <<method, url, major, minor, tmpValue, lines>>
    BY <1>1, <2>9, FileMoves
  <2>11. Agrees'
    BY <1>1, <1>3, <2>1, <2>7, <2>10 DEF FieldMoves, Agrees, LinesAgree, BeforeUrl, BeforeMajor, BeforeMinor, InLine
  <2>12. Ahead'
    BY <1>1, <2>1, <2>7, <2>10 DEF FieldMoves, Ahead, LeftOf, BeforeUrl
  <2> QED
    BY <2>7, <2>10, <2>11, <2>12 DEF FieldMoves, GoesOn
<1>4. CASE ~(Len(lines) < Len(sent.lines))
  <2>1. Left(<<"CR">> \o (<<"LF">> \o <<>>))
    BY <1>1, <1>2, <1>4, LinesAfterIs
  <2>2. /\ c = "CR" /\ Len(input) < Len(SentHead(sent))
        /\ SentHead(sent) = Append(input, c) \o (<<"LF">> \o <<>>)
    <3>1. "CR" \in Bytes /\ <<"LF">> \o <<>> \in Seq(Bytes)
      BY BytesAre, TupleType, EmptySeq, TextConcat
    <3> QED
      BY <1>1, <2>1, <3>1, NextIs, Zenon
  <2>3. Len(lines) = Len(sent.lines)
    BY <1>1, <1>2, <1>4 DEF Agrees, LinesAgree
  <2>4. EndField(c)
    BY <1>1, <2>2, EndsIt
  <2>5. /\ state' = "expecting_new_line_3" /\ verdict' = "indeterminate"
        /\ UNCHANGED <<method, url, major, minor, tmpKey, tmpValue, lines>>
    BY <1>1, <2>4, EndMoves DEF tmp, request
  <2>6. Agrees'
    BY <1>1, <2>3, <2>5 DEF Agrees, LinesAgree, BeforeUrl, BeforeMajor, BeforeMinor, InLine
  <2>7. Ahead'
    BY <1>1, <2>2, <2>5 DEF Ahead, Left, BeforeUrl
  <2> QED
    BY <2>2, <2>5, <2>6, <2>7 DEF GoesOn
<1> QED
  BY <1>3, <1>4

(* ... or a tab in its value. *)
LEMMA ValueGoesOn ==
  ASSUME NEW c, OneByte(c), state = "header_value"
  PROVE  GoesOn \/ StopsAtLine
<1>1. /\ TypeOK /\ Agrees /\ Ahead /\ sent \in Requests /\ sent' = sent /\ Expects(c)
      /\ ConsumeOne(c) /\ EmptyAhead /\ verdict = "indeterminate" /\ input' = Append(input, c)
  BY DEF OneByte, ConsumeOne
<1>6. Len(lines) + 1 \in 1..Len(sent.lines) /\ Len(lines) \in Nat
  BY <1>1, LineRead DEF InLine
<1>7. PICK whole, value : /\ whole = LineAt(sent, Len(lines) + 1).value
                          /\ value = Tail(whole)
  OBVIOUS
<1>11. /\ whole \in Seq(Bytes) /\ whole \in Seq((Bytes \ Control) \cup {"TAB"})
       /\ whole # <<>> /\ whole[1] = " "
  <2>1. BeginsBlank(LineAt(sent, Len(lines) + 1))
    BY <1>1 DEF Agrees
  <2> QED
    BY <1>1, <1>6, <1>7, <2>1, AfterType, SentType DEF BeginsBlank
<1>12. /\ Len(whole) \in Nat \ {0} /\ Len(value) = Len(whole) - 1
       /\ \A i \in 1..Len(value) : value[i] = whole[i + 1]
  BY <1>7, <1>11, BlankThen
<1>8. value \in Seq(Bytes) /\ value \in Seq((Bytes \ Control) \cup {"TAB"})
  BY <1>7, <1>11, BlankThen, HeadTailProperties
<1>9. tmpValue \in Seq(Bytes) /\ Len(lines) + 1 \in Nat
  BY <1>1, <1>6 DEF TypeOK
<1>10. /\ AfterValue(sent, Len(lines) + 1) \in Seq(Bytes)
       /\ LinesAfter(sent, Len(lines) + 1) \in Seq(Bytes)
  BY <1>1, <1>9, AfterType
<1>2. /\ value \in Seq(Bytes) /\ value \in Seq((Bytes \ Control) \cup {"TAB"}) /\ tmpValue \in Seq(Bytes)
      /\ AfterValue(sent, Len(lines) + 1) \in Seq(Bytes)
      /\ LinesAfter(sent, Len(lines) + 1) \in Seq(Bytes)
  BY <1>8, <1>9, <1>10
<1>3. /\ Read(tmpValue, value) /\ tmpValue \in Seq(Bytes \ Control)
      /\ LeftOf(value, tmpValue, AfterValue(sent, Len(lines) + 1))
  BY <1>1, <1>7 DEF Agrees, Ahead, BeforeUrl
<1>4. CASE Len(tmpValue) < Len(value)
  <2>1. FieldMoves(c, value, tmpValue, AfterValue(sent, Len(lines) + 1))
    BY <1>1, <1>2, <1>3, <1>4, FieldNext
  <2>2. c \in (Bytes \ Control) \cup {"TAB"} /\ c = whole[Len(tmpValue) + 2]
    <3>1. value[Len(tmpValue) + 1] \in (Bytes \ Control) \cup {"TAB"}
      BY <1>2, <1>4, FieldByte, Zenon
    <3>2. Len(tmpValue) + 1 \in 1..Len(value) /\ (Len(tmpValue) + 1) + 1 = Len(tmpValue) + 2
      BY <1>2, <1>4, LenProperties
    <3>3. value[Len(tmpValue) + 1] = whole[Len(tmpValue) + 2]
      BY <1>12, <3>2
    <3> QED
      BY <2>1, <3>1, <3>3 DEF FieldMoves
  <2>3. CASE c = "TAB"
    <3>1. Refuse(c)
      BY <1>1, <2>3, RefusesIt
    <3>2. ~Readable(LineAt(sent, Len(lines) + 1))
      <4>1. Len(tmpValue) + 2 \in 1..Len(whole)
        BY <1>2, <1>4, <1>12, LenProperties
      <4>2. DOMAIN whole = 1..Len(whole)
        BY <1>11, LenProperties
      <4> QED
        BY <1>7, <2>2, <2>3, <4>1, <4>2 DEF Readable
    <3> QED
      BY <1>1, <1>6, <3>1, <3>2, RefusedStops
  <2>4. CASE c # "TAB"
    <3>1. c \in Bytes \ Control
      BY <2>2, <2>4
    <3>2. FileByte(c)
      BY <1>1, <3>1, FilesIt, FieldIs
    <3>3. /\ state' = "header_value" /\ tmpValue' = Append(tmpValue, c) /\ verdict' = "indeterminate"
          /\ UNCHANGED <<method, url, major, minor, tmpKey, lines>>
      BY <1>1, <3>2, FileMoves
    <3>4. tmpValue' \in Seq(Bytes \ Control)
      BY <1>3, <3>1, <3>3, AppendProperties
    <3>5. Agrees'
      BY <1>1, <1>7, <2>1, <3>3, <3>4
         DEF FieldMoves, Agrees, LinesAgree, BeforeUrl, BeforeMajor, BeforeMinor, InLine
    <3>6. Ahead'
      BY <1>1, <1>7, <2>1, <3>3 DEF FieldMoves, Ahead, LeftOf, BeforeUrl
    <3> QED
      BY <2>1, <3>3, <3>5, <3>6 DEF FieldMoves, GoesOn
  <2> QED
    BY <2>3, <2>4
<1>5. CASE ~(Len(tmpValue) < Len(value))
  <2>1. tmpValue = value /\ Left(AfterValue(sent, Len(lines) + 1))
    BY <1>1, <1>2, <1>3, <1>5, FieldDone
  <2>2. state = "header_value"
    BY <1>1, <1>2, <2>1, SentType DEF EmptyAhead, BeforeUrl, BeforeMajor, BeforeMinor, InLine
  <2>3. /\ c = "CR" /\ Len(input) < Len(SentHead(sent))
        /\ SentHead(sent) = Append(input, c) \o (<<"LF">> \o LinesAfter(sent, Len(lines) + 1))
    <3>1. "CR" \in Bytes /\ <<"LF">> \o LinesAfter(sent, Len(lines) + 1) \in Seq(Bytes)
      BY <1>2, BytesAre, TupleType, TextConcat
    <3>2. Left(<<"CR">> \o (<<"LF">> \o LinesAfter(sent, Len(lines) + 1)))
      BY <2>1 DEF AfterValue
    <3> QED
      BY <1>1, <3>1, <3>2, NextIs, Zenon
  <2>4. EndLine(c)
    BY <1>1, <2>3, EndsLine
  <2>5. /\ state' = "expecting_new_line_2" /\ verdict' = "indeterminate"
        /\ lines' = Append(lines, [name |-> tmpKey, value |-> tmpValue])
        /\ UNCHANGED <<method, url, major, minor>>
    BY <1>1, <2>4 DEF EndLine
  <2>6. LinesAgree' /\ Len(lines') = Len(lines) + 1
    <3>1. PICK l : l = LineAt(sent, Len(lines) + 1)
      OBVIOUS
    <3>2. Readable(l)
      <4>1. \A i \in 1..Len(value) : value[i] \in Bytes \ Control
        BY <1>3, <2>1, ElementOfSeq
      <4>2. DOMAIN whole = 1..Len(whole)
        BY <1>11, LenProperties
      <4>3. ASSUME NEW i \in 1..Len(whole) PROVE whole[i] # "TAB"
        <5>1. CASE i = 1
          BY <1>11, <5>1
        <5>2. CASE i # 1
          <6>1. i - 1 \in 1..Len(value) /\ (i - 1) + 1 = i
            BY <1>12, <4>3, <5>2
          <6>2. whole[i] \in Bytes \ Control
            BY <1>12, <4>1, <6>1
          <6> QED
            BY <6>2 DEF Control
        <5> QED
          BY <5>1, <5>2
      <4> QED
        BY <1>7, <1>11, <3>1, <4>2, <4>3 DEF Readable
    <3>3. [name |-> tmpKey, value |-> tmpValue] = AsRead(l)
      BY <1>1, <1>7, <2>1, <3>1 DEF Agrees, AsRead
    <3>4. /\ \A i \in 1..Len(lines) : lines'[i] = lines[i]
          /\ lines'[Len(lines) + 1] = AsRead(l) /\ Len(lines') = Len(lines) + 1
      <4>1. lines \in Seq(Line) /\ [name |-> tmpKey, value |-> tmpValue] \in Line
        BY <1>1 DEF TypeOK, Line
      <4> QED
        BY <2>5, <3>3, <4>1, AppendProperties
    <3>5. ASSUME NEW i \in 1..Len(lines')
          PROVE  Readable(LineAt(sent, i)) /\ lines'[i] = AsRead(LineAt(sent, i))
      <4>1. CASE i = Len(lines) + 1
        BY <3>1, <3>2, <3>4, <4>1
      <4>2. CASE i # Len(lines) + 1
        <5>1. i \in 1..Len(lines)
          BY <1>6, <3>4, <3>5, <4>2
        <5> QED
          BY <1>1, <3>4, <5>1 DEF Agrees, LinesAgree
      <4> QED
        BY <4>1, <4>2
    <3>6. Len(lines') <= Len(sent.lines)
      BY <1>1, <1>6, <3>4, LineRead
    <3> QED
      BY <1>1, <3>4, <3>5, <3>6 DEF LinesAgree, LineAt
  <2>7. Agrees'
    BY <1>1, <2>5, <2>6 DEF Agrees, LinesAgree, BeforeUrl, BeforeMajor, BeforeMinor, InLine
  <2>8. Ahead'
    BY <1>1, <2>3, <2>5, <2>6 DEF Ahead, Left, BeforeUrl
  <2> QED
    BY <2>3, <2>5, <2>7, <2>8 DEF GoesOn
<1> QED
  BY <1>4, <1>5

LEMMA LastByteCompletes ==
  ASSUME NEW c, OneByte(c), state = "expecting_new_line_3"
  PROVE  /\ Agrees' /\ verdict' = "complete" /\ Len(input) < Len(SentHead(sent))
         /\ input' = SentHead(sent) /\ IsFiled(sent)'
<1>1. /\ TypeOK /\ Agrees /\ Ahead /\ sent \in Requests /\ sent' = sent /\ Expects(c)
      /\ ConsumeOne(c) /\ input' = Append(input, c)
  BY DEF OneByte, ConsumeOne
<1>2. /\ c = "LF" /\ Len(input) < Len(SentHead(sent))
      /\ SentHead(sent) = Append(input, c) \o <<>>
  <2>1. "LF" \in Bytes /\ <<>> \in Seq(Bytes)
    BY BytesAre, EmptySeq
  <2>2. Left(<<"LF">> \o <<>>)
    BY <1>1 DEF Ahead
  <2> QED
    BY <1>1, <2>1, <2>2, NextIs, Zenon
<1>3. input' = SentHead(sent)
  <2>1. input \in Seq(Bytes) /\ c \in Bytes
    BY <1>1, <1>2, BytesAre DEF TypeOK
  <2>2. Append(input, c) \in Seq(Bytes)
    BY <2>1, AppendProperties
  <2>3. \A s \in Seq(Bytes) : s \o <<>> = s
    BY ConcatEmptySeq
  <2> QED
    BY <1>1, <1>2, <2>2, <2>3, Zenon
<1>4. verdict' = "complete" /\ UNCHANGED <<state, method, url, major, minor, tmpKey, tmpValue, lines>>
  BY <1>1, <1>2, Completes DEF Complete, tmp, request
<1>5. Agrees'
  BY <1>1, <1>4 DEF Agrees, LinesAgree
<1>6. IsFiled(sent)'
  <2>1. /\ method = sent.method /\ url = sent.url /\ major = sent.major /\ minor = sent.minor
        /\ Len(lines) = Len(sent.lines) /\ LinesAgree
    BY <1>1 DEF Agrees, LinesAgree, BeforeUrl, BeforeMajor, BeforeMinor
  <2>2. /\ lines \in Seq(Line) /\ sent.lines \in Seq(Line)
        /\ DOMAIN lines = 1..Len(lines) /\ DOMAIN sent.lines = 1..Len(lines)
    BY <1>1, <2>1, SentType, LenProperties DEF TypeOK, Line
  <2>3. AllReadable(sent)
    BY <2>1, <2>2 DEF LinesAgree, AllReadable, LineAt
  <2>4. lines = [i \in DOMAIN sent.lines |-> AsRead(sent.lines[i])]
    <3>1. \A i \in 1..Len(lines) : lines[i] = AsRead(sent.lines[i])
      BY <2>1 DEF LinesAgree, LineAt
    <3> QED
      BY <2>2, <3>1
  <2>5. Parsed = RequestAsRead(sent)
    <3>1. sent = [method |-> sent.method, url |-> sent.url, major |-> sent.major,
                  minor |-> sent.minor, lines |-> sent.lines]
      BY <1>1, SentType
    <3> QED
      BY <2>1, <2>4, <3>1 DEF Parsed, RequestAsRead
  <2> QED
    BY <1>1, <1>4, <2>3, <2>5 DEF IsFiled, Parsed
<1> QED
  BY <1>2, <1>3, <1>4, <1>5, <1>6

(* Something is left of the head until its last byte has been read. *)
LEMMA Longer ==
  ASSUME TypeOK
  PROVE  \A a, b \in Seq(Bytes) :
           Left(a \o b) /\ (a # <<>> \/ b # <<>>) => Len(input) < Len(SentHead(sent))
<1> SUFFICES ASSUME NEW a \in Seq(Bytes), NEW b \in Seq(Bytes), Left(a \o b), a # <<>> \/ b # <<>>
             PROVE  Len(input) < Len(SentHead(sent))
  OBVIOUS
<1>1. PICK ab : ab = a \o b
  OBVIOUS
<1>2. ab \in Seq(Bytes) /\ Len(ab) = Len(a) + Len(b)
  BY <1>1, ConcatProperties
<1>3. Len(a) \in Nat /\ Len(b) \in Nat /\ (Len(a) # 0 \/ Len(b) # 0)
  BY EmptySeq, LenProperties
<1>4. input \in Seq(Bytes) /\ SentHead(sent) = input \o ab
  BY <1>1 DEF TypeOK, Left
<1>5. Len(input \o ab) = Len(input) + Len(ab) /\ Len(input) \in Nat
  BY <1>2, <1>4, ConcatProperties, LenProperties
<1> QED
  BY <1>2, <1>3, <1>4, <1>5

LEMMA ConcatNotEmpty ==
  \A s, t \in Seq(Bytes) : s # <<>> \/ t # <<>> => s \o t # <<>>
<1> SUFFICES ASSUME NEW s \in Seq(Bytes), NEW t \in Seq(Bytes), s # <<>> \/ t # <<>>
             PROVE  s \o t # <<>>
  OBVIOUS
<1>1. Len(s) \in Nat /\ Len(t) \in Nat /\ (Len(s) # 0 \/ Len(t) # 0)
  BY EmptySeq, LenProperties
<1>2. Len(s \o t) = Len(s) + Len(t)
  BY ConcatProperties
<1> QED
  BY <1>1, <1>2, EmptySeq

LEMMA OneThen ==
  \A x \in Bytes, t \in Seq(Bytes) : <<x>> \o t # <<>>
<1> SUFFICES ASSUME NEW x \in Bytes, NEW t \in Seq(Bytes) PROVE <<x>> \o t # <<>>
  OBVIOUS
<1>1. <<x>> \in Seq(Bytes) /\ Len(<<x>>) = 1
  BY TupleType
<1> QED
  BY <1>1, EmptySeq, ConcatNotEmpty

LEMMA HeadLeft ==
  ASSUME TypeOK, Agrees, Ahead, sent \in Requests
  PROVE  Len(input) < Len(SentHead(sent))
<1>1. \A a, b \in Seq(Bytes) :
        Left(a \o b) /\ (a # <<>> \/ b # <<>>) => Len(input) < Len(SentHead(sent))
  BY Longer
<1>2. \A x \in Bytes, t \in Seq(Bytes) : Left(<<x>> \o t) => Len(input) < Len(SentHead(sent))
  <2> SUFFICES ASSUME NEW x \in Bytes, NEW t \in Seq(Bytes), Left(<<x>> \o t)
               PROVE  Len(input) < Len(SentHead(sent))
    OBVIOUS
  <2>1. PICK s : s = <<x>>
    OBVIOUS
  <2>2. s \in Seq(Bytes) /\ s # <<>>
    BY <2>1, TupleType
  <2> QED
    BY <1>1, <2>1, <2>2, Zenon
<1>3. \A whole, part, b \in Seq(Bytes) :
        LeftOf(whole, part, b) /\ b # <<>> => Len(input) < Len(SentHead(sent))
  <2> SUFFICES ASSUME NEW whole \in Seq(Bytes), NEW part \in Seq(Bytes), NEW b \in Seq(Bytes),
                      LeftOf(whole, part, b), b # <<>>
               PROVE  Len(input) < Len(SentHead(sent))
    OBVIOUS
  <2>1. PICK a : a = From(whole, Len(part))
    OBVIOUS
  <2>2. a \in Seq(Bytes)
    BY <2>1, FromType, LenProperties
  <2>3. Left(a \o b)
    BY <2>1 DEF LeftOf, FieldLeft, Left
  <2> QED
    BY <1>1, <2>2, <2>3, Zenon
<1>4. /\ "H" \in Bytes /\ "T" \in Bytes /\ "P" \in Bytes /\ "/" \in Bytes /\ "LF" \in Bytes
      /\ " " \in Bytes /\ "." \in Bytes /\ ":" \in Bytes /\ "CR" \in Bytes
  BY BytesAre
<1>5. Len(lines) \in Nat /\ (state \in InLine => Len(lines) + 1 \in 1..Len(sent.lines))
  BY LineRead
<1>6. /\ sent.method \in Seq(Bytes) /\ method \in Seq(Bytes) /\ AfterMethod(sent) \in Seq(Bytes)
      /\ sent.url \in Seq(Bytes) /\ url \in Seq(Bytes) /\ AfterUrl(sent) \in Seq(Bytes)
      /\ sent.major \in Seq(Bytes) /\ major \in Seq(Bytes) /\ AfterMajor(sent) \in Seq(Bytes)
      /\ sent.minor \in Seq(Bytes) /\ minor \in Seq(Bytes) /\ AfterValue(sent, 0) \in Seq(Bytes)
  BY AfterType DEF TypeOK
<1>7. /\ AfterMethod(sent) # <<>> /\ AfterUrl(sent) # <<>> /\ AfterMajor(sent) # <<>>
      /\ AfterValue(sent, 0) # <<>>
  <2>1. /\ sent.url \o AfterUrl(sent) \in Seq(Bytes) /\ AfterBlank(sent) \in Seq(Bytes)
        /\ sent.minor \o AfterValue(sent, 0) \in Seq(Bytes)
        /\ <<"LF">> \o LinesAfter(sent, 0) \in Seq(Bytes)
    BY <1>4, <1>6, AfterType, TupleType, TextConcat
  <2>2. AfterMethod(sent) # <<>>
    BY <1>4, <2>1, OneThen, Zenon DEF AfterMethod
  <2>3. AfterUrl(sent) # <<>>
    BY <1>4, <2>1, OneThen, Zenon DEF AfterUrl
  <2>4. AfterMajor(sent) # <<>>
    BY <1>4, <2>1, OneThen, Zenon DEF AfterMajor
  <2>5. AfterValue(sent, 0) # <<>>
    BY <1>4, <2>1, OneThen, Zenon DEF AfterValue
  <2> QED
    BY <2>2, <2>3, <2>4, <2>5
<1>8. CASE state \in BeforeUrl
  BY <1>3, <1>6, <1>7, <1>8, Zenon DEF Ahead
<1>9. CASE state = "uri"
  BY <1>3, <1>6, <1>7, <1>9, Zenon DEF Ahead
<1>10. CASE state \in {"http_version_major_start", "http_version_major"}
  BY <1>3, <1>6, <1>7, <1>10, Zenon DEF Ahead
<1>11. CASE state \in {"http_version_minor_start", "http_version_minor"}
  BY <1>3, <1>6, <1>7, <1>11, Zenon DEF Ahead
<1>12. CASE state = "http_version_h"
  <2>1. AfterH(sent) \in Seq(Bytes) /\ Left(<<"H">> \o AfterH(sent))
    BY <1>12, AfterType DEF Ahead, AfterBlank
  <2> QED
    BY <1>2, <1>4, <2>1, Zenon
<1>13. CASE state = "http_version_t_1"
  <2>1. AfterT1(sent) \in Seq(Bytes) /\ Left(<<"T">> \o AfterT1(sent))
    BY <1>13, AfterType DEF Ahead, AfterH
  <2> QED
    BY <1>2, <1>4, <2>1, Zenon
<1>14. CASE state = "http_version_t_2"
  <2>1. AfterT2(sent) \in Seq(Bytes) /\ Left(<<"T">> \o AfterT2(sent))
    BY <1>14, AfterType DEF Ahead, AfterT1
  <2> QED
    BY <1>2, <1>4, <2>1, Zenon
<1>15. CASE state = "http_version_p"
  <2>1. AfterP(sent) \in Seq(Bytes) /\ Left(<<"P">> \o AfterP(sent))
    BY <1>15, AfterType DEF Ahead, AfterT2
  <2> QED
    BY <1>2, <1>4, <2>1, Zenon
<1>16. CASE state = "http_version_slash"
  <2>1. AfterSlash(sent) \in Seq(Bytes) /\ Left(<<"/">> \o AfterSlash(sent))
    BY <1>16, AfterType DEF Ahead, AfterP
  <2> QED
    BY <1>2, <1>4, <2>1, Zenon
<1>17. CASE state \in {"expecting_new_line_1", "expecting_new_line_2"}
  <2>1. PICK k \in Nat : Left(<<"LF">> \o LinesAfter(sent, k))
    BY <1>5, <1>17 DEF Ahead
  <2>2. LinesAfter(sent, k) \in Seq(Bytes)
    BY <2>1, AfterType
  <2> QED
    BY <1>2, <1>4, <2>1, <2>2, Zenon
<1>18. CASE state = "header_line_start"
  <2>1. PICK a, b : a = FlattenSeq(From(LineTexts(sent), Len(lines))) /\ b = <<"CR", "LF">>
    OBVIOUS
  <2>2. a \in Seq(Bytes)
    BY <1>5, <2>1, LineTextsType, FromType, FlattenType
  <2>3. b \in Seq(Bytes) /\ b # <<>>
    BY <1>4, <2>1, TupleType
  <2>4. Left(a \o b)
    BY <1>18, <2>1 DEF Ahead, LinesAfter
  <2> QED
    BY <1>1, <2>2, <2>3, <2>4, Zenon
<1>19. CASE state \in InLine
  <2>1. PICK k, name, value : /\ k = Len(lines) + 1 /\ name = LineAt(sent, k).name
                              /\ value = LineAt(sent, k).value
    OBVIOUS
  <2>2. k \in 1..Len(sent.lines) /\ k \in Nat
    BY <1>5, <1>19, <2>1
  <2>3. /\ name \in Seq(Bytes) /\ value \in Seq(Bytes) /\ AfterKey(sent, k) \in Seq(Bytes)
        /\ AfterColon(sent, k) \in Seq(Bytes) /\ AfterValue(sent, k) \in Seq(Bytes)
        /\ LinesAfter(sent, k) \in Seq(Bytes)
    BY <2>1, <2>2, AfterType
  <2>4. tmpKey \in Seq(Bytes) /\ tmpValue \in Seq(Bytes)
    BY BytesAre, SeqMonotonic DEF TypeOK
  <2>5. value \o AfterValue(sent, k) \in Seq(Bytes) /\ <<"LF">> \o LinesAfter(sent, k) \in Seq(Bytes)
    BY <1>4, <2>3, TupleType, TextConcat
  <2>6. AfterKey(sent, k) # <<>>
    BY <1>4, <2>3, OneThen, Zenon DEF AfterKey
  <2>7. AfterValue(sent, k) # <<>>
    BY <1>4, <2>5, OneThen, Zenon DEF AfterValue
  <2>8. CASE state = "header_name"
    <3>1. LeftOf(name, tmpKey, AfterKey(sent, k))
      BY <2>1, <2>8 DEF Ahead
    <3> QED
      BY <1>3, <2>3, <2>4, <2>6, <3>1, Zenon
  <2>9. CASE state = "space_before_header_value"
    <3>1. Left(value \o AfterValue(sent, k))
      BY <2>1, <2>9 DEF Ahead, AfterColon
    <3> QED
      BY <1>1, <2>3, <2>7, <3>1, Zenon
  <2>10. CASE state = "header_value"
    <3>1. LeftOf(Tail(value), tmpValue, AfterValue(sent, k))
      BY <2>1, <2>10 DEF Ahead
    <3>2. Tail(value) \in Seq(Bytes)
      BY <2>1, <2>3, <2>10, BlankThen DEF Agrees, BeginsBlank
    <3> QED
      BY <1>3, <2>3, <2>4, <2>7, <3>1, <3>2, Zenon
  <2> QED
    BY <1>19, <2>8, <2>9, <2>10 DEF InLine
<1>20. CASE state = "expecting_new_line_3"
  <2>1. Left(<<"LF">> \o <<>>) /\ <<>> \in Seq(Bytes)
    BY <1>20, EmptySeq DEF Ahead
  <2> QED
    BY <1>2, <1>4, <2>1, Zenon
<1>21. state \in States
  BY DEF TypeOK
<1> QED
  BY <1>8, <1>9, <1>10, <1>11, <1>12, <1>13, <1>14, <1>15, <1>16, <1>17, <1>18, <1>19, <1>20, <1>21
     DEF States, Literal, Ends, Field, FieldOf, BeforeUrl, InLine

-------------------------------------------------------------------------------
(* The inductive invariant                                                 *)
IInv ==
  /\ TypeOK
  /\ FirstLineCounts
  /\ text \in Seq(Bytes)
  /\ EmptyAhead
  /\ verdict = "indeterminate" => Consumed
  /\ AcceptedIsText
  /\ sent # NoRequest =>
       /\ sent \in Requests
       /\ \E body \in Seq(Bytes) : text = SentHead(sent) \o body
       /\ InStep

LEMMA HeadType ==
  ASSUME NEW r \in Requests
  PROVE  SentHead(r) \in Seq(Bytes)
<1>1. r.method \in Seq(Bytes) /\ AfterMethod(r) \in Seq(Bytes)
  BY AfterType
<1> QED
  BY <1>1, HeadIs, TextConcat

LEMMA InitInStep ==
  ASSUME Init, sent \in Requests
  PROVE  InStep
<1>1. /\ state = "method_start" /\ verdict = "indeterminate" /\ input = <<>> /\ lines = <<>>
      /\ method = <<>> /\ url = <<>> /\ major = <<>> /\ minor = <<>>
  BY DEF Init
<1>2. /\ sent.method \in Seq(Bytes) /\ sent.url \in Seq(Bytes) /\ sent.major \in Seq(Bytes)
      /\ sent.minor \in Seq(Bytes) /\ sent.lines \in Seq(Line) /\ AfterMethod(sent) \in Seq(Bytes)
  BY AfterType, SentType
<1>3. Agrees
  <2>1. /\ Read(<<>>, sent.method) /\ Read(<<>>, sent.url) /\ Read(<<>>, sent.major)
        /\ Read(<<>>, sent.minor)
    BY <1>2, AllLeft
  <2>2. LinesAgree
    <3>1. Len(<<>>) = 0 /\ Len(sent.lines) \in Nat
      BY <1>2, LenProperties
    <3> QED
      BY <1>1, <3>1 DEF LinesAgree
  <2> QED
    BY <1>1, <2>1, <2>2 DEF Agrees, LinesAgree, BeforeUrl, BeforeMajor, BeforeMinor, InLine
<1>4. Ahead
  <2>1. From(sent.method, Len(<<>>)) = sent.method
    BY <1>2, AllLeft
  <2>2. sent.method \o AfterMethod(sent) \in Seq(Bytes)
    BY <1>2, TextConcat
  <2>3. SentHead(sent) = <<>> \o (sent.method \o AfterMethod(sent))
    BY <2>2, HeadIs, ConcatEmptySeq
  <2> QED
    BY <1>1, <2>1, <2>3 DEF Ahead, LeftOf, FieldLeft, BeforeUrl
<1> QED
  BY <1>1, <1>3, <1>4 DEF InStep

LEMMA InitIInv == ReadingInit => IInv
<1> SUFFICES ASSUME ReadingInit PROVE IInv
  OBVIOUS
<1>1. TypeOK
  BY DEF ReadingInit, Init, TypeOK, States, Literal, Ends, Field, FieldOf
<1>2. FirstLineCounts
  BY DEF ReadingInit, Init, FirstLineCounts
<1>3. /\ text \in Seq(Bytes)
      /\ sent # NoRequest =>
           sent \in Requests /\ \E body \in Seq(Bytes) : text = SentHead(sent) \o body
  <2>1. CASE sent \in Requests /\ \E body \in Bodies : text = SentHead(sent) \o body
    BY <2>1, HeadType, BoundsAssumption, TextConcat
  <2>2. CASE sent = NoRequest /\ text = <<>>
    BY <2>2, EmptySeq
  <2> QED
    BY <2>1, <2>2 DEF ReadingInit
<1>4. EmptyAhead /\ (verdict = "indeterminate" => Consumed) /\ AcceptedIsText
  BY DEF ReadingInit, Init, EmptyAhead, Consumed, AcceptedIsText
<1>5. sent # NoRequest => InStep
  BY <1>3, InitInStep DEF ReadingInit
<1> QED
  BY <1>1, <1>2, <1>3, <1>4, <1>5 DEF IInv

(* A byte of a request leaves the parser in step with it. *)
LEMMA ReadInStep ==
  ASSUME IInv, ReadByte
  PROVE  InStep'
<1> DEFINE c == text[Len(input) + 1]
<1>1. /\ TypeOK /\ EmptyAhead /\ InStep /\ sent \in Requests /\ sent' = sent
      /\ ConsumeOne(c) /\ verdict = "indeterminate"
  BY DEF IInv, ReadByte, ConsumeOne
<1>2. Expects(c)
  <2>1. PICK body \in Seq(Bytes) : text = SentHead(sent) \o body
    BY DEF IInv, ReadByte
  <2>2. SentHead(sent) \in Seq(Bytes) /\ input \in Seq(Bytes)
    BY <1>1, HeadType DEF TypeOK
  <2>3. Len(input) \in Nat /\ Len(SentHead(sent)) \in Nat /\ Len(body) \in Nat
    BY <2>1, <2>2, LenProperties
  <2>4. ASSUME Len(input) < Len(SentHead(sent))
        PROVE  text[Len(input) + 1] = SentHead(sent)[Len(input) + 1]
    <3>1. PICK h, i : h = SentHead(sent) /\ i = Len(input) + 1
      OBVIOUS
    <3>2. h \in Seq(Bytes) /\ i \in 1..Len(h) /\ i \in 1..Len(h) + Len(body)
      BY <2>2, <2>3, <2>4, <3>1
    <3>3. (h \o body)[i] = h[i]
      BY <2>1, <3>2, ConcatProperties
    <3> QED
      BY <2>1, <3>1, <3>3
  <2> QED
    BY <2>4 DEF Expects
<1> HIDE DEF c
<1>3. OneByte(c)
  BY <1>1, <1>2 DEF OneByte, InStep
<1>4. CASE state = "expecting_new_line_3"
  BY <1>1, <1>3, <1>4, LastByteCompletes DEF InStep, IsFiled
<1>5. CASE state # "expecting_new_line_3"
  <2>1. state \in States
    BY <1>1 DEF TypeOK
  <2>2. GoesOn \/ StopsAtLine
    BY <1>3, <1>5, <2>1, StatesAre, MethodGoesOn, UriGoesOn, HttpGoesOn, SlashGoesOn, MajorGoesOn,
       MinorGoesOn, NewLineGoesOn, LineStartGoesOn, NameGoesOn, SpaceGoesOn, ValueGoesOn
       DEF BeforeUrl
  <2> QED
    BY <1>1, <2>2 DEF GoesOn, StopsAtLine, InStep
<1> QED
  BY <1>4, <1>5

LEMMA Invariance == ReadingSpec => []IInv
<1>1. IInv /\ [ReadingNext]_readingVars => IInv'
  <2> SUFFICES ASSUME IInv, [ReadingNext]_readingVars PROVE IInv'
    OBVIOUS
  <2>1. CASE ReadingNext
    <3>1. PICK c \in Bytes : ConsumeOne(c)
      <4>1. CASE ReadByte
        <5>1. input \in Seq(Bytes) /\ text \in Seq(Bytes) /\ Len(input) < Len(text)
          BY <4>1 DEF ReadByte, IInv, TypeOK
        <5>2. text[Len(input) + 1] \in Bytes
          BY <5>1, LenProperties, ElementOfSeq
        <5> QED
          BY <4>1, <5>2 DEF ReadByte
      <4>2. CASE ReadAnyByte
        BY <4>2 DEF ReadAnyByte
      <4> QED
        BY <2>1, <4>1, <4>2 DEF ReadingNext
    <3>2. text' = text /\ sent' = sent
      BY <2>1 DEF ReadingNext, ReadByte, ReadAnyByte
    <3>3. TypeOK' /\ FirstLineCounts'
      BY <3>1, ConsumeType, ConsumeCounts DEF IInv
    <3>4. EmptyAhead' /\ (verdict' = "indeterminate" => Consumed') /\ AcceptedIsText'
      BY <3>1, AheadStep, ConsumeText DEF IInv
    <3>5. ASSUME sent # NoRequest
          PROVE  /\ sent' \in Requests
                 /\ \E body \in Seq(Bytes) : text' = SentHead(sent') \o body
                 /\ InStep'
      <4>1. ReadByte
        BY <2>1, <3>5 DEF ReadingNext, ReadAnyByte
      <4> QED
        BY <3>2, <3>5, <4>1, ReadInStep DEF IInv
    <3> QED
      BY <3>2, <3>3, <3>4, <3>5 DEF IInv
  <2>2. CASE UNCHANGED readingVars
    <3>1. /\ UNCHANGED <<state, tmpKey, tmpValue, method, url, major, minor, headers>>
          /\ UNCHANGED <<verdict, input, lines, sent, text>>
      BY <2>2 DEF readingVars, vars, tmp, request
    <3>2. TypeOK' /\ FirstLineCounts'
      BY <3>1 DEF IInv, TypeOK, FirstLineCounts
    <3>3. EmptyAhead' /\ (verdict' = "indeterminate" => Consumed') /\ AcceptedIsText'
      <4>1. Consumed => Consumed'
        <5>1. /\ UpToUrl' = UpToUrl /\ UpToMajor' = UpToMajor /\ UpToMinor' = UpToMinor
              /\ UpToLines' = UpToLines /\ UpToKey' = UpToKey /\ UpToValue' = UpToValue
              /\ UpToColon' = UpToColon /\ UpToBlank' = UpToBlank
          BY <3>1, SameTexts DEF UpToColon, UpToBlank
        <5>2. state' = state /\ input' = input /\ method' = method
          BY <3>1
        <5> QED
          BY <5>1, <5>2 DEF Consumed
      <4>2. Parsed' = Parsed
        BY <3>1 DEF Parsed
      <4> QED
        BY <3>1, <4>1, <4>2 DEF IInv, EmptyAhead, AcceptedIsText
    <3>4. sent # NoRequest => InStep'
      <4>1. Agrees => Agrees'
        BY <3>1 DEF Agrees, LinesAgree
      <4>2. Ahead => Ahead'
        BY <3>1 DEF Ahead, Left, LeftOf
      <4>3. Parsed' = Parsed
        BY <3>1 DEF Parsed
      <4> QED
        BY <3>1, <4>1, <4>2, <4>3 DEF IInv, InStep, IsFiled
    <3> QED
      BY <3>1, <3>2, <3>3, <3>4 DEF IInv
  <2> QED
    BY <2>1, <2>2
<1> QED
  BY <1>1, InitIInv, PTL DEF ReadingSpec

-------------------------------------------------------------------------------
(* Every variable has its type; a header's name consists of tokens only.   *)
THEOREM TypeCorrect == ReadingSpec => []TypeOK
<1>1. IInv => TypeOK
  BY DEF IInv
<1> QED
  BY <1>1, Invariance, PTL

(* Of several header lines with one name the first counts, whatever bytes  *)
(* the peer sends (http_request.cpp:200).                                  *)
THEOREM FirstLineCountsCorrect == ReadingSpec => []FirstLineCounts
<1>1. IInv => FirstLineCounts
  BY DEF IInv
<1> QED
  BY <1>1, Invariance, PTL

(* What the parser accepts is, byte for byte, the text of the request it   *)
(* has filled in, whatever bytes the peer sends (http_request.cpp:37-227). *)
THEOREM AcceptedIsTextCorrect == ReadingSpec => []AcceptedIsText
<1>1. IInv => AcceptedIsText
  BY DEF IInv
<1> QED
  BY <1>1, Invariance, PTL

(* Of the requests that HTTP allows (without folded lines) the parser      *)
(* refuses only those with a line that has no blank behind the colon or a  *)
(* tab in its value (http_request.cpp:190-197, 207), and those it does not *)
(* accept; the others are complete with their last byte and not before,    *)
(* and filed as they were meant: for every request, any number of lines    *)
(* and whatever follows the head.                                          *)
THEOREM MeansWhatWasSentCorrect == ReadingSpec => []MeansWhatWasSent
<1>1. IInv => MeansWhatWasSent
  <2> SUFFICES ASSUME IInv, sent # NoRequest
               PROVE  /\ verdict = "bad" => ~AllReadable(sent)
                      /\ verdict = "complete" =>
                           AllReadable(sent) /\ Parsed = RequestAsRead(sent) /\ input = SentHead(sent)
                      /\ verdict = "indeterminate" => Len(input) < Len(SentHead(sent))
    BY DEF MeansWhatWasSent, AllReadable, RequestAsRead
  <2>1. TypeOK /\ InStep /\ sent \in Requests
    BY DEF IInv
  <2>2. verdict = "indeterminate" => Len(input) < Len(SentHead(sent))
    BY <2>1, HeadLeft DEF InStep
  <2>3. verdict = "complete" => IsFiled(sent) /\ input = SentHead(sent)
    BY <2>1 DEF InStep
  <2>4. verdict = "bad" => ~AllReadable(sent)
    BY <2>1 DEF InStep
  <2> QED
    BY <2>2, <2>3, <2>4 DEF IsFiled
<1> QED
  BY <1>1, Invariance, PTL

-------------------------------------------------------------------------------
(* The bodies of Multipart.  No prover knows that CR is in STRING.         *)
FormTokens ==
  {CR, LF, Dash, Quote, Disposition, Type, FormData, Boundary, File, NameIs, Blank, Semicolon, Letter}
BodyBytes == STRING \cup FormTokens

LEMMA LineEnd ==
  CRLF \in Seq(BodyBytes) /\ Len(CRLF) = 2 /\ CRLF # <<>>
<1>1. CR \in BodyBytes /\ LF \in BodyBytes
  BY DEF BodyBytes, FormTokens
<1>2. \A S : \A c, l \in S : <<c, l>> \in Seq(S) /\ Len(<<c, l>>) = 2 /\ <<c, l>> # <<>>
  OBVIOUS
<1> QED
  BY <1>1, <1>2, Zenon DEF CRLF

-------------------------------------------------------------------------------
(* The splitter of a part's header lines.                                  *)
SplitsHeaders == Splits(BodyBytes, Headers, CRLF, data.current_pos, pass, total, vec)

LEMMA SplitterIsStrings ==
  /\ Splitter!npos = npos
  /\ \A p, s, i : Splitter!Find(p, s, i) = Find(p, s, i)
BY Zenon DEF Splitter!npos, npos, Splitter!Find, Find, Splitter!Occurs, Occurs, Splitter!Min, Min

SplitterPieces(f, s, p, i) ==
  LET n == IF p = <<>> THEN Splitter!npos ELSE Splitter!Find(p, s, i)
      piece == SubSeq(s, i, (IF n = Splitter!npos THEN Len(s) + 1 ELSE n) - 1)
      rest == IF n = Splitter!npos THEN <<>> ELSE f[n + Len(p)]
  IN  IF piece = <<>> THEN rest ELSE <<piece>> \o rest

LEMMA SplitterSplitIs ==
  ASSUME NEW s, NEW p, Len(s) \in Nat, Len(p) \in Nat \ {0}
  PROVE  \E f : IsSplitting(f, s, p, 1) /\ Splitter!Split(s, p) = f[1]
<1> DEFINE F(f) == [i \in 1..Len(s) + 1 |-> SplitterPieces(f, s, p, i)]
           from == CHOOSE f : f = F(f)
<1>1. \A f, i : SplitterPieces(f, s, p, i) = Pieces(f, s, p, i)
  BY SplitterIsStrings, Zenon DEF SplitterPieces, Pieces
<1>2. \A f : F(f) = [i \in 1..Len(s) + 1 |-> Pieces(f, s, p, i)]
  BY <1>1
<1>3. \E f : f = F(f)
  <2> HIDE DEF F
  <2>1. PICK g : IsSplitting(g, s, p, 1)
    BY SplittingExists
  <2>2. g = F(g)
    BY <1>2, <2>1 DEF IsSplitting
  <2> QED
    BY <2>2
<1>4. from = F(from)
  BY <1>3
<1>5. Splitter!Split(s, p) = from[1]
  BY DEF Splitter!Split, SplitterPieces
<1> HIDE DEF from, F
<1> QED
  BY <1>2, <1>4, <1>5 DEF IsSplitting

LEMMA GetNextIs ==
  ASSUME Headers \in Seq(BodyBytes), data.current_pos \in 1..Len(Headers)
  PROVE  /\ Splitter!get_next.last_segment = PieceAt(CRLF, Headers, data.current_pos)
         /\ Splitter!get_next.current_pos = PieceAfter(CRLF, Headers, data.current_pos)
<1>1. PICK s \in Seq(BodyBytes) : s = Headers
  OBVIOUS
<1>2. PICK i \in 1..Len(s) : i = data.current_pos
  BY <1>1
<1>3. Len(s) \in Nat /\ Len(CRLF) = 2 /\ CRLF # <<>> /\ i \in Nat \ {0}
  BY LineEnd
<1>4. PICK n : n = Find(CRLF, s, i)
  OBVIOUS
<1>5. n = npos \/ (n \in i..Len(s) /\ n + 2 <= Len(s) + 1)
  <2>1. PICK p : p = CRLF
    OBVIOUS
  <2>2. Len(p) = 2 /\ Len(p) \in Nat
    BY <1>3, <2>1
  <2>3. Find(p, s, i) = npos \/ (Find(p, s, i) \in i..Len(s) /\ Find(p, s, i) + Len(p) <= Len(s) + 1)
    BY <1>3, <2>2, FindIs
  <2> QED
    BY <1>4, <2>1, <2>2, <2>3
<1>6. Splitter!find_pattern = n
  <2>1. Splitter!find_pattern = IF Len(s) < 2 THEN npos ELSE n
    BY <1>1, <1>2, <1>3, <1>4, SplitterIsStrings DEF Splitter!find_pattern
  <2>2. Len(s) < 2 => n = npos
    BY <1>3, <1>5
  <2> QED
    BY <2>1, <2>2
<1> QED
  BY <1>1, <1>2, <1>3, <1>4, <1>6, SplitterIsStrings DEF Splitter!get_next, PieceAt, PieceEnd, PieceAfter

LEMMA SplitterStep ==
  ASSUME Headers \in Seq(BodyBytes), SplitsHeaders, Splitter!SplitStep, Headers' = Headers
  PROVE  SplitsHeaders'
<1>1. PICK s \in Seq(BodyBytes) : s = Headers
  OBVIOUS
<1>2. PICK p : p = CRLF
  OBVIOUS
<1>3. Len(p) \in Nat \ {0} /\ p # <<>> /\ Len(s) \in Nat
  BY <1>2, LineEnd
<1>4. Splits(BodyBytes, s, p, data.current_pos, pass, total, vec)
  BY <1>1, <1>2 DEF SplitsHeaders
<1>5. SUFFICES Splits(BodyBytes, s, p, data'.current_pos, pass', total', vec')
  BY <1>1, <1>2 DEF SplitsHeaders, CRLF, CR, LF
<1>6. PICK i : i = data.current_pos
  OBVIOUS
<1>7. i \in 1..Len(s) + 1
  BY <1>4, <1>6 DEF Splits
<1>8. Splitter!More <=> i \in 1..Len(s)
  BY <1>1, <1>3, <1>6, <1>7 DEF Splitter!More
<1>9. ASSUME Splitter!More
      PROVE  /\ Splitter!get_next.last_segment = PieceAt(p, s, i)
             /\ Splitter!get_next.current_pos = PieceAfter(p, s, i)
  BY <1>1, <1>2, <1>6, <1>8, <1>9, GetNextIs
<1>10. PICK piece : piece = PieceAt(p, s, i)
  OBVIOUS
<1>11. CASE Splitter!Count
  <2>1. /\ pass = "count" /\ pass' = "count" /\ vec' = vec /\ i \in 1..Len(s)
        /\ data'.current_pos = PieceAfter(p, s, i)
        /\ total' = IF piece # <<>> THEN total + 1 ELSE total
    BY <1>8, <1>9, <1>10, <1>11 DEF Splitter!Count
  <2>2. vec = <<>>
    BY <1>4, <2>1 DEF Splits
  <2>3. Splits(BodyBytes, s, p, PieceAfter(p, s, i), "count",
               IF piece # <<>> THEN total + 1 ELSE total, <<>>)
    BY <1>3, <1>4, <1>6, <1>10, <2>1, SplitsOn
  <2> QED
    BY <2>1, <2>2, <2>3
<1>12. CASE Splitter!Counted
  <2>1. /\ pass = "count" /\ pass' = "collect" /\ total' = total /\ vec' = vec
        /\ data'.current_pos = 1 /\ ~Splitter!More
    BY <1>12 DEF Splitter!Counted, Splitter!Start
  <2>2. i = Len(s) + 1
    BY <1>3, <1>7, <1>8, <2>1
  <2>3. Splits(BodyBytes, s, p, 1, "collect", total, vec)
    BY <1>3, <1>4, <1>6, <2>1, <2>2, SplitsToEnd
  <2> QED
    BY <2>1, <2>3
<1>13. CASE Splitter!Collect
  <2>1. /\ pass = "collect" /\ pass' = "collect" /\ total' = total /\ i \in 1..Len(s)
        /\ data'.current_pos = PieceAfter(p, s, i)
        /\ vec' = IF piece # <<>> THEN Append(vec, piece) ELSE vec
    BY <1>8, <1>9, <1>10, <1>13 DEF Splitter!Collect
  <2>2. Splits(BodyBytes, s, p, PieceAfter(p, s, i), "collect", total,
               IF piece # <<>> THEN Append(vec, piece) ELSE vec)
    BY <1>3, <1>4, <1>6, <1>10, <2>1, SplitsOn
  <2> QED
    BY <2>1, <2>2
<1>14. CASE Splitter!Collected
  <2>1. /\ pass = "collect" /\ pass' = "done" /\ total' = total /\ vec' = vec
        /\ data' = data /\ ~Splitter!More
    BY <1>14 DEF Splitter!Collected
  <2>2. i = Len(s) + 1
    BY <1>3, <1>7, <1>8, <2>1
  <2>3. Splits(BodyBytes, s, p, i, "done", total, vec)
    BY <1>3, <1>4, <1>6, <2>1, <2>2, SplitsToEnd
  <2> QED
    BY <1>6, <2>1, <2>3
<1> QED
  BY <1>11, <1>12, <1>13, <1>14 DEF Splitter!SplitStep

LEMMA HeadersAreSplit ==
  ASSUME Headers \in Seq(BodyBytes), SplitsHeaders
  PROVE  Splitter!ListIsSplit
<1>1. PICK s \in Seq(BodyBytes) : s = Headers
  OBVIOUS
<1>2. PICK p : p = CRLF
  OBVIOUS
<1>3. Len(p) \in Nat \ {0} /\ Len(s) \in Nat
  BY <1>2, LineEnd
<1>4. \E f : IsSplitting(f, s, p, 1) /\ Splitter!Split(s, p) = f[1]
  BY <1>3, SplitterSplitIs
<1>5. PICK f : IsSplitting(f, s, p, 1) /\ Splitter!Split(s, p) = f[1]
  BY <1>4
<1>6. pass = "done" => vec = f[1] /\ total = Len(f[1])
  BY <1>1, <1>2, <1>5 DEF SplitsHeaders, Splits
<1> QED
  BY <1>1, <1>2, <1>5, <1>6 DEF Splitter!ListIsSplit

-------------------------------------------------------------------------------
(* The header lines of a part.                                             *)
LineBytes == BodyBytes \ {CR, LF, Type}
FileKey == <<File, NameIs, Quote>>

LEMMA TokensDiffer ==
  /\ CR # LF /\ CR # Dash /\ LF # Dash /\ Dash # CR
  /\ \A t \in {Dash, Quote, Disposition, FormData, Boundary, File, NameIs, Blank, Semicolon, Letter} :
       t \notin {CR, LF, Type}
  /\ Type \notin {CR, LF}
  /\ \A t \in {Quote, Disposition, NameIs, Blank, Semicolon, Letter} : t # File
BY Zenon DEF CR, LF, Dash, Quote, Disposition, Type, FormData, Boundary, File, NameIs, Blank, Semicolon, Letter

LEMMA LineTokens ==
  /\ {Quote, Disposition, NameIs, Blank, Semicolon, Letter} \subseteq LineBytes \ {File}
  /\ File \in LineBytes /\ LineBytes \subseteq BodyBytes
  /\ {CR, LF, Dash, Type, FormData, Boundary, Semicolon, Blank} \subseteq BodyBytes
<1>1. FormTokens \subseteq BodyBytes
  BY DEF BodyBytes
<1> QED
  BY <1>1, TokensDiffer, Zenon DEF LineBytes, FormTokens

IsPart(part) ==
  /\ part.kind \in Kinds /\ part.name \in Seq(LineBytes) /\ Without(part.name, {Quote})
  /\ part.data \in Seq(BodyBytes)

(* A disposition line that has the name of a file behind a bytes. *)
HasName(d, a, name) ==
  /\ \A k \in 1..a : d[k] # File
  /\ StandsIn(d, a, FileKey) /\ StandsIn(d, a + 3, name) /\ StandsIn(d, a + 3 + Len(name), <<Quote>>)

LEMMA NamePlace ==
  ASSUME NEW u \in Seq(LineBytes \ {File}), NEW v \in Seq(LineBytes), NEW name \in Seq(LineBytes)
  PROVE  /\ u \o (FileField(name) \o v) \in Seq(LineBytes)
         /\ HasName(u \o (FileField(name) \o v), Len(u), name)
<1>0. Quote \in LineBytes /\ File \in LineBytes /\ NameIs \in LineBytes
  BY LineTokens
<1>1. PICK k \in Seq(LineBytes) : k = FileKey /\ Len(k) = 3
  <2>1. <<File, NameIs, Quote>> \in Seq(LineBytes) /\ Len(<<File, NameIs, Quote>>) = 3
    BY <1>0, Tuples, Zenon
  <2> QED
    BY <2>1 DEF FileKey
<1>2. PICK q \in Seq(LineBytes) : q = <<Quote>> /\ Len(q) = 1
  <2>1. <<Quote>> \in Seq(LineBytes) /\ Len(<<Quote>>) = 1
    BY <1>0, Tuples, Zenon
  <2> QED
    BY <2>1
<1>3. u \in Seq(LineBytes)
  BY Wider
<1>4. PICK w : w = FileField(name)
  OBVIOUS
<1>5. w = (k \o name) \o q
  BY <1>1, <1>2, <1>4 DEF FileField, FileKey
<1>6. k \o name \in Seq(LineBytes) /\ Len(k \o name) = 3 + Len(name)
  <2>1. k \o name \in Seq(LineBytes) /\ Len(k \o name) = Len(k) + Len(name)
    BY ConcatOf
  <2> QED
    BY <1>1, <2>1
<1>7. w \in Seq(LineBytes)
  BY <1>2, <1>5, <1>6, ConcatOf
<1>8. PICK r \in Seq(LineBytes) : r = w \o v
  BY <1>7, ConcatOf
<1>9. PICK d \in Seq(LineBytes) : d = u \o r
  BY <1>3, <1>8, ConcatOf
<1>10. Follows(d, 0, u \o r)
  BY <1>9, FollowsItself
<1>11. PICK a \in Nat : a = Len(u)
  OBVIOUS
<1>12. StandsIn(d, 0, u) /\ Follows(d, 0 + a, r)
  BY <1>3, <1>10, <1>11, FollowsApart
<1>13. Follows(d, a, w \o v)
  BY <1>8, <1>12
<1>14. StandsIn(d, a, (k \o name) \o q)
  BY <1>5, <1>7, <1>13, FollowsApart
<1>15. StandsIn(d, a, k \o name) /\ StandsIn(d, a + (3 + Len(name)), q)
  BY <1>2, <1>6, <1>14, StandsApart
<1>16. StandsIn(d, a, k) /\ StandsIn(d, a + 3, name)
  BY <1>1, <1>15, StandsApart
<1>17. \A j \in 1..a : d[j] # File
  <2>1. \A j \in 1..a : u[j] \in LineBytes \ {File}
    BY <1>11
  <2>2. \A j \in 1..a : d[0 + j] = u[j]
    BY <1>11, <1>12 DEF StandsIn
  <2>3. \A j \in 1..a : 0 + j = j
    OBVIOUS
  <2> QED
    BY <2>1, <2>2, <2>3
<1>18. a + (3 + Len(name)) = a + 3 + Len(name)
  BY <1>11
<1> QED
  BY <1>1, <1>2, <1>4, <1>8, <1>9, <1>11, <1>15, <1>16, <1>17, <1>18 DEF HasName

Filename(part) == IF part.kind = "field" THEN <<>> ELSE part.name

IsDisposition(d, part) ==
  /\ d \in Seq(LineBytes) /\ d # <<>>
  /\ StandsIn(d, 0, <<Disposition>>)
  /\ part.kind = "field" => \A k \in 1..Len(d) : d[k] # File
  /\ part.kind # "field" => \E a \in Nat : HasName(d, a, part.name)

LEMMA DispositionIs ==
  ASSUME NEW part, IsPart(part)
  PROVE  IsDisposition(DispositionLine(part), part)
<1> DEFINE N == LineBytes \ {File}
<1>0. Disposition \in N /\ Blank \in N /\ NameIs \in N /\ Quote \in N /\ Letter \in N /\ Semicolon \in N
  BY LineTokens
<1>1. PICK b \in Seq(N) : b = <<Disposition, Blank>> /\ Len(b) = 2 /\ b[1] = Disposition
  <2>1. \A x, y \in N : <<x, y>> \in Seq(N) /\ Len(<<x, y>>) = 2 /\ <<x, y>>[1] = x
    OBVIOUS
  <2> QED
    BY <1>0, <2>1, Zenon
<1>2. PICK f \in Seq(N) : f = NameField
  <2>1. \A w, x, y, z \in N : <<w, x, y, z>> \in Seq(N)
    OBVIOUS
  <2> QED
    BY <1>0, <2>1, Zenon DEF NameField
<1>3. PICK c \in Seq(N) : c = <<Semicolon>>
  <2>1. \A x \in N : <<x>> \in Seq(N)
    OBVIOUS
  <2> QED
    BY <1>0, <2>1, Zenon
<1>4. PICK g \in Seq(N) : g = <<Semicolon, Blank>>
  <2>1. \A x, y \in N : <<x, y>> \in Seq(N)
    OBVIOUS
  <2> QED
    BY <1>0, <2>1, Zenon
<1>5. PICK e : e = FileField(part.name)
  OBVIOUS
<1>6. PICK d : d = DispositionLine(part)
  OBVIOUS
<1>7. N \subseteq LineBytes /\ \A t \in Seq(N) : t \in Seq(LineBytes)
  BY Wider
<1>8. part.name \in Seq(LineBytes)
  BY DEF IsPart
<1>9. part.kind = "field" => d \in Seq(N) /\ d = b \o f
  <2>1. b \o f \in Seq(N)
    BY ConcatOf
  <2>2. part.kind = "field" => d = b \o f
    BY <1>1, <1>2, <1>6 DEF DispositionLine
  <2> QED
    BY <2>1, <2>2
<1>10. ASSUME part.kind # "field"
       PROVE  /\ d \in Seq(LineBytes) /\ \E r \in Seq(LineBytes) : d = b \o r
              /\ \E a \in Nat : HasName(d, a, part.name)
  <2>0. \A u \in Seq(N), v \in Seq(LineBytes) :
          u \o (e \o v) \in Seq(LineBytes) /\ HasName(u \o (e \o v), Len(u), part.name)
    BY <1>5, <1>8, NamePlace
  <2>1. e \in Seq(LineBytes)
    <3>1. <<>> \in Seq(N) /\ <<>> \in Seq(LineBytes)
      OBVIOUS
    <3>2. PICK w : w = e \o <<>>
      OBVIOUS
    <3>3. PICK k \in Seq(LineBytes), q \in Seq(LineBytes) : k = FileKey /\ q = <<Quote>>
      <4>1. \A x, y, z \in LineBytes : <<x, y, z>> \in Seq(LineBytes) /\ <<z>> \in Seq(LineBytes)
        OBVIOUS
      <4>2. File \in LineBytes /\ NameIs \in LineBytes /\ Quote \in LineBytes
        BY LineTokens
      <4> QED
        BY <4>1, <4>2, Zenon DEF FileKey
    <3>4. e = (k \o part.name) \o q
      BY <1>5, <3>3 DEF FileField, FileKey
    <3>5. k \o part.name \in Seq(LineBytes)
      BY <1>8, ConcatOf
    <3> QED
      BY <3>4, <3>5, ConcatOf
  <2>2. CASE part.kind = "fileFirst"
    <3>1. d = b \o ((e \o c) \o f)
      BY <1>1, <1>2, <1>3, <1>5, <1>6, <2>2 DEF DispositionLine
    <3>2. PICK v \in Seq(LineBytes) : v = c \o f
      <4>1. c \o f \in Seq(N)
        BY ConcatOf
      <4> QED
        BY <1>7, <4>1
    <3>3. (e \o c) \o f = e \o (c \o f)
      BY <1>7, <2>1, ConcatAssociative, SMTT(30)
    <3>4. d = b \o (e \o v)
      BY <3>1, <3>2, <3>3
    <3>5. e \o v \in Seq(LineBytes)
      BY <2>1, ConcatOf
    <3>6. Len(b) \in Nat
      OBVIOUS
    <3> QED
      BY <2>0, <3>4, <3>5, <3>6
  <2>3. CASE part.kind # "fileFirst"
    <3>1. d = b \o ((f \o g) \o e)
      BY <1>1, <1>2, <1>4, <1>5, <1>6, <1>10, <2>3 DEF DispositionLine
    <3>2. PICK v \in Seq(N) : v = f \o g
      <4>1. f \o g \in Seq(N)
        BY ConcatOf
      <4> QED
        BY <4>1
    <3>3. PICK u \in Seq(N) : u = b \o v
      <4>1. b \o v \in Seq(N)
        BY ConcatOf
      <4> QED
        BY <4>1
    <3>4. b \o (v \o e) = (b \o v) \o e
      <4>1. b \in Seq(LineBytes) /\ v \in Seq(LineBytes)
        BY <1>7
      <4>2. Regrouped(b, v, e)
        BY <2>1, <4>1, Regroup
      <4> QED
        BY <4>2 DEF Regrouped
    <3>5. e \o <<>> = e /\ <<>> \in Seq(LineBytes)
      BY <2>1, WithNothing
    <3>6. d = u \o (e \o <<>>)
      BY <3>1, <3>2, <3>3, <3>4, <3>5
    <3>7. v \o e \in Seq(LineBytes)
      BY <1>7, <2>1, ConcatOf
    <3>8. Len(u) \in Nat
      OBVIOUS
    <3> QED
      BY <2>0, <3>1, <3>2, <3>5, <3>6, <3>7, <3>8
  <2> QED
    BY <2>2, <2>3
<1>11. PICK r \in Seq(LineBytes) : d = b \o r /\ d \in Seq(LineBytes)
  BY <1>7, <1>9, <1>10
<1>12. d # <<>> /\ StandsIn(d, 0, <<Disposition>>)
  <2>1. Len(d) = 2 + Len(r) /\ d[1] = Disposition
    <3>1. b \in Seq(LineBytes)
      BY <1>7
    <3>2. Len(d) = Len(b) + Len(r) /\ \A j \in 1..Len(b) : d[j] = b[j]
      BY <1>11, <3>1, ConcatOf
    <3>3. 1 \in 1..Len(b)
      BY <1>1
    <3> QED
      BY <1>1, <3>2, <3>3
  <2>2. Len(r) \in Nat
    OBVIOUS
  <2>3. PICK t : t = <<Disposition>> /\ Len(t) = 1 /\ t[1] = Disposition
    <3>1. Len(<<Disposition>>) = 1 /\ <<Disposition>>[1] = Disposition
      OBVIOUS
    <3> QED
      BY <3>1
  <2>4. StandsIn(d, 0, t)
    BY <2>1, <2>2, <2>3 DEF StandsIn
  <2>5. d # <<>>
    BY <2>1, <2>2
  <2> QED
    BY <2>3, <2>4, <2>5
<1>13. part.kind = "field" => \A k \in 1..Len(d) : d[k] # File
  BY <1>9
<1> QED
  BY <1>6, <1>10, <1>11, <1>12, <1>13 DEF IsDisposition

(* parse_multipart_headers on the header lines of a part. *)
LEMMA QuotedIs ==
  ASSUME NEW d \in Seq(LineBytes), NEW a \in Nat, NEW name \in Seq(LineBytes), Without(name, {Quote}),
         HasName(d, a, name), NEW default
  PROVE  Quoted(d, FileKey, default) = name
<1>0. Quote \in LineBytes /\ File \in LineBytes /\ NameIs \in LineBytes
  BY LineTokens
<1>1. PICK k \in Seq(LineBytes) : k = FileKey /\ Len(k) = 3 /\ k[1] = File /\ k # <<>>
  <2>1. \A x, y, z \in LineBytes : /\ <<x, y, z>> \in Seq(LineBytes) /\ Len(<<x, y, z>>) = 3
                                   /\ <<x, y, z>>[1] = x /\ <<x, y, z>> # <<>>
    OBVIOUS
  <2> QED
    BY <1>0, <2>1, Zenon DEF FileKey
<1>2. PICK q \in Seq(LineBytes) : q = <<Quote>> /\ Len(q) = 1 /\ q[1] = Quote /\ q # <<>>
  <2>1. \A x \in LineBytes : <<x>> \in Seq(LineBytes) /\ Len(<<x>>) = 1 /\ <<x>>[1] = x /\ <<x>> # <<>>
    OBVIOUS
  <2> QED
    BY <1>0, <2>1, Zenon
<1>3. PICK n \in Nat : n = Len(name)
  OBVIOUS
<1>4. /\ \A j \in 1..a : d[j] # File
      /\ StandsIn(d, a, k) /\ StandsIn(d, a + 3, name) /\ StandsIn(d, a + 3 + n, q)
  BY <1>1, <1>2, <1>3 DEF HasName
<1>5. Find(k, d, 1) = a + 1
  <2>1. ASSUME NEW m \in 1 - 1..a - 1 PROVE ~StandsIn(d, m, k)
    <3>1. StandsIn(d, m, k) => d[m + 1] = File
      BY <1>1 DEF StandsIn
    <3>2. m + 1 \in 1..a
      OBVIOUS
    <3> QED
      BY <1>4, <3>1, <3>2
  <2> QED
    BY <1>4, <2>1, <1>1, FirstPlace
<1>6. Find(q, d, a + 4) = a + 3 + n + 1
  <2>1. PICK m \in Nat : m = a + 3 + n
    OBVIOUS
  <2>2. ASSUME NEW j \in (a + 4) - 1..m - 1 PROVE ~StandsIn(d, j, q)
    <3>1. PICK i \in 1..n : j + 1 = (a + 3) + i
      <4>1. (j + 1) - (a + 3) \in 1..n
        BY <2>1
      <4> QED
        BY <4>1
    <3>2. d[(a + 3) + i] = name[i]
      BY <1>3, <1>4 DEF StandsIn
    <3>3. name[i] # Quote
      BY <1>3 DEF Without
    <3>4. StandsIn(d, j, q) => d[j + 1] = Quote
      BY <1>2 DEF StandsIn
    <3> QED
      BY <3>1, <3>2, <3>3, <3>4
  <2>3. a + 4 \in Nat \ {0} /\ a + 4 <= m + 1
    BY <2>1
  <2>4. StandsIn(d, m, q)
    BY <1>4, <2>1
  <2> QED
    BY <1>2, <2>1, <2>2, <2>3, <2>4, FirstPlace
<1>7. SubSeq(d, a + 4, a + 3 + n) = name
  <2>1. PICK i \in Nat \ {0}, e \in Nat : i = a + 4 /\ e = a + 3 + n
    OBVIOUS
  <2>2. a + 3 + n <= Len(d) /\ \A j \in 1..n : d[(a + 3) + j] = name[j]
    BY <1>3, <1>4 DEF StandsIn
  <2>3. i <= e + 1 /\ e <= Len(d) /\ e + 1 - i = n
    BY <2>1, <2>2
  <2>4. PICK t : t = SubSeq(d, i, e)
    OBVIOUS
  <2>5. t \in Seq(LineBytes) /\ Len(t) = n /\ \A j \in 1..n : t[j] = d[i + j - 1]
    BY <2>3, <2>4, SubSeqIs
  <2>6. \A j \in 1..n : i + j - 1 = (a + 3) + j
    BY <2>1
  <2>7. \A j \in 1..n : t[j] = name[j]
    BY <2>2, <2>5, <2>6
  <2>8. t = name
    BY <1>3, <2>5, <2>7, SeqEqual
  <2> QED
    BY <2>1, <2>4, <2>8
<1>8. PICK from : from = Find(k, d, 1) + Len(k)
  OBVIOUS
<1>9. from = a + 4
  BY <1>1, <1>5, <1>8
<1>10. PICK end : end = Find(q, d, from)
  OBVIOUS
<1>11. end = a + 4 + n /\ end # npos /\ end - 1 = a + 3 + n /\ Find(k, d, 1) # npos
  BY <1>5, <1>6, <1>9, <1>10 DEF npos
<1>12. Quoted(d, k, default) = SubSeq(d, from, end - 1)
  BY <1>2, <1>8, <1>10, <1>11 DEF Quoted
<1> QED
  BY <1>1, <1>7, <1>9, <1>11, <1>12

IsRead(h, filename) ==
  \E n, t : h = [name |-> n, filename |-> filename, content_type |-> t]

LEMMA DispositionIsRead ==
  ASSUME NEW part, IsPart(part), NEW h, IsRead(h, <<>>)
  PROVE  IsRead(HeaderLine(h, DispositionLine(part)), Filename(part))
<1>1. PICK d : d = DispositionLine(part)
  OBVIOUS
<1>2. /\ d \in Seq(LineBytes) /\ d # <<>>
      /\ StandsIn(d, 0, <<Disposition>>)
      /\ part.kind = "field" => \A k \in 1..Len(d) : d[k] # File
      /\ part.kind # "field" => \E a \in Nat : HasName(d, a, part.name)
  BY <1>1, DispositionIs DEF IsDisposition
<1>3. PICK n, t : h = [name |-> n, filename |-> <<>>, content_type |-> t]
  BY DEF IsRead
<1>4. d \in Seq(BodyBytes) /\ Len(d) \in Nat
  BY <1>2, LineTokens, Wider
<1>5. PICK ty \in Seq(BodyBytes) : ty = <<Type>> /\ Len(ty) = 1 /\ ty[1] = Type
  <2>1. Type \in BodyBytes
    BY LineTokens
  <2>2. \A x \in BodyBytes : <<x>> \in Seq(BodyBytes) /\ Len(<<x>>) = 1 /\ <<x>>[1] = x
    OBVIOUS
  <2> QED
    BY <2>1, <2>2, Zenon
<1>6. Find(ty, d, 1) = npos
  <2>1. ASSUME NEW k \in Nat, StandsIn(d, k, ty) PROVE FALSE
    <3>1. k + 1 \in 1..Len(d) /\ d[k + 1] = Type
      BY <1>4, <1>5, <2>1 DEF StandsIn
    <3>2. d[k + 1] \in LineBytes
      BY <1>2, <3>1
    <3> QED
      BY <3>1, <3>2 DEF LineBytes
  <2> QED
    BY <1>4, <2>1, NoPlace
<1>7. Find(<<Disposition>>, d, 1) # npos
  <2>1. Disposition \in BodyBytes
    BY LineTokens
  <2>2. PICK p \in Seq(BodyBytes) : p = <<Disposition>> /\ p # <<>>
    <3>1. \A x \in BodyBytes : <<x>> \in Seq(BodyBytes) /\ <<x>> # <<>>
      OBVIOUS
    <3> QED
      BY <2>1, <3>1, Zenon
  <2>3. Find(p, d, 1) = 1
    BY <1>2, <1>4, <2>2, PlaceAtStart
  <2> QED
    BY <2>2, <2>3 DEF npos
<1>8. HeaderLine(h, d) = [h EXCEPT !.name = Quoted(d, <<NameIs, Quote>>, @),
                                   !.filename = Quoted(d, <<File, NameIs, Quote>>, @)]
  BY <1>5, <1>6, <1>7 DEF HeaderLine
<1>9. Quoted(d, FileKey, <<>>) = Filename(part)
  <2>1. CASE part.kind = "field"
    <3>1. PICK k \in Seq(LineBytes) : k = FileKey /\ Len(k) = 3 /\ k[1] = File
      <4>1. \A x, y, z \in LineBytes : /\ <<x, y, z>> \in Seq(LineBytes) /\ Len(<<x, y, z>>) = 3
                                       /\ <<x, y, z>>[1] = x
        OBVIOUS
      <4>2. Quote \in LineBytes /\ File \in LineBytes /\ NameIs \in LineBytes
        BY LineTokens
      <4> QED
        BY <4>1, <4>2, ZenonT(30) DEF FileKey
    <3>2. Find(k, d, 1) = npos
      <4>1. ASSUME NEW m \in Nat, StandsIn(d, m, k) PROVE FALSE
        <5>1. m + 1 \in 1..Len(d) /\ d[m + 1] = File
          BY <1>4, <3>1, <4>1 DEF StandsIn
        <5> QED
          BY <1>2, <2>1, <5>1
      <4> QED
        BY <1>2, <4>1, NoPlace
    <3> QED
      BY <2>1, <3>1, <3>2 DEF Quoted, Filename
  <2>2. CASE part.kind # "field"
    <3>1. PICK a \in Nat : HasName(d, a, part.name)
      BY <1>2, <2>2
    <3> QED
      BY <1>2, <2>2, <3>1, QuotedIs DEF Filename, IsPart
  <2> QED
    BY <2>1, <2>2
<1>10. HeaderLine(h, d) = [name |-> Quoted(d, <<NameIs, Quote>>, n), filename |-> Filename(part), content_type |-> t]
  <2>1. PICK v, w : v = Quoted(d, <<NameIs, Quote>>, n) /\ w = Quoted(d, FileKey, <<>>)
    OBVIOUS
  <2>2. HeaderLine(h, d) = [h EXCEPT !.name = v, !.filename = w]
    BY <1>3, <1>8, <2>1 DEF FileKey
  <2> QED
    BY <1>3, <1>9, <2>1, <2>2
<1> QED
  BY <1>1, <1>10 DEF IsRead

LEMMA TypeIs ==
  /\ TypeLine \in Seq(BodyBytes \ {CR, LF}) /\ TypeLine # <<>>
  /\ Find(<<Type>>, TypeLine, 1) # npos
<1>0. PICK N : N = BodyBytes \ {CR, LF}
  OBVIOUS
<1>1. Type \in BodyBytes \ {CR, LF} /\ Blank \in BodyBytes \ {CR, LF} /\ Letter \in BodyBytes \ {CR, LF}
  <2>1. Blank \in LineBytes /\ Letter \in LineBytes /\ Type \in BodyBytes
    BY LineTokens
  <2> QED
    BY <2>1, TokensDiffer DEF LineBytes
<1>2. PICK d \in Seq(N) : d = TypeLine /\ d # <<>> /\ Len(d) = 3 /\ d[1] = Type
  <2>1. \A x, y, z \in N : /\ <<x, y, z>> \in Seq(N) /\ Len(<<x, y, z>>) = 3
                           /\ <<x, y, z>>[1] = x /\ <<x, y, z>> # <<>>
    OBVIOUS
  <2>2. Type \in N /\ Blank \in N /\ Letter \in N
    BY <1>0, <1>1
  <2> QED
    BY <2>1, <2>2, ZenonT(30) DEF TypeLine
<1>3. PICK p \in Seq(N) : p = <<Type>> /\ p # <<>> /\ Len(p) = 1 /\ p[1] = Type
  <2>1. \A S : \A x \in S : <<x>> \in Seq(S) /\ <<x>> # <<>> /\ Len(<<x>>) = 1 /\ <<x>>[1] = x
    OBVIOUS
  <2> QED
    BY <1>0, <1>1, <2>1, Zenon
<1>4. StandsIn(d, 0, p)
  BY <1>2, <1>3 DEF StandsIn
<1>5. Find(p, d, 1) = 1
  BY <1>3, <1>4, PlaceAtStart
<1> QED
  BY <1>0, <1>2, <1>3, <1>5 DEF npos

LEMMA TypeIsRead ==
  ASSUME NEW h, NEW filename, IsRead(h, filename)
  PROVE  IsRead(HeaderLine(h, TypeLine), filename)
<1>1. PICK n, t : h = [name |-> n, filename |-> filename, content_type |-> t]
  BY DEF IsRead
<1>2. HeaderLine(h, TypeLine) = [h EXCEPT !.content_type = Value(TypeLine)]
  BY TypeIs DEF HeaderLine
<1>3. PICK v : v = Value(TypeLine)
  OBVIOUS
<1>4. HeaderLine(h, TypeLine) = [name |-> n, filename |-> filename, content_type |-> v]
  BY <1>1, <1>2, <1>3
<1> QED
  BY <1>4 DEF IsRead

(* The header lines of a part are the pieces of its header. *)
Spaced(h) == \A j \in 1..Len(h) : h[j] = CR => j + 2 <= Len(h) /\ h[j + 2] # CR

IsLine(l) == l \in Seq(BodyBytes \ {CR, LF}) /\ l # <<>>

LEMMA LineIs ==
  ASSUME NEW l, IsLine(l)
  PROVE  /\ l \in Seq(BodyBytes) /\ Len(l) \in Nat \ {0}
         /\ \A j \in 1..Len(l) : l[j] # CR /\ l[j] # LF
<1>1. l \in Seq(BodyBytes \ {CR, LF}) /\ l # <<>>
  BY DEF IsLine
<1>2. Len(l) \in Nat \ {0}
  BY <1>1, EmptySeq
<1>3. BodyBytes \ {CR, LF} \subseteq BodyBytes
  OBVIOUS
<1> QED
  BY <1>1, <1>2, <1>3, Wider

LEMMA LineEndIs ==
  CRLF \in Seq(BodyBytes) /\ Len(CRLF) = 2 /\ CRLF # <<>> /\ CRLF[1] = CR /\ CRLF[2] = LF
<1>1. CRLF[1] = CR /\ CRLF[2] = LF
  BY Zenon DEF CRLF
<1> QED
  BY <1>1, LineEnd

(* No line end stands behind m bytes when there is no CR. *)
LEMMA NoLineEnd ==
  ASSUME NEW s, NEW m \in Nat, s[m + 1] # CR
  PROVE  ~StandsIn(s, m, CRLF)
<1>1. PICK p : p = CRLF /\ Len(p) = 2 /\ p[1] = CR
  BY LineEndIs
<1>2. StandsIn(s, m, p) => s[m + 1] = p[1]
  <2>1. 1 \in 1..Len(p)
    BY <1>1
  <2> QED
    BY <2>1 DEF StandsIn
<1> QED
  BY <1>1, <1>2

LEMMA SplitOneLine ==
  ASSUME NEW l, IsLine(l)
  PROVE  Split(l, CRLF) = <<l>> /\ Spaced(l)
<1>1. /\ l \in Seq(BodyBytes) /\ Len(l) \in Nat \ {0}
      /\ \A j \in 1..Len(l) : l[j] # CR /\ l[j] # LF
  BY LineIs
<1>2. PICK p \in Seq(BodyBytes) : p = CRLF /\ Len(p) = 2 /\ p # <<>>
  BY LineEndIs
<1>3. PICK f : IsSplitting(f, l, p, 1) /\ Split(l, p) = f[1]
  BY <1>1, <1>2, SplitIs
<1>4. f[1] = Pieces(f, l, p, 1)
  <2>1. 1 \in 1..Len(l) + 1
    BY <1>1
  <2> QED
    BY <1>3, <2>1 DEF IsSplitting
<1>5. Find(p, l, 1) = npos
  <2>1. ASSUME NEW k \in Nat, StandsIn(l, k, p) PROVE FALSE
    <3>1. k + 1 \in 1..Len(l)
      BY <1>1, <1>2, <2>1 DEF StandsIn
    <3> QED
      BY <1>1, <1>2, <2>1, <3>1, NoLineEnd
  <2> QED
    BY <1>1, <2>1, NoPlace
<1>6. SubSeq(l, 1, (Len(l) + 1) - 1) = l
  <2>1. (Len(l) + 1) - 1 = Len(l)
    BY <1>1
  <2>2. SubSeq(l, 1, Len(l)) = l
    BY <1>1
  <2> QED
    BY <2>1, <2>2
<1>7. <<l>> \o <<>> = <<l>>
  OBVIOUS
<1>8. l # <<>>
  BY DEF IsLine
<1>9. Pieces(f, l, p, 1) = <<l>>
  BY <1>2, <1>5, <1>6, <1>7, <1>8 DEF Pieces
<1>10. Spaced(l)
  BY <1>1 DEF Spaced
<1> QED
  BY <1>2, <1>3, <1>4, <1>9, <1>10

LEMMA PairOf ==
  ASSUME NEW l, NEW k
  PROVE  <<l>> \o <<k>> = <<l, k>>
<1>1. PICK S : l \in S /\ k \in S
  <2>1. l \in {l, k} /\ k \in {l, k}
    OBVIOUS
  <2> QED
    BY <2>1
<1>2. PICK x \in Seq(S) : x = <<l>> /\ Len(x) = 1 /\ x[1] = l
  <2>1. \A v \in S : <<v>> \in Seq(S) /\ Len(<<v>>) = 1 /\ <<v>>[1] = v
    OBVIOUS
  <2> QED
    BY <1>1, <2>1, Zenon
<1>7. PICK y \in Seq(S) : y = <<k>> /\ Len(y) = 1 /\ y[1] = k
  <2>1. \A v \in S : <<v>> \in Seq(S) /\ Len(<<v>>) = 1 /\ <<v>>[1] = v
    OBVIOUS
  <2> QED
    BY <1>1, <2>1, Zenon
<1>8. PICK z \in Seq(S) : z = <<l, k>> /\ Len(z) = 2 /\ z[1] = l /\ z[2] = k
  <2>1. \A v, w \in S : /\ <<v, w>> \in Seq(S) /\ Len(<<v, w>>) = 2
                        /\ <<v, w>>[1] = v /\ <<v, w>>[2] = w
    OBVIOUS
  <2> QED
    BY <1>1, <2>1, ZenonT(30)
<1>3. PICK w : w = x \o y
  OBVIOUS
<1>4. /\ w \in Seq(S) /\ Len(w) = Len(x) + Len(y)
      /\ \A j \in 1..Len(x) : w[j] = x[j]
      /\ \A j \in 1..Len(y) : w[Len(x) + j] = y[j]
  BY <1>3, ConcatOf
<1>5. Len(w) = 2 /\ w[1] = l /\ w[2] = k
  <2>1. 1 \in 1..Len(x) /\ 1 \in 1..Len(y) /\ Len(x) + 1 = 2 /\ Len(x) + Len(y) = 2
    BY <1>2, <1>7
  <2> QED
    BY <1>2, <1>4, <1>7, <2>1
<1>6. w = z
  <2>1. Len(w) = Len(z) /\ \A j \in 1..Len(w) : w[j] = z[j]
    BY <1>5, <1>8
  <2>2. w \in Seq(S)
    BY <1>4
  <2> QED
    BY <2>1, <2>2, SeqEqual
<1> QED
  BY <1>2, <1>3, <1>6, <1>7, <1>8

LEMMA SplitTwoLines ==
  ASSUME NEW l, IsLine(l), NEW k, IsLine(k)
  PROVE  /\ l \o CRLF \o k \in Seq(BodyBytes)
         /\ Split(l \o CRLF \o k, CRLF) = <<l, k>> /\ Spaced(l \o CRLF \o k)
<1>1. /\ l \in Seq(BodyBytes) /\ Len(l) \in Nat \ {0} /\ l # <<>>
      /\ \A j \in 1..Len(l) : l[j] # CR /\ l[j] # LF
  BY LineIs DEF IsLine
<1>2. /\ k \in Seq(BodyBytes) /\ Len(k) \in Nat \ {0} /\ k # <<>>
      /\ \A j \in 1..Len(k) : k[j] # CR /\ k[j] # LF
  BY LineIs DEF IsLine
<1>3. PICK p \in Seq(BodyBytes) : p = CRLF /\ Len(p) = 2 /\ p # <<>> /\ p[1] = CR /\ p[2] = LF
  BY LineEndIs
<1>4. PICK s : s = (l \o p) \o k
  OBVIOUS
<1>5. PICK a \in Nat \ {0}, b \in Nat \ {0} : a = Len(l) /\ b = Len(k)
  BY <1>1, <1>2
<1>6. PICK lp \in Seq(BodyBytes) : lp = l \o p /\ Len(lp) = a + 2
  <2>1. Len(l \o p) = Len(l) + Len(p) /\ l \o p \in Seq(BodyBytes)
    BY <1>1, ConcatOf
  <2> QED
    BY <1>3, <1>5, <2>1
<1>7. s \in Seq(BodyBytes) /\ Len(s) = a + 2 + b
  <2>0. s = lp \o k
    BY <1>4, <1>6
  <2>1. s \in Seq(BodyBytes) /\ Len(s) = Len(lp) + Len(k)
    BY <1>2, <2>0, ConcatOf
  <2> QED
    BY <1>5, <1>6, <2>1
<1>8. StandsIn(s, 0, l) /\ StandsIn(s, a, p) /\ StandsIn(s, a + 2, k)
  <2>1. Follows(s, 0, lp \o k)
    BY <1>4, <1>6, <1>7, FollowsItself
  <2>2. StandsIn(s, 0, lp) /\ Follows(s, 0 + Len(lp), k)
    BY <1>2, <1>7, <2>1, FollowsApart
  <2>3. StandsIn(s, 0, l \o p)
    BY <1>6, <2>2
  <2>6. StandsIn(s, 0, l) /\ StandsIn(s, 0 + Len(l), p)
    BY <1>1, <1>7, <2>3, StandsApart
  <2>4. 0 + a = a /\ 0 + (a + 2) = a + 2
    OBVIOUS
  <2>5. StandsIn(s, a + 2, k)
    BY <1>2, <1>5, <1>6, <1>7, <2>2, <2>4 DEF Follows, StandsIn
  <2> QED
    BY <1>5, <2>4, <2>5, <2>6
<1>9. /\ \A j \in 1..a : s[j] = l[j] /\ s[j] # CR
      /\ \A j \in 1..b : s[(a + 2) + j] = k[j] /\ s[(a + 2) + j] # CR
      /\ s[a + 1] = CR /\ s[a + 2] = LF
  <2>1. \A j \in 1..a : s[j] = l[j] /\ s[j] # CR
    <3>1. \A j \in 1..a : s[0 + j] = l[j] /\ 0 + j = j
      BY <1>5, <1>8 DEF StandsIn
    <3> QED
      BY <1>1, <1>5, <3>1
  <2>2. \A j \in 1..b : s[(a + 2) + j] = k[j] /\ s[(a + 2) + j] # CR
    BY <1>2, <1>5, <1>8 DEF StandsIn
  <2>3. s[a + 1] = p[1] /\ s[a + 2] = p[2]
    <3>1. 1 \in 1..Len(p) /\ 2 \in 1..Len(p)
      BY <1>3
    <3> QED
      BY <1>8, <3>1 DEF StandsIn
  <2> QED
    BY <1>3, <2>1, <2>2, <2>3
<1>10. ASSUME NEW j \in 1..Len(s), s[j] = CR PROVE j = a + 1
  <2>1. j \in 1..a \/ j = a + 1 \/ j = a + 2 \/ j - (a + 2) \in 1..b
    BY <1>7
  <2>2. j - (a + 2) \in 1..b => s[j] # CR
    <3>1. (a + 2) + (j - (a + 2)) = j
      OBVIOUS
    <3> QED
      BY <1>9, <3>1
  <2>3. CR # LF
    BY TokensDiffer
  <2> QED
    BY <1>9, <1>10, <2>1, <2>2, <2>3
<1>11. Spaced(s)
  <2>1. (a + 1) + 2 <= Len(s) /\ s[(a + 1) + 2] # CR
    <3>1. 1 \in 1..b /\ (a + 2) + 1 = (a + 1) + 2
      OBVIOUS
    <3> QED
      BY <1>7, <1>9, <3>1
  <2> QED
    BY <1>10, <2>1 DEF Spaced
<1>12. Find(p, s, 1) = a + 1
  <2>1. ASSUME NEW m \in 1 - 1..a - 1 PROVE ~StandsIn(s, m, p)
    <3>1. m \in Nat /\ m + 1 \in 1..a
      OBVIOUS
    <3> QED
      BY <1>3, <1>9, <3>1, NoLineEnd
  <2>2. PICK i \in Nat \ {0} : i = 1 /\ i <= a + 1
    OBVIOUS
  <2>3. \A m \in i - 1..a - 1 : ~StandsIn(s, m, p)
    BY <2>1, <2>2
  <2> QED
    BY <1>3, <1>7, <1>8, <2>2, <2>3, FirstPlace
<1>13. Find(p, s, a + 3) = npos
  <2>1. ASSUME NEW m \in Nat, m >= (a + 3) - 1, StandsIn(s, m, p) PROVE FALSE
    <3>1. m + 1 \in 1..Len(s) /\ m + 1 # a + 1
      BY <1>3, <1>7, <2>1 DEF StandsIn
    <3>2. s[m + 1] # CR
      BY <1>10, <3>1
    <3> QED
      BY <1>3, <2>1, <3>2, NoLineEnd
  <2>2. a + 3 \in Nat \ {0}
    OBVIOUS
  <2> QED
    BY <1>7, <2>1, <2>2, NoPlace
<1>14. PICK f : IsSplitting(f, s, p, 1) /\ Split(s, p) = f[1]
  BY <1>3, <1>7, SplitIs
<1>15. f[1] = Pieces(f, s, p, 1) /\ f[a + 3] = Pieces(f, s, p, a + 3)
  <2>1. 1 \in 1..Len(s) + 1 /\ a + 3 \in 1..Len(s) + 1
    BY <1>7
  <2> QED
    BY <1>14, <2>1 DEF IsSplitting
<1>16. SubSeq(s, 1, a) = l
  <2>1. PICK t : t = SubSeq(s, 1, a)
    OBVIOUS
  <2>2. t \in Seq(BodyBytes) /\ Len(t) = a + 1 - 1 /\ \A n \in 1..a + 1 - 1 : t[n] = s[1 + n - 1]
    BY <1>7, <2>1, SubSeqIs
  <2>3. a + 1 - 1 = a /\ \A n \in 1..a : 1 + n - 1 = n
    OBVIOUS
  <2>4. Len(t) = a /\ \A n \in 1..a : t[n] = l[n]
    BY <1>9, <2>2, <2>3
  <2>5. t = l
    BY <1>1, <1>5, <2>2, <2>4, SeqEqual
  <2> QED
    BY <2>1, <2>5
<1>17. SubSeq(s, a + 3, a + 2 + b) = k
  <2>0. PICK i \in Nat \ {0}, e \in Nat : i = a + 3 /\ e = a + 2 + b
    OBVIOUS
  <2>1. PICK t : t = SubSeq(s, i, e) /\ i = a + 3 /\ e = a + 2 + b
    BY <2>0
  <2>2. i <= e + 1 /\ e <= Len(s)
    BY <1>7, <2>1
  <2>3. t \in Seq(BodyBytes) /\ Len(t) = e + 1 - i /\ \A n \in 1..e + 1 - i : t[n] = s[i + n - 1]
    BY <1>7, <2>1, <2>2, SubSeqIs
  <2>4. e + 1 - i = b /\ \A n \in 1..b : i + n - 1 = (a + 2) + n
    BY <2>1
  <2>5. Len(t) = b /\ \A n \in 1..b : t[n] = k[n]
    BY <1>9, <2>3, <2>4, ZenonT(30)
  <2>6. t = k
    BY <1>2, <1>5, <2>3, <2>5, SeqEqual
  <2> QED
    BY <2>1, <2>6
<1>18. Pieces(f, s, p, a + 3) = <<k>>
  <2>1. (Len(s) + 1) - 1 = a + 2 + b
    BY <1>7
  <2>2. <<k>> \o <<>> = <<k>>
    OBVIOUS
  <2> QED
    BY <1>2, <1>3, <1>13, <1>17, <2>1, <2>2 DEF Pieces
<1>19. Pieces(f, s, p, 1) = <<l, k>>
  <2>1. (a + 1) - 1 = a /\ (a + 1) + Len(p) = a + 3 /\ a + 1 # npos
    BY <1>3 DEF npos
  <2>2. <<l>> \o <<k>> = <<l, k>>
    BY PairOf
  <2>3. Pieces(f, s, p, 1) = <<l>> \o f[a + 3]
    BY <1>1, <1>3, <1>12, <1>16, <2>1 DEF Pieces
  <2> QED
    BY <1>15, <1>18, <2>2, <2>3
<1> QED
  BY <1>3, <1>4, <1>7, <1>11, <1>14, <1>15, <1>19

(* parse_multipart_headers: the fold over one line, and over two.          *)
FoldsTo(iter, seq) ==
  iter = [s \in SUBSET DOMAIN seq |->
           IF s = {} THEN NoHeaders ELSE HeaderLine(iter[s \ {Max(s)}], seq[Max(s)])]

LEMMA FoldIs ==
  ASSUME \E iter : FoldsTo(iter, vec)
  PROVE  \E iter : FoldsTo(iter, vec) /\ PartHeaders = iter[DOMAIN vec]
<1> DEFINE F(f) == [s \in SUBSET DOMAIN vec |->
           IF s = {} THEN NoHeaders ELSE HeaderLine(f[s \ {Max(s)}], vec[Max(s)])]
           iter == CHOOSE f : f = F(f)
<1>1. \E f : f = F(f)
  BY DEF FoldsTo
<1>2. iter = F(iter)
  BY <1>1
<1>3. PartHeaders = iter[DOMAIN vec]
  BY Zenon DEF PartHeaders, FoldLeft, MapThenFoldSet
<1> HIDE DEF iter
<1> QED
  BY <1>2, <1>3 DEF FoldsTo

LEMMA FoldOne ==
  ASSUME NEW l, vec = <<l>>
  PROVE  PartHeaders = HeaderLine(NoHeaders, l)
<1>1. DOMAIN vec = {1} /\ vec[1] = l
  <2>1. Len(<<l>>) = 1 /\ <<l>>[1] = l /\ DOMAIN <<l>> = 1..1
    OBVIOUS
  <2>2. 1..1 = {1}
    OBVIOUS
  <2> QED
    BY <2>1, <2>2
<1>2. Max({1}) = 1 /\ {1} \ {1} = {}
  <2>1. PICK S : S = {1}
    OBVIOUS
  <2>2. 1 \in S /\ \A j \in S : j \in Nat /\ j <= 1
    BY <2>1
  <2> QED
    BY <2>1, <2>2, MaxIs
<1>3. \A s : s \in SUBSET {1} <=> s = {} \/ s = {1}
  OBVIOUS
<1> DEFINE g == [s \in SUBSET {1} |-> IF s = {} THEN NoHeaders ELSE HeaderLine(NoHeaders, l)]
<1>4. FoldsTo(g, vec)
  <2>1. g[{}] = NoHeaders
    OBVIOUS
  <2> HIDE DEF g
  <2>2. ASSUME NEW s \in SUBSET {1}
        PROVE  (IF s = {} THEN NoHeaders ELSE HeaderLine(NoHeaders, l))
                 = IF s = {} THEN NoHeaders ELSE HeaderLine(g[s \ {Max(s)}], vec[Max(s)])
    <3>1. s # {} => s = {1}
      BY <1>3
    <3> QED
      BY <1>1, <1>2, <2>1, <3>1
  <2> QED
    BY <1>1, <2>2, Zenon DEF FoldsTo, g
<1>5. PICK iter : FoldsTo(iter, vec) /\ PartHeaders = iter[DOMAIN vec]
  <2>1. \E iter : FoldsTo(iter, vec)
    BY <1>4
  <2> QED
    BY <2>1, FoldIs
<1>6. \A s \in SUBSET {1} :
        iter[s] = IF s = {} THEN NoHeaders ELSE HeaderLine(iter[s \ {Max(s)}], vec[Max(s)])
  BY <1>1, <1>5 DEF FoldsTo
<1>7. {} \in SUBSET {1} /\ {1} \in SUBSET {1} /\ {1} # {}
  OBVIOUS
<1>8. iter[{1}] = HeaderLine(iter[{}], l) /\ iter[{}] = NoHeaders
  BY <1>1, <1>2, <1>6, <1>7
<1> QED
  BY <1>1, <1>5, <1>8

LEMMA FoldTwo ==
  ASSUME NEW l, NEW k, vec = <<l, k>>
  PROVE  PartHeaders = HeaderLine(HeaderLine(NoHeaders, l), k)
<1>1. DOMAIN vec = {1, 2} /\ vec[1] = l /\ vec[2] = k
  <2>1. <<l, k>>[1] = l /\ <<l, k>>[2] = k /\ DOMAIN <<l, k>> = 1..2
    OBVIOUS
  <2>2. 1..2 = {1, 2}
    OBVIOUS
  <2> QED
    BY <2>1, <2>2
<1>2. /\ Max({1}) = 1 /\ Max({2}) = 2 /\ Max({1, 2}) = 2
      /\ {1} \ {1} = {} /\ {2} \ {2} = {} /\ {1, 2} \ {2} = {1}
  <2>1. ASSUME NEW n \in {1, 2} PROVE Max({n}) = n
    <3>1. PICK S : S = {n}
      OBVIOUS
    <3>2. n \in S /\ \A j \in S : j \in Nat /\ j <= n
      BY <3>1
    <3> QED
      BY <3>1, <3>2, MaxIs
  <2>2. Max({1, 2}) = 2
    <3>1. PICK S : S = {1, 2}
      OBVIOUS
    <3>2. 2 \in S /\ \A j \in S : j \in Nat /\ j <= 2
      BY <3>1
    <3> QED
      BY <3>1, <3>2, MaxIs
  <2> QED
    BY <2>1, <2>2
<1>3. \A s : s \in SUBSET {1, 2} <=> s = {} \/ s = {1} \/ s = {2} \/ s = {1, 2}
  OBVIOUS
<1>4. {1} # {} /\ {2} # {} /\ {1, 2} # {} /\ {1} # {1, 2} /\ {2} # {1, 2} /\ {1} # {2}
  OBVIOUS
<1> DEFINE one == HeaderLine(NoHeaders, l)
           two == HeaderLine(NoHeaders, k)
           both == HeaderLine(one, k)
           G(s) == CASE s = {} -> NoHeaders [] s = {1} -> one [] s = {2} -> two [] OTHER -> both
           g == [s \in SUBSET {1, 2} |-> G(s)]
<1>5. FoldsTo(g, vec)
  <2>1. G({}) = NoHeaders /\ G({1}) = one /\ G({2}) = two /\ G({1, 2}) = both
    BY <1>4, Zenon
  <2> HIDE DEF G
  <2>2. g[{}] = NoHeaders /\ g[{1}] = one
    BY <1>3, <2>1
  <2> HIDE DEF g
  <2>3. ASSUME NEW s \in SUBSET {1, 2}
        PROVE  G(s) = IF s = {} THEN NoHeaders ELSE HeaderLine(g[s \ {Max(s)}], vec[Max(s)])
    <3>1. CASE s = {}
      BY <2>1, <3>1
    <3>2. CASE s = {1}
      BY <1>1, <1>2, <1>4, <2>1, <2>2, <3>2
    <3>3. CASE s = {2}
      BY <1>1, <1>2, <1>4, <2>1, <2>2, <3>3
    <3>4. CASE s = {1, 2}
      BY <1>1, <1>2, <1>4, <2>1, <2>2, <3>4
    <3> QED
      BY <1>3, <3>1, <3>2, <3>3, <3>4
  <2> QED
    BY <1>1, <2>3, Zenon DEF FoldsTo, g
<1>6. PICK iter : FoldsTo(iter, vec) /\ PartHeaders = iter[DOMAIN vec]
  <2>1. \E iter : FoldsTo(iter, vec)
    BY <1>5
  <2> QED
    BY <2>1, FoldIs
<1>7. \A s \in SUBSET {1, 2} :
        iter[s] = IF s = {} THEN NoHeaders ELSE HeaderLine(iter[s \ {Max(s)}], vec[Max(s)])
  BY <1>1, <1>6 DEF FoldsTo
<1>8. iter[{}] = NoHeaders
  BY <1>3, <1>7
<1>9. iter[{1}] = HeaderLine(iter[{}], l)
  <2>1. PICK s \in SUBSET {1, 2} : s = {1}
    BY <1>3
  <2>2. s # {} /\ Max(s) = 1 /\ s \ {Max(s)} = {}
    BY <1>2, <1>4, <2>1
  <2>3. iter[s] = HeaderLine(iter[s \ {Max(s)}], vec[Max(s)])
    BY <1>7, <2>2
  <2> QED
    BY <1>1, <2>1, <2>2, <2>3
<1>10. iter[{1, 2}] = HeaderLine(iter[{1}], k)
  <2>1. PICK s \in SUBSET {1, 2} : s = {1, 2}
    BY <1>3
  <2>2. s # {} /\ Max(s) = 2 /\ s \ {Max(s)} = {1}
    BY <1>2, <1>4, <2>1
  <2>3. iter[s] = HeaderLine(iter[s \ {Max(s)}], vec[Max(s)])
    BY <1>7, <2>2
  <2> QED
    BY <1>1, <2>1, <2>2, <2>3
<1> QED
  BY <1>1, <1>6, <1>8, <1>9, <1>10

(* The header of a part is split into its lines, and read as it is meant.  *)
HeaderIsRead(part) ==
  vec = Split(PartHeader(part), CRLF) => IsRead(PartHeaders, Filename(part))

LEMMA HeaderIs ==
  ASSUME NEW part, IsPart(part)
  PROVE  /\ PartHeader(part) \in Seq(BodyBytes) /\ Spaced(PartHeader(part))
         /\ HeaderIsRead(part)
<1>1. PICK d : d = DispositionLine(part)
  OBVIOUS
<1>2. IsLine(d)
  <2>1. d \in Seq(LineBytes) /\ d # <<>>
    BY <1>1, DispositionIs DEF IsDisposition
  <2>2. LineBytes \subseteq BodyBytes \ {CR, LF}
    BY DEF LineBytes
  <2> QED
    BY <2>1, <2>2, Wider DEF IsLine
<1>3. PICK t : t = TypeLine
  OBVIOUS
<1>4. IsLine(t)
  BY <1>3, TypeIs DEF IsLine
<1>5. IsRead(NoHeaders, <<>>)
  BY DEF IsRead, NoHeaders
<1>6. PICK h : h = PartHeader(part)
  OBVIOUS
<1>7. PICK name : name = Filename(part)
  OBVIOUS
<1>8. SUFFICES h \in Seq(BodyBytes) /\ Spaced(h) /\ (vec = Split(h, CRLF) => IsRead(PartHeaders, name))
  BY <1>6, <1>7 DEF HeaderIsRead
<1>9. CASE part.kind = "field"
  <2>1. h = d
    BY <1>1, <1>6, <1>9 DEF PartHeader
  <2>2. h \in Seq(BodyBytes) /\ Spaced(h) /\ Split(h, CRLF) = <<d>>
    BY <1>2, <2>1, SplitOneLine, LineIs
  <2>3. ASSUME vec = <<d>> PROVE IsRead(PartHeaders, name)
    <3>1. PartHeaders = HeaderLine(NoHeaders, d)
      BY <2>3, FoldOne
    <3> QED
      BY <1>1, <1>5, <1>7, <3>1, DispositionIsRead
  <2> QED
    BY <2>2, <2>3
<1>10. CASE part.kind = "typeFirst"
  <2>1. h = t \o CRLF \o d
    BY <1>1, <1>3, <1>6, <1>10 DEF PartHeader
  <2>2. h \in Seq(BodyBytes) /\ Spaced(h) /\ Split(h, CRLF) = <<t, d>>
    BY <1>2, <1>4, <2>1, SplitTwoLines
  <2>3. ASSUME vec = <<t, d>> PROVE IsRead(PartHeaders, name)
    <3>1. PartHeaders = HeaderLine(HeaderLine(NoHeaders, t), d)
      BY <2>3, FoldTwo
    <3>2. IsRead(HeaderLine(NoHeaders, t), <<>>)
      BY <1>3, <1>5, TypeIsRead
    <3> QED
      BY <1>1, <1>7, <3>1, <3>2, DispositionIsRead
  <2> QED
    BY <2>2, <2>3
<1>11. CASE part.kind # "field" /\ part.kind # "typeFirst"
  <2>1. h = d \o CRLF \o t
    BY <1>1, <1>3, <1>6, <1>11 DEF PartHeader
  <2>2. h \in Seq(BodyBytes) /\ Spaced(h) /\ Split(h, CRLF) = <<d, t>>
    BY <1>2, <1>4, <2>1, SplitTwoLines
  <2>3. ASSUME vec = <<d, t>> PROVE IsRead(PartHeaders, name)
    <3>1. PartHeaders = HeaderLine(HeaderLine(NoHeaders, d), t)
      BY <2>3, FoldTwo
    <3>2. IsRead(HeaderLine(NoHeaders, d), name)
      BY <1>1, <1>5, <1>7, DispositionIsRead
    <3> QED
      BY <1>3, <3>1, <3>2, TypeIsRead
  <2> QED
    BY <2>2, <2>3
<1> QED
  BY <1>9, <1>10, <1>11

-------------------------------------------------------------------------------
(* Forms.                                                                  *)
IsForm(f) ==
  /\ f.boundary \in Seq(BodyBytes) /\ Without(f.boundary, {CR, LF, Semicolon, Blank})
  /\ f.tail \in Seq(BodyBytes) /\ (f.tail = <<>> \/ f.tail[1] \in {Semicolon, Blank})
  /\ DOMAIN f.parts = 1..Len(f.parts) /\ Len(f.parts) \in Nat
  /\ \A k \in 1..Len(f.parts) :
       IsPart(f.parts[k]) /\ Find(BoundaryLine(f), f.parts[k].data, 1) = npos
  /\ f.bytes \in 0..Len(FormText(f))

LEMMA FormIs ==
  ASSUME NEW f \in Forms
  PROVE  IsForm(f)
<1>1. /\ f.boundary \in Seq(STRING) /\ Without(f.boundary, {CR, LF, Semicolon, Blank})
      /\ f.tail \in Seq(STRING) /\ (f.tail = <<>> \/ f.tail[1] \in {Semicolon, Blank})
      /\ f.parts \in Seq([kind : Kinds, name : Seq(STRING), data : Seq(STRING)])
      /\ \A k \in DOMAIN f.parts :
           /\ Without(f.parts[k].name, {CR, LF, Quote, Type})
           /\ Find(BoundaryLine(f), f.parts[k].data, 1) = npos
      /\ f.bytes \in 0..Len(FormText(f))
  BY FormsAssumption
<1>2. STRING \subseteq BodyBytes
  BY DEF BodyBytes
<1>3. \A s \in Seq(STRING) : s \in Seq(BodyBytes)
  BY <1>2, Wider
<1>4. DOMAIN f.parts = 1..Len(f.parts) /\ Len(f.parts) \in Nat
  BY <1>1
<1>5. ASSUME NEW k \in 1..Len(f.parts) PROVE IsPart(f.parts[k])
  <2>0. f.parts[k] \in [kind : Kinds, name : Seq(STRING), data : Seq(STRING)]
    <3>1. PICK R : R = [kind : Kinds, name : Seq(STRING), data : Seq(STRING)]
      OBVIOUS
    <3>2. f.parts \in Seq(R)
      BY <1>1, <3>1
    <3>3. f.parts[k] \in R
      BY <3>2
    <3> QED
      BY <3>1, <3>3
  <2>1. PICK p \in [kind : Kinds, name : Seq(STRING), data : Seq(STRING)] : p = f.parts[k]
    BY <2>0
  <2>2. Without(p.name, {CR, LF, Quote, Type})
    BY <1>1, <1>4, <2>1
  <2>3. p.name \in Seq(LineBytes)
    <3>1. \A i \in 1..Len(p.name) : p.name[i] \in LineBytes
      <4>1. ASSUME NEW i \in 1..Len(p.name) PROVE p.name[i] \in LineBytes
        <5>1. p.name[i] \in STRING /\ i \in DOMAIN p.name
          OBVIOUS
        <5>2. p.name[i] \notin {CR, LF, Quote, Type}
          BY <2>2, <5>1 DEF Without
        <5> QED
          BY <1>2, <5>1, <5>2 DEF LineBytes
      <4> QED
        BY <4>1
    <3>2. p.name \in Seq(STRING)
      OBVIOUS
    <3> QED
      BY <3>1, <3>2, ElementsIn
  <2>4. Without(p.name, {Quote}) /\ p.data \in Seq(BodyBytes) /\ p.kind \in Kinds
    BY <1>3, <2>2 DEF Without
  <2> QED
    BY <2>1, <2>3, <2>4 DEF IsPart
<1> QED
  BY <1>1, <1>3, <1>4, <1>5 DEF IsForm

(* The text of a form from each of its parts on. *)
IsFormText(from, f) ==
  from = [k \in 1..Len(f.parts) + 1 |->
            IF k = Len(f.parts) + 1 THEN BoundaryLine(f) \o <<Dash, Dash>> \o CRLF
            ELSE PartText(f, f.parts[k]) \o from[k + 1]]

FormTextFrom(f, n, from) ==
  \A k \in 1..Len(f.parts) + 1 :
    Len(f.parts) + 1 - k <= n =>
      from[k] = IF k = Len(f.parts) + 1 THEN BoundaryLine(f) \o <<Dash, Dash>> \o CRLF
                ELSE PartText(f, f.parts[k]) \o from[k + 1]

LEMMA FormTextExists ==
  ASSUME NEW f, Len(f.parts) \in Nat
  PROVE  \E from : IsFormText(from, f)
<1> DEFINE N == Len(f.parts)
           I == {n \in Nat : \E from : FormTextFrom(f, n, from)}
<1>1. 0 \in I
  <2> DEFINE g == [k \in 1..N + 1 |-> BoundaryLine(f) \o <<Dash, Dash>> \o CRLF]
  <2>1. \A k \in 1..N + 1 : N + 1 - k <= 0 => k = N + 1
    OBVIOUS
  <2>2. N + 1 \in 1..N + 1
    OBVIOUS
  <2>3. FormTextFrom(f, 0, g)
    BY <2>1, <2>2, Zenon DEF FormTextFrom
  <2> QED
    BY <2>3
<1>2. ASSUME NEW n \in Nat, n \in I PROVE n + 1 \in I
  <2>1. PICK from : FormTextFrom(f, n, from)
    BY <1>2
  <2> DEFINE step == PartText(f, f.parts[N - n]) \o from[N - n + 1]
             g == [k \in 1..N + 1 |-> IF k = N - n THEN step ELSE from[k]]
  <2>2. \A k \in 1..N + 1 : k # N - n => g[k] = from[k]
    OBVIOUS
  <2>3. N - n \in 1..N + 1 => g[N - n] = step
    OBVIOUS
  <2> HIDE DEF g
  <2>4. ASSUME NEW k \in 1..N + 1, N + 1 - k <= n + 1
        PROVE  g[k] = IF k = N + 1 THEN BoundaryLine(f) \o <<Dash, Dash>> \o CRLF
                      ELSE PartText(f, f.parts[k]) \o g[k + 1]
    <3>1. CASE k = N - n
      <4>1. k + 1 \in 1..N + 1 /\ k + 1 # N - n /\ k # N + 1
        BY <3>1
      <4>2. g[k] = PartText(f, f.parts[k]) \o from[k + 1]
        BY <2>3, <3>1
      <4>3. g[k + 1] = from[k + 1]
        BY <2>2, <4>1
      <4> QED
        BY <4>1, <4>2, <4>3
    <3>2. CASE k # N - n
      <4>1. N + 1 - k <= n
        BY <2>4, <3>2
      <4>2. g[k] = from[k]
        BY <2>2, <3>2
      <4>3. from[k] = IF k = N + 1 THEN BoundaryLine(f) \o <<Dash, Dash>> \o CRLF
                      ELSE PartText(f, f.parts[k]) \o from[k + 1]
        BY <2>1, <4>1 DEF FormTextFrom
      <4>4. k # N + 1 => k + 1 \in 1..N + 1 /\ k + 1 # N - n
        BY <4>1
      <4>5. k # N + 1 => g[k + 1] = from[k + 1]
        BY <2>2, <4>4
      <4> QED
        BY <4>2, <4>3, <4>5
    <3> QED
      BY <3>1, <3>2
  <2>5. FormTextFrom(f, n + 1, g)
    BY <2>4 DEF FormTextFrom
  <2> QED
    BY <2>5
<1>3. N \in I
  <2> HIDE DEF I
  <2>1. \A n \in Nat : n \in I
    BY <1>1, <1>2, SetInduction
  <2> QED
    BY <2>1
<1>4. PICK from : FormTextFrom(f, N, from)
  BY <1>3
<1> DEFINE g == [k \in 1..N + 1 |-> from[k]]
<1>5. \A k \in 1..N + 1 : g[k] = from[k]
  OBVIOUS
<1> HIDE DEF g
<1>6. ASSUME NEW k \in 1..N + 1
      PROVE  from[k] = IF k = N + 1 THEN BoundaryLine(f) \o <<Dash, Dash>> \o CRLF
                       ELSE PartText(f, f.parts[k]) \o g[k + 1]
  <2>1. N + 1 - k <= N
    OBVIOUS
  <2>2. from[k] = IF k = N + 1 THEN BoundaryLine(f) \o <<Dash, Dash>> \o CRLF
                  ELSE PartText(f, f.parts[k]) \o from[k + 1]
    BY <1>4, <2>1 DEF FormTextFrom
  <2>3. k # N + 1 => k + 1 \in 1..N + 1
    OBVIOUS
  <2> QED
    BY <1>5, <2>2, <2>3
<1>7. IsFormText(g, f)
  BY <1>6, Zenon DEF IsFormText, g
<1> QED
  BY <1>7

LEMMA FormTextIs ==
  ASSUME NEW f, Len(f.parts) \in Nat
  PROVE  \E from : IsFormText(from, f) /\ FormText(f) = from[1]
<1> DEFINE F(g) == [k \in 1..Len(f.parts) + 1 |->
             IF k = Len(f.parts) + 1 THEN BoundaryLine(f) \o <<Dash, Dash>> \o CRLF
             ELSE PartText(f, f.parts[k]) \o g[k + 1]]
           from == CHOOSE g : g = F(g)
<1>1. \E g : g = F(g)
  BY FormTextExists DEF IsFormText
<1>2. from = F(from)
  BY <1>1
<1>3. FormText(f) = from[1]
  BY DEF FormText
<1> HIDE DEF from
<1> QED
  BY <1>2, <1>3 DEF IsFormText

LEMMA LineOfForm ==
  ASSUME NEW f, IsForm(f)
  PROVE  /\ BoundaryLine(f) \in Seq(BodyBytes) /\ Len(BoundaryLine(f)) = 2 + Len(f.boundary)
         /\ BoundaryLine(f) # <<>>
         /\ \A j \in 1..Len(BoundaryLine(f)) : BoundaryLine(f)[j] \notin {CR, LF}
<1>1. PICK b \in Seq(BodyBytes) : b = f.boundary /\ \A j \in 1..Len(b) : b[j] \notin {CR, LF}
  <2>1. f.boundary \in Seq(BodyBytes) /\ DOMAIN f.boundary = 1..Len(f.boundary)
    BY DEF IsForm
  <2> QED
    BY <2>1 DEF IsForm, Without
<1>2. PICK d \in Seq(BodyBytes) : d = <<Dash, Dash>> /\ Len(d) = 2 /\ d[1] = Dash /\ d[2] = Dash
  <2>1. \A x \in BodyBytes : /\ <<x, x>> \in Seq(BodyBytes) /\ Len(<<x, x>>) = 2
                             /\ <<x, x>>[1] = x /\ <<x, x>>[2] = x
    OBVIOUS
  <2>2. Dash \in BodyBytes
    BY LineTokens
  <2> QED
    BY <2>1, <2>2, Zenon
<1>3. PICK l : l = d \o b
  OBVIOUS
<1>4. /\ l \in Seq(BodyBytes) /\ Len(l) = Len(d) + Len(b)
      /\ \A j \in 1..Len(d) : l[j] = d[j]
      /\ \A j \in 1..Len(b) : l[Len(d) + j] = b[j]
  BY <1>3, ConcatOf
<1>5. Len(b) \in Nat
  OBVIOUS
<1>6. Len(l) = 2 + Len(b) /\ l # <<>>
  BY <1>2, <1>4, <1>5
<1>7. Dash \notin {CR, LF}
  BY TokensDiffer
<1>8. ASSUME NEW j \in 1..Len(l) PROVE l[j] \notin {CR, LF}
  <2>1. j = 1 \/ j = 2 \/ j - 2 \in 1..Len(b)
    BY <1>5, <1>6
  <2>2. j = 1 \/ j = 2 => l[j] = Dash
    BY <1>2, <1>4
  <2>3. j - 2 \in 1..Len(b) => l[j] = b[j - 2]
    <3>1. 2 + (j - 2) = j
      OBVIOUS
    <3> QED
      BY <1>2, <1>4, <3>1
  <2> QED
    BY <1>1, <1>7, <2>1, <2>2, <2>3
<1>9. BoundaryLine(f) = l
  BY <1>1, <1>2, <1>3 DEF BoundaryLine
<1> QED
  BY <1>1, <1>4, <1>6, <1>8, <1>9

(* A part with what follows it, behind m bytes of s: its boundary line l,  *)
(* its header h, its data d, and the rest r.                               *)
Laid(s, m, l, h, d, r) ==
  LET head == m + Len(l) + 2
      body == head + Len(h) + 4
  IN  /\ StandsIn(s, m, l) /\ StandsIn(s, m + Len(l), CRLF)
      /\ StandsIn(s, head, h)
      /\ StandsIn(s, head + Len(h), CRLF) /\ StandsIn(s, head + Len(h) + 2, CRLF)
      /\ StandsIn(s, body, d) /\ StandsIn(s, body + Len(d), CRLF)
      /\ Follows(s, body + Len(d) + 2, r)

Encloses(p, l, h, d) == p = l \o CRLF \o h \o CRLF \o CRLF \o d \o CRLF

LEMMA LaidOut ==
  ASSUME NEW S, NEW s \in Seq(S), NEW m \in Nat, NEW l \in Seq(S), NEW h \in Seq(S), NEW d \in Seq(S),
         NEW r \in Seq(S), CRLF \in Seq(S), Len(CRLF) = 2,
         NEW p, Encloses(p, l, h, d)
  PROVE  p \in Seq(S) /\ (Follows(s, m, p \o r) => Laid(s, m, l, h, d, r))
<1>1. PICK e \in Seq(S) : e = CRLF /\ Len(e) = 2
  OBVIOUS
<1>2. PICK a \in Seq(S) : a = l \o e /\ Len(a) = Len(l) + 2
  <2>1. l \o e \in Seq(S) /\ Len(l \o e) = Len(l) + Len(e)
    BY ConcatOf
  <2> QED
    BY <1>1, <2>1
<1>3. PICK b \in Seq(S) : b = a \o h /\ Len(b) = Len(a) + Len(h)
  <2>1. a \o h \in Seq(S) /\ Len(a \o h) = Len(a) + Len(h)
    BY ConcatOf
  <2> QED
    BY <2>1
<1>4. PICK c \in Seq(S) : c = b \o e /\ Len(c) = Len(b) + 2
  <2>1. b \o e \in Seq(S) /\ Len(b \o e) = Len(b) + Len(e)
    BY ConcatOf
  <2> QED
    BY <1>1, <2>1
<1>5. PICK g \in Seq(S) : g = c \o e /\ Len(g) = Len(c) + 2
  <2>1. c \o e \in Seq(S) /\ Len(c \o e) = Len(c) + Len(e)
    BY ConcatOf
  <2> QED
    BY <1>1, <2>1
<1>6. PICK k \in Seq(S) : k = g \o d /\ Len(k) = Len(g) + Len(d)
  <2>1. g \o d \in Seq(S) /\ Len(g \o d) = Len(g) + Len(d)
    BY ConcatOf
  <2> QED
    BY <2>1
<1>7. PICK q \in Seq(S) : q = k \o e /\ Len(q) = Len(k) + 2
  <2>1. k \o e \in Seq(S) /\ Len(k \o e) = Len(k) + Len(e)
    BY ConcatOf
  <2> QED
    BY <1>1, <2>1
<1>8. p = q
  BY <1>1, <1>2, <1>3, <1>4, <1>5, <1>6, <1>7 DEF Encloses
<1>9. ASSUME Follows(s, m, p \o r) PROVE Laid(s, m, l, h, d, r)
  <2>1. StandsIn(s, m, q) /\ Follows(s, m + Len(q), r)
    BY <1>8, <1>9, FollowsApart
  <2>2. StandsIn(s, m, k) /\ StandsIn(s, m + Len(k), e)
    BY <1>7, <2>1, StandsApart
  <2>3. StandsIn(s, m, g) /\ StandsIn(s, m + Len(g), d)
    BY <1>6, <2>2, StandsApart
  <2>4. StandsIn(s, m, c) /\ StandsIn(s, m + Len(c), e)
    BY <1>5, <2>3, StandsApart
  <2>5. StandsIn(s, m, b) /\ StandsIn(s, m + Len(b), e)
    BY <1>4, <2>4, StandsApart
  <2>6. StandsIn(s, m, a) /\ StandsIn(s, m + Len(a), h)
    BY <1>3, <2>5, StandsApart
  <2>7. StandsIn(s, m, l) /\ StandsIn(s, m + Len(l), e)
    BY <1>2, <2>6, StandsApart
  <2>8. PICK nl \in Nat, nh \in Nat, nd \in Nat : nl = Len(l) /\ nh = Len(h) /\ nd = Len(d)
    OBVIOUS
  <2>9. /\ m + Len(a) = m + nl + 2
        /\ m + Len(b) = m + nl + 2 + nh
        /\ m + Len(c) = m + nl + 2 + nh + 2
        /\ m + Len(g) = m + nl + 2 + nh + 4
        /\ m + Len(k) = m + nl + 2 + nh + 4 + nd
        /\ m + Len(q) = m + nl + 2 + nh + 4 + nd + 2
    BY <1>2, <1>3, <1>4, <1>5, <1>6, <1>7, <2>8
  <2> QED
    BY <1>1, <2>1, <2>2, <2>3, <2>4, <2>5, <2>6, <2>7, <2>8, <2>9 DEF Laid
<1> QED
  BY <1>7, <1>8, <1>9

-------------------------------------------------------------------------------
(* The text from each part on. *)
ClosingLine(f) == BoundaryLine(f) \o <<Dash, Dash>> \o CRLF

LEMMA ClosingIs ==
  ASSUME NEW f, IsForm(f)
  PROVE  /\ ClosingLine(f) \in Seq(BodyBytes)
         /\ \A s \in Seq(BodyBytes), m \in Nat :
              Follows(s, m, ClosingLine(f)) =>
                /\ StandsIn(s, m, BoundaryLine(f))
                /\ StandsIn(s, m + Len(BoundaryLine(f)), <<Dash, Dash>>)
                /\ Len(s) = m + Len(BoundaryLine(f)) + 4
<1>1. PICK l \in Seq(BodyBytes) : l = BoundaryLine(f)
  BY LineOfForm
<1>2. PICK d \in Seq(BodyBytes) : d = <<Dash, Dash>> /\ Len(d) = 2
  <2>1. \A x \in BodyBytes : <<x, x>> \in Seq(BodyBytes) /\ Len(<<x, x>>) = 2
    OBVIOUS
  <2>2. Dash \in BodyBytes
    BY LineTokens
  <2> QED
    BY <2>1, <2>2, Zenon
<1>3. PICK e \in Seq(BodyBytes) : e = CRLF /\ Len(e) = 2
  BY LineEndIs
<1>4. PICK a \in Seq(BodyBytes) : a = l \o d /\ Len(a) = Len(l) + Len(d)
  <2>1. l \o d \in Seq(BodyBytes) /\ Len(l \o d) = Len(l) + Len(d)
    BY ConcatOf
  <2> QED
    BY <2>1
<1>5. PICK c \in Seq(BodyBytes) : c = a \o e /\ Len(c) = Len(a) + Len(e)
  <2>1. a \o e \in Seq(BodyBytes) /\ Len(a \o e) = Len(a) + Len(e)
    BY ConcatOf
  <2> QED
    BY <2>1
<1>6. ClosingLine(f) = c
  BY <1>1, <1>2, <1>3, <1>4, <1>5 DEF ClosingLine
<1>7. ASSUME NEW s \in Seq(BodyBytes), NEW m \in Nat, Follows(s, m, c)
      PROVE  StandsIn(s, m, l) /\ StandsIn(s, m + Len(l), d) /\ Len(s) = m + Len(l) + 4
  <2>1. StandsIn(s, m, a) /\ Follows(s, m + Len(a), e)
    BY <1>5, <1>7, FollowsApart
  <2>2. StandsIn(s, m, l) /\ StandsIn(s, m + Len(l), d)
    BY <1>4, <2>1, StandsApart
  <2>3. Len(s) = m + Len(c)
    BY <1>7 DEF Follows
  <2>4. PICK n \in Nat : n = Len(l)
    OBVIOUS
  <2>5. Len(c) = n + 4
    BY <1>2, <1>3, <1>4, <1>5, <2>4
  <2>6. m + (n + 4) = m + n + 4
    OBVIOUS
  <2>7. Len(s) = m + Len(l) + 4
    BY <2>3, <2>4, <2>5, <2>6
  <2> QED
    BY <2>2, <2>7
<1> QED
  BY <1>1, <1>2, <1>6, <1>7

LEMMA PartTextIs ==
  ASSUME NEW f, IsForm(f), NEW part, IsPart(part)
  PROVE  /\ PartText(f, part) \in Seq(BodyBytes)
         /\ \A s \in Seq(BodyBytes), m \in Nat, r \in Seq(BodyBytes) :
              Follows(s, m, PartText(f, part) \o r) =>
                Laid(s, m, BoundaryLine(f), PartHeader(part), part.data, r)
<1>1. PICK l \in Seq(BodyBytes) : l = BoundaryLine(f)
  BY LineOfForm
<1>2. PICK h \in Seq(BodyBytes) : h = PartHeader(part)
  BY HeaderIs
<1>3. PICK d \in Seq(BodyBytes) : d = part.data
  BY DEF IsPart
<1>4. PICK p : p = PartText(f, part)
  OBVIOUS
<1>5. Encloses(p, l, h, d)
  BY <1>1, <1>2, <1>3, <1>4 DEF PartText, Encloses
<1>6. CRLF \in Seq(BodyBytes) /\ Len(CRLF) = 2
  BY LineEndIs
<1>7. ASSUME NEW s \in Seq(BodyBytes), NEW m \in Nat, NEW r \in Seq(BodyBytes)
      PROVE  p \in Seq(BodyBytes) /\ (Follows(s, m, p \o r) => Laid(s, m, l, h, d, r))
  BY <1>5, <1>6, LaidOut
<1>8. <<>> \in Seq(BodyBytes) /\ 0 \in Nat
  OBVIOUS
<1>9. p \in Seq(BodyBytes)
  BY <1>7, <1>8
<1> QED
  BY <1>1, <1>2, <1>3, <1>4, <1>7, <1>9

LEMMA FormTextType ==
  ASSUME NEW f, IsForm(f), NEW from, IsFormText(from, f)
  PROVE  \A k \in 1..Len(f.parts) + 1 : from[k] \in Seq(BodyBytes)
<1>1. PICK N \in Nat : N = Len(f.parts)
  BY DEF IsForm
<1>2. \A k \in 1..N + 1 : from[k] = IF k = N + 1 THEN ClosingLine(f)
                                    ELSE PartText(f, f.parts[k]) \o from[k + 1]
  BY <1>1, Zenon DEF IsFormText, ClosingLine
<1> DEFINE I == {n \in Nat : \A k \in 1..N + 1 : N + 1 - k <= n => from[k] \in Seq(BodyBytes)}
<1>3. 0 \in I
  <2>1. \A k \in 1..N + 1 : N + 1 - k <= 0 => k = N + 1
    OBVIOUS
  <2>2. ClosingLine(f) \in Seq(BodyBytes)
    BY ClosingIs
  <2>3. \A k \in 1..N + 1 : k = N + 1 => from[k] \in Seq(BodyBytes)
    BY <1>2, <2>2
  <2> QED
    BY <2>1, <2>3
<1>4. ASSUME NEW n \in Nat, n \in I PROVE n + 1 \in I
  <2>1. ASSUME NEW k \in 1..N + 1, N + 1 - k <= n + 1 PROVE from[k] \in Seq(BodyBytes)
    <3>1. CASE k = N + 1
      BY <1>2, <3>1, ClosingIs
    <3>2. CASE k # N + 1
      <4>1. k \in 1..N /\ k + 1 \in 1..N + 1 /\ N + 1 - (k + 1) <= n
        BY <2>1, <3>2
      <4>2. from[k + 1] \in Seq(BodyBytes)
        BY <1>4, <4>1
      <4>3. PartText(f, f.parts[k]) \in Seq(BodyBytes)
        BY <1>1, <4>1, PartTextIs DEF IsForm
      <4>4. PartText(f, f.parts[k]) \o from[k + 1] \in Seq(BodyBytes)
        BY <4>2, <4>3, ConcatOf
      <4> QED
        BY <1>2, <3>2, <4>4
    <3> QED
      BY <3>1, <3>2
  <2> QED
    BY <2>1
<1>5. N \in I
  <2> HIDE DEF I
  <2>1. \A n \in Nat : n \in I
    BY <1>3, <1>4, SetInduction
  <2> QED
    BY <2>1
<1>6. \A k \in 1..N + 1 : N + 1 - k <= N
  OBVIOUS
<1> QED
  BY <1>1, <1>5, <1>6

(* The Content-Type of a form. *)
LEMMA FormTypeIs ==
  ASSUME NEW f, IsForm(f)
  PROVE  /\ FormType(f) \in Seq(BodyBytes)
         /\ Find(<<FormData>>, FormType(f), 1) # npos
         /\ Find(<<Boundary>>, FormType(f), 1) # npos
         /\ BoundaryOf(FormType(f)) = f.boundary
<1>1. PICK b \in Seq(BodyBytes) : b = f.boundary /\ \A j \in 1..Len(b) : b[j] \notin {Semicolon, Blank}
  <2>1. f.boundary \in Seq(BodyBytes) /\ DOMAIN f.boundary = 1..Len(f.boundary)
    BY DEF IsForm
  <2> QED
    BY <2>1 DEF IsForm, Without
<1>2. PICK e \in Seq(BodyBytes) : e = f.tail /\ (e = <<>> \/ e[1] \in {Semicolon, Blank})
  BY DEF IsForm
<1>3. PICK u \in Seq(BodyBytes) : /\ u = <<FormData, Semicolon, Blank, Boundary>> /\ Len(u) = 4
                                  /\ u[1] = FormData /\ u[2] = Semicolon /\ u[3] = Blank /\ u[4] = Boundary
  <2>1. FormData \in BodyBytes /\ Semicolon \in BodyBytes /\ Blank \in BodyBytes /\ Boundary \in BodyBytes
    BY LineTokens
  <2>2. IsFour(<<FormData, Semicolon, Blank, Boundary>>, BodyBytes, FormData, Semicolon, Blank, Boundary)
    BY <2>1, FourOf
  <2> QED
    BY <2>2 DEF IsFour
<1>4. PICK a \in Seq(BodyBytes) : a = u \o b /\ Len(a) = Len(u) + Len(b)
  <2>1. u \o b \in Seq(BodyBytes) /\ Len(u \o b) = Len(u) + Len(b)
    BY ConcatOf
  <2> QED
    BY <2>1
<1>5. PICK t \in Seq(BodyBytes) : t = a \o e /\ Len(t) = Len(a) + Len(e)
  <2>1. a \o e \in Seq(BodyBytes) /\ Len(a \o e) = Len(a) + Len(e)
    BY ConcatOf
  <2> QED
    BY <2>1
<1>6. FormType(f) = t
  BY <1>1, <1>2, <1>3, <1>4, <1>5 DEF FormType
<1>7. PICK n \in Nat, z \in Nat : n = Len(b) /\ z = Len(e)
  OBVIOUS
<1>8. StandsIn(t, 0, u) /\ StandsIn(t, 4, b) /\ Follows(t, 4 + n, e) /\ Len(t) = 4 + n + z
  <2>1. Follows(t, 0, a \o e)
    BY <1>5, FollowsItself
  <2>2. StandsIn(t, 0, a) /\ Follows(t, 0 + Len(a), e)
    BY <2>1, FollowsApart
  <2>3. StandsIn(t, 0, u) /\ StandsIn(t, 0 + Len(u), b)
    BY <1>4, <2>2, StandsApart
  <2>4. 0 + Len(a) = 4 + n /\ 0 + Len(u) = 4 /\ Len(t) = 4 + n + z
    BY <1>3, <1>4, <1>5, <1>7
  <2> QED
    BY <2>2, <2>3, <2>4
<1>9. /\ t[1] = FormData /\ t[2] = Semicolon /\ t[3] = Blank /\ t[4] = Boundary
      /\ \A j \in 1..n : t[4 + j] = b[j]
      /\ z > 0 => t[(4 + n) + 1] = e[1]
  <2>1. \A j \in 1..4 : t[0 + j] = u[j]
    BY <1>3, <1>8 DEF StandsIn
  <2>2. t[1] = u[1] /\ t[2] = u[2] /\ t[3] = u[3] /\ t[4] = u[4]
    BY <2>1
  <2>3. \A j \in 1..n : t[4 + j] = b[j]
    BY <1>7, <1>8 DEF StandsIn
  <2>4. z > 0 => t[(4 + n) + 1] = e[1]
    BY <1>7, <1>8 DEF Follows
  <2> QED
    BY <1>3, <2>2, <2>3, <2>4
<1>10. Find(<<FormData>>, t, 1) # npos
  <2>1. PICK p \in Seq(BodyBytes) : p = <<FormData>> /\ p # <<>> /\ Len(p) = 1 /\ p[1] = FormData
    <3>1. \A x \in BodyBytes : /\ <<x>> \in Seq(BodyBytes) /\ <<x>> # <<>>
                               /\ Len(<<x>>) = 1 /\ <<x>>[1] = x
      OBVIOUS
    <3>2. FormData \in BodyBytes
      BY LineTokens
    <3> QED
      BY <3>1, <3>2, Zenon
  <2>2. StandsIn(t, 0, p)
    BY <1>7, <1>8, <1>9, <2>1 DEF StandsIn
  <2>3. Find(p, t, 1) = 1
    BY <2>1, <2>2, PlaceAtStart
  <2> QED
    BY <2>1, <2>3 DEF npos
<1>11. Find(<<Boundary>>, t, 1) = 4
  <2>1. PICK p \in Seq(BodyBytes) : p = <<Boundary>> /\ p # <<>> /\ Len(p) = 1 /\ p[1] = Boundary
    <3>1. \A x \in BodyBytes : /\ <<x>> \in Seq(BodyBytes) /\ <<x>> # <<>>
                               /\ Len(<<x>>) = 1 /\ <<x>>[1] = x
      OBVIOUS
    <3>2. Boundary \in BodyBytes
      BY LineTokens
    <3> QED
      BY <3>1, <3>2, Zenon
  <2>2. PICK i \in Nat \ {0}, m \in Nat : i = 1 /\ m = 3 /\ i <= m + 1
    <3>1. 1 \in Nat \ {0} /\ 3 \in Nat /\ 1 <= 3 + 1
      OBVIOUS
    <3> QED
      BY <3>1
  <2>3. StandsIn(t, m, p)
    BY <1>7, <1>8, <1>9, <2>1, <2>2 DEF StandsIn
  <2>4. FormData # Boundary /\ Semicolon # Boundary /\ Blank # Boundary
    BY Zenon DEF FormData, Semicolon, Blank, Boundary
  <2>5. ASSUME NEW k \in i - 1..m - 1 PROVE ~StandsIn(t, k, p)
    <3>1. k = 0 \/ k = 1 \/ k = 2
      BY <2>2
    <3>2. t[k + 1] # Boundary
      BY <1>9, <2>4, <3>1
    <3>3. StandsIn(t, k, p) => t[k + 1] = p[1]
      <4>1. 1 \in 1..Len(p)
        BY <2>1
      <4> QED
        BY <4>1 DEF StandsIn
    <3> QED
      BY <2>1, <3>2, <3>3
  <2>6. Find(p, t, i) = m + 1
    BY <2>1, <2>2, <2>3, <2>5, FirstPlace
  <2> QED
    BY <2>1, <2>2, <2>6
<1>12. PICK K : K = {k \in 5..Len(t) : t[k] \in {Semicolon, Blank}} \cup {Len(t) + 1}
  OBVIOUS
<1>13. Min(K) = 5 + n
  <2>1. 5 + n \in K
    <3>1. CASE z = 0
      BY <1>8, <1>12, <3>1
    <3>2. CASE z > 0
      <4>1. e # <<>>
        BY <1>7, <3>2
      <4>2. t[5 + n] \in {Semicolon, Blank}
        <5>1. (4 + n) + 1 = 5 + n
          OBVIOUS
        <5> QED
          BY <1>2, <1>9, <3>2, <4>1, <5>1
      <4>3. 5 + n \in 5..Len(t)
        BY <1>8, <3>2
      <4> QED
        BY <1>12, <4>2, <4>3
    <3> QED
      BY <1>7, <3>1, <3>2
  <2>2. ASSUME NEW j \in K PROVE j \in Nat /\ 5 + n <= j
    <3>1. CASE j = Len(t) + 1
      BY <1>8, <3>1
    <3>2. CASE j \in 5..Len(t) /\ t[j] \in {Semicolon, Blank}
      <4>1. j < 5 + n => j - 4 \in 1..n /\ 4 + (j - 4) = j
        BY <3>2
      <4>2. ~(j < 5 + n)
        BY <1>1, <1>7, <1>9, <3>2, <4>1
      <4> QED
        BY <3>2, <4>2
    <3> QED
      BY <1>12, <3>1, <3>2
  <2>3. \A x \in K : (\A y \in K : x <= y) => x = 5 + n
    BY <2>1, <2>2
  <2> QED
    BY <2>1, <2>2, <2>3 DEF Min
<1>14. BoundaryOf(t) = SubSeq(t, 5, 4 + n)
  <2>1. PICK from : from = Find(<<Boundary>>, t, 1) + 1
    OBVIOUS
  <2>2. from = 5
    BY <1>11, <2>1
  <2>3. BoundaryOf(t) = SubSeq(t, from, Min({k \in from..Len(t) : t[k] \in {Semicolon, Blank}} \cup {Len(t) + 1}) - 1)
    BY <2>1, Zenon DEF BoundaryOf
  <2>4. BoundaryOf(t) = SubSeq(t, 5, Min(K) - 1)
    BY <1>12, <2>2, <2>3
  <2>5. (5 + n) - 1 = 4 + n
    OBVIOUS
  <2> QED
    BY <1>13, <2>4, <2>5
<1>15. SubSeq(t, 5, 4 + n) = b
  <2>1. PICK i \in Nat \ {0}, l \in Nat : i = 5 /\ l = 4 + n
    <3>1. 5 \in Nat \ {0} /\ 4 + n \in Nat
      OBVIOUS
    <3> QED
      BY <3>1
  <2>2. i <= l + 1 /\ l <= Len(t) /\ l + 1 - i = n
    BY <1>8, <2>1
  <2>3. PICK v : v = SubSeq(t, i, l)
    OBVIOUS
  <2>4. v \in Seq(BodyBytes) /\ Len(v) = n /\ \A j \in 1..n : v[j] = t[i + j - 1]
    BY <2>2, <2>3, SubSeqIs
  <2>5. \A j \in 1..n : i + j - 1 = 4 + j
    BY <2>1
  <2>6. Len(v) = Len(b) /\ \A j \in 1..Len(v) : v[j] = b[j]
    BY <1>7, <1>9, <2>4, <2>5
  <2>7. v = b
    BY <2>4, <2>6, SeqEqual
  <2> QED
    BY <2>1, <2>3, <2>7
<1>16. Find(<<Boundary>>, t, 1) # npos
  BY <1>11 DEF npos
<1> QED
  BY <1>1, <1>6, <1>10, <1>14, <1>15, <1>16

-------------------------------------------------------------------------------
(* What the loop finds behind m bytes of a text t, where a part is laid    *)
(* out, when the first c bytes of it have arrived.                         *)
IsLaid(t, c, m, l, h, d, r) ==
  /\ t \in Seq(BodyBytes) /\ c \in 0..Len(t) /\ m \in Nat
  /\ l \in Seq(BodyBytes) /\ l # <<>> /\ \A j \in 1..Len(l) : l[j] \notin {CR, LF}
  /\ h \in Seq(BodyBytes) /\ Spaced(h)
  /\ d \in Seq(BodyBytes) /\ Find(l, d, 1) = npos
  /\ r \in Seq(BodyBytes)
  /\ Laid(t, m, l, h, d, r)

HeadAt(m, l) == m + Len(l) + 2
HeadEndAt(m, l, h) == HeadAt(m, l) + Len(h)
DataAt(m, l, h) == HeadEndAt(m, l, h) + 4
NextAt(m, l, h, d) == DataAt(m, l, h) + Len(d) + 2

LEMMA LaidIs ==
  ASSUME NEW t, NEW c, NEW m, NEW l, NEW h, NEW d, NEW r, IsLaid(t, c, m, l, h, d, r)
  PROVE  /\ HeadAt(m, l) \in Nat /\ HeadEndAt(m, l, h) \in Nat /\ DataAt(m, l, h) \in Nat
         /\ NextAt(m, l, h, d) \in Nat
         /\ Len(l) \in Nat \ {0} /\ Len(h) \in Nat /\ Len(d) \in Nat /\ Len(t) \in Nat /\ c \in Nat /\ c <= Len(t)
         /\ StandsIn(t, m, l) /\ StandsIn(t, m + Len(l), CRLF) /\ StandsIn(t, HeadAt(m, l), h)
         /\ StandsIn(t, HeadEndAt(m, l, h), CRLF) /\ StandsIn(t, HeadEndAt(m, l, h) + 2, CRLF)
         /\ StandsIn(t, DataAt(m, l, h), d) /\ StandsIn(t, DataAt(m, l, h) + Len(d), CRLF)
         /\ Follows(t, NextAt(m, l, h, d), r)
<1>1. Len(l) \in Nat \ {0} /\ Len(h) \in Nat /\ Len(d) \in Nat /\ Len(t) \in Nat /\ c \in Nat /\ c <= Len(t) /\ m \in Nat
  BY EmptySeq DEF IsLaid
<1>2. PICK nl \in Nat, nh \in Nat, nd \in Nat : nl = Len(l) /\ nh = Len(h) /\ nd = Len(d)
  BY <1>1
<1>3. /\ HeadAt(m, l) \in Nat /\ HeadEndAt(m, l, h) \in Nat /\ DataAt(m, l, h) \in Nat
      /\ NextAt(m, l, h, d) \in Nat
  BY <1>1, <1>2 DEF HeadAt, HeadEndAt, DataAt, NextAt
<1>4. Laid(t, m, l, h, d, r)
  BY DEF IsLaid
<1> QED
  BY <1>1, <1>3, <1>4 DEF Laid, HeadAt, HeadEndAt, DataAt, NextAt

TwoEnds == CRLF \o CRLF

LEMMA TwoEndsIs ==
  /\ TwoEnds \in Seq(BodyBytes) /\ Len(TwoEnds) = 4 /\ TwoEnds # <<>>
  /\ \A s, k : StandsIn(s, k, TwoEnds) => s[k + 1] = CR /\ s[k + 3] = CR
  /\ \A s \in Seq(BodyBytes), k \in Nat : StandsIn(s, k, CRLF) /\ StandsIn(s, k + 2, CRLF) => StandsIn(s, k, TwoEnds)
<1>1. PICK e \in Seq(BodyBytes) : e = CRLF /\ Len(e) = 2 /\ e[1] = CR /\ e[2] = LF
  BY LineEndIs
<1>2. PICK w : w = e \o e
  OBVIOUS
<1>3. /\ w \in Seq(BodyBytes) /\ Len(w) = Len(e) + Len(e)
      /\ \A j \in 1..Len(e) : w[j] = e[j]
      /\ \A j \in 1..Len(e) : w[Len(e) + j] = e[j]
  BY <1>2, ConcatOf
<1>4. Len(w) = 4 /\ w[1] = CR /\ w[2] = LF /\ w[3] = CR /\ w[4] = LF
  <2>1. 1 \in 1..Len(e) /\ 2 \in 1..Len(e) /\ Len(e) + 1 = 3 /\ Len(e) + 2 = 4 /\ Len(e) + Len(e) = 4
    BY <1>1
  <2> QED
    BY <1>1, <1>3, <2>1
<1>5. w = TwoEnds
  BY <1>1, <1>2 DEF TwoEnds
<1>6. w # <<>>
  BY <1>4
<1>7. ASSUME NEW s, NEW k, StandsIn(s, k, w) PROVE s[k + 1] = CR /\ s[k + 3] = CR
  <2>1. 1 \in 1..Len(w) /\ 3 \in 1..Len(w)
    BY <1>4
  <2> QED
    BY <1>4, <1>7, <2>1 DEF StandsIn
<1>8. ASSUME NEW s \in Seq(BodyBytes), NEW k \in Nat, StandsIn(s, k, e), StandsIn(s, k + 2, e)
      PROVE  StandsIn(s, k, w)
  <2>1. k + 4 <= Len(s)
    <3>1. Len(s) \in Nat /\ (k + 2) + 2 <= Len(s)
      BY <1>1, <1>8 DEF StandsIn
    <3> QED
      BY <3>1
  <2>2. s[k + 1] = e[1] /\ s[k + 2] = e[2] /\ s[(k + 2) + 1] = e[1] /\ s[(k + 2) + 2] = e[2]
    <3>1. 1 \in 1..Len(e) /\ 2 \in 1..Len(e)
      BY <1>1
    <3> QED
      BY <1>8, <3>1 DEF StandsIn
  <2>3. (k + 2) + 1 = k + 3 /\ (k + 2) + 2 = k + 4
    OBVIOUS
  <2>4. ASSUME NEW j \in 1..4 PROVE s[k + j] = w[j]
    <3>1. j = 1 \/ j = 2 \/ j = 3 \/ j = 4
      OBVIOUS
    <3> QED
      BY <1>1, <1>4, <2>2, <2>3, <3>1
  <2> QED
    BY <1>4, <2>1, <2>4 DEF StandsIn
<1> QED
  BY <1>1, <1>3, <1>4, <1>5, <1>6, <1>7, <1>8

LEMMA HeaderEndPlace ==
  ASSUME NEW t, NEW c, NEW m, NEW l, NEW h, NEW d, NEW r, IsLaid(t, c, m, l, h, d, r),
         NEW b, b = SubSeq(t, 1, c)
  PROVE  Find(TwoEnds, b, HeadAt(m, l) + 1) =
           IF DataAt(m, l, h) <= c THEN HeadEndAt(m, l, h) + 1 ELSE npos
<1>1. PICK a \in Nat, e \in Nat, n \in Nat :
        a = HeadAt(m, l) /\ e = HeadEndAt(m, l, h) /\ n = Len(h) /\ e = a + n /\ DataAt(m, l, h) = e + 4
  BY LaidIs DEF HeadEndAt, DataAt
<1>2. StandsIn(t, a, h) /\ StandsIn(t, e, CRLF) /\ StandsIn(t, e + 2, CRLF)
  BY <1>1, LaidIs
<1>3. t \in Seq(BodyBytes) /\ c \in 0..Len(t) /\ Spaced(h) /\ h \in Seq(BodyBytes)
  BY DEF IsLaid
<1>4. PICK p \in Seq(BodyBytes) : p = TwoEnds /\ p # <<>> /\ Len(p) = 4
  BY TwoEndsIs
<1>5. b \in Seq(BodyBytes)
  <2>1. c \in Nat /\ 1 <= c + 1 /\ c <= Len(t)
    BY <1>3
  <2> QED
    BY <1>3, <2>1, SubSeqIs
<1>6. \A k \in Nat : StandsIn(b, k, p) <=> StandsIn(t, k, p) /\ k + 4 <= c
  BY <1>3, <1>4, StandsInCut
<1>7. ASSUME NEW k \in Nat, a <= k, k < e PROVE ~StandsIn(t, k, p)
  <2>1. PICK j \in 1..n : j = k + 1 - a
    <3>1. k + 1 - a \in 1..n
      BY <1>1, <1>7
    <3> QED
      BY <3>1
  <2>2. a + j = k + 1 /\ a + (j + 2) = k + 3 /\ j + 2 \in Nat
    BY <2>1
  <2>3. t[k + 1] = h[j]
    BY <1>1, <1>2, <2>1, <2>2 DEF StandsIn
  <2>4. h[j] = CR => j + 2 <= n /\ h[j + 2] # CR
    BY <1>1, <1>3, <2>1 DEF Spaced
  <2>5. j + 2 <= n => t[k + 3] = h[j + 2]
    <3>1. j + 2 <= n => j + 2 \in 1..n
      BY <2>2
    <3> QED
      BY <1>1, <1>2, <2>2, <3>1 DEF StandsIn
  <2>6. StandsIn(t, k, p) => t[k + 1] = CR /\ t[k + 3] = CR
    BY <1>4, TwoEndsIs
  <2> QED
    BY <2>3, <2>4, <2>5, <2>6
<1>8. CASE e + 4 <= c
  <2>1. StandsIn(b, e, p)
    BY <1>2, <1>3, <1>4, <1>6, <1>8, TwoEndsIs
  <2>2. PICK i \in Nat \ {0} : i = a + 1 /\ i <= e + 1 /\ i - 1 = a
    <3>1. a + 1 \in Nat \ {0} /\ a + 1 <= e + 1 /\ (a + 1) - 1 = a
      BY <1>1
    <3> QED
      BY <3>1
  <2>3. ASSUME NEW k \in i - 1..e - 1 PROVE ~StandsIn(b, k, p)
    <3>1. k \in Nat /\ a <= k /\ k < e
      BY <2>2
    <3> QED
      BY <1>6, <1>7, <3>1
  <2>4. Find(p, b, i) = e + 1
    BY <1>4, <1>5, <2>1, <2>2, <2>3, FirstPlace, ZenonT(30)
  <2> QED
    BY <1>1, <1>4, <1>8, <2>2, <2>4
<1>9. CASE ~(e + 4 <= c)
  <2>1. PICK i \in Nat \ {0} : i = a + 1 /\ i - 1 = a
    <3>1. a + 1 \in Nat \ {0} /\ (a + 1) - 1 = a
      BY <1>1
    <3> QED
      BY <3>1
  <2>2. ASSUME NEW k \in Nat, k >= i - 1 PROVE ~StandsIn(b, k, p)
    <3>1. c \in Nat
      BY <1>3
    <3>2. k + 4 <= c => k < e
      BY <1>9, <3>1
    <3> QED
      BY <1>6, <1>7, <2>1, <2>2, <3>2
  <2>3. Find(p, b, i) = npos
    BY <1>5, <2>2, NoPlace
  <2> QED
    BY <1>1, <1>4, <1>9, <2>1, <2>3
<1> QED
  BY <1>8, <1>9

LEMMA NowhereIn ==
  ASSUME NEW d \in Seq(BodyBytes), NEW l \in Seq(BodyBytes), l # <<>>, Find(l, d, 1) = npos,
         NEW k \in Nat
  PROVE  ~StandsIn(d, k, l)
<1>1. Len(d) \in Nat /\ Len(l) \in Nat \ {0}
  BY EmptySeq
<1>2. \A n \in 1..Len(d) : ~Occurs(l, d, n)
  <2>1. PICK i \in Nat \ {0} : i = 1
    OBVIOUS
  <2>2. \/ Find(l, d, i) = npos /\ \A n \in i..Len(d) : ~Occurs(l, d, n)
        \/ Find(l, d, i) \in i..Len(d)
    BY <1>1, FindIsFirst
  <2> QED
    BY <1>1, <2>1, <2>2 DEF npos
<1>3. StandsIn(d, k, l) => k + 1 \in 1..Len(d)
  BY <1>1 DEF StandsIn
<1> QED
  BY <1>2, <1>3, StandsOccurs

LEMMA NextPlace ==
  ASSUME NEW t, NEW c, NEW m, NEW l, NEW h, NEW d, NEW r, IsLaid(t, c, m, l, h, d, r),
         StandsIn(t, NextAt(m, l, h, d), l),
         NEW b, b = SubSeq(t, 1, c)
  PROVE  Find(l, b, DataAt(m, l, h) + 1) =
           IF NextAt(m, l, h, d) + Len(l) <= c THEN NextAt(m, l, h, d) + 1 ELSE npos
<1>1. PICK a \in Nat, e \in Nat, n \in Nat, g \in Nat \ {0} :
        a = DataAt(m, l, h) /\ e = NextAt(m, l, h, d) /\ n = Len(d) /\ e = a + n + 2 /\ g = Len(l)
  BY LaidIs DEF NextAt
<1>2. StandsIn(t, a, d) /\ StandsIn(t, a + n, CRLF) /\ StandsIn(t, e, l)
  BY <1>1, LaidIs
<1>3. /\ t \in Seq(BodyBytes) /\ c \in 0..Len(t) /\ d \in Seq(BodyBytes)
      /\ l \in Seq(BodyBytes) /\ l # <<>> /\ \A j \in 1..Len(l) : l[j] \notin {CR, LF}
      /\ Find(l, d, 1) = npos
  BY DEF IsLaid
<1>4. b \in Seq(BodyBytes)
  <2>1. c \in Nat /\ 1 <= c + 1 /\ c <= Len(t)
    BY <1>3
  <2> QED
    BY <1>3, <2>1, SubSeqIs
<1>5. \A k \in Nat : StandsIn(b, k, l) <=> StandsIn(t, k, l) /\ k + g <= c
  BY <1>1, <1>3, StandsInCut
<1>6. t[a + n + 1] = CR /\ t[a + n + 2] = LF
  <2>1. PICK x : x = CRLF /\ Len(x) = 2 /\ x[1] = CR /\ x[2] = LF
    BY LineEndIs
  <2>2. 1 \in 1..Len(x) /\ 2 \in 1..Len(x)
    BY <2>1
  <2> QED
    BY <1>2, <2>1, <2>2 DEF StandsIn
<1>7. ASSUME NEW k \in Nat, a <= k, k < e, StandsIn(t, k, l) PROVE FALSE
  <2>0. \A j \in 1..g : t[k + j] = l[j] /\ t[k + j] \notin {CR, LF}
    BY <1>1, <1>3, <1>7 DEF StandsIn
  <2>1. CASE k + g <= a + n
    <3>1. PICK i \in Nat : i = k - a /\ k = a + i
      <4>1. k - a \in Nat /\ k = a + (k - a)
        BY <1>7
      <4> QED
        BY <4>1
    <3>2. i + g <= n
      BY <2>1, <3>1
    <3>3. ASSUME NEW j \in 1..g PROVE d[i + j] = l[j]
      <4>1. i + j \in 1..n /\ a + (i + j) = k + j
        BY <3>1, <3>2
      <4>2. t[a + (i + j)] = d[i + j]
        BY <1>1, <1>2, <4>1 DEF StandsIn
      <4> QED
        BY <2>0, <4>1, <4>2
    <3>4. StandsIn(d, i, l)
      BY <1>1, <3>2, <3>3 DEF StandsIn
    <3> QED
      BY <1>3, <3>4, NowhereIn
  <2>2. CASE k + g > a + n /\ k <= a + n
    <3>1. PICK j \in 1..g : k + j = a + n + 1
      <4>1. a + n + 1 - k \in 1..g /\ k + (a + n + 1 - k) = a + n + 1
        BY <1>1, <2>2, SMTT(30)
      <4> QED
        BY <4>1
    <3> QED
      BY <1>6, <2>0, <3>1
  <2>3. CASE k = a + n + 1
    <3>1. 1 \in 1..g /\ k + 1 = a + n + 2
      BY <1>1, <2>3
    <3> QED
      BY <1>6, <2>0, <3>1
  <2>4. k <= a + n + 1
    BY <1>1, <1>7
  <2>5. k + g <= a + n \/ (k + g > a + n /\ k <= a + n) \/ k = a + n + 1
    BY <2>4
  <2> QED
    BY <2>1, <2>2, <2>3, <2>5
<1>8. CASE e + g <= c
  <2>1. StandsIn(b, e, l)
    BY <1>2, <1>5, <1>8
  <2>2. PICK i \in Nat \ {0} : i = a + 1 /\ i <= e + 1 /\ i - 1 = a
    <3>1. a + 1 \in Nat \ {0} /\ a + 1 <= e + 1 /\ (a + 1) - 1 = a
      BY <1>1
    <3> QED
      BY <3>1
  <2>3. ASSUME NEW k \in i - 1..e - 1 PROVE ~StandsIn(b, k, l)
    <3>1. k \in Nat /\ a <= k /\ k < e
      BY <2>2
    <3> QED
      BY <1>5, <1>7, <3>1
  <2>5. PICK p \in Seq(BodyBytes) : p = l /\ p # <<>>
    BY <1>3
  <2>6. IsFirstPlace(p, b, i, e)
    BY <2>1, <2>2, <2>3, <2>5 DEF IsFirstPlace
  <2>4. Find(p, b, i) = e + 1
    BY <1>4, <2>5, <2>6, FirstPlaceIs
  <2> QED
    BY <1>1, <1>8, <2>2, <2>4, <2>5
<1>9. CASE ~(e + g <= c)
  <2>1. PICK i \in Nat \ {0} : i = a + 1 /\ i - 1 = a
    <3>1. a + 1 \in Nat \ {0} /\ (a + 1) - 1 = a
      BY <1>1
    <3> QED
      BY <3>1
  <2>2. ASSUME NEW k \in Nat, k >= i - 1 PROVE ~StandsIn(b, k, l)
    <3>1. c \in Nat
      BY <1>3
    <3>2. k + g <= c => k < e
      BY <1>9, <3>1
    <3> QED
      BY <1>5, <1>7, <2>1, <2>2, <3>2
  <2>3. Find(l, b, i) = npos
    BY <1>3, <1>4, <2>2, NoPlace
  <2> QED
    BY <1>1, <1>9, <2>1, <2>3
<1> QED
  BY <1>8, <1>9

LastOf(s, i, e) == Max({i - 1} \cup {k \in i..e : s[k] \notin {CR, LF}})

StripsTo(s, i, e, d) == SubSeq(s, i, LastOf(s, i, e)) = Stripped(d)

LEMMA StrippedIs ==
  ASSUME NEW t, NEW c, NEW m, NEW l, NEW h, NEW d, NEW r, IsLaid(t, c, m, l, h, d, r),
         NextAt(m, l, h, d) + Len(l) <= c
  PROVE  StripsTo(SubSeq(t, 1, c), DataAt(m, l, h) + 1, NextAt(m, l, h, d), d)
<1> PICK b, i, e : b = SubSeq(t, 1, c) /\ i = DataAt(m, l, h) + 1 /\ e = NextAt(m, l, h, d)
  OBVIOUS
<1> SUFFICES SubSeq(b, i, LastOf(b, i, e)) = Stripped(d)
  BY DEF StripsTo
<1>1. PICK a \in Nat, n \in Nat, g \in Nat \ {0} :
        a = DataAt(m, l, h) /\ n = Len(d) /\ e = a + n + 2 /\ i = a + 1 /\ g = Len(l)
  BY LaidIs DEF NextAt
<1>2. StandsIn(t, a, d) /\ StandsIn(t, a + n, CRLF)
  BY <1>1, LaidIs
<1>3. t \in Seq(BodyBytes) /\ c \in 0..Len(t) /\ d \in Seq(BodyBytes) /\ c \in Nat
  BY DEF IsLaid
<1>4. a + n + 2 <= c
  BY <1>1, <1>3
<1>5. b \in Seq(BodyBytes) /\ Len(b) = c
  <2>1. c \in Nat /\ 1 <= c + 1 /\ c <= Len(t) /\ c + 1 - 1 = c
    BY <1>3
  <2> QED
    BY <1>3, <2>1, SubSeqIs
<1>6. StandsIn(b, a, d) /\ StandsIn(b, a + n, CRLF)
  <2>1. PICK w \in Seq(BodyBytes) : w = CRLF /\ Len(w) = 2
    BY LineEndIs
  <2>2. StandsIn(b, a, d)
    <3>1. a + Len(d) <= c
      <4>1. a + n <= c
        BY <1>3, <1>4
      <4> QED
        BY <1>1, <4>1
    <3> QED
      BY <1>2, <1>3, <3>1, StandsInCut
  <2>3. StandsIn(b, a + n, w)
    <3>2. a \in Nat /\ n \in Nat
      BY <1>1
    <3>1. (a + n) + Len(w) <= c /\ a + n \in Nat
      BY <1>4, <2>1, <3>2
    <3> QED
      BY <1>2, <1>3, <2>1, <3>1, StandsInCut
  <2> QED
    BY <2>1, <2>2, <2>3
<1>7. b[a + n + 1] = CR /\ b[a + n + 2] = LF
  <2>1. PICK x : x = CRLF /\ Len(x) = 2 /\ x[1] = CR /\ x[2] = LF
    BY LineEndIs
  <2>2. 1 \in 1..Len(x) /\ 2 \in 1..Len(x)
    BY <2>1
  <2> QED
    BY <1>6, <2>1, <2>2 DEF StandsIn
<1>8. \A j \in 1..n : b[a + j] = d[j]
  BY <1>1, <1>6 DEF StandsIn
<1>9. PICK K \in SUBSET (1..n) : K = {k \in 1..n : d[k] \notin {CR, LF}}
  OBVIOUS
<1>10. PICK x \in 0..n : (x = 0 \/ x \in K) /\ \A k \in K : k <= x
  <2>1. CASE K = {}
    <3>1. 0 \in 0..n
      OBVIOUS
    <3> QED
      BY <2>1, <3>1
  <2>2. CASE K # {}
    <3>1. PICK k \in K : \A j \in K : j <= k
      BY <2>2, Greatest
    <3>2. k \in 0..n
      OBVIOUS
    <3> QED
      BY <3>1, <3>2
  <2> QED
    BY <2>1, <2>2
<1>11. Stripped(d) = SubSeq(d, 1, x)
  <2>1. DOMAIN d = 1..n
    BY <1>1, <1>3
  <2>2. PICK M : M = {0} \cup K
    OBVIOUS
  <2>3. x \in M /\ \A j \in M : j \in Nat /\ j <= x
    BY <1>10, <2>2
  <2>4. Max(M) = x
    BY <2>3, MaxIs
  <2> QED
    BY <1>9, <2>1, <2>2, <2>4 DEF Stripped
<1>12. LastOf(b, i, e) = a + x
  <2>1. PICK M : M = {i - 1} \cup {k \in i..e : b[k] \notin {CR, LF}}
    OBVIOUS
  <2>2. i - 1 = a
    BY <1>1
  <2>3. a + x \in M
    <3>1. CASE x = 0
      BY <2>1, <2>2, <3>1
    <3>2. CASE x \in K
      <4>1. x \in 1..n /\ b[a + x] = d[x] /\ d[x] \notin {CR, LF}
        BY <1>8, <1>9, <3>2
      <4>3. a \in Nat /\ n \in Nat /\ i = a + 1 /\ e = a + n + 2
        BY <1>1
      <4>2. a + x \in i..e
        BY <4>1, <4>3
      <4> QED
        BY <2>1, <4>1, <4>2
    <3> QED
      BY <1>10, <3>1, <3>2
  <2>4. ASSUME NEW j \in M PROVE j \in Nat /\ j <= a + x
    <3>1. CASE j = a
      BY <3>1
    <3>2. CASE j \in i..e /\ b[j] \notin {CR, LF}
      <4>1. j \in Nat /\ a + 1 <= j /\ j <= a + n + 2
        BY <1>1, <3>2
      <4>2. j # a + n + 1 /\ j # a + n + 2
        BY <1>7, <3>2
      <4>3. PICK q \in 1..n : q = j - a /\ j = a + q
        <5>1. j - a \in 1..n /\ j = a + (j - a)
          BY <4>1, <4>2
        <5> QED
          BY <5>1
      <4>4. q \in K
        BY <1>8, <1>9, <3>2, <4>3
      <4>5. q <= x
        BY <1>10, <4>4
      <4> QED
        BY <4>1, <4>3, <4>5
    <3> QED
      BY <2>1, <2>2, <3>1, <3>2
  <2>5. Max(M) = a + x
    BY <2>3, <2>4, MaxIs
  <2> QED
    BY <2>1, <2>5 DEF LastOf
<1>13. SubSeq(b, a + 1, a + x) = SubSeq(d, 1, x)
  <2>1. PICK f \in Nat \ {0}, z \in Nat, o \in Nat \ {0} : f = a + 1 /\ z = a + x /\ o = 1
    <3>1. a + 1 \in Nat \ {0} /\ a + x \in Nat /\ 1 \in Nat \ {0}
      OBVIOUS
    <3> QED
      BY <3>1
  <2>10. f <= z + 1 /\ z + 1 - f = x /\ o <= x + 1 /\ x + 1 - o = x /\ x \in Nat /\ x <= n
    BY <2>1
  <2>11. z <= c
    BY <1>3, <1>4, <2>1
  <2>2. f <= z + 1 /\ z <= Len(b) /\ z + 1 - f = x /\ o <= x + 1 /\ x <= Len(d) /\ x + 1 - o = x /\ x \in Nat
    BY <1>1, <1>5, <2>10, <2>11
  <2>3. PICK v : v = SubSeq(b, f, z)
    OBVIOUS
  <2>4. PICK w : w = SubSeq(d, o, x)
    OBVIOUS
  <2>5. v \in Seq(BodyBytes) /\ Len(v) = x /\ \A j \in 1..x : v[j] = b[f + j - 1]
    BY <1>5, <2>2, <2>3, SubSeqIs
  <2>6. w \in Seq(BodyBytes) /\ Len(w) = x /\ \A j \in 1..x : w[j] = d[o + j - 1]
    BY <1>3, <2>2, <2>4, SubSeqIs
  <2>7. \A j \in 1..x : f + j - 1 = a + j /\ o + j - 1 = j /\ j \in 1..n
    BY <2>1
  <2>8. Len(v) = Len(w) /\ \A j \in 1..Len(v) : v[j] = w[j]
    BY <1>8, <2>5, <2>6, <2>7
  <2>9. v = w
    BY <2>5, <2>6, <2>8, SeqEqual
  <2> QED
    BY <2>1, <2>3, <2>4, <2>9
<1> QED
  BY <1>1, <1>11, <1>12, <1>13

-------------------------------------------------------------------------------
(* Where a boundary line stands behind from, and what is known of a part   *)
(* whose data are the body's bytes from from to to.                        *)
PartWithin(line, body, from, to, bytes) ==
  /\ from \in 1..Len(body) + 1 /\ to \in Nat /\ from <= to + 1
  /\ bytes = SubSeq(body, from, to)
  /\ Find(line, SubSeq(body, from, to), 1) = npos
  /\ Find(line, body, from) \in Nat /\ Find(line, body, from) > to

PartsApart(line, body, list) ==
  \A k \in 1..Len(list) - 1 : list[k + 1][1] >= Find(line, body, list[k][1]) + Len(line)

PartsIn(line, body, list, parts) ==
  /\ list \in Seq(Nat \X Nat) /\ Len(list) = Len(parts)
  /\ \A k \in 1..Len(list) : PartWithin(line, body, list[k][1], list[k][2], parts[k].data)
  /\ PartsApart(line, body, list)

Behind(line, body, list, p) ==
  list # <<>> => p >= Find(line, body, list[Len(list)][1]) + Len(line)

(* Each part found so far, the loop's place behind the last of them, and   *)
(* the splitter at work on the headers of the next one only.               *)
UploadOfBytes == upload.type \in Seq(BodyBytes) /\ upload.body \in Seq(BodyBytes)

UploadTyped ==
  /\ UploadOfBytes /\ boundary \in Seq(BodyBytes) /\ pos \in 1..Len(buf) + 1
  /\ \E X : req \in [is_multipart_formdata : BOOLEAN, multipart_formdata : Seq(X), content : Seq(BodyBytes)]

PartsFound == PartsIn(boundary_line, buf, spans, req.multipart_formdata)

PartsPhase ==
  /\ pc \in {"type", "first"} => spans = <<>>
  /\ pc = "headers" => AnotherPart /\ SplitsHeaders
  /\ pc # "headers" => Splitter!Ready
  /\ pc \in {"parts", "headers"} => Behind(boundary_line, buf, spans, pos)

WithinBody == UploadTyped /\ PartsFound /\ PartsPhase

LEMMA UploadIs ==
  ASSUME UploadOfBytes
  PROVE  /\ upload.type \in Seq(BodyBytes) /\ buf \in Seq(BodyBytes)
         /\ Len(upload.type) \in Nat /\ Len(buf) \in Nat
BY DEF UploadOfBytes, buf

LEMMA BoundaryLineIs ==
  ASSUME boundary \in Seq(BodyBytes)
  PROVE  boundary_line \in Seq(BodyBytes) /\ Len(boundary_line) \in Nat /\ Len(boundary_line) >= 2
<1>1. Dash \in BodyBytes
  BY LineTokens
<1>2. \A S : \A c \in S : <<c, c>> \in Seq(S) /\ Len(<<c, c>>) = 2
  OBVIOUS
<1>3. PICK d \in Seq(BodyBytes) : d = <<Dash, Dash>> /\ Len(d) = 2
  BY <1>1, <1>2, Zenon
<1>4. \A u \in Seq(BodyBytes), v \in Seq(BodyBytes) : u \o v \in Seq(BodyBytes) /\ Len(u \o v) = Len(u) + Len(v)
  BY ConcatProperties
<1>5. PICK l : l = d \o boundary
  OBVIOUS
<1>6. l \in Seq(BodyBytes) /\ Len(l) = 2 + Len(boundary)
  BY <1>3, <1>4, <1>5
<1>7. Len(boundary) \in Nat
  OBVIOUS
<1>8. l = boundary_line
  BY <1>3, <1>5 DEF boundary_line
<1> QED
  BY <1>6, <1>7, <1>8

LEMMA PartIsWithin ==
  ASSUME NEW S, NEW s \in Seq(S), NEW line, Len(line) \in Nat \ {0},
         NEW d \in 1..Len(s), NEW n, n = Find(line, s, d), n # npos,
         NEW e, \E K \in SUBSET (d..n - 1) : e = Max({d - 1} \cup K)
  PROVE  n \in d..Len(s) /\ e \in Nat /\ PartWithin(line, s, d, e, SubSeq(s, d, e))
<1>1. Len(s) \in Nat /\ d \in Nat \ {0} /\ npos = 0
  BY DEF npos
<1>2. n \in d..Len(s) /\ \A i \in d..n - 1 : ~Occurs(line, s, i)
  BY <1>1, FindIsFirst
<1>3. e \in d - 1..n - 1
  <2>1. PICK K \in SUBSET (d..n - 1) : e = Max({d - 1} \cup K)
    OBVIOUS
  <2>2. PICK T : T = {d - 1} \cup K
    OBVIOUS
  <2>3. T # {} /\ \A k \in T : k \in 0..n /\ k \in d - 1..n - 1
    BY <1>1, <1>2, <2>1, <2>2
  <2>4. Max(T) \in T
    <3>1. PICK U : U = {k + 1 : k \in T}
      OBVIOUS
    <3>2. U \in SUBSET (1..n + 1) /\ U # {} /\ n + 1 \in Nat
      BY <1>1, <1>2, <2>3, <3>1
    <3>3. PICK u \in U : \A j \in U : j <= u
      BY <3>2, Greatest
    <3>4. PICK k \in T : u = k + 1
      BY <3>1
    <3>5. \A j \in T : j <= k
      <4>1. ASSUME NEW j \in T PROVE j <= k
        <5>1. j + 1 <= u
          BY <3>1, <3>3
        <5> QED
          BY <2>3, <3>4, <5>1
      <4> QED
        BY <4>1
    <3> QED
      BY <3>5 DEF Max
  <2> QED
    BY <2>1, <2>2, <2>3, <2>4
<1>4. e \in Nat /\ d <= e + 1 /\ e <= Len(s) /\ e < n
  BY <1>1, <1>2, <1>3
<1>5. Find(line, SubSeq(s, d, e), 1) = npos
  <2>1. PICK t \in Seq(S) : t = SubSeq(s, d, e)
    BY <1>1, <1>4, SubSeqIs
  <2>2. Len(t) \in Nat /\ 1 \in Nat \ {0}
    OBVIOUS
  <2>3. CASE Find(line, t, 1) # npos
    <3>1. Find(line, t, 1) \in 1..Len(t) /\ Occurs(line, t, Find(line, t, 1))
      BY <2>2, <2>3, FindIsFirst
    <3>2. PICK m \in 1..Len(t) : Occurs(line, t, m)
      BY <3>1
    <3>3. Occurs(line, s, d + m - 1) /\ d + m - 1 \in d..e
      BY <1>1, <1>4, <2>1, <3>2, OccursInPart
    <3>4. d + m - 1 \in d..n - 1
      BY <1>1, <1>2, <1>4, <3>3
    <3> QED
      BY <1>2, <3>3, <3>4
  <2> QED
    BY <2>1, <2>3
<1>6. d \in 1..Len(s) + 1 /\ n \in Nat
  BY <1>1, <1>2
<1> QED
  BY <1>2, <1>4, <1>5, <1>6 DEF PartWithin

LEMMA SkipLineEndIs ==
  ASSUME Len(buf) \in Nat, NEW p \in 1..Len(buf) + 1
  PROVE  SkipLineEnd(p) \in p..Len(buf) + 1
<1>1. p \in Nat
  OBVIOUS
<1> QED
  BY <1>1 DEF SkipLineEnd

(* What the loop has found when there is another part.                     *)
LEMMA AnotherPartIs ==
  ASSUME UploadOfBytes, boundary \in Seq(BodyBytes), pos \in 1..Len(buf) + 1, AnotherPart
  PROVE  /\ DataStart \in pos..Len(buf) /\ Headers \in Seq(BodyBytes)
         /\ NextBoundary = Find(boundary_line, buf, DataStart) /\ NextBoundary # npos
         /\ NextBoundary \in DataStart..Len(buf)
         /\ NextBoundary + Len(boundary_line) \in 1..Len(buf) + 1
<1>1. buf \in Seq(BodyBytes) /\ Len(buf) \in Nat /\ pos \in Nat \ {0}
  BY UploadIs
<1>2. PICK h : h = HeaderEnd
  OBVIOUS
<1>3. PICK p : p = CRLF \o CRLF
  OBVIOUS
<1>4. Len(p) = 4 /\ Len(p) \in Nat
  <2>1. PICK u \in Seq(BodyBytes) : u = CRLF /\ Len(u) = 2
    BY LineEnd
  <2>2. Len(u \o u) = Len(u) + Len(u)
    BY ConcatProperties
  <2> QED
    BY <1>3, <2>1, <2>2
<1>5. h \in pos..Len(buf) /\ h + 4 <= Len(buf) + 1
  <2>1. h = Find(p, buf, pos) /\ h # npos
    BY <1>2, <1>3 DEF HeaderEnd, AnotherPart
  <2>2. Find(p, buf, pos) = npos \/ (Find(p, buf, pos) \in pos..Len(buf) /\ Find(p, buf, pos) + Len(p) <= Len(buf) + 1)
    BY <1>1, <1>4, FindIs
  <2> QED
    BY <1>4, <2>1, <2>2
<1>6. PICK d : d = DataStart
  OBVIOUS
<1>7. d = h + 4 /\ d \in Nat \ {0} /\ d >= pos
  BY <1>1, <1>2, <1>5, <1>6 DEF DataStart
<1>8. PICK n : n = NextBoundary
  OBVIOUS
<1>9. n = Find(boundary_line, buf, d) /\ n # npos
  BY <1>6, <1>8 DEF NextBoundary, AnotherPart
<1>10. n \in d..Len(buf) /\ n + Len(boundary_line) <= Len(buf) + 1
  BY <1>1, <1>7, <1>9, BoundaryLineIs, FindIs
<1>11. d \in pos..Len(buf)
  BY <1>1, <1>7, <1>10
<1>12. n + Len(boundary_line) \in 1..Len(buf) + 1
  BY <1>1, <1>7, <1>10, BoundaryLineIs
<1>13. Headers \in Seq(BodyBytes)
  <2>1. PICK e \in Nat : e = h - 1 /\ pos <= e + 1 /\ e <= Len(buf)
    BY <1>1, <1>5
  <2>2. SubSeq(buf, pos, e) \in Seq(BodyBytes)
    BY <1>1, <2>1, SubSeqIs
  <2> QED
    BY <1>2, <2>1, <2>2 DEF Headers
<1> QED
  BY <1>6, <1>8, <1>9, <1>10, <1>11, <1>12, <1>13

-------------------------------------------------------------------------------
(* Every step.                                                             *)
LEMMA FormUpload ==
  ASSUME NEW f \in Forms
  PROVE  /\ FormType(f) \in Seq(BodyBytes) /\ FormText(f) \in Seq(BodyBytes)
         /\ f.bytes \in 0..Len(FormText(f))
         /\ SubSeq(FormText(f), 1, f.bytes) \in Seq(BodyBytes)
         /\ Len(SubSeq(FormText(f), 1, f.bytes)) = f.bytes
<1>1. IsForm(f)
  BY FormIs
<1>2. Len(f.parts) \in Nat /\ f.bytes \in 0..Len(FormText(f))
  BY <1>1 DEF IsForm
<1>3. PICK from : IsFormText(from, f) /\ FormText(f) = from[1]
  BY <1>2, FormTextIs
<1>4. PICK t \in Seq(BodyBytes) : t = FormText(f)
  <2>1. 1 \in 1..Len(f.parts) + 1
    BY <1>2
  <2> QED
    BY <1>1, <1>3, <2>1, FormTextType
<1>5. PICK c \in Nat : c = f.bytes /\ c <= Len(t) /\ 1 <= c + 1 /\ c + 1 - 1 = c
  BY <1>2, <1>4
<1>6. SubSeq(t, 1, c) \in Seq(BodyBytes) /\ Len(SubSeq(t, 1, c)) = c
  BY <1>5, SubSeqIs
<1> QED
  BY <1>1, <1>2, <1>4, <1>5, <1>6, FormTypeIs

LEMMA UploadInit ==
  ASSUME MultipartInit
  PROVE  UploadOfBytes
<1>1. CASE form \in Forms /\ upload = [type |-> FormType(form), body |-> SubSeq(FormText(form), 1, form.bytes)]
  <2>1. upload.type = FormType(form) /\ upload.body = SubSeq(FormText(form), 1, form.bytes)
    BY <1>1
  <2> QED
    BY <1>1, <2>1, FormUpload DEF UploadOfBytes
<1>2. CASE upload \in Others
  <2>1. upload.type \in Seq(STRING) /\ upload.body \in Seq(STRING)
    BY <1>2, OthersAssumption
  <2>2. STRING \subseteq BodyBytes
    BY DEF BodyBytes
  <2> QED
    BY <2>1, <2>2, Wider DEF UploadOfBytes
<1> QED
  BY <1>1, <1>2 DEF MultipartInit

LEMMA WithinBodyInit ==
  ASSUME MultipartInit
  PROVE  WithinBody
<1>0. UploadOfBytes
  BY UploadInit
<1>1. /\ UploadOfBytes /\ pc = "type" /\ boundary = <<>> /\ pos = 1 /\ spans = <<>>
      /\ req = [is_multipart_formdata |-> FALSE, multipart_formdata |-> <<>>, content |-> <<>>]
      /\ Splitter!Ready
  BY <1>0 DEF MultipartInit
<1>2. Len(buf) \in Nat
  BY <1>1, UploadIs
<1>3. UploadTyped
  <2>1. <<>> \in Seq({}) /\ <<>> \in Seq(BodyBytes)
    OBVIOUS
  <2>2. req \in [is_multipart_formdata : BOOLEAN, multipart_formdata : Seq({}), content : Seq(BodyBytes)]
    BY <1>1, <2>1
  <2>3. 1 \in 1..Len(buf) + 1
    BY <1>2
  <2> QED
    BY <1>1, <2>1, <2>2, <2>3 DEF UploadTyped
<1>4. PartsFound
  <2>1. <<>> \in Seq(Nat \X Nat) /\ Len(<<>>) = 0
    OBVIOUS
  <2>2. req.multipart_formdata = <<>>
    BY <1>1
  <2> QED
    BY <1>1, <2>1, <2>2 DEF PartsFound, PartsIn, PartsApart
<1> QED
  BY <1>1, <1>3, <1>4 DEF WithinBody, PartsPhase

(* The steps that leave the parts alone. *)
LEMMA PartsStay ==
  ASSUME PartsFound, UNCHANGED <<form, upload, boundary, spans>>,
         req'.multipart_formdata = req.multipart_formdata
  PROVE  PartsFound'
<1>1. buf' = buf /\ boundary_line' = boundary_line
  BY DEF buf, boundary_line
<1>2. spans' = spans
  OBVIOUS
<1> QED
  BY <1>1, <1>2 DEF PartsFound

LEMMA ContentStep ==
  ASSUME WithinBody, ParseContent
  PROVE  WithinBody'
<1>1. /\ pc = "type" /\ pc' = "accepted" /\ req' = [req EXCEPT !.content = buf]
      /\ UNCHANGED <<form, upload, boundary, pos, splitter, spans>>
  BY DEF ParseContent
<1>2. buf' = buf /\ boundary_line' = boundary_line /\ buf \in Seq(BodyBytes)
  BY <1>1, UploadIs DEF buf, boundary_line, WithinBody, UploadTyped, UploadOfBytes
<1>3. PICK X : req \in [is_multipart_formdata : BOOLEAN, multipart_formdata : Seq(X), content : Seq(BodyBytes)]
  BY DEF WithinBody, UploadTyped, UploadOfBytes
<1>4. /\ req' \in [is_multipart_formdata : BOOLEAN, multipart_formdata : Seq(X), content : Seq(BodyBytes)]
      /\ req'.multipart_formdata = req.multipart_formdata
  BY <1>1, <1>2, <1>3
<1>5. UploadTyped'
  BY <1>1, <1>2, <1>4 DEF WithinBody, UploadTyped, UploadOfBytes
<1>6. PartsFound'
  BY <1>1, <1>4, PartsStay DEF WithinBody
<1>7. PartsPhase'
  BY <1>1 DEF WithinBody, PartsPhase, splitter, Splitter!Ready, Splitter!Start
<1> QED
  BY <1>5, <1>6, <1>7 DEF WithinBody

LEMMA NoBoundaryStep ==
  ASSUME WithinBody, ParseNoBoundary
  PROVE  WithinBody'
<1>1. /\ pc = "type" /\ pc' = "refused" /\ req' = [req EXCEPT !.is_multipart_formdata = TRUE]
      /\ UNCHANGED <<form, upload, boundary, pos, splitter, spans>>
  BY DEF ParseNoBoundary
<1>2. buf' = buf
  BY <1>1 DEF buf
<1>3. PICK X : req \in [is_multipart_formdata : BOOLEAN, multipart_formdata : Seq(X), content : Seq(BodyBytes)]
  BY DEF WithinBody, UploadTyped, UploadOfBytes
<1>4. /\ req' \in [is_multipart_formdata : BOOLEAN, multipart_formdata : Seq(X), content : Seq(BodyBytes)]
      /\ req'.multipart_formdata = req.multipart_formdata
  BY <1>1, <1>3
<1>5. UploadTyped'
  BY <1>1, <1>2, <1>4 DEF WithinBody, UploadTyped, UploadOfBytes
<1>6. PartsFound'
  BY <1>1, <1>4, PartsStay DEF WithinBody
<1>7. PartsPhase'
  BY <1>1 DEF WithinBody, PartsPhase, splitter, Splitter!Ready, Splitter!Start
<1> QED
  BY <1>5, <1>6, <1>7 DEF WithinBody

LEMMA BoundaryOfIs ==
  ASSUME NEW S, NEW t \in Seq(S)
  PROVE  BoundaryOf(t) \in Seq(S)
<1>1. Len(t) \in Nat
  OBVIOUS
<1>2. PICK from : from = Find(<<Boundary>>, t, 1) + 1
  OBVIOUS
<1>3. PICK K \in SUBSET (from..Len(t)) : K = {k \in from..Len(t) : t[k] \in {Semicolon, Blank}}
  OBVIOUS
<1>4. Len(<<Boundary>>) = 1
  OBVIOUS
<1>5. PICK p : p = <<Boundary>> /\ Len(p) = 1
  BY <1>4
<1>6. Find(p, t, 1) = npos \/ Find(p, t, 1) \in 1..Len(t)
  BY <1>1, <1>5, FindIs
<1>7. from \in 1..Len(t) + 1
  BY <1>1, <1>2, <1>5, <1>6 DEF npos
<1>8. PICK e : e = Min(K \cup {Len(t) + 1})
  OBVIOUS
<1>9. e \in from..Len(t) + 1
  <2> DEFINE stops == K \cup {Len(t) + 1}
  <2>1. stops \in SUBSET Nat /\ stops # {} /\ stops \in SUBSET (from..Len(t) + 1)
    <3>1. \A k \in K : k \in from..Len(t)
      OBVIOUS
    <3>2. PICK m \in Nat : m = Len(t) + 1
      BY <1>1
    <3>3. \A k \in K : k \in Nat /\ k \in from..m
      BY <1>1, <1>7, <3>1, <3>2
    <3>4. m \in from..m
      BY <1>1, <1>7, <3>2
    <3>5. K \cup {m} # {} /\ \A k \in K \cup {m} : k \in Nat /\ k \in from..m
      BY <3>2, <3>3, <3>4
    <3> QED
      BY <3>2, <3>5
  <2> HIDE DEF stops
  <2>2. \E n \in stops : \A j \in stops : n <= j
    BY <2>1, Least
  <2> QED
    BY <1>8, <2>1, <2>2 DEF Min, stops
<1>10. PICK f \in Nat : f = e - 1 /\ from <= f + 1 /\ f <= Len(t) /\ from \in Nat \ {0}
  BY <1>1, <1>7, <1>9
<1>11. SubSeq(t, from, f) \in Seq(S)
  BY <1>10, SubSeqIs
<1>12. BoundaryOf(t) = SubSeq(t, from, e - 1)
  BY <1>2, <1>3, <1>8, Zenon DEF BoundaryOf
<1> QED
  BY <1>10, <1>11, <1>12

LEMMA BoundaryStep ==
  ASSUME WithinBody, ParseBoundary
  PROVE  WithinBody'
<1>1. /\ pc = "type" /\ pc' = "first" /\ req' = [req EXCEPT !.is_multipart_formdata = TRUE]
      /\ boundary' = BoundaryOf(upload.type)
      /\ UNCHANGED <<form, upload, pos, splitter, spans>>
  BY DEF ParseBoundary
<1>2. buf' = buf /\ upload.type \in Seq(BodyBytes)
  BY <1>1, UploadIs DEF buf, WithinBody, UploadTyped, UploadOfBytes
<1>3. PICK X : req \in [is_multipart_formdata : BOOLEAN, multipart_formdata : Seq(X), content : Seq(BodyBytes)]
  BY DEF WithinBody, UploadTyped, UploadOfBytes
<1>4. /\ req' \in [is_multipart_formdata : BOOLEAN, multipart_formdata : Seq(X), content : Seq(BodyBytes)]
      /\ req'.multipart_formdata = req.multipart_formdata
  BY <1>1, <1>3
<1>5. boundary' \in Seq(BodyBytes)
  BY <1>1, <1>2, BoundaryOfIs
<1>6. UploadTyped'
  BY <1>1, <1>2, <1>4, <1>5 DEF WithinBody, UploadTyped, UploadOfBytes
<1>7. spans = <<>> /\ spans' = <<>> /\ Len(spans) = 0
  BY <1>1 DEF WithinBody, PartsPhase
<1>8. PartsFound'
  BY <1>4, <1>7 DEF WithinBody, PartsFound, PartsIn, PartsApart
<1>9. PartsPhase'
  BY <1>1, <1>7 DEF WithinBody, PartsPhase, splitter, Splitter!Ready, Splitter!Start
<1> QED
  BY <1>6, <1>8, <1>9 DEF WithinBody

LEMMA FirstStep ==
  ASSUME WithinBody, FirstBoundary
  PROVE  WithinBody'
<1>1. pc = "first" /\ spans = <<>> /\ UNCHANGED <<form, upload, req, boundary, splitter, spans>>
  BY DEF FirstBoundary, WithinBody, PartsPhase
<1>2. buf' = buf /\ boundary_line' = boundary_line /\ req' = req
  BY <1>1 DEF buf, boundary_line
<1>3. buf \in Seq(BodyBytes) /\ Len(buf) \in Nat /\ boundary \in Seq(BodyBytes) /\ pos \in 1..Len(buf) + 1
  BY UploadIs DEF WithinBody, UploadTyped, UploadOfBytes
<1>4. pc' \in {"refused", "parts"} /\ pos' \in 1..Len(buf) + 1
  <2>1. PICK at : at = Find(boundary_line, buf, 1)
    OBVIOUS
  <2>2. CASE at = npos
    BY <1>3, <2>1, <2>2 DEF FirstBoundary
  <2>3. CASE at # npos
    <3>1. pc' = "parts" /\ pos' = SkipLineEnd(at + Len(boundary_line))
      BY <2>1, <2>3 DEF FirstBoundary
    <3>2. at \in 1..Len(buf) /\ at + Len(boundary_line) <= Len(buf) + 1
      BY <1>3, <2>1, <2>3, BoundaryLineIs, FindIs
    <3>3. PICK p \in 1..Len(buf) + 1 : p = at + Len(boundary_line)
      BY <1>3, <3>2, BoundaryLineIs
    <3>4. SkipLineEnd(p) \in p..Len(buf) + 1
      BY <1>3, SkipLineEndIs
    <3> QED
      BY <1>3, <3>1, <3>3, <3>4
  <2> QED
    BY <2>2, <2>3
<1>5. UploadTyped'
  BY <1>1, <1>2, <1>4 DEF WithinBody, UploadTyped, UploadOfBytes
<1>6. PartsFound'
  BY <1>1, PartsStay DEF WithinBody
<1>7. PartsPhase'
  BY <1>1, <1>4 DEF WithinBody, PartsPhase, Behind, splitter, Splitter!Ready, Splitter!Start
<1> QED
  BY <1>5, <1>6, <1>7 DEF WithinBody

(* What UNCHANGED says of the definitions that say where the loop is. *)
LEMMA SamePlace ==
  ASSUME UNCHANGED <<form, upload, boundary, pos>>
  PROVE  /\ buf' = buf /\ boundary_line' = boundary_line /\ Headers' = Headers
         /\ (AnotherPart <=> AnotherPart')
<1>1. buf' = buf /\ boundary_line' = boundary_line /\ pos' = pos
  BY DEF buf, boundary_line
<1>2. HeaderEnd' = HeaderEnd
  BY <1>1 DEF HeaderEnd
<1>3. DataStart' = DataStart
  BY <1>2 DEF DataStart
<1>4. NextBoundary' = NextBoundary
  BY <1>1, <1>3 DEF NextBoundary
<1>5. Headers' = Headers
  BY <1>1, <1>2 DEF Headers
<1> QED
  BY <1>1, <1>2, <1>4, <1>5 DEF AnotherPart

LEMMA HeadersToSplit ==
  ASSUME Headers \in Seq(BodyBytes), Splitter!Ready
  PROVE  SplitsHeaders
<1>1. PICK s \in Seq(BodyBytes) : s = Headers
  OBVIOUS
<1>2. PICK p : p = CRLF
  OBVIOUS
<1>3. Len(p) \in Nat \ {0}
  BY <1>2, LineEnd
<1>4. Splits(BodyBytes, s, p, 1, "count", 0, <<>>)
  BY <1>3, SplitsFromStart
<1>5. data.current_pos = 1 /\ pass = "count" /\ total = 0 /\ vec = <<>>
  BY DEF Splitter!Ready, Splitter!Start
<1> QED
  BY <1>1, <1>2, <1>4, <1>5 DEF SplitsHeaders

LEMMA FindPartStep ==
  ASSUME WithinBody, FindPart
  PROVE  WithinBody'
<1>1. /\ pc = "parts" /\ pc' = "headers" /\ AnotherPart
      /\ UNCHANGED <<form, upload, req, boundary, pos, splitter, spans>>
  BY DEF FindPart
<1>2. /\ buf' = buf /\ boundary_line' = boundary_line /\ Headers' = Headers /\ AnotherPart'
  BY <1>1, SamePlace
<1>3. UploadTyped'
  BY <1>1, <1>2 DEF WithinBody, UploadTyped, UploadOfBytes
<1>4. PartsFound'
  BY <1>1, PartsStay DEF WithinBody
<1>5. SplitsHeaders
  BY <1>1, AnotherPartIs, HeadersToSplit DEF WithinBody, UploadTyped, PartsPhase
<1>6. SplitsHeaders'
  BY <1>1, <1>2, <1>5 DEF SplitsHeaders, splitter
<1>7. Behind(boundary_line, buf, spans, pos)'
  BY <1>1, <1>2 DEF WithinBody, PartsPhase
<1>8. PartsPhase'
  BY <1>1, <1>2, <1>6, <1>7 DEF PartsPhase
<1> QED
  BY <1>3, <1>4, <1>8 DEF WithinBody

LEMMA SplitHeadersStep ==
  ASSUME WithinBody, SplitHeaders
  PROVE  WithinBody'
<1>1. /\ pc = "headers" /\ pc' = "headers" /\ Splitter!SplitStep
      /\ UNCHANGED <<form, upload, req, boundary, pos, spans>>
  BY DEF SplitHeaders
<1>2. /\ buf' = buf /\ boundary_line' = boundary_line /\ Headers' = Headers
      /\ (AnotherPart <=> AnotherPart')
  BY <1>1, SamePlace
<1>3. UploadTyped'
  BY <1>1, <1>2 DEF WithinBody, UploadTyped, UploadOfBytes
<1>4. PartsFound'
  BY <1>1, PartsStay DEF WithinBody
<1>5. AnotherPart /\ SplitsHeaders /\ Headers \in Seq(BodyBytes)
  BY <1>1, AnotherPartIs DEF WithinBody, UploadTyped, PartsPhase
<1>6. SplitsHeaders'
  BY <1>1, <1>2, <1>5, SplitterStep
<1>7. Behind(boundary_line, buf, spans, pos)'
  BY <1>1, <1>2 DEF WithinBody, PartsPhase
<1>8. PartsPhase'
  BY <1>1, <1>2, <1>5, <1>6, <1>7 DEF PartsPhase
<1> QED
  BY <1>3, <1>4, <1>8 DEF WithinBody

LEMMA NoMorePartsStep ==
  ASSUME WithinBody, NoMoreParts
  PROVE  WithinBody'
<1>1. /\ pc = "parts" /\ pc' = "accepted"
      /\ UNCHANGED <<form, upload, req, boundary, pos, splitter, spans>>
  BY DEF NoMoreParts
<1>2. buf' = buf
  BY <1>1 DEF buf
<1>3. UploadTyped'
  BY <1>1, <1>2 DEF WithinBody, UploadTyped, UploadOfBytes
<1>4. PartsFound'
  BY <1>1, PartsStay DEF WithinBody
<1>5. PartsPhase'
  BY <1>1 DEF WithinBody, PartsPhase, splitter, Splitter!Ready, Splitter!Start
<1> QED
  BY <1>3, <1>4, <1>5 DEF WithinBody

(* A list of parts and one part more. *)
CanFollow(line, body, list, parts, from, to, part, p) ==
  /\ Len(body) \in Nat /\ Len(line) \in Nat
  /\ PartsIn(line, body, list, parts) /\ \E X : parts \in Seq(X)
  /\ from \in Nat /\ to \in Nat /\ PartWithin(line, body, from, to, part.data)
  /\ p \in Nat /\ Behind(line, body, list, p) /\ from >= p

LEMMA OnePartMore ==
  ASSUME NEW body, NEW line, NEW list, NEW parts, NEW from, NEW to, NEW part, NEW p,
         CanFollow(line, body, list, parts, from, to, part, p)
  PROVE  /\ PartsIn(line, body, Append(list, <<from, to>>), Append(parts, part))
         /\ \E Y : Append(parts, part) \in Seq(Y)
         /\ Append(list, <<from, to>>) # <<>>
         /\ Append(list, <<from, to>>)[Len(Append(list, <<from, to>>))][1] = from
<1> USE DEF CanFollow
<1> PICK X : parts \in Seq(X)
  OBVIOUS
<1> PICK more : more = Append(list, <<from, to>>)
  OBVIOUS
<1> PICK all : all = Append(parts, part)
  OBVIOUS
<1>0. /\ list \in Seq(Nat \X Nat) /\ Len(list) = Len(parts)
      /\ \A k \in 1..Len(list) : PartWithin(line, body, list[k][1], list[k][2], parts[k].data)
      /\ PartsApart(line, body, list)
  BY DEF PartsIn
<1>1. PICK n \in Nat : n = Len(list) /\ n = Len(parts)
  <2>1. Len(list) \in Nat
    BY <1>0
  <2> QED
    BY <1>0, <2>1
<1>2. PICK span \in Nat \X Nat : span = <<from, to>> /\ span[1] = from /\ span[2] = to
  <2>1. <<from, to>> \in Nat \X Nat /\ <<from, to>>[1] = from /\ <<from, to>>[2] = to
    OBVIOUS
  <2> QED
    BY <2>1
<1>3. /\ more \in Seq(Nat \X Nat) /\ Len(more) = n + 1 /\ more[n + 1] = span
      /\ \A k \in 1..n : more[k] = list[k]
  <2>1. /\ Append(list, span) \in Seq(Nat \X Nat) /\ Len(Append(list, span)) = Len(list) + 1
        /\ \A k \in 1..Len(list) : Append(list, span)[k] = list[k]
        /\ Append(list, span)[Len(list) + 1] = span
    BY <1>0, AppendProperties
  <2> QED
    BY <1>1, <1>2, <2>1
<1>4. PICK Y : Y = X \cup {part}
  OBVIOUS
<1>5. parts \in Seq(Y) /\ part \in Y
  <2>1. \A k \in 1..Len(parts) : parts[k] \in X
    OBVIOUS
  <2>2. \A k \in 1..Len(parts) : parts[k] \in Y
    BY <1>4, <2>1
  <2>3. parts \in Seq(Y)
    BY <2>2, ElementsIn
  <2> QED
    BY <1>4, <2>3
<1>6. /\ all \in Seq(Y) /\ Len(all) = n + 1 /\ all[n + 1] = part
      /\ \A k \in 1..n : all[k] = parts[k]
  <2>1. /\ Append(parts, part) \in Seq(Y) /\ Len(Append(parts, part)) = Len(parts) + 1
        /\ \A k \in 1..Len(parts) : Append(parts, part)[k] = parts[k]
        /\ Append(parts, part)[Len(parts) + 1] = part
    BY <1>5, AppendProperties
  <2> QED
    BY <1>1, <2>1
<1>7. ASSUME NEW k \in 1..Len(more)
      PROVE  PartWithin(line, body, more[k][1], more[k][2], all[k].data)
  <2>1. CASE k \in 1..n
    BY <1>0, <1>1, <1>3, <1>6, <2>1
  <2>2. CASE k = n + 1
    BY <1>2, <1>3, <1>6, <2>2
  <2>3. k \in 1..n \/ k = n + 1
    <3>1. Len(more) = n + 1 /\ n \in Nat
      BY <1>1, <1>3
    <3> QED
      BY <3>1
  <2> QED
    BY <2>1, <2>2, <2>3
<1>8. ASSUME NEW k \in 1..Len(more) - 1
      PROVE  more[k + 1][1] >= Find(line, body, more[k][1]) + Len(line)
  <2>1. k \in 1..n /\ more[k] = list[k]
    <3>1. Len(more) = n + 1 /\ \A j \in 1..n : more[j] = list[j]
      BY <1>3
    <3>2. k \in 1..n
      BY <3>1
    <3> QED
      BY <3>1, <3>2
  <2>2. CASE k \in 1..n - 1
    <3>1. k + 1 \in 1..n
      BY <2>2
    <3>2. more[k + 1] = list[k + 1]
      BY <1>3, <3>1
    <3>3. list[k + 1][1] >= Find(line, body, list[k][1]) + Len(line)
      BY <1>0, <1>1, <2>2 DEF PartsApart
    <3> QED
      BY <2>1, <3>2, <3>3
  <2>3. CASE k = n
    <3>1. list # <<>>
      BY <1>0, <1>1, <2>1, <2>3
    <3>2. p >= Find(line, body, list[k][1]) + Len(line)
      BY <1>1, <2>3, <3>1 DEF Behind
    <3>3. more[k + 1][1] = from
      BY <1>2, <1>3, <2>3
    <3>4. Find(line, body, list[k][1]) \in Nat
      BY <1>0, <1>1, <2>1 DEF PartWithin
    <3>5. from >= Find(line, body, list[k][1]) + Len(line)
      BY <3>2, <3>4, SMTT(30)
    <3> QED
      BY <2>1, <3>3, <3>5
  <2> QED
    BY <2>1, <2>2, <2>3
<1>9. more # <<>> /\ more[Len(more)][1] = from
  BY <1>2, <1>3
<1> QED
  BY <1>3, <1>6, <1>7, <1>8, <1>9 DEF PartsIn, PartsApart

LEMMA PartStep ==
  ASSUME WithinBody, ParsePart
  PROVE  WithinBody'
<1>1. /\ pc = "headers" /\ UNCHANGED <<form, upload, boundary>>
      /\ req' = [req EXCEPT !.multipart_formdata =
                   Append(@, Part(PartHeaders, SubSeq(buf, DataStart, DataEnd)))]
      /\ spans' = Append(spans, <<DataStart, DataEnd>>)
      /\ IF IsLast THEN pc' = "accepted" /\ pos' = pos
         ELSE pc' = "parts" /\ pos' = SkipLineEnd(NextBoundary + Len(boundary_line))
      /\ Splitter!Restart
  BY DEF ParsePart
<1>2. buf' = buf /\ boundary_line' = boundary_line
  BY <1>1 DEF buf, boundary_line
<1>3. /\ buf \in Seq(BodyBytes) /\ Len(buf) \in Nat /\ boundary \in Seq(BodyBytes)
      /\ pos \in 1..Len(buf) + 1 /\ UploadOfBytes
      /\ Len(boundary_line) \in Nat \ {0}
  <2>1. UploadOfBytes /\ boundary \in Seq(BodyBytes) /\ pos \in 1..Len(buf) + 1
    BY DEF WithinBody, UploadTyped, UploadOfBytes
  <2>2. Len(boundary_line) \in Nat \ {0}
    BY <2>1, BoundaryLineIs
  <2> QED
    BY <2>1, <2>2, UploadIs
<1>4. AnotherPart /\ Behind(boundary_line, buf, spans, pos)
  BY <1>1 DEF WithinBody, PartsPhase
<1>5. PICK d : d = DataStart
  OBVIOUS
<1>6. PICK e : e = DataEnd
  OBVIOUS
<1>7. PICK n : n = NextBoundary
  OBVIOUS
<1>8. /\ d \in pos..Len(buf) /\ n = Find(boundary_line, buf, d) /\ n # npos
      /\ n + Len(boundary_line) \in 1..Len(buf) + 1
  BY <1>3, <1>4, <1>5, <1>7, AnotherPartIs
<1>9. d \in 1..Len(buf) /\ d \in Nat /\ pos \in Nat /\ d >= pos
  BY <1>3, <1>8
<1>10. e \in Nat /\ PartWithin(boundary_line, buf, d, e, SubSeq(buf, d, e))
  <2>1. PICK K \in SUBSET (d..n - 1) : e = Max({d - 1} \cup K)
    <3>1. {k \in d..n - 1 : buf[k] \notin {CR, LF}} \in SUBSET (d..n - 1)
      OBVIOUS
    <3> QED
      BY <1>5, <1>6, <1>7, <3>1 DEF DataEnd
  <2> QED
    BY <1>3, <1>8, <1>9, <2>1, PartIsWithin
<1>11. PICK part : part = Part(PartHeaders, SubSeq(buf, d, e)) /\ part.data = SubSeq(buf, d, e)
  <2>1. \A h, b : Part(h, b).data = b
    BY DEF Part
  <2> QED
    BY <2>1
<1>12. PICK X : req \in [is_multipart_formdata : BOOLEAN, multipart_formdata : Seq(X), content : Seq(BodyBytes)]
  BY DEF WithinBody, UploadTyped, UploadOfBytes
<1>13. PICK parts \in Seq(X) : parts = req.multipart_formdata
  BY <1>12
<1>14. PICK all : all = Append(parts, part)
  OBVIOUS
<1>15. req' = [req EXCEPT !.multipart_formdata = all] /\ spans' = Append(spans, <<d, e>>)
  BY <1>1, <1>5, <1>6, <1>11, <1>13, <1>14
<1>16. req'.multipart_formdata = all
  BY <1>12, <1>15
<1>17. PICK list : list = spans /\ PartsIn(boundary_line, buf, list, parts)
  BY <1>13 DEF WithinBody, PartsFound
<1>18. PICK body : body = buf
  OBVIOUS
<1>19. PICK more : more = Append(list, <<d, e>>)
  OBVIOUS
<1>20. /\ PartsIn(boundary_line, buf, more, all) /\ \E Y : all \in Seq(Y)
       /\ more # <<>> /\ more[Len(more)][1] = d
  <2>1. PICK line : line = boundary_line
    OBVIOUS
  <2>2. PartWithin(line, body, d, e, part.data)
    BY <1>10, <1>11, <1>18, <2>1
  <2>3. PICK p : p = pos
    OBVIOUS
  <2>4. PartsIn(line, body, list, parts) /\ Behind(line, body, list, p) /\ p \in Nat /\ d >= p
    BY <1>4, <1>9, <1>17, <1>18, <2>1, <2>3
  <2>5. Len(body) \in Nat /\ Len(line) \in Nat /\ d \in Nat /\ e \in Nat
    BY <1>3, <1>9, <1>10, <1>18, <2>1
  <2>6. CanFollow(line, body, list, parts, d, e, part, p)
    <3>1. \E Z : parts \in Seq(Z)
      OBVIOUS
    <3> QED
      BY <2>2, <2>4, <2>5, <3>1 DEF CanFollow
  <2>7. /\ PartsIn(line, body, more, all) /\ \E Y : all \in Seq(Y)
        /\ more # <<>> /\ more[Len(more)][1] = d
    BY <1>14, <1>19, <2>6, OnePartMore
  <2> QED
    BY <1>18, <2>1, <2>7
<1>21. spans' = more
  BY <1>15, <1>17, <1>19
<1>22. PartsFound'
  BY <1>2, <1>16, <1>20, <1>21 DEF PartsFound
<1>23. \/ pc' = "accepted" /\ pos' = pos
       \/ /\ pc' = "parts" /\ pos' \in n + Len(boundary_line)..Len(buf) + 1
  <2>1. PICK p \in 1..Len(buf) + 1 : p = n + Len(boundary_line)
    BY <1>8
  <2>2. SkipLineEnd(p) \in p..Len(buf) + 1
    BY <1>3, SkipLineEndIs
  <2> QED
    BY <1>1, <1>7, <2>1, <2>2
<1>24. pos' \in 1..Len(buf) + 1
  <2>1. PICK p \in 1..Len(buf) + 1 : p = n + Len(boundary_line)
    BY <1>8
  <2> QED
    BY <1>3, <1>23, <2>1
<1>25. UploadTyped'
  <2>1. PICK Y : all \in Seq(Y)
    BY <1>20
  <2>2. req' \in [is_multipart_formdata : BOOLEAN, multipart_formdata : Seq(Y), content : Seq(BodyBytes)]
    BY <1>12, <1>15, <2>1
  <2> QED
    BY <1>1, <1>2, <1>3, <1>24, <2>2 DEF UploadTyped, UploadOfBytes
<1>26. Splitter!Ready'
  BY <1>1 DEF Splitter!Restart, Splitter!Ready, Splitter!Start
<1>27. pc' = "parts" => Behind(boundary_line, buf, more, pos')
  <2>1. PICK p \in 1..Len(buf) + 1 : p = n + Len(boundary_line)
    BY <1>8
  <2>2. pc' = "parts" => pos' >= p
    BY <1>3, <1>23, <2>1
  <2> QED
    BY <1>8, <1>20, <2>1, <2>2 DEF Behind
<1>28. PartsPhase'
  BY <1>2, <1>21, <1>23, <1>26, <1>27 DEF PartsPhase
<1> QED
  BY <1>22, <1>25, <1>28 DEF WithinBody

LEMMA WithinBodyNext ==
  ASSUME WithinBody, [MultipartNext]_multipartVars
  PROVE  WithinBody'
<1>1. CASE UNCHANGED multipartVars
  <2>1. UNCHANGED <<form, upload, pc, req, boundary, pos, splitter, spans>>
    BY <1>1 DEF multipartVars
  <2>2. /\ buf' = buf /\ boundary_line' = boundary_line /\ Headers' = Headers
        /\ (AnotherPart <=> AnotherPart')
    BY <2>1, SamePlace
  <2>3. UploadTyped'
    BY <2>1, <2>2 DEF WithinBody, UploadTyped, UploadOfBytes
  <2>4. PartsFound'
    BY <2>1, PartsStay DEF WithinBody
  <2>5. SplitsHeaders <=> SplitsHeaders'
    BY <2>1, <2>2 DEF SplitsHeaders, splitter
  <2>6. Splitter!Ready <=> Splitter!Ready'
    BY <2>1 DEF splitter, Splitter!Ready, Splitter!Start
  <2>7. PartsPhase'
    BY <2>1, <2>2, <2>5, <2>6 DEF WithinBody, PartsPhase
  <2> QED
    BY <2>3, <2>4, <2>7 DEF WithinBody
<1>2. CASE MultipartNext
  BY <1>2, ContentStep, NoBoundaryStep, BoundaryStep, FirstStep, FindPartStep,
     SplitHeadersStep, PartStep, NoMorePartsStep DEF MultipartNext
<1> QED
  BY <1>1, <1>2

LEMMA WithinBodyIsEnough ==
  ASSUME WithinBody
  PROVE  PartsWithinBody
<1>1. pos \in 1..Len(buf) + 1
  BY DEF WithinBody, UploadTyped, UploadOfBytes
<1>2. ASSUME pc = "headers" PROVE Splitter!ListIsSplit
  <2>1. AnotherPart /\ SplitsHeaders
    BY <1>2 DEF WithinBody, PartsPhase
  <2>2. Headers \in Seq(BodyBytes)
    BY <2>1, AnotherPartIs DEF WithinBody, UploadTyped, UploadOfBytes
  <2> QED
    BY <2>1, <2>2, HeadersAreSplit
<1>3. DOMAIN spans = 1..Len(spans) /\ Len(spans) \in Nat
  BY DEF WithinBody, PartsFound, PartsIn
<1>4. ASSUME NEW k \in DOMAIN spans
      PROVE  /\ spans[k][1] <= spans[k][2] + 1
             /\ req.multipart_formdata[k].data = SubSeq(buf, spans[k][1], spans[k][2])
             /\ Find(boundary_line, SubSeq(buf, spans[k][1], spans[k][2]), 1) = npos
             /\ Find(boundary_line, buf, spans[k][1]) > spans[k][2]
  BY <1>3, <1>4 DEF WithinBody, PartsFound, PartsIn, PartWithin
<1>5. ASSUME NEW k \in DOMAIN spans, k < Len(spans)
      PROVE  spans[k + 1][1] >= Find(boundary_line, buf, spans[k][1]) + Len(boundary_line)
  BY <1>3, <1>5, SMTT(30) DEF WithinBody, PartsFound, PartsIn, PartsApart
<1> QED
  BY <1>1, <1>2, <1>4, <1>5 DEF PartsWithinBody

(* Whatever the bytes of a body are, the loop over the parts of            *)
(* RequestBodyParser::parse never leaves it: the data of the parts lie in  *)
(* it one after the other, with a boundary line between two and none in    *)
(* any of them, and the headers are split at the line ends.                *)
THEOREM PartsWithinBodyCorrect == MultipartSpec => []PartsWithinBody
<1>1. MultipartInit => WithinBody
  BY WithinBodyInit
<1>2. WithinBody /\ [MultipartNext]_multipartVars => WithinBody'
  BY WithinBodyNext
<1>3. WithinBody => PartsWithinBody
  BY WithinBodyIsEnough
<1> QED
  BY <1>1, <1>2, <1>3, PTL DEF MultipartSpec

-------------------------------------------------------------------------------
(* A form that is sent: where the loop stands in it.                       *)
LEMMA FromIs ==
  ASSUME NEW f, IsForm(f), NEW from, IsFormText(from, f), NEW k \in 1..Len(f.parts) + 1,
         NEW s \in Seq(BodyBytes), NEW m \in Nat, Follows(s, m, from[k])
  PROVE  /\ StandsIn(s, m, BoundaryLine(f))
         /\ k <= Len(f.parts) =>
              Laid(s, m, BoundaryLine(f), PartHeader(f.parts[k]), f.parts[k].data, from[k + 1])
         /\ k = Len(f.parts) + 1 =>
              /\ StandsIn(s, m + Len(BoundaryLine(f)), <<Dash, Dash>>)
              /\ Len(s) = m + Len(BoundaryLine(f)) + 4
<1>1. Len(f.parts) \in Nat
  BY DEF IsForm
<1>2. from[k] = IF k = Len(f.parts) + 1 THEN ClosingLine(f)
                ELSE PartText(f, f.parts[k]) \o from[k + 1]
  BY Zenon DEF IsFormText, ClosingLine
<1>3. CASE k = Len(f.parts) + 1
  <2>1. Follows(s, m, ClosingLine(f))
    BY <1>2, <1>3
  <2>2. /\ StandsIn(s, m, BoundaryLine(f))
        /\ StandsIn(s, m + Len(BoundaryLine(f)), <<Dash, Dash>>)
        /\ Len(s) = m + Len(BoundaryLine(f)) + 4
    BY <2>1, ClosingIs
  <2>3. ~(k <= Len(f.parts))
    BY <1>1, <1>3
  <2> QED
    BY <2>2, <2>3
<1>4. CASE k # Len(f.parts) + 1
  <2>1. k \in 1..Len(f.parts) /\ k + 1 \in 1..Len(f.parts) + 1
    BY <1>1, <1>4
  <2>2. from[k + 1] \in Seq(BodyBytes)
    BY <2>1, FormTextType
  <2>3. IsPart(f.parts[k])
    BY <2>1 DEF IsForm
  <2>4. Follows(s, m, PartText(f, f.parts[k]) \o from[k + 1])
    BY <1>2, <1>4
  <2>5. Laid(s, m, BoundaryLine(f), PartHeader(f.parts[k]), f.parts[k].data, from[k + 1])
    BY <2>2, <2>3, <2>4, PartTextIs
  <2>6. StandsIn(s, m, BoundaryLine(f))
    BY <2>5 DEF Laid
  <2> QED
    BY <1>4, <2>5, <2>6
<1> QED
  BY <1>3, <1>4

Sent ==
  /\ form \in Forms
  /\ upload.type = FormType(form) /\ buf = SubSeq(FormText(form), 1, form.bytes)

(* Behind m bytes stands the text of the form from part k on. *)
AtPart(from, m, k) ==
  /\ IsFormText(from, form) /\ FormText(form) = from[1]
  /\ m \in Nat /\ Follows(FormText(form), m, from[k])
  /\ m + Len(BoundaryLine(form)) <= form.bytes
  /\ pos = SkipLineEnd(m + Len(BoundaryLine(form)) + 1)

Turn(m, part, r) ==
  LET l == BoundaryLine(form)
      h == PartHeader(part)
      d == part.data
  IN  /\ IsPart(part) /\ IsLaid(FormText(form), form.bytes, m, l, h, d, r)
      /\ StandsIn(FormText(form), NextAt(m, l, h, d), l)
      /\ pos = HeadAt(m, l) + 1 /\ HeaderEnd = HeadEndAt(m, l, h) + 1
      /\ DataStart = DataAt(m, l, h) + 1 /\ NextBoundary = NextAt(m, l, h, d) + 1
      /\ NextAt(m, l, h, d) + Len(l) <= form.bytes

LEMMA SentIs ==
  ASSUME Sent
  PROVE  /\ IsForm(form) /\ FormText(form) \in Seq(BodyBytes) /\ Len(FormText(form)) \in Nat
         /\ form.bytes \in 0..Len(FormText(form)) /\ form.bytes \in Nat
         /\ buf \in Seq(BodyBytes) /\ Len(buf) = form.bytes
         /\ Len(form.parts) \in Nat
<1>1. form \in Forms /\ buf = SubSeq(FormText(form), 1, form.bytes)
  BY DEF Sent
<1>2. /\ FormText(form) \in Seq(BodyBytes) /\ form.bytes \in 0..Len(FormText(form))
      /\ buf \in Seq(BodyBytes) /\ Len(buf) = form.bytes
  BY <1>1, FormUpload
<1>3. IsForm(form)
  BY <1>1, FormIs
<1>4. Len(FormText(form)) \in Nat /\ form.bytes \in Nat
  BY <1>2
<1> QED
  BY <1>2, <1>3, <1>4 DEF IsForm

(* Behind the closing line there is no part. *)
LEMMA NoPartBehind ==
  ASSUME Sent, NEW from, NEW m, AtPart(from, m, Len(form.parts) + 1)
  PROVE  ~AnotherPart
<1>1. PICK t \in Seq(BodyBytes), c \in Nat :
        /\ t = FormText(form) /\ c = form.bytes /\ c \in 0..Len(t) /\ buf = SubSeq(t, 1, c)
        /\ buf \in Seq(BodyBytes) /\ Len(buf) = c
  BY SentIs DEF Sent
<1>2. PICK l : l = BoundaryLine(form)
  OBVIOUS
<1>3. PICK g \in Nat \ {0} : g = Len(l)
  BY <1>2, SentIs, LineOfForm, EmptySeq
<1>4. IsForm(form) /\ Len(form.parts) \in Nat /\ Len(form.parts) + 1 \in 1..Len(form.parts) + 1
  BY SentIs
<1>5. m \in Nat /\ StandsIn(t, m + g, <<Dash, Dash>>) /\ Len(t) = m + g + 4
  <2>1. IsFormText(from, form) /\ m \in Nat /\ Follows(t, m, from[Len(form.parts) + 1])
    BY <1>1 DEF AtPart
  <2> QED
    BY <1>1, <1>2, <1>3, <1>4, <2>1, FromIs
<1>6. t[(m + g) + 1] = Dash
  <2>1. PICK x : x = <<Dash, Dash>> /\ Len(x) = 2 /\ x[1] = Dash
    <3>1. Len(<<Dash, Dash>>) = 2 /\ <<Dash, Dash>>[1] = Dash
      OBVIOUS
    <3> QED
      BY <3>1
  <2>2. 1 \in 1..Len(x)
    BY <2>1
  <2> QED
    BY <1>5, <2>1, <2>2 DEF StandsIn
<1>7. pos \in Nat \ {0} /\ pos >= m + g + 1
  <2>1. PICK p \in Nat \ {0} : p = m + g + 1
    BY <1>5
  <2>2. pos = SkipLineEnd(p)
    BY <1>2, <1>3, <2>1 DEF AtPart
  <2>3. pos = p \/ pos = p + 2
    BY <2>2 DEF SkipLineEnd
  <2> QED
    BY <2>1, <2>3
<1>8. PICK p \in Seq(BodyBytes) : p = TwoEnds /\ Len(p) = 4
  BY TwoEndsIs
<1>9. ASSUME NEW k \in Nat, k >= pos - 1, StandsIn(buf, k, p) PROVE FALSE
  <2>1. StandsIn(t, k, p) /\ k + 4 <= c
    BY <1>1, <1>8, <1>9, StandsInCut
  <2>2. k = m + g
    BY <1>1, <1>5, <1>7, <1>9, <2>1
  <2>3. t[k + 1] = CR
    BY <1>8, <2>1, TwoEndsIs
  <2>4. CR # Dash
    BY TokensDiffer
  <2> QED
    BY <1>6, <2>2, <2>3, <2>4
<1>10. Find(p, buf, pos) = npos
  BY <1>1, <1>7, <1>9, NoPlace
<1> QED
  BY <1>8, <1>10 DEF AnotherPart, HeaderEnd, TwoEnds

LEMMA TurnIs ==
  ASSUME Sent, boundary = form.boundary, NEW from, NEW m, NEW k \in 1..Len(form.parts), AtPart(from, m, k)
  PROVE  /\ AnotherPart => Turn(m, form.parts[k], from[k + 1])
         /\ form.bytes = Len(FormText(form)) => AnotherPart
<1>1. PICK t \in Seq(BodyBytes), c \in Nat :
        /\ t = FormText(form) /\ c = form.bytes /\ c \in 0..Len(t) /\ buf = SubSeq(t, 1, c)
        /\ buf \in Seq(BodyBytes) /\ Len(buf) = c
  BY SentIs DEF Sent
<1>2. PICK l : l = BoundaryLine(form)
  OBVIOUS
<1>3. boundary_line = l
  BY <1>2 DEF boundary_line, BoundaryLine
<1>4. PICK part : part = form.parts[k]
  OBVIOUS
<1>5. PICK h, d, r : h = PartHeader(part) /\ d = part.data /\ r = from[k + 1]
  OBVIOUS
<1>6. IsForm(form) /\ Len(form.parts) \in Nat
  BY SentIs
<1>7. k \in 1..Len(form.parts) + 1 /\ k + 1 \in 1..Len(form.parts) + 1 /\ k <= Len(form.parts)
  BY <1>6
<1>8. IsFormText(from, form) /\ m \in Nat /\ Follows(t, m, from[k]) /\ m + Len(l) <= c
      /\ pos = SkipLineEnd(m + Len(l) + 1)
  BY <1>1, <1>2 DEF AtPart
<1>9. Laid(t, m, l, h, d, r)
  BY <1>2, <1>4, <1>5, <1>6, <1>7, <1>8, FromIs
<1>10. IsPart(part) /\ Find(l, d, 1) = npos
  BY <1>2, <1>4, <1>5, <1>6 DEF IsForm
<1>11. IsLaid(t, c, m, l, h, d, r)
  <2>1. l \in Seq(BodyBytes) /\ l # <<>> /\ \A j \in 1..Len(l) : l[j] \notin {CR, LF}
    BY <1>2, <1>6, LineOfForm
  <2>2. h \in Seq(BodyBytes) /\ Spaced(h)
    BY <1>5, <1>10, HeaderIs
  <2>3. d \in Seq(BodyBytes)
    BY <1>5, <1>10 DEF IsPart
  <2>4. r \in Seq(BodyBytes)
    BY <1>5, <1>6, <1>7, <1>8, FormTextType
  <2> QED
    BY <1>1, <1>8, <1>9, <1>10, <2>1, <2>2, <2>3, <2>4 DEF IsLaid
<1>12. PICK g \in Nat \ {0}, head \in Nat, hend \in Nat, body \in Nat, next \in Nat :
         /\ g = Len(l) /\ head = HeadAt(m, l) /\ hend = HeadEndAt(m, l, h)
         /\ body = DataAt(m, l, h) /\ next = NextAt(m, l, h, d)
         /\ head = m + g + 2 /\ head <= hend /\ body = hend + 4 /\ body + 2 <= next
  <2>1. PICK nl \in Nat \ {0}, nh \in Nat, nd \in Nat : nl = Len(l) /\ nh = Len(h) /\ nd = Len(d)
    BY <1>11, LaidIs
  <2>2. HeadAt(m, l) = m + nl + 2
    BY <2>1 DEF HeadAt
  <2>3. HeadEndAt(m, l, h) = m + nl + 2 + nh
    BY <2>1, <2>2 DEF HeadEndAt
  <2>4. DataAt(m, l, h) = m + nl + 2 + nh + 4
    BY <2>3 DEF DataAt
  <2>5. NextAt(m, l, h, d) = m + nl + 2 + nh + 4 + nd + 2
    BY <2>1, <2>4 DEF NextAt
  <2>6. m \in Nat
    BY <1>8
  <2>7. /\ m + nl + 2 \in Nat /\ m + nl + 2 + nh \in Nat /\ m + nl + 2 + nh + 4 \in Nat
        /\ m + nl + 2 + nh + 4 + nd + 2 \in Nat
        /\ m + nl + 2 <= m + nl + 2 + nh /\ (m + nl + 2 + nh + 4) + 2 <= m + nl + 2 + nh + 4 + nd + 2
    BY <2>6
  <2> QED
    BY <2>1, <2>2, <2>3, <2>4, <2>5, <2>7
<1>13. StandsIn(t, next, l)
  <2>1. Follows(t, next, r)
    BY <1>11, <1>12, LaidIs
  <2> QED
    BY <1>2, <1>5, <1>6, <1>7, <1>8, <1>12, <2>1, FromIs
<1>14. next + g <= Len(t)
  BY <1>12, <1>13 DEF StandsIn
<1>15. PICK e \in Seq(BodyBytes) : e = CRLF /\ Len(e) = 2
  BY LineEndIs
<1>16. StandsIn(buf, m + g, e) <=> head <= c
  <2>1. StandsIn(t, m + g, e)
    BY <1>11, <1>12, <1>15, LaidIs
  <2>2. m + g \in Nat
    BY <1>8, <1>12
  <2>3. StandsIn(buf, m + g, e) <=> StandsIn(t, m + g, e) /\ (m + g) + Len(e) <= c
    BY <1>1, <2>2, StandsInCut
  <2> QED
    BY <1>8, <1>12, <1>15, <2>1, <2>3
<1>17. pos = IF head <= c THEN head + 1 ELSE m + g + 1
  <2>1. PICK p \in Nat \ {0} : p = (m + g) + 1
    BY <1>8, <1>12
  <2>2. Occurs(e, buf, p) <=> head <= c
    <3>1. m + g \in Nat
      BY <1>8, <1>12
    <3> QED
      BY <1>1, <1>16, <2>1, <3>1, StandsOccurs
  <2>3. head <= c <=> p + 1 <= Len(buf)
    BY <1>1, <1>8, <1>12, <2>1
  <2>4. pos = SkipLineEnd(p)
    BY <1>8, <1>12, <2>1
  <2>5. p + 2 = head + 1
    BY <1>8, <1>12, <2>1
  <2> QED
    BY <1>15, <2>1, <2>2, <2>3, <2>4, <2>5 DEF SkipLineEnd
<1>18. ASSUME ~(head <= c) PROVE ~AnotherPart
  <2>1. pos = m + g + 1 /\ pos \in Nat \ {0} /\ pos - 1 = m + g
    <3>1. m \in Nat /\ g \in Nat
      BY <1>8
    <3>2. pos = m + g + 1
      BY <1>17, <1>18
    <3>3. m + g + 1 \in Nat \ {0} /\ (m + g + 1) - 1 = m + g
      BY <3>1
    <3> QED
      BY <3>2, <3>3
  <2>2. PICK p \in Seq(BodyBytes) : p = TwoEnds /\ Len(p) = 4
    BY TwoEndsIs
  <2>3. ASSUME NEW i \in Nat, i >= pos - 1, StandsIn(buf, i, p) PROVE FALSE
    <3>1. i + 4 <= c
      BY <1>1, <2>2, <2>3, StandsInCut
    <3> QED
      BY <1>8, <1>12, <1>18, <2>1, <2>3, <3>1, SMTT(30)
  <2>4. Find(p, buf, pos) = npos
    BY <1>1, <2>1, <2>3, NoPlace
  <2> QED
    BY <2>2, <2>4 DEF AnotherPart, HeaderEnd, TwoEnds
<1>19. ASSUME head <= c
       PROVE  /\ pos = head + 1
              /\ HeaderEnd = IF body <= c THEN hend + 1 ELSE npos
  <2>1. pos = head + 1
    BY <1>17, <1>19
  <2>3. Find(TwoEnds, buf, HeadAt(m, l) + 1) =
          IF DataAt(m, l, h) <= c THEN HeadEndAt(m, l, h) + 1 ELSE npos
    BY <1>1, <1>11, HeaderEndPlace
  <2>2. Find(TwoEnds, buf, head + 1) = IF body <= c THEN hend + 1 ELSE npos
    BY <1>12, <2>3
  <2> QED
    BY <2>1, <2>2 DEF HeaderEnd, TwoEnds
<1>20. ASSUME head <= c, body <= c
       PROVE  /\ DataStart = body + 1
              /\ NextBoundary = IF next + g <= c THEN next + 1 ELSE npos
  <2>1. DataStart = body + 1
    BY <1>12, <1>19, <1>20 DEF DataStart
  <2>3. StandsIn(t, NextAt(m, l, h, d), l)
    BY <1>12, <1>13
  <2>4. Find(l, buf, DataAt(m, l, h) + 1) =
          IF NextAt(m, l, h, d) + Len(l) <= c THEN NextAt(m, l, h, d) + 1 ELSE npos
    BY <1>1, <1>11, <2>3, NextPlace
  <2>2. Find(l, buf, body + 1) = IF next + g <= c THEN next + 1 ELSE npos
    BY <1>12, <2>4
  <2> QED
    BY <1>3, <2>1, <2>2 DEF NextBoundary
<1>21. ASSUME AnotherPart PROVE Turn(m, part, r)
  <2>1. head <= c
    BY <1>18, <1>21
  <2>2. body <= c
    BY <1>19, <1>21, <2>1 DEF AnotherPart
  <2>3. next + g <= c
    BY <1>20, <1>21, <2>1, <2>2 DEF AnotherPart
  <2>4. /\ pos = head + 1 /\ HeaderEnd = hend + 1 /\ DataStart = body + 1 /\ NextBoundary = next + 1
    BY <1>19, <1>20, <2>1, <2>2, <2>3
  <2> QED
    BY <1>1, <1>2, <1>5, <1>10, <1>11, <1>12, <1>13, <2>3, <2>4 DEF Turn
<1>22. ASSUME c = Len(t) PROVE AnotherPart
  <2>0. c \in Nat /\ next + g <= c
    BY <1>14, <1>22
  <2>3. body + 2 <= next /\ head <= hend /\ body = hend + 4
    BY <1>12
  <2>1. head <= c /\ body <= c /\ next + g <= c /\ head + 1 <= c
    BY <2>0, <2>3
  <2>2. hend + 1 # npos /\ next + 1 # npos
    BY <1>12, SMTT(30) DEF npos
  <2> QED
    BY <1>1, <1>19, <1>20, <2>1, <2>2 DEF AnotherPart
<1> QED
  BY <1>1, <1>4, <1>5, <1>21, <1>22

-------------------------------------------------------------------------------
(* What the parser has read of the form that is sent: its first parts, and *)
(* behind them it stands at a boundary line, unless it has stopped.        *)
AsMeant(list, f) ==
  /\ Len(list) \in Nat /\ DOMAIN list = 1..Len(list) /\ Len(list) <= Len(f.parts)
  /\ \A k \in 1..Len(list) :
       list[k].filename = Filename(f.parts[k]) /\ list[k].data = Stripped(f.parts[k].data)

AtSomePart(k) == \E from, m : AtPart(from, m, k)

WholeForm ==
  form.bytes = Len(FormText(form)) =>
    pc # "refused" /\ (pc = "accepted" => Len(req.multipart_formdata) = Len(form.parts))

ReadsForm ==
  form # NoForm =>
    /\ Sent
    /\ AsMeant(req.multipart_formdata, form)
    /\ pc \in {"type", "first"} => req.multipart_formdata = <<>>
    /\ pc # "type" => boundary = form.boundary
    /\ pc \in {"parts", "headers"} => AtSomePart(Len(req.multipart_formdata) + 1)
    /\ WholeForm

LEMMA NothingRead ==
  ASSUME NEW list, list = <<>>, NEW f, Len(f.parts) \in Nat
  PROVE  AsMeant(list, f) /\ Len(list) + 1 = 1
<1>1. Len(list) = 0 /\ DOMAIN list = 1..Len(list)
  OBVIOUS
<1> QED
  BY <1>1 DEF AsMeant

LEMMA ReadsInit ==
  ASSUME MultipartInit
  PROVE  ReadsForm
<1>1. SUFFICES ASSUME form # NoForm PROVE ReadsForm
  BY DEF ReadsForm
<1>2. /\ form \in Forms
      /\ upload = [type |-> FormType(form), body |-> SubSeq(FormText(form), 1, form.bytes)]
  BY <1>1 DEF MultipartInit
<1>3. Sent
  <2>1. upload.type = FormType(form) /\ upload.body = SubSeq(FormText(form), 1, form.bytes)
    BY <1>2
  <2> QED
    BY <1>2, <2>1 DEF Sent, buf
<1>4. pc = "type"
  BY DEF MultipartInit
<1>5. req.multipart_formdata = <<>>
  <2>1. req = [is_multipart_formdata |-> FALSE, multipart_formdata |-> <<>>, content |-> <<>>]
    BY DEF MultipartInit
  <2> QED
    BY <2>1
<1>6. AsMeant(req.multipart_formdata, form)
  BY <1>3, <1>5, SentIs, NothingRead
<1> QED
  BY <1>3, <1>4, <1>5, <1>6 DEF ReadsForm, WholeForm

(* The steps that leave the form and the loop's place alone. *)
LEMMA SentStays ==
  ASSUME Sent, UNCHANGED <<form, upload>>
  PROVE  Sent'
<1>1. buf' = buf
  BY DEF buf
<1> QED
  BY <1>1 DEF Sent

LEMMA LineEndSkipped ==
  ASSUME buf' = buf, NEW p
  PROVE  SkipLineEnd(p)' = SkipLineEnd(p)
BY DEF SkipLineEnd

LEMMA PlaceStays ==
  ASSUME UNCHANGED <<form, upload, pos>>, NEW k, AtSomePart(k)
  PROVE  AtSomePart(k)'
<1>1. PICK from, m : AtPart(from, m, k)
  BY DEF AtSomePart
<1>2. PICK p : p = m + Len(BoundaryLine(form)) + 1
  OBVIOUS
<1>3. buf' = buf /\ form' = form /\ pos' = pos
  BY DEF buf
<1>4. SkipLineEnd(p)' = SkipLineEnd(p)
  BY <1>3, LineEndSkipped
<1>5. AtPart(from, m, k)'
  BY <1>1, <1>2, <1>3, <1>4 DEF AtPart
<1> QED
  BY <1>5 DEF AtSomePart

(* The Content-Type of a form is never taken for another one. *)
LEMMA FormIsTaken ==
  ASSUME form # NoForm, ReadsForm
  PROVE  ~ParseContent /\ ~ParseNoBoundary
<1>1. IsForm(form) /\ upload.type = FormType(form)
  BY SentIs DEF ReadsForm, Sent
<1>2. Find(<<FormData>>, upload.type, 1) # npos /\ Find(<<Boundary>>, upload.type, 1) # npos
  BY <1>1, FormTypeIs
<1> QED
  BY <1>2 DEF ParseContent, ParseNoBoundary

LEMMA BoundaryReads ==
  ASSUME form # NoForm, ReadsForm, WithinBody, ParseBoundary
  PROVE  ReadsForm'
<1>1. /\ pc = "type" /\ pc' = "first" /\ req' = [req EXCEPT !.is_multipart_formdata = TRUE]
      /\ boundary' = BoundaryOf(upload.type)
      /\ UNCHANGED <<form, upload, pos>>
  BY DEF ParseBoundary
<1>2. Sent /\ req.multipart_formdata = <<>>
  BY <1>1 DEF ReadsForm
<1>3. boundary' = form'.boundary
  <2>1. upload.type = FormType(form) /\ IsForm(form)
    BY <1>2, SentIs DEF Sent
  <2> QED
    BY <1>1, <2>1, FormTypeIs
<1>4. PICK X : req \in [is_multipart_formdata : BOOLEAN, multipart_formdata : Seq(X), content : Seq(BodyBytes)]
  BY DEF WithinBody, UploadTyped
<1>5. req'.multipart_formdata = <<>>
  BY <1>1, <1>2, <1>4
<1>6. Sent'
  BY <1>1, <1>2, SentStays
<1>7. AsMeant(req.multipart_formdata, form)'
  <2>1. Len(form'.parts) \in Nat
    BY <1>1, <1>2, SentIs
  <2> QED
    BY <1>5, <2>1, NothingRead
<1> QED
  BY <1>1, <1>3, <1>5, <1>6, <1>7 DEF ReadsForm, WholeForm

LEMMA FirstReads ==
  ASSUME form # NoForm, ReadsForm, FirstBoundary
  PROVE  ReadsForm'
<1>1. /\ pc = "first" /\ UNCHANGED <<form, upload, req, boundary>>
      /\ LET at == Find(boundary_line, buf, 1) IN
           IF at = npos
           THEN pc' = "refused" /\ pos' = pos
           ELSE pc' = "parts" /\ pos' = SkipLineEnd(at + Len(boundary_line))
  BY DEF FirstBoundary
<1>2. Sent /\ req.multipart_formdata = <<>> /\ boundary = form.boundary
  BY <1>1 DEF ReadsForm
<1>3. PICK t \in Seq(BodyBytes), c \in Nat :
        /\ t = FormText(form) /\ c = form.bytes /\ c \in 0..Len(t) /\ buf = SubSeq(t, 1, c)
        /\ buf \in Seq(BodyBytes) /\ Len(buf) = c
  BY <1>2, SentIs DEF Sent
<1>4. IsForm(form) /\ Len(form.parts) \in Nat
  BY <1>2, SentIs
<1>5. PICK l \in Seq(BodyBytes) : l = BoundaryLine(form) /\ l # <<>>
  BY <1>4, LineOfForm
<1>6. boundary_line = l
  BY <1>2, <1>5 DEF boundary_line, BoundaryLine
<1>7. PICK from : IsFormText(from, form) /\ t = from[1]
  BY <1>3, <1>4, FormTextIs
<1>8. Follows(t, 0, from[1])
  BY <1>7, FollowsItself
<1>9. StandsIn(t, 0, l)
  <2>1. 1 \in 1..Len(form.parts) + 1 /\ 0 \in Nat
    BY <1>4
  <2> QED
    BY <1>4, <1>5, <1>7, <1>8, <2>1, FromIs
<1>10. 0 + Len(l) <= Len(t)
  BY <1>9 DEF StandsIn
<1>11. PICK g \in Nat \ {0} : g = Len(l)
  BY EmptySeq, <1>5
<1>12. buf' = buf /\ form' = form /\ req' = req /\ boundary' = boundary /\ Sent'
  BY <1>1, <1>2, SentStays DEF buf
<1>13. AsMeant(req.multipart_formdata, form)' /\ req'.multipart_formdata = <<>>
  BY <1>2, <1>12 DEF ReadsForm
<1>14. ASSUME g <= c PROVE Find(l, buf, 1) = 1
  <2>1. 0 \in Nat /\ 0 + Len(l) <= c
    BY <1>11, <1>14
  <2>2. StandsIn(buf, 0, l)
    BY <1>3, <1>9, <2>1, StandsInCut
  <2> QED
    BY <1>3, <1>5, <2>2, PlaceAtStart
<1>15. ASSUME ~(g <= c) PROVE Find(l, buf, 1) = npos
  <2>1. PICK i \in Nat \ {0} : i = 1
    OBVIOUS
  <2>2. ASSUME NEW k \in Nat, k >= i - 1, StandsIn(buf, k, l) PROVE FALSE
    <3>1. k + Len(l) <= c
      BY <1>3, <2>2 DEF StandsIn
    <3> QED
      BY <1>11, <1>15, <3>1
  <2>3. Find(l, buf, i) = npos
    BY <1>3, <2>2, NoPlace
  <2> QED
    BY <2>1, <2>3
<1>16. CASE g <= c
  <2>1. PICK at : at = Find(boundary_line, buf, 1) /\ at = 1
    BY <1>6, <1>14, <1>16
  <2>2. at # npos
    BY <2>1 DEF npos
  <2>3. pc' = "parts" /\ pos' = SkipLineEnd(1 + g)
    BY <1>1, <1>6, <1>11, <2>1, <2>2
  <2>4. PICK p : p = 1 + g
    OBVIOUS
  <2>5. 0 + g + 1 = p /\ 0 + g <= c /\ 0 \in Nat
    BY <1>16, <2>4
  <2>6. SkipLineEnd(p)' = SkipLineEnd(p)
    BY <1>12, LineEndSkipped
  <2>7. pos' = SkipLineEnd(p)'
    BY <2>3, <2>4, <2>6
  <2>8. AtPart(from, 0, 1)'
    BY <1>3, <1>5, <1>7, <1>8, <1>11, <1>12, <2>5, <2>7 DEF AtPart
  <2>9. AtSomePart(1)'
    BY <2>8 DEF AtSomePart
  <2>10. AtSomePart(Len(req.multipart_formdata) + 1)'
    BY <1>4, <1>13, <2>9, NothingRead
  <2> QED
    BY <1>2, <1>12, <1>13, <2>3, <2>10 DEF ReadsForm, WholeForm
<1>17. CASE ~(g <= c)
  <2>1. pc' = "refused"
    BY <1>1, <1>6, <1>15, <1>17
  <2>2. c # Len(t)
    BY <1>10, <1>11, <1>17
  <2>3. form'.bytes # Len(FormText(form'))
    BY <1>3, <1>12, <2>2
  <2> QED
    BY <1>2, <1>12, <1>13, <2>1, <2>3 DEF ReadsForm, WholeForm
<1> QED
  BY <1>16, <1>17

LEMMA LoopReads ==
  ASSUME form # NoForm, ReadsForm, pc \in {"parts", "headers"}, pc' \in {"parts", "headers"},
         UNCHANGED <<form, upload, req, boundary, pos>>
  PROVE  ReadsForm'
<1>1. Sent'
  BY SentStays DEF ReadsForm
<1>2. PICK k : k = Len(req.multipart_formdata) + 1
  OBVIOUS
<1>3. AtSomePart(k)'
  BY <1>2, PlaceStays DEF ReadsForm
<1>4. form' = form /\ req' = req /\ boundary' = boundary
  OBVIOUS
<1>5. k = Len(req'.multipart_formdata) + 1
  BY <1>2, <1>4
<1>6. AtSomePart(Len(req.multipart_formdata) + 1)'
  BY <1>3, <1>5
<1>7. boundary = form.boundary /\ AsMeant(req.multipart_formdata, form)
  BY DEF ReadsForm
<1> QED
  BY <1>1, <1>4, <1>6, <1>7 DEF ReadsForm, WholeForm

(* Where the loop is, the boundary is that of the form. *)
LEMMA PlaceIs ==
  ASSUME form # NoForm, ReadsForm, pc \in {"parts", "headers"}
  PROVE  /\ Sent /\ boundary = form.boundary /\ Len(form.parts) \in Nat
         /\ Len(req.multipart_formdata) \in 0..Len(form.parts)
         /\ \E from, m : AtPart(from, m, Len(req.multipart_formdata) + 1)
<1>1. Sent /\ boundary = form.boundary /\ AsMeant(req.multipart_formdata, form)
  BY DEF ReadsForm
<1>2. Len(form.parts) \in Nat
  BY <1>1, SentIs
<1>3. AtSomePart(Len(req.multipart_formdata) + 1)
  BY DEF ReadsForm
<1> QED
  BY <1>1, <1>2, <1>3 DEF AtSomePart, AsMeant

LEMMA NoMoreReads ==
  ASSUME form # NoForm, ReadsForm, NoMoreParts
  PROVE  ReadsForm'
<1>1. /\ pc = "parts" /\ ~AnotherPart /\ pc' = "accepted"
      /\ UNCHANGED <<form, upload, req, boundary, pos>>
  BY DEF NoMoreParts
<1>2. /\ Sent /\ boundary = form.boundary /\ Len(form.parts) \in Nat
      /\ Len(req.multipart_formdata) \in 0..Len(form.parts)
      /\ \E from, m : AtPart(from, m, Len(req.multipart_formdata) + 1)
  BY <1>1, PlaceIs
<1>3. Sent'
  BY <1>1, <1>2, SentStays
<1>4. ASSUME form.bytes = Len(FormText(form))
      PROVE  Len(req.multipart_formdata) = Len(form.parts)
  <2>1. PICK k \in 1..Len(form.parts) + 1 : k = Len(req.multipart_formdata) + 1
    <3>1. Len(req.multipart_formdata) + 1 \in 1..Len(form.parts) + 1
      BY <1>2
    <3> QED
      BY <3>1
  <2>2. PICK from, m : AtPart(from, m, k)
    BY <1>2, <2>1
  <2>3. k \notin 1..Len(form.parts)
    BY <1>1, <1>2, <1>4, <2>2, TurnIs
  <2> QED
    BY <1>2, <2>1, <2>3
<1>5. form' = form /\ req' = req /\ boundary' = boundary
  BY <1>1
<1>6. AsMeant(req.multipart_formdata, form)'
  BY <1>5 DEF ReadsForm
<1> QED
  BY <1>1, <1>2, <1>3, <1>4, <1>5, <1>6 DEF ReadsForm, WholeForm

(* What a turn of the loop reads. *)
LEMMA TurnReads ==
  ASSUME Sent, NEW part, NEW m, NEW r, Turn(m, part, r)
  PROVE  Headers = PartHeader(part) /\ SubSeq(buf, DataStart, DataEnd) = Stripped(part.data)
<1>1. PICK t \in Seq(BodyBytes), c \in Nat :
        /\ t = FormText(form) /\ c = form.bytes /\ c \in 0..Len(t) /\ buf = SubSeq(t, 1, c)
        /\ buf \in Seq(BodyBytes) /\ Len(buf) = c
  BY SentIs DEF Sent
<1>2. PICK l, h, d : l = BoundaryLine(form) /\ h = PartHeader(part) /\ d = part.data
  OBVIOUS
<1>3. /\ IsPart(part) /\ IsLaid(t, c, m, l, h, d, r)
      /\ pos = HeadAt(m, l) + 1 /\ HeaderEnd = HeadEndAt(m, l, h) + 1
      /\ DataStart = DataAt(m, l, h) + 1 /\ NextBoundary = NextAt(m, l, h, d) + 1
      /\ NextAt(m, l, h, d) + Len(l) <= c
  BY <1>1, <1>2, Zenon DEF Turn
<1>4. SubSeq(buf, DataStart, DataEnd) = Stripped(d)
  <2>1. PICK i, e : i = DataAt(m, l, h) + 1 /\ e = NextAt(m, l, h, d)
    OBVIOUS
  <2>6. PICK b : b = SubSeq(t, 1, c) /\ b = buf
    BY <1>1
  <2>8. IsLaid(t, c, m, l, h, d, r) /\ NextAt(m, l, h, d) + Len(l) <= c /\ b = SubSeq(t, 1, c)
    BY <1>3, <2>6
  <2>9. StripsTo(SubSeq(t, 1, c), DataAt(m, l, h) + 1, NextAt(m, l, h, d), d)
    BY <2>8, StrippedIs
  <2>7. SubSeq(b, i, LastOf(b, i, e)) = Stripped(d)
    BY <2>1, <2>6, <2>9 DEF StripsTo
  <2>2. SubSeq(buf, i, LastOf(buf, i, e)) = Stripped(d)
    BY <2>6, <2>7
  <2>3. DataStart = i
    BY <1>3, <2>1
  <2>4. NextBoundary - 1 = e
    <3>1. NextAt(m, l, h, d) \in Nat
      BY <1>3, LaidIs
    <3> QED
      BY <1>3, <2>1, <3>1
  <2>5. DataEnd = LastOf(buf, i, e)
    BY <2>3, <2>4, Zenon DEF DataEnd, LastOf
  <2> QED
    BY <2>2, <2>3, <2>5
<1>5. PICK a \in Nat, e \in Nat, n \in Nat, b \in Nat, g \in Nat \ {0}, x \in Nat, z \in Nat :
        /\ a = HeadAt(m, l) /\ e = HeadEndAt(m, l, h) /\ n = Len(h) /\ e = a + n
        /\ b = DataAt(m, l, h) /\ b = e + 4 /\ x = Len(d) /\ z = NextAt(m, l, h, d) /\ z = b + x + 2
        /\ g = Len(l)
  BY <1>3, LaidIs DEF HeadEndAt, DataAt, NextAt
<1>6. StandsIn(t, a, h) /\ h \in Seq(BodyBytes)
  BY <1>3, <1>5, LaidIs DEF IsLaid
<1>7. e <= c
  <2>1. z + g <= c
    BY <1>3, <1>5
  <2>2. c \in Nat /\ z = e + 4 + x + 2 /\ e \in Nat /\ x \in Nat /\ g \in Nat
    BY <1>5
  <2> QED
    BY <2>1, <2>2
<1>8. StandsIn(buf, a, h)
  <2>1. a + Len(h) <= c
    BY <1>5, <1>7
  <2>2. a \in Nat
    BY <1>5
  <2>3. StandsIn(SubSeq(t, 1, c), a, h)
    BY <1>1, <1>6, <2>1, <2>2, StandsInCut
  <2> QED
    BY <1>1, <2>3
<1>9. SubSeq(buf, a + 1, e) = h
  <2>1. PICK f \in Nat \ {0} : f = a + 1 /\ f <= e + 1 /\ e + 1 - f = n
    <3>2. a \in Nat /\ n \in Nat /\ e = a + n
      BY <1>5
    <3>1. a + 1 \in Nat \ {0} /\ a + 1 <= e + 1 /\ e + 1 - (a + 1) = n
      BY <3>2
    <3> QED
      BY <3>1
  <2>2. PICK v : v = SubSeq(buf, f, e)
    OBVIOUS
  <2>3. v \in Seq(BodyBytes) /\ Len(v) = n /\ \A j \in 1..n : v[j] = buf[f + j - 1]
    BY <1>1, <1>7, <2>1, <2>2, SubSeqIs
  <2>4. \A j \in 1..n : f + j - 1 = a + j
    BY <2>1
  <2>5. \A j \in 1..n : buf[a + j] = h[j]
    BY <1>5, <1>8 DEF StandsIn
  <2>6. Len(v) = Len(h) /\ \A j \in 1..Len(v) : v[j] = h[j]
    BY <1>5, <2>3, <2>4, <2>5
  <2>7. v = h
    BY <1>6, <2>3, <2>6, SeqEqual
  <2> QED
    BY <2>1, <2>2, <2>7
<1>10. pos = a + 1 /\ HeaderEnd - 1 = e
  <2>1. HeaderEnd = e + 1 /\ pos = a + 1
    BY <1>3, <1>5
  <2>2. e \in Nat
    BY <1>5
  <2> QED
    BY <2>1, <2>2
<1>11. Headers = h
  BY <1>9, <1>10 DEF Headers
<1> QED
  BY <1>2, <1>4, <1>11

(* A part that another one follows is not taken for the last one. *)
LEMMA NotLast ==
  ASSUME Sent, boundary = form.boundary, NEW part, NEW m, NEW r, Turn(m, part, r),
         StandsIn(FormText(form), NextAt(m, BoundaryLine(form), PartHeader(part), part.data) +
                                    Len(BoundaryLine(form)), CRLF)
  PROVE  ~IsLast
<1>1. PICK t \in Seq(BodyBytes), c \in Nat :
        /\ t = FormText(form) /\ c = form.bytes /\ c \in 0..Len(t) /\ buf = SubSeq(t, 1, c)
        /\ buf \in Seq(BodyBytes) /\ Len(buf) = c
  BY SentIs DEF Sent
<1>2. PICK l : l = BoundaryLine(form)
  OBVIOUS
<1>3. PICK z \in Nat : z = NextAt(m, l, PartHeader(part), part.data)
  BY <1>2, LaidIs, Zenon DEF Turn
<1>4. NextBoundary = z + 1
  BY <1>2, <1>3, Zenon DEF Turn
<1>5. l \in Seq(BodyBytes) /\ boundary_line = l
  BY <1>2, SentIs, LineOfForm DEF boundary_line, BoundaryLine
<1>6. PICK g \in Nat : g = Len(l)
  BY <1>5
<1>7. t[z + g + 1] = CR
  <2>1. PICK x : x = CRLF /\ Len(x) = 2 /\ x[1] = CR
    BY LineEndIs
  <2>2. 1 \in 1..Len(x)
    BY <2>1
  <2>3. StandsIn(t, z + g, x)
    BY <1>1, <1>2, <1>3, <1>6, <2>1
  <2> QED
    BY <2>1, <2>2, <2>3 DEF StandsIn
<1>8. PICK dd \in Seq(BodyBytes) : dd = <<Dash, Dash>> /\ Len(dd) = 2 /\ dd[1] = Dash
  <2>1. Dash \in BodyBytes
    BY LineTokens
  <2>2. <<Dash, Dash>> \in Seq(BodyBytes) /\ Len(<<Dash, Dash>>) = 2 /\ <<Dash, Dash>>[1] = Dash
    BY <2>1, Tuples
  <2> QED
    BY <2>2
<1>9. boundary_end = l \o dd
  BY <1>5, <1>8 DEF boundary_end
<1>10. PICK w \in Seq(BodyBytes) : w = l \o dd
  BY <1>5, <1>8, ConcatOf
<1>11. ASSUME Occurs(w, buf, z + 1) PROVE FALSE
  <2>1. StandsIn(buf, z, w)
    BY <1>1, <1>11, StandsOccurs
  <2>2. StandsIn(t, z, w)
    BY <1>1, <2>1, StandsInCut
  <2>3. StandsIn(t, z, l \o dd)
    BY <1>10, <2>2
  <2>4. StandsIn(t, z + Len(l), dd)
    BY <1>1, <1>5, <1>8, <2>3, StandsApart
  <2>5. 1 \in 1..Len(dd)
    BY <1>8
  <2>6. t[z + g + 1] = Dash
    BY <1>6, <1>8, <2>4, <2>5 DEF StandsIn
  <2> QED
    BY <1>7, <2>6, TokensDiffer
<1> QED
  BY <1>4, <1>9, <1>10, <1>11 DEF IsLast

(* A list that is as meant and one part more. *)
LEMMA OneReadMore ==
  ASSUME NEW X, NEW list \in Seq(X), NEW f, Len(f.parts) \in Nat, AsMeant(list, f),
         NEW k \in 1..Len(f.parts), k = Len(list) + 1,
         NEW part, part.filename = Filename(f.parts[k]), part.data = Stripped(f.parts[k].data)
  PROVE  AsMeant(Append(list, part), f) /\ Len(Append(list, part)) = k
<1>1. PICK Y : Y = X \cup {part}
  OBVIOUS
<1>2. list \in Seq(Y) /\ part \in Y
  BY <1>1, Wider
<1>3. PICK n \in Nat : n = Len(list) /\ k = n + 1
  BY <1>2
<1>4. PICK all \in Seq(Y) : /\ all = Append(list, part) /\ Len(all) = n + 1 /\ all[n + 1] = part
                            /\ \A j \in 1..n : all[j] = list[j]
  <2>1. /\ Append(list, part) \in Seq(Y) /\ Len(Append(list, part)) = Len(list) + 1
        /\ \A j \in 1..Len(list) : Append(list, part)[j] = list[j]
        /\ Append(list, part)[Len(list) + 1] = part
    BY <1>2, AppendProperties
  <2> QED
    BY <1>3, <2>1
<1>5. \A j \in 1..n : list[j].filename = Filename(f.parts[j]) /\ list[j].data = Stripped(f.parts[j].data)
  BY <1>3 DEF AsMeant
<1>6. ASSUME NEW j \in 1..n + 1
      PROVE  all[j].filename = Filename(f.parts[j]) /\ all[j].data = Stripped(f.parts[j].data)
  <2>1. j \in 1..n \/ j = n + 1
    OBVIOUS
  <2> QED
    BY <1>3, <1>4, <1>5, <2>1
<1>7. DOMAIN all = 1..Len(all) /\ Len(all) \in Nat /\ Len(all) <= Len(f.parts)
  BY <1>3, <1>4
<1>8. \A j \in 1..Len(all) : all[j].filename = Filename(f.parts[j]) /\ all[j].data = Stripped(f.parts[j].data)
  BY <1>4, <1>6
<1> QED
  BY <1>3, <1>4, <1>7, <1>8 DEF AsMeant

(* What is made of the header lines and the bytes of a part. *)
LEMMA PartIsRead ==
  ASSUME WithinBody, pc = "headers", pass = "done", Sent, NEW part, NEW m, NEW r, Turn(m, part, r)
  PROVE  LET read == Part(PartHeaders, SubSeq(buf, DataStart, DataEnd))
         IN  read.filename = Filename(part) /\ read.data = Stripped(part.data)
<1>1. Headers = PartHeader(part) /\ SubSeq(buf, DataStart, DataEnd) = Stripped(part.data)
  BY TurnReads
<1>2. IsPart(part)
  BY Zenon DEF Turn
<1>3. PICK s \in Seq(BodyBytes) : s = Headers
  BY <1>1, <1>2, HeaderIs
<1>4. SplitsHeaders
  BY DEF WithinBody, PartsPhase
<1>5. PICK p : p = CRLF
  OBVIOUS
<1>6. Len(p) \in Nat \ {0} /\ Len(s) \in Nat
  BY <1>5, LineEnd
<1>7. \E f : IsSplitting(f, s, p, 1) /\ Split(s, p) = f[1]
  BY <1>6, SplitIs
<1>8. PICK f : IsSplitting(f, s, p, 1) /\ Split(s, p) = f[1]
  BY <1>7
<1>9. vec = f[1]
  BY <1>3, <1>4, <1>5, <1>8 DEF SplitsHeaders, Splits
<1>10. vec = Split(PartHeader(part), CRLF)
  BY <1>1, <1>3, <1>5, <1>8, <1>9
<1>11. IsRead(PartHeaders, Filename(part))
  BY <1>2, <1>10, HeaderIs DEF HeaderIsRead
<1>12. PICK h : h = PartHeaders
  OBVIOUS
<1>13. h.filename = Filename(part)
  BY <1>11, <1>12 DEF IsRead
<1>14. \A b : Part(h, b).filename = h.filename /\ Part(h, b).data = b
  BY DEF Part
<1> QED
  BY <1>1, <1>12, <1>13, <1>14

LEMMA PartReads ==
  ASSUME form # NoForm, ReadsForm, WithinBody, ParsePart
  PROVE  ReadsForm'
<1>1. /\ pc = "headers" /\ pass = "done" /\ UNCHANGED <<form, upload, boundary>>
      /\ req' = [req EXCEPT !.multipart_formdata =
                   Append(@, Part(PartHeaders, SubSeq(buf, DataStart, DataEnd)))]
      /\ IF IsLast THEN pc' = "accepted" /\ pos' = pos
         ELSE pc' = "parts" /\ pos' = SkipLineEnd(NextBoundary + Len(boundary_line))
  BY DEF ParsePart
<1>2. /\ Sent /\ boundary = form.boundary /\ Len(form.parts) \in Nat
      /\ Len(req.multipart_formdata) \in 0..Len(form.parts)
      /\ \E from, m : AtPart(from, m, Len(req.multipart_formdata) + 1)
  BY <1>1, PlaceIs
<1>3. AnotherPart
  BY <1>1 DEF WithinBody, PartsPhase
<1>4. PICK n \in Nat : n = Len(form.parts)
  BY <1>2
<1>5. PICK k \in 1..n + 1 : k = Len(req.multipart_formdata) + 1
  <2>1. Len(req.multipart_formdata) + 1 \in 1..n + 1
    BY <1>2, <1>4
  <2> QED
    BY <2>1
<1>6. PICK from, m : AtPart(from, m, k)
  BY <1>2, <1>5
<1>7. k # n + 1
  BY <1>2, <1>3, <1>4, <1>6, NoPartBehind
<1>8. k \in 1..n /\ k \in 1..Len(form.parts) /\ k + 1 \in 1..Len(form.parts) + 1
  BY <1>4, <1>7
<1>9. PICK part, r : part = form.parts[k] /\ r = from[k + 1]
  OBVIOUS
<1>10. Turn(m, part, r)
  BY <1>2, <1>3, <1>6, <1>8, <1>9, TurnIs
<1>11. PICK read : /\ read = Part(PartHeaders, SubSeq(buf, DataStart, DataEnd))
                   /\ read.filename = Filename(part) /\ read.data = Stripped(part.data)
  BY <1>1, <1>2, <1>10, PartIsRead
<1>12. PICK X : req \in [is_multipart_formdata : BOOLEAN, multipart_formdata : Seq(X), content : Seq(BodyBytes)]
  BY DEF WithinBody, UploadTyped
<1>13. PICK list \in Seq(X) : list = req.multipart_formdata
  BY <1>12
<1>14. PICK all : all = Append(list, read)
  OBVIOUS
<1>15. req'.multipart_formdata = all
  BY <1>1, <1>11, <1>12, <1>13, <1>14
<1>16. AsMeant(list, form)
  BY <1>13 DEF ReadsForm
<1>17. AsMeant(all, form) /\ Len(all) = k
  <2>1. PICK f : f = form
    OBVIOUS
  <2>2. /\ Len(f.parts) \in Nat /\ AsMeant(list, f) /\ k \in 1..Len(f.parts) /\ k = Len(list) + 1
        /\ read.filename = Filename(f.parts[k]) /\ read.data = Stripped(f.parts[k].data)
    BY <1>2, <1>5, <1>8, <1>9, <1>11, <1>13, <1>16, <2>1
  <2>3. AsMeant(Append(list, read), f) /\ Len(Append(list, read)) = k
    BY <2>2, OneReadMore
  <2> QED
    BY <1>14, <2>1, <2>3
<1>18. buf' = buf /\ form' = form /\ boundary' = boundary /\ Sent'
  BY <1>1, <1>2, SentStays DEF buf
<1>19. AsMeant(req.multipart_formdata, form)' /\ Len(req'.multipart_formdata) = k
  BY <1>15, <1>17, <1>18
<1>20. PICK t \in Seq(BodyBytes) : t = FormText(form)
  BY <1>2, SentIs
<1>21. PICK l : l = BoundaryLine(form)
  OBVIOUS
<1>22. PICK z \in Nat, g \in Nat :
         /\ z = NextAt(m, l, PartHeader(part), part.data) /\ g = Len(l)
         /\ NextBoundary = z + 1 /\ z + g <= form.bytes /\ Follows(t, z, r)
  <2>1. /\ IsLaid(FormText(form), form.bytes, m, l, PartHeader(part), part.data, r)
        /\ NextBoundary = NextAt(m, l, PartHeader(part), part.data) + 1
        /\ NextAt(m, l, PartHeader(part), part.data) + Len(l) <= form.bytes
    BY <1>10, <1>21, Zenon DEF Turn
  <2>2. /\ NextAt(m, l, PartHeader(part), part.data) \in Nat /\ Len(l) \in Nat
        /\ Follows(t, NextAt(m, l, PartHeader(part), part.data), r)
    BY <1>20, <2>1, LaidIs
  <2> QED
    BY <2>1, <2>2
<1>23. IsFormText(from, form) /\ t = from[1] /\ IsForm(form)
  BY <1>2, <1>6, <1>20, SentIs DEF AtPart
<1>24. CASE IsLast
  <2>1. ASSUME k # n PROVE FALSE
    <3>1. k + 1 <= Len(form.parts)
      BY <1>4, <1>8, <2>1
    <3>2. PICK j \in 1..Len(form.parts) + 1 : j = k + 1 /\ j <= Len(form.parts)
      BY <1>8, <3>1
    <3>3. PICK q, h, d, x : q = form.parts[j] /\ h = PartHeader(q) /\ d = q.data /\ x = from[j + 1]
      OBVIOUS
    <3>4. Follows(t, z, from[j])
      BY <1>9, <1>22, <3>2
    <3>5. Laid(t, z, l, h, d, x)
      BY <1>21, <1>23, <3>2, <3>3, <3>4, FromIs
    <3>6. StandsIn(t, z + Len(l), CRLF)
      BY <3>5 DEF Laid
    <3>7. StandsIn(FormText(form), NextAt(m, BoundaryLine(form), PartHeader(part), part.data) +
                                     Len(BoundaryLine(form)), CRLF)
      BY <1>20, <1>21, <1>22, <3>6
    <3>8. ~IsLast
      BY <1>2, <1>10, <3>7, NotLast
    <3> QED
      BY <1>24, <3>8
  <2>2. pc' = "accepted" /\ Len(req'.multipart_formdata) = Len(form'.parts)
    BY <1>1, <1>4, <1>18, <1>19, <1>24, <2>1
  <2> QED
    BY <1>2, <1>18, <1>19, <2>2 DEF ReadsForm, WholeForm
<1>25. CASE ~IsLast
  <2>1. boundary_line = l
    BY <1>2, <1>21 DEF boundary_line, BoundaryLine
  <2>2. PICK p : p = z + g + 1
    OBVIOUS
  <2>3. (z + 1) + g = p
    BY <2>2
  <2>4. pc' = "parts" /\ pos' = SkipLineEnd(p)
    BY <1>1, <1>22, <1>25, <2>1, <2>3
  <2>5. SkipLineEnd(p)' = SkipLineEnd(p)
    BY <1>18, LineEndSkipped
  <2>6. pos' = SkipLineEnd(p)'
    BY <2>4, <2>5
  <2>7. AtPart(from, z, k + 1)'
    BY <1>9, <1>18, <1>20, <1>21, <1>22, <1>23, <2>2, <2>6 DEF AtPart
  <2>8. AtSomePart(k + 1)'
    BY <2>7 DEF AtSomePart
  <2>9. AtSomePart(Len(req.multipart_formdata) + 1)'
    BY <1>19, <2>8
  <2> QED
    BY <1>2, <1>18, <1>19, <2>4, <2>9 DEF ReadsForm, WholeForm
<1> QED
  BY <1>24, <1>25

LEMMA ReadsNext ==
  ASSUME ReadsForm, WithinBody, [MultipartNext]_multipartVars
  PROVE  ReadsForm'
<1>1. CASE UNCHANGED multipartVars
  <2>1. /\ form' = form /\ upload' = upload /\ pc' = pc /\ req' = req /\ boundary' = boundary
        /\ pos' = pos /\ buf' = buf
    BY <1>1 DEF multipartVars, buf
  <2>2. PICK k : k = Len(req.multipart_formdata) + 1
    OBVIOUS
  <2>3. AtSomePart(k) => AtSomePart(k)'
    BY <2>1, PlaceStays
  <2>4. AtSomePart(Len(req.multipart_formdata) + 1) => AtSomePart(Len(req.multipart_formdata) + 1)'
    <3>1. k = Len(req'.multipart_formdata) + 1
      BY <2>1, <2>2
    <3> QED
      BY <2>2, <2>3, <3>1
  <2>5. Sent => Sent'
    BY <2>1, SentStays
  <2> QED
    BY <2>1, <2>4, <2>5 DEF ReadsForm, WholeForm
<1>2. CASE MultipartNext
  <2>1. form' = form
    BY <1>2 DEF MultipartNext, ParseContent, ParseNoBoundary, ParseBoundary, FirstBoundary,
                FindPart, SplitHeaders, ParsePart, NoMoreParts
  <2>2. CASE form = NoForm
    BY <2>1, <2>2 DEF ReadsForm
  <2>3. CASE form # NoForm
    <3>1. CASE ParseContent \/ ParseNoBoundary
      BY <2>3, <3>1, FormIsTaken
    <3>2. CASE ParseBoundary
      BY <2>3, <3>2, BoundaryReads
    <3>3. CASE FirstBoundary
      BY <2>3, <3>3, FirstReads
    <3>4. CASE FindPart \/ SplitHeaders
      <4>1. /\ pc \in {"parts", "headers"} /\ pc' \in {"parts", "headers"}
            /\ UNCHANGED <<form, upload, req, boundary, pos>>
        BY <3>4 DEF FindPart, SplitHeaders
      <4> QED
        BY <2>3, <4>1, LoopReads
    <3>5. CASE ParsePart
      BY <2>3, <3>5, PartReads
    <3>6. CASE NoMoreParts
      BY <2>3, <3>6, NoMoreReads
    <3> QED
      BY <1>2, <3>1, <3>2, <3>3, <3>4, <3>5, <3>6 DEF MultipartNext
  <2> QED
    BY <2>2, <2>3
<1> QED
  BY <1>1, <1>2

LEMMA ReadsFormIsEnough ==
  ASSUME ReadsForm
  PROVE  PartsAreRead
<1>1. SUFFICES ASSUME form # NoForm PROVE PartsAreRead
  BY DEF PartsAreRead
<1>2. PICK list : list = req.multipart_formdata
  OBVIOUS
<1>3. IsForm(form) /\ AsMeant(list, form)
  BY <1>1, <1>2, SentIs DEF ReadsForm
<1>4. PICK parts : parts = form.parts /\ DOMAIN parts = 1..Len(parts) /\ Len(parts) \in Nat
  BY <1>3 DEF IsForm
<1> PICK n \in Nat : n = Len(parts)
  BY <1>4
<1>5. PICK meant : meant = Meant(form) /\ meant = [k \in 1..n |-> [filename |-> Filename(parts[k]), data |-> Stripped(parts[k].data)]]
  BY <1>4, Zenon DEF Meant, Filename
<1>6. PICK i \in Nat : i = Len(list) /\ DOMAIN list = 1..i /\ i <= n
  BY <1>3, <1>4 DEF AsMeant
<1>7. PICK found : /\ found = [k \in DOMAIN list |-> [filename |-> list[k].filename, data |-> list[k].data]]
                   /\ found = [k \in 1..i |-> [filename |-> Filename(parts[k]), data |-> Stripped(parts[k].data)]]
  <2>1. \A k \in 1..i : list[k].filename = Filename(parts[k]) /\ list[k].data = Stripped(parts[k].data)
    BY <1>3, <1>4, <1>6 DEF AsMeant
  <2> QED
    BY <1>6, <2>1
<1>8. PICK V : \A k \in 1..n : [filename |-> Filename(parts[k]), data |-> Stripped(parts[k].data)] \in V
  <2>1. PICK V : V = {[filename |-> Filename(parts[k]), data |-> Stripped(parts[k].data)] : k \in 1..n}
    OBVIOUS
  <2> QED
    BY <2>1
<1>9. meant \in Seq(V) /\ Len(meant) = n /\ found \in Seq(V) /\ Len(found) = i
  <2>1. meant \in [1..n -> V] /\ found \in [1..i -> V]
    BY <1>5, <1>6, <1>7, <1>8
  <2> QED
    BY <2>1
<1>10. \A k \in 1..i : found[k] = meant[k]
  BY <1>5, <1>6, <1>7
<1>11. IsPrefix(found, meant)
  BY <1>6, <1>9, <1>10 DEF IsPrefix
<1>12. i = n => found = meant
  BY <1>5, <1>7
<1>13. form.bytes = Len(FormText(form)) => pc # "refused" /\ (pc = "accepted" => i = n)
  BY <1>1, <1>2, <1>4, <1>6 DEF ReadsForm, WholeForm
<1> QED
  BY <1>2, <1>5, <1>7, <1>11, <1>12, <1>13 DEF PartsAreRead

(* A form as browsers make them is read as it is meant by                  *)
(* RequestBodyParser::parse, whatever its boundary, its parts and the      *)
(* characters of its file names are and wherever its end is cut off: the   *)
(* parts before the cut are there with their names and their data, and all *)
(* of them when nothing is cut off.                                        *)
THEOREM PartsAreReadCorrect == MultipartSpec => []PartsAreRead
<1>1. MultipartInit => WithinBody /\ ReadsForm
  BY WithinBodyInit, ReadsInit
<1>2. WithinBody /\ ReadsForm /\ [MultipartNext]_multipartVars => WithinBody' /\ ReadsForm'
  BY WithinBodyNext, ReadsNext
<1>3. ReadsForm => PartsAreRead
  BY ReadsFormIsEnough
<1> QED
  BY <1>1, <1>2, <1>3, PTL DEF MultipartSpec
===============================================================================
