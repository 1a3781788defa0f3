------------------------------ MODULE TextLemmas ------------------------------
(***************************************************************************)
(* What the proofs share: numbers, induction over them, Find and Split of  *)
(* Strings, texts that are cut at a byte, and texts that consist of others.*)
(*                                                                         *)
(* Split is a recursive function: that such a function exists, and what it *)
(* returns, is shown with SetInduction, which rests on the least number of *)
(* a set.                                                                  *)
(***************************************************************************)
EXTENDS Strings, Integers, SequenceTheorems, WellFoundedInduction, TLAPS

-------------------------------------------------------------------------------
(* A set of numbers that is not empty has a least one. *)
LEMMA Least ==
  ASSUME NEW S \in SUBSET Nat, S # {}
  PROVE  \E n \in S : \A j \in S : n <= j
<1>1. PICK R : R = OpToRel(<, Nat)
  BY Zenon
<1>2. \A i, j \in Nat : i < j => <<i, j>> \in R
  BY <1>1 DEF OpToRel
<1>3. IsWellFoundedOn(R, Nat)
  BY <1>1, NatLessThanWellFounded, Zenon
<1>4. S \subseteq Nat
  OBVIOUS
<1>5. PICK n \in S : \A j \in S : ~ (<<j, n>> \in R)
  BY <1>3, <1>4, WFMin, Zenon
<1>6. n \in Nat /\ \A j \in S : j \in Nat /\ ~(j < n)
  BY <1>2, <1>4, <1>5
<1>7. \A j \in S : n <= j
  BY <1>6
<1> QED
  BY <1>7

(* A set of numbers up to n that is not empty has a greatest one. *)
LEMMA Greatest ==
  ASSUME NEW n \in Nat, NEW S \in SUBSET (1..n), S # {}
  PROVE  \E k \in S : \A j \in S : j <= k
<1> DEFINE T == {n - k : k \in S}
<1>1. \A k \in S : k \in 1..n
  OBVIOUS
<1>2. T \subseteq Nat
  BY <1>1
<1>3. T # {}
  OBVIOUS
<1>4. PICK t \in T : \A u \in T : t <= u
  BY <1>2, <1>3, Least
<1>5. PICK k \in S : t = n - k
  BY <1>4
<1>6. \A j \in S : n - k <= n - j
  BY <1>4, <1>5
<1> QED
  BY <1>6, <1>1

(* Induction, for a set of numbers: the least that is not in it has a      *)
(* predecessor.                                                            *)
LEMMA SetInduction ==
  ASSUME NEW S, 0 \in S, \A n \in Nat : n \in S => n + 1 \in S
  PROVE  \A n \in Nat : n \in S
<1> SUFFICES ASSUME \E n \in Nat : n \notin S PROVE FALSE
  OBVIOUS
<1> DEFINE T == {n \in Nat : n \notin S}
<1>1. PICK n \in T : \A m \in T : n <= m
  <2>1. T \in SUBSET Nat /\ T # {}
    OBVIOUS
  <2> QED
    BY <2>1, Least
<1>2. n - 1 \in Nat /\ n - 1 \notin T
  BY <1>1
<1> QED
  BY <1>1, <1>2

-------------------------------------------------------------------------------
LEMMA NotEmpty ==
  ASSUME NEW s, Len(s) # 0 PROVE s # <<>>
<1> SUFFICES ASSUME s = <<>> PROVE FALSE
  OBVIOUS
<1> QED
  OBVIOUS

LEMMA AppendToConcat ==
  ASSUME NEW S, NEW b \in Seq(S), NEW t \in Seq(S), NEW x \in S
  PROVE  Append(b \o t, x) = b \o (t \o <<x>>)
<1>1. PICK r \in Seq(S) : r = <<x>>
  <2>1. <<x>> \in Seq(S)
    OBVIOUS
  <2> QED
    BY <2>1
<1>2. PICK c \in Seq(S) : c = b \o t
  BY ConcatProperties
<1>3. Append(c, x) = c \o r
  BY <1>1, <1>2, AppendIsConcat
<1>4. (b \o t) \o r = b \o (t \o r)
  BY <1>1, ConcatAssociative, SMTT(30)
<1> QED
  BY <1>1, <1>2, <1>3, <1>4

-------------------------------------------------------------------------------
(* Where Find looks. *)
LEMMA FindIs ==
  ASSUME NEW p, NEW s, Len(s) \in Nat, Len(p) \in Nat, NEW i \in Nat \ {0}
  PROVE  \/ Find(p, s, i) = npos
         \/ Find(p, s, i) \in i..Len(s) /\ Find(p, s, i) + Len(p) <= Len(s) + 1
<1> DEFINE places == {n \in i..Len(s) : Occurs(p, s, n)}
<1>1. CASE places = {}
  BY <1>1 DEF Find
<1>2. CASE places # {}
  <2>1. places \in SUBSET Nat
    OBVIOUS
  <2>2. \E n \in places : \A j \in places : n <= j
    BY <1>2, <2>1, Least
  <2>3. Min(places) \in places
    BY <2>2 DEF Min
  <2>4. Find(p, s, i) = Min(places)
    BY <1>2 DEF Find
  <2>5. Find(p, s, i) \in i..Len(s) /\ Occurs(p, s, Find(p, s, i))
    BY <2>3, <2>4
  <2> QED
    BY <2>5 DEF Occurs
<1> QED
  BY <1>1, <1>2

(* The recursive function of Split. *)
Pieces(f, s, p, i) ==
  LET n == IF p = <<>> THEN npos ELSE Find(p, s, i)
      piece == SubSeq(s, i, (IF n = npos THEN Len(s) + 1 ELSE n) - 1)
      rest == IF n = npos THEN <<>> ELSE f[n + Len(p)]
  IN  IF piece = <<>> THEN rest ELSE <<piece>> \o rest

IsSplitting(f, s, p, j) == f = [i \in j..Len(s) + 1 |-> Pieces(f, s, p, i)]

(* It looks at what lies behind only. *)
LEMMA PiecesBehind ==
  ASSUME NEW s, NEW p, Len(s) \in Nat, Len(p) \in Nat \ {0}, NEW i \in Nat \ {0}, NEW f, NEW g,
         \A n \in i + 1..Len(s) + 1 : f[n] = g[n]
  PROVE  Pieces(f, s, p, i) = Pieces(g, s, p, i)
<1>1. PICK n : n = Find(p, s, i)
  OBVIOUS
<1>2. n = npos \/ n + Len(p) \in i + 1..Len(s) + 1
  BY <1>1, FindIs
<1> QED
  BY <1>1, <1>2 DEF Pieces

LEMMA SplittingExists ==
  ASSUME NEW s, NEW p, Len(s) \in Nat, Len(p) \in Nat \ {0}
  PROVE  \E f : IsSplitting(f, s, p, 1)
<1> DEFINE I == {n \in Nat : n <= Len(s) => \E f : IsSplitting(f, s, p, Len(s) + 1 - n)}
<1>1. 0 \in I
  <2> DEFINE f == [i \in Len(s) + 1..Len(s) + 1 |-> Pieces(<<>>, s, p, i)]
  <2>1. \A i \in Len(s) + 1..Len(s) + 1 : Pieces(<<>>, s, p, i) = Pieces(f, s, p, i)
    BY PiecesBehind
  <2>2. IsSplitting(f, s, p, Len(s) + 1)
    BY <2>1 DEF IsSplitting
  <2>3. Len(s) + 1 - 0 = Len(s) + 1
    OBVIOUS
  <2> HIDE DEF f
  <2> QED
    BY <2>2, <2>3
<1>2. ASSUME NEW n \in Nat, n \in I PROVE n + 1 \in I
  <2> SUFFICES ASSUME n + 1 <= Len(s) PROVE \E f : IsSplitting(f, s, p, Len(s) + 1 - (n + 1))
    OBVIOUS
  <2>1. PICK j \in 1..Len(s) : j = Len(s) + 1 - (n + 1) /\ j + 1 = Len(s) + 1 - n
    OBVIOUS
  <2>2. PICK f : IsSplitting(f, s, p, j + 1)
    BY <1>2, <2>1
  <2> DEFINE g == [i \in j..Len(s) + 1 |-> IF i = j THEN Pieces(f, s, p, j) ELSE f[i]]
  <2>3. ASSUME NEW i \in j..Len(s) + 1 PROVE g[i] = Pieces(g, s, p, i)
    <3>1. \A m \in i + 1..Len(s) + 1 : f[m] = g[m]
      BY <2>1
    <3>2. Pieces(f, s, p, i) = Pieces(g, s, p, i)
      BY <2>1, <2>3, <3>1, PiecesBehind
    <3>3. i # j => i \in j + 1..Len(s) + 1
      BY <2>1, <2>3
    <3>4. i # j => f[i] = Pieces(f, s, p, i)
      BY <2>2, <3>3 DEF IsSplitting
    <3> QED
      BY <3>2, <3>4
  <2>4. IsSplitting(g, s, p, j)
    BY <2>3 DEF IsSplitting
  <2> HIDE DEF g
  <2> QED
    BY <2>1, <2>4
<1> HIDE DEF I
<1>3. Len(s) \in I
  BY <1>1, <1>2, SetInduction
<1>4. Len(s) + 1 - Len(s) = 1
  OBVIOUS
<1> QED
  BY <1>3, <1>4 DEF I

LEMMA SplitIs ==
  ASSUME NEW s, NEW p, Len(s) \in Nat, Len(p) \in Nat \ {0}
  PROVE  \E f : IsSplitting(f, s, p, 1) /\ Split(s, p) = f[1]
<1> DEFINE F(f) == [i \in 1..Len(s) + 1 |-> Pieces(f, s, p, i)]
           from == CHOOSE f : f = F(f)
<1>1. \E f : f = F(f)
  BY SplittingExists DEF IsSplitting
<1>2. from = F(from)
  BY <1>1
<1>3. Split(s, p) = from[1]
  BY DEF Split, Pieces
<1> HIDE DEF from
<1> QED
  BY <1>2, <1>3 DEF IsSplitting

(* The pieces are words of the text's alphabet, and none is empty. *)
LEMMA SplittingType ==
  ASSUME NEW S, NEW s \in Seq(S), NEW p, Len(p) \in Nat \ {0}, NEW f, IsSplitting(f, s, p, 1)
  PROVE  \A i \in 1..Len(s) + 1 : f[i] \in Seq(Seq(S) \ {<<>>})
<1> DEFINE W == Seq(S) \ {<<>>}
           I == {n \in Nat : \A i \in Len(s) + 1 - n..Len(s) + 1 : i > 0 => f[i] \in Seq(W)}
<1>1. Len(s) \in Nat
  OBVIOUS
<1>2. ASSUME NEW i \in 1..Len(s) + 1, \A m \in i + 1..Len(s) + 1 : f[m] \in Seq(W)
      PROVE  f[i] \in Seq(W)
  <2>1. i \in Nat \ {0} /\ Len(p) \in Nat
    OBVIOUS
  <2>2. PICK n : n = Find(p, s, i)
    OBVIOUS
  <2>3. n = npos \/ (n \in i..Len(s) /\ n + Len(p) <= Len(s) + 1)
    BY <1>1, <2>1, <2>2, FindIs
  <2>4. PICK e \in 0..Len(s) : e = (IF n = npos THEN Len(s) + 1 ELSE n) - 1
    BY <1>1, <2>3 DEF npos
  <2>5. PICK piece : piece = SubSeq(s, i, e)
    OBVIOUS
  <2>6. piece \in Seq(S)
    <3>1. \A m \in i..e : s[m] \in S
      BY <1>1
    <3> QED
      BY <2>5, <3>1, SubSeqProperties
  <2>7. PICK rest : rest = IF n = npos THEN <<>> ELSE f[n + Len(p)]
    OBVIOUS
  <2>8. rest \in Seq(W)
    <3>1. n # npos => n + Len(p) \in i + 1..Len(s) + 1
      BY <1>1, <2>1, <2>3
    <3> QED
      BY <1>2, <2>7, <3>1
  <2>9. f[i] = Pieces(f, s, p, i)
    BY DEF IsSplitting
  <2>10. f[i] = IF piece = <<>> THEN rest ELSE <<piece>> \o rest
    <3>1. p # <<>>
      <4>1. Len(<<>>) = 0
        OBVIOUS
      <4> QED
        BY <4>1
    <3>2. Pieces(f, s, p, i) =
            IF SubSeq(s, i, (IF n = npos THEN Len(s) + 1 ELSE n) - 1) = <<>> THEN rest
            ELSE <<SubSeq(s, i, (IF n = npos THEN Len(s) + 1 ELSE n) - 1)>> \o rest
      BY <2>2, <2>7, <3>1 DEF Pieces
    <3> QED
      BY <2>4, <2>5, <2>9, <3>2
  <2>11. piece # <<>> => <<piece>> \in Seq(W)
    BY <2>6
  <2> HIDE DEF W
  <2> QED
    BY <2>8, <2>10, <2>11
<1>3. 0 \in I
  BY <1>1, <1>2
<1>4. ASSUME NEW n \in Nat, n \in I PROVE n + 1 \in I
  <2> SUFFICES ASSUME NEW i \in Len(s) + 1 - (n + 1)..Len(s) + 1, i > 0 PROVE f[i] \in Seq(W)
    OBVIOUS
  <2>1. \A m \in i + 1..Len(s) + 1 : m \in Len(s) + 1 - n..Len(s) + 1 /\ m > 0
    BY <1>1
  <2>2. \A m \in i + 1..Len(s) + 1 : f[m] \in Seq(W)
    BY <1>4, <2>1
  <2>3. i \in 1..Len(s) + 1
    BY <1>1
  <2> QED
    BY <1>2, <2>2, <2>3
<1> HIDE DEF I
<1>5. Len(s) + 1 \in I
  BY <1>1, <1>3, <1>4, SetInduction
<1> QED
  BY <1>1, <1>5 DEF I

-------------------------------------------------------------------------------
(* Find returns the first place, if there is one. *)
LEMMA FindIsFirst ==
  ASSUME NEW p, NEW s, Len(s) \in Nat, NEW i \in Nat \ {0}
  PROVE  \/ /\ Find(p, s, i) = npos
            /\ \A n \in i..Len(s) : ~Occurs(p, s, n)
         \/ /\ Find(p, s, i) \in i..Len(s)
            /\ Occurs(p, s, Find(p, s, i))
            /\ \A n \in i..Find(p, s, i) - 1 : ~Occurs(p, s, n)
<1> DEFINE places == {n \in i..Len(s) : Occurs(p, s, n)}
<1>1. CASE places = {}
  <2>1. Find(p, s, i) = npos
    BY <1>1 DEF Find
  <2>2. \A n \in i..Len(s) : ~Occurs(p, s, n)
    BY <1>1
  <2> QED
    BY <2>1, <2>2
<1>2. CASE places # {}
  <2>1. places \in SUBSET Nat
    OBVIOUS
  <2>2. \E n \in places : \A j \in places : n <= j
    BY <1>2, <2>1, Least
  <2>3. Min(places) \in places /\ \A j \in places : Min(places) <= j
    BY <2>2 DEF Min
  <2>4. Find(p, s, i) = Min(places)
    BY <1>2 DEF Find
  <2>5. PICK k \in i..Len(s) : k = Find(p, s, i) /\ Occurs(p, s, k) /\ \A j \in places : k <= j
    BY <2>3, <2>4
  <2>6. \A n \in i..k - 1 : ~Occurs(p, s, n)
    <3> SUFFICES ASSUME NEW n \in i..k - 1, Occurs(p, s, n) PROVE FALSE
      OBVIOUS
    <3>1. n \in i..Len(s) /\ ~(k <= n)
      BY <2>5
    <3>2. n \in places
      BY <3>1
    <3> QED
      BY <2>5, <3>1, <3>2
  <2> QED
    BY <2>5, <2>6
<1> QED
  BY <1>1, <1>2

(* A pattern of one byte: where the piece that begins at i ends. *)
WordEnd(s, c, i) == IF Find(<<c>>, s, i) = npos THEN Len(s) + 1 ELSE Find(<<c>>, s, i)

(* Such a pattern stands where the byte is. *)
LEMMA OccursByte ==
  ASSUME NEW S, NEW s \in Seq(S), NEW c \in S, NEW n \in 1..Len(s)
  PROVE  Occurs(<<c>>, s, n) <=> s[n] = c
<1>1. PICK p \in Seq(S) : p = <<c>> /\ Len(p) = 1 /\ p[1] = c
  <2>1. <<c>> \in Seq(S) /\ Len(<<c>>) = 1 /\ <<c>>[1] = c
    OBVIOUS
  <2> QED
    BY <2>1
<1>2. n + Len(p) <= Len(s) + 1 /\ n + Len(p) - 1 = n /\ n \in Int
  BY <1>1
<1>3. PICK q \in Seq(S) : q = SubSeq(s, n, n) /\ Len(q) = 1 /\ q[1] = s[n]
  <2>1. \A i \in n..n : s[i] \in S
    OBVIOUS
  <2>2. SubSeq(s, n, n) \in Seq(S) /\ Len(SubSeq(s, n, n)) = 1
        /\ \A i \in 1..1 : SubSeq(s, n, n)[i] = s[n + i - 1]
    BY <1>2, <2>1, SubSeqProperties
  <2>3. SubSeq(s, n, n)[1] = s[n]
    BY <2>2
  <2> QED
    BY <2>2, <2>3
<1>4. q = p <=> s[n] = c
  <2>1. s[n] = c => \A i \in 1..Len(p) : q[i] = p[i]
    BY <1>1, <1>3
  <2> QED
    BY <1>1, <1>3, <2>1, SeqEqual
<1>5. Occurs(p, s, n) <=> q = p
  BY <1>2, <1>3 DEF Occurs
<1> QED
  BY <1>1, <1>4, <1>5

EndsAt(s, c, i, e) ==
  /\ e \in i..Len(s) + 1
  /\ e # Len(s) + 1 => s[e] = c
  /\ \A n \in i..e - 1 : s[n] # c

(* It ends at the first such byte, or with the text ... *)
LEMMA EndIs ==
  ASSUME NEW S, NEW s \in Seq(S), NEW c \in S, NEW i \in 1..Len(s) + 1
  PROVE  EndsAt(s, c, i, WordEnd(s, c, i))
<1>1. PICK p : p = <<c>>
  OBVIOUS
<1>2. Len(s) \in Nat /\ i \in Nat \ {0}
  OBVIOUS
<1>3. \A n \in 1..Len(s) : Occurs(p, s, n) <=> s[n] = c
  BY <1>1, OccursByte
<1>6. \/ /\ Find(p, s, i) = npos
         /\ \A n \in i..Len(s) : ~Occurs(p, s, n)
      \/ /\ Find(p, s, i) \in i..Len(s)
         /\ Occurs(p, s, Find(p, s, i))
         /\ \A n \in i..Find(p, s, i) - 1 : ~Occurs(p, s, n)
  BY <1>2, FindIsFirst
<1>4. CASE Find(p, s, i) = npos
  <2>1. \A n \in i..Len(s) : ~Occurs(p, s, n)
    BY <1>2, <1>4, <1>6 DEF npos
  <2>2. WordEnd(s, c, i) = Len(s) + 1
    BY <1>1, <1>4 DEF WordEnd
  <2>3. \A n \in i..Len(s) : s[n] # c
    BY <1>2, <1>3, <2>1
  <2> QED
    BY <1>2, <2>2, <2>3 DEF EndsAt
<1>5. CASE Find(p, s, i) # npos
  <2>1. PICK e \in i..Len(s) : /\ e = Find(p, s, i)
                               /\ Occurs(p, s, e)
                               /\ \A n \in i..e - 1 : ~Occurs(p, s, n)
    BY <1>2, <1>5, <1>6
  <2>2. WordEnd(s, c, i) = e
    BY <1>1, <1>5, <2>1 DEF WordEnd
  <2>3. s[e] = c /\ \A n \in i..e - 1 : s[n] # c
    BY <1>2, <1>3, <2>1
  <2> QED
    BY <1>2, <2>2, <2>3 DEF EndsAt
<1> QED
  BY <1>4, <1>5

(* ... and that is the only place of which this is true. *)
LEMMA EndIsUnique ==
  ASSUME NEW S, NEW s \in Seq(S), NEW c \in S, NEW i \in 1..Len(s) + 1, NEW e, EndsAt(s, c, i, e)
  PROVE  WordEnd(s, c, i) = e
<1>1. PICK k : k = WordEnd(s, c, i) /\ EndsAt(s, c, i, k)
  BY EndIs
<1>0. /\ k \in i..Len(s) + 1 /\ e \in i..Len(s) + 1
      /\ (k # Len(s) + 1 => s[k] = c) /\ (e # Len(s) + 1 => s[e] = c)
      /\ (\A n \in i..k - 1 : s[n] # c) /\ (\A n \in i..e - 1 : s[n] # c)
  BY <1>1 DEF EndsAt
<1>2. ~(k < e)
  <2>1. k < e => k \in i..e - 1 /\ k # Len(s) + 1
    BY <1>0
  <2> QED
    BY <1>0, <2>1
<1>3. ~(e < k)
  <2>1. e < k => e \in i..k - 1 /\ e # Len(s) + 1
    BY <1>0
  <2> QED
    BY <1>0, <2>1
<1> QED
  BY <1>0, <1>1, <1>2, <1>3

(* What Split makes of the text from i on. *)
LEMMA SplittingByte ==
  ASSUME NEW S, NEW s \in Seq(S), NEW c \in S, NEW f, IsSplitting(f, s, <<c>>, 1),
         NEW i \in 1..Len(s) + 1
  PROVE  LET e == WordEnd(s, c, i)
             rest == IF e = Len(s) + 1 THEN <<>> ELSE f[e + 1]
         IN  f[i] = IF e = i THEN rest ELSE <<SubSeq(s, i, e - 1)>> \o rest
<1>1. PICK p : p = <<c>> /\ p # <<>> /\ Len(p) = 1
  <2>1. <<c>> # <<>> /\ Len(<<c>>) = 1
    OBVIOUS
  <2> QED
    BY <2>1
<1>2. PICK n : n = Find(p, s, i)
  OBVIOUS
<1>3. n = npos \/ n \in i..Len(s)
  <2>1. Len(s) \in Nat /\ i \in Nat \ {0}
    OBVIOUS
  <2> QED
    BY <1>2, <2>1, FindIsFirst
<1>4. PICK e \in i..Len(s) + 1 : e = WordEnd(s, c, i)
  BY EndIs DEF EndsAt
<1>5. e = (IF n = npos THEN Len(s) + 1 ELSE n) /\ (e = Len(s) + 1 <=> n = npos)
  BY <1>1, <1>2, <1>3, <1>4 DEF WordEnd, npos
<1>6. PICK rest : rest = IF e = Len(s) + 1 THEN <<>> ELSE f[e + 1]
  OBVIOUS
<1>7. rest = IF n = npos THEN <<>> ELSE f[n + Len(p)]
  BY <1>1, <1>5, <1>6
<1>8. PICK piece : piece = SubSeq(s, i, e - 1)
  OBVIOUS
<1>9. piece = <<>> <=> e = i
  <2>1. e = i => piece = <<>>
    BY <1>8, SubSeqEmpty
  <2>2. e # i => Len(piece) # 0
    <3>1. \A m \in i..e - 1 : s[m] \in S
      OBVIOUS
    <3> QED
      BY <1>8, <3>1, SubSeqProperties
  <2> QED
    BY <2>1, <2>2, NotEmpty
<1>10. f[i] = Pieces(f, s, p, i)
  BY <1>1 DEF IsSplitting
<1>11. Pieces(f, s, p, i) = IF piece = <<>> THEN rest ELSE <<piece>> \o rest
  BY <1>1, <1>2, <1>5, <1>7, <1>8 DEF Pieces
<1>12. f[i] = IF e = i THEN rest ELSE <<piece>> \o rest
  BY <1>9, <1>10, <1>11
<1> QED
  BY <1>4, <1>6, <1>8, <1>12

(* What a part of a text is. *)
LEMMA SubSeqIs ==
  ASSUME NEW S, NEW s \in Seq(S), NEW i \in Nat \ {0}, NEW e \in Nat, i <= e + 1, e <= Len(s)
  PROVE  /\ SubSeq(s, i, e) \in Seq(S)
         /\ Len(SubSeq(s, i, e)) = e + 1 - i
         /\ \A n \in 1..e + 1 - i : SubSeq(s, i, e)[n] = s[i + n - 1]
<1>1. \A n \in i..e : s[n] \in S
  OBVIOUS
<1>2. i \in Int /\ e \in Int
  OBVIOUS
<1>3. /\ SubSeq(s, i, e) \in Seq(S)
      /\ Len(SubSeq(s, i, e)) = IF i <= e THEN e - i + 1 ELSE 0
      /\ \A n \in 1..e - i + 1 : SubSeq(s, i, e)[n] = s[i + n - 1]
  BY <1>1, <1>2, SubSeqProperties
<1>4. e - i + 1 = e + 1 - i /\ (~(i <= e) => e + 1 - i = 0)
  OBVIOUS
<1> QED
  BY <1>3, <1>4

(* From i on, s has what t has from j on, n bytes. *)
Alike(s, i, t, j, n) == \A k \in 0..n - 1 : s[i + k] = t[j + k]

(* Parts that are alike byte by byte are the same. *)
LEMMA SameSubSeq ==
  ASSUME NEW S, NEW s \in Seq(S), NEW t \in Seq(S), NEW i \in Nat \ {0}, NEW j \in Nat \ {0},
         NEW n \in Nat, i + n - 1 <= Len(s), j + n - 1 <= Len(t), Alike(s, i, t, j, n)
  PROVE  SubSeq(s, i, i + n - 1) = SubSeq(t, j, j + n - 1)
<1>1. PICK d \in Nat, e \in Nat : d = i + n - 1 /\ e = j + n - 1
  OBVIOUS
<1>2. PICK u \in Seq(S) : /\ u = SubSeq(s, i, d)
                          /\ Len(u) = n
                          /\ \A k \in 1..n : u[k] = s[i + k - 1]
  <2>1. i <= d + 1 /\ d + 1 - i = n /\ d <= Len(s)
    BY <1>1
  <2>2. /\ SubSeq(s, i, d) \in Seq(S)
        /\ Len(SubSeq(s, i, d)) = d + 1 - i
        /\ \A k \in 1..d + 1 - i : SubSeq(s, i, d)[k] = s[i + k - 1]
    BY <2>1, SubSeqIs
  <2> QED
    BY <2>1, <2>2
<1>3. PICK v \in Seq(S) : /\ v = SubSeq(t, j, e)
                          /\ Len(v) = n
                          /\ \A k \in 1..n : v[k] = t[j + k - 1]
  <2>1. j <= e + 1 /\ e + 1 - j = n /\ e <= Len(t)
    BY <1>1
  <2>2. /\ SubSeq(t, j, e) \in Seq(S)
        /\ Len(SubSeq(t, j, e)) = e + 1 - j
        /\ \A k \in 1..e + 1 - j : SubSeq(t, j, e)[k] = t[j + k - 1]
    BY <2>1, SubSeqIs
  <2> QED
    BY <2>1, <2>2
<1>4. ASSUME NEW k \in 1..n PROVE u[k] = v[k]
  <2>1. PICK l \in 0..n - 1 : l = k - 1 /\ i + k - 1 = i + l /\ j + k - 1 = j + l
    OBVIOUS
  <2>2. s[i + l] = t[j + l]
    BY <2>1, Zenon DEF Alike
  <2> QED
    BY <1>2, <1>3, <2>1, <2>2
<1>5. u = v
  BY <1>2, <1>3, <1>4, SeqEqual
<1> QED
  BY <1>1, <1>2, <1>3, <1>5

(* What a piece is, by where it ends. *)
Piece(s, i, e, rest) == IF e = i THEN rest ELSE <<SubSeq(s, i, e - 1)>> \o rest

Rest(f, s, e) == IF e = Len(s) + 1 THEN <<>> ELSE f[e + 1]

AlikeWords(s, i, d, t, j, e) ==
  /\ i \in 1..Len(s) + 1 /\ d \in i..Len(s) + 1
  /\ j \in 1..Len(t) + 1 /\ e \in j..Len(t) + 1
  /\ d - i = e - j /\ Alike(s, i, t, j, d - i)

(* Two words that are alike make the same piece. *)
LEMMA SamePiece ==
  ASSUME NEW S, NEW s \in Seq(S), NEW t \in Seq(S), NEW i, NEW d, NEW j, NEW e, NEW rest,
         AlikeWords(s, i, d, t, j, e)
  PROVE  Piece(s, i, d, rest) = Piece(t, j, e, rest)
<1>0. /\ i \in 1..Len(s) + 1 /\ d \in i..Len(s) + 1
      /\ j \in 1..Len(t) + 1 /\ e \in j..Len(t) + 1
      /\ d - i = e - j /\ Alike(s, i, t, j, d - i)
  BY DEF AlikeWords
<1>1. PICK n \in Nat : n = d - i /\ d - 1 = i + n - 1 /\ e - 1 = j + n - 1
  BY <1>0
<1>2. SubSeq(s, i, i + n - 1) = SubSeq(t, j, j + n - 1)
  <2>1. i + n - 1 <= Len(s) /\ j + n - 1 <= Len(t) /\ i \in Nat \ {0} /\ j \in Nat \ {0}
    BY <1>0, <1>1
  <2>2. Alike(s, i, t, j, n)
    BY <1>0, <1>1
  <2> QED
    BY <2>1, <2>2, SameSubSeq
<1>3. d = i <=> e = j
  BY <1>0
<1> QED
  BY <1>1, <1>2, <1>3 DEF Piece

(* What Split makes of a text, by the end of its first word. *)
LEMMA SplitsAtEnd ==
  ASSUME NEW S, NEW s \in Seq(S), NEW c \in S, NEW f, IsSplitting(f, s, <<c>>, 1),
         NEW i \in 1..Len(s) + 1
  PROVE  f[i] = Piece(s, i, WordEnd(s, c, i), Rest(f, s, WordEnd(s, c, i)))
  BY SplittingByte DEF Piece, Rest

(* s ends in b: what lies before b is m long. *)
Follows(s, m, b) == Len(s) = m + Len(b) /\ \A j \in 1..Len(b) : s[m + j] = b[j]

(* Where a word ends depends on what is behind it only. *)
LEMMA EndBehind ==
  ASSUME NEW S, NEW s \in Seq(S), NEW b \in Seq(S), NEW c \in S, NEW m \in Nat, Follows(s, m, b),
         NEW j \in 1..Len(b) + 1
  PROVE  WordEnd(s, c, m + j) = m + WordEnd(b, c, j)
<1>1. PICK n \in Nat : n = Len(b) /\ Len(s) = m + n
  BY DEF Follows
<1>2. PICK e : e = WordEnd(b, c, j) /\ EndsAt(b, c, j, e)
  BY EndIs
<1>3. e \in j..n + 1
  BY <1>1, <1>2 DEF EndsAt
<1>4. PICK i \in 1..Len(s) + 1, d \in 1..Len(s) + 1 : i = m + j /\ d = m + e /\ d \in i..Len(s) + 1
  BY <1>1, <1>3
<1>5. d # Len(s) + 1 => s[d] = c
  <2>1. d # Len(s) + 1 => e # Len(b) + 1 /\ e \in 1..Len(b)
    BY <1>1, <1>3, <1>4
  <2>2. e # Len(b) + 1 => b[e] = c
    BY <1>2 DEF EndsAt
  <2> QED
    BY <1>4, <2>1, <2>2, Zenon DEF Follows
<1>6. ASSUME NEW k \in i..d - 1 PROVE s[k] # c
  <2>1. PICK l \in j..e - 1 : k = m + l /\ l \in 1..Len(b)
    <3>1. k - m \in j..e - 1 /\ k = m + (k - m) /\ k - m \in 1..Len(b)
      BY <1>1, <1>3, <1>4
    <3> QED
      BY <3>1
  <2>2. b[l] # c
    BY <1>2, <2>1, Zenon DEF EndsAt
  <2>3. s[k] = b[l]
    BY <2>1, Zenon DEF Follows
  <2> QED
    BY <2>2, <2>3
<1>7. WordEnd(s, c, i) = d
  <2>1. EndsAt(s, c, i, d)
    BY <1>4, <1>5, <1>6 DEF EndsAt
  <2> QED
    BY <2>1, EndIsUnique
<1> QED
  BY <1>2, <1>4, <1>7

(* So does what it is split into. *)
LEMMA SplittingBehind ==
  ASSUME NEW S, NEW s \in Seq(S), NEW b \in Seq(S), NEW c \in S, NEW m \in Nat, Follows(s, m, b),
         NEW f, IsSplitting(f, s, <<c>>, 1), NEW h, IsSplitting(h, b, <<c>>, 1)
  PROVE  \A j \in 1..Len(b) + 1 : f[m + j] = h[j]
<1> DEFINE I == {n \in Nat : \A j \in Len(b) + 1 - n..Len(b) + 1 : j > 0 => f[m + j] = h[j]}
<1>1. Len(b) \in Nat /\ Len(s) = m + Len(b)
  BY DEF Follows
<1>2. ASSUME NEW j \in 1..Len(b) + 1, \A k \in j + 1..Len(b) + 1 : f[m + k] = h[k]
      PROVE  f[m + j] = h[j]
  <2>1. PICK e : e = WordEnd(b, c, j) /\ e \in j..Len(b) + 1
    BY EndIs DEF EndsAt
  <2>0. e \in j..Len(b) + 1
    BY <2>1
  <2>2. PICK i \in 1..Len(s) + 1, d \in 1..Len(s) + 1 : i = m + j /\ d = m + e /\ d \in i..Len(s) + 1
    BY <1>1, <2>0
  <2>3. d = WordEnd(s, c, i)
    BY <2>1, <2>2, EndBehind
  <2>4. Rest(f, s, d) = Rest(h, b, e)
    <3>1. d = Len(s) + 1 <=> e = Len(b) + 1
      BY <1>1, <2>1, <2>2, SMTT(30)
    <3>2. e # Len(b) + 1 => e + 1 \in j + 1..Len(b) + 1 /\ d + 1 = m + (e + 1)
      BY <1>1, <2>1, <2>2, SMTT(30)
    <3>3. ASSUME e # Len(b) + 1 PROVE f[d + 1] = h[e + 1]
      <4>1. PICK k \in j + 1..Len(b) + 1 : k = e + 1 /\ d + 1 = m + k
        BY <3>2, <3>3
      <4>2. f[m + k] = h[k]
        BY <1>2, Zenon
      <4> QED
        BY <4>1, <4>2
    <3> QED
      BY <3>1, <3>3, Zenon DEF Rest
  <2>5. Alike(s, i, b, j, d - i)
    <3> SUFFICES ASSUME NEW k \in 0..d - i - 1 PROVE s[i + k] = b[j + k]
      BY DEF Alike
    <3>1. j + k \in 1..Len(b) /\ i + k = m + (j + k)
      <4>1. d - i = e - j /\ e <= Len(b) + 1 /\ j \in Nat \ {0} /\ e \in Nat /\ Len(b) \in Nat
        <5>1. j \in Nat \ {0} /\ Len(b) \in Nat
          BY <1>1
        <5>2. e \in Nat /\ e <= Len(b) + 1
          BY <2>0, <5>1
        <5>3. i = m + j /\ d = m + e
          BY <2>2
        <5>4. d - i = e - j
          BY <5>1, <5>2, <5>3
        <5> QED
          BY <5>1, <5>2, <5>4
      <4>2. k \in Nat /\ k <= e - j - 1
        BY <4>1
      <4>3. j + k \in Nat /\ 1 <= j + k /\ j + k <= Len(b)
        BY <4>1, <4>2
      <4>4. i + k = m + (j + k)
        BY <2>1, <2>2, <4>2
      <4> QED
        BY <4>3, <4>4
    <3> QED
      BY <3>1, Zenon DEF Follows
  <2>6. d - i = e - j
    BY <2>1, <2>2
  <2>7. Piece(s, i, d, Rest(h, b, e)) = Piece(b, j, e, Rest(h, b, e))
    <3>1. PICK rest : rest = Rest(h, b, e)
      OBVIOUS
    <3>2. Piece(s, i, d, rest) = Piece(b, j, e, rest)
      <4>1. AlikeWords(s, i, d, b, j, e)
        BY <2>0, <2>2, <2>5, <2>6 DEF AlikeWords
      <4> QED
        BY <4>1, SamePiece
    <3> QED
      BY <3>1, <3>2
  <2>8. f[i] = Piece(s, i, d, Rest(f, s, d))
    BY <2>3, SplitsAtEnd
  <2>9. h[j] = Piece(b, j, e, Rest(h, b, e))
    BY <2>1, SplitsAtEnd
  <2> QED
    BY <2>2, <2>4, <2>7, <2>8, <2>9
<1>3. 0 \in I
  BY <1>1, <1>2
<1>4. ASSUME NEW n \in Nat, n \in I PROVE n + 1 \in I
  <2> SUFFICES ASSUME NEW j \in Len(b) + 1 - (n + 1)..Len(b) + 1, j > 0 PROVE f[m + j] = h[j]
    OBVIOUS
  <2>1. j \in 1..Len(b) + 1 /\ \A k \in j + 1..Len(b) + 1 : k \in Len(b) + 1 - n..Len(b) + 1 /\ k > 0
    BY <1>1
  <2>2. \A k \in j + 1..Len(b) + 1 : f[m + k] = h[k]
    BY <1>4, <2>1
  <2> QED
    BY <1>2, <2>1, <2>2
<1> HIDE DEF I
<1>5. Len(b) + 1 \in I
  BY <1>1, <1>3, <1>4, SetInduction
<1>6. \A j \in 1..Len(b) + 1 : j \in Len(b) + 1 - (Len(b) + 1)..Len(b) + 1 /\ j > 0
  BY <1>1
<1> QED
  BY <1>5, <1>6 DEF I

(* s begins with a, and c follows. *)
Before(s, a, c) ==
  /\ Len(a) + 1 <= Len(s) /\ s[Len(a) + 1] = c
  /\ \A i \in 1..Len(a) : s[i] = a[i]

(* Where a word of the first part ends. *)
LEMMA EndBefore ==
  ASSUME NEW S, NEW s \in Seq(S), NEW a \in Seq(S), NEW c \in S, Before(s, a, c),
         NEW i \in 1..Len(a) + 1
  PROVE  WordEnd(s, c, i) = WordEnd(a, c, i)
<1>1. PICK e : e = WordEnd(a, c, i) /\ EndsAt(a, c, i, e)
  BY EndIs
<1>2. e \in i..Len(a) + 1 /\ Len(a) \in Nat /\ Len(s) \in Nat
  BY <1>1 DEF EndsAt
<1>3. Len(a) + 1 <= Len(s) /\ s[Len(a) + 1] = c
  BY DEF Before
<1>4. s[e] = c
  <2>1. CASE e = Len(a) + 1
    BY <1>3, <2>1
  <2>2. CASE e # Len(a) + 1
    <3>1. a[e] = c
      BY <1>1, <2>2 DEF EndsAt
    <3>2. e \in 1..Len(a)
      BY <1>2, <2>2
    <3> QED
      BY <3>1, <3>2, Zenon DEF Before
  <2> QED
    BY <2>1, <2>2
<1>5. ASSUME NEW k \in i..e - 1 PROVE s[k] # c
  <2>1. a[k] # c
    BY <1>1, Zenon DEF EndsAt
  <2>2. k \in 1..Len(a)
    BY <1>2
  <2>3. s[k] = a[k]
    BY <2>2, Zenon DEF Before
  <2> QED
    BY <2>1, <2>3
<1>6. EndsAt(s, c, i, e)
  <2>1. e \in i..Len(s) + 1
    BY <1>2, <1>3
  <2> QED
    BY <1>4, <1>5, <2>1 DEF EndsAt
<1>7. i \in 1..Len(s) + 1
  BY <1>2, <1>3
<1> QED
  BY <1>1, <1>6, <1>7, EndIsUnique

(* Putting one element before two sequences. *)
LEMMA ConsConcat ==
  ASSUME NEW X, NEW w \in X, NEW t \in Seq(X), NEW r \in Seq(X)
  PROVE  <<w>> \o (t \o r) = (<<w>> \o t) \o r
<1>1. PICK v \in Seq(X) : v = <<w>>
  <2>1. <<w>> \in Seq(X)
    OBVIOUS
  <2> QED
    BY <2>1
<1>2. v \o (t \o r) = (v \o t) \o r
  BY ConcatAssociative
<1> QED
  BY <1>1, <1>2

Associative(w, t, r) == <<w>> \o (t \o r) = (<<w>> \o t) \o r

LEMMA WordConcat ==
  ASSUME NEW S, NEW w \in Seq(S), NEW t \in Seq(Seq(S)), NEW r \in Seq(Seq(S))
  PROVE  Associative(w, t, r)
<1>1. PICK X : X = Seq(S)
  OBVIOUS
<1>2. w \in X /\ t \in Seq(X) /\ r \in Seq(X)
  BY <1>1
<1> QED
  BY <1>2, ConsConcat DEF Associative

IsPiece(s, i, e) == i \in 1..Len(s) + 1 /\ e \in i..Len(s) + 1

(* A piece before two sequences of pieces. *)
LEMMA PieceConcat ==
  ASSUME NEW S, NEW s \in Seq(S), NEW i, NEW e, IsPiece(s, i, e),
         NEW t \in Seq(Seq(S)), NEW r \in Seq(Seq(S))
  PROVE  Piece(s, i, e, t \o r) = Piece(s, i, e, t) \o r
<1>1. CASE e = i
  BY <1>1 DEF Piece
<1>2. CASE e # i
  <2>1. SubSeq(s, i, e - 1) \in Seq(S)
    <3>1. PICK d \in Nat : d = e - 1 /\ i \in Nat \ {0} /\ i <= d + 1 /\ d <= Len(s)
      BY DEF IsPiece
    <3>2. SubSeq(s, i, d) \in Seq(S)
      BY <3>1, SubSeqIs
    <3> QED
      BY <3>1, <3>2
  <2>2. PICK w \in Seq(S) : w = SubSeq(s, i, e - 1)
    BY <2>1
  <2>3. Associative(w, t, r)
    BY WordConcat
  <2>4. <<w>> \o (t \o r) = (<<w>> \o t) \o r
    BY <2>3 DEF Associative
  <2> QED
    BY <1>2, <2>2, <2>4 DEF Piece
<1> QED
  BY <1>1, <1>2

Splices(f, g, r, n) == \A i \in 1..n : f[i] = g[i] \o r

(* What the first part is split into comes before what the rest is. *)
LEMMA SplittingBefore ==
  ASSUME NEW S, NEW s \in Seq(S), NEW a \in Seq(S), NEW c \in S, Before(s, a, c),
         NEW f, IsSplitting(f, s, <<c>>, 1), NEW g, IsSplitting(g, a, <<c>>, 1)
  PROVE  Splices(f, g, f[Len(a) + 2], Len(a) + 1)
<1> DEFINE r == f[Len(a) + 2]
           I == {n \in Nat : \A i \in Len(a) + 1 - n..Len(a) + 1 : i > 0 => f[i] = g[i] \o r}
<1>1. Len(a) \in Nat /\ Len(s) \in Nat /\ Len(a) + 1 <= Len(s)
  BY DEF Before
<1>0. r \in Seq(Seq(S)) /\ (\A i \in 1..Len(a) + 1 : g[i] \in Seq(Seq(S)))
  <2>1. PICK p : p = <<c>> /\ Len(p) \in Nat \ {0} /\ IsSplitting(f, s, p, 1) /\ IsSplitting(g, a, p, 1)
    <3>1. Len(<<c>>) \in Nat \ {0}
      OBVIOUS
    <3> QED
      BY <3>1, Zenon
  <2>2. \A i \in 1..Len(s) + 1 : f[i] \in Seq(Seq(S) \ {<<>>})
    BY <2>1, SplittingType
  <2>3. \A i \in 1..Len(a) + 1 : g[i] \in Seq(Seq(S) \ {<<>>})
    BY <2>1, SplittingType
  <2>4. Len(a) + 2 \in 1..Len(s) + 1
    BY <1>1
  <2>5. \A q : q \in Seq(Seq(S) \ {<<>>}) => q \in Seq(Seq(S))
    OBVIOUS
  <2> QED
    BY <2>2, <2>3, <2>4, <2>5, Zenon
<1> HIDE DEF r
<1>2. ASSUME NEW i \in 1..Len(a) + 1, \A k \in i + 1..Len(a) + 1 : f[k] = g[k] \o r
      PROVE  f[i] = g[i] \o r
  <2>1. PICK e : e = WordEnd(a, c, i) /\ e \in i..Len(a) + 1
    BY EndIs DEF EndsAt
  <2>2. e = WordEnd(s, c, i)
    BY <2>1, EndBefore
  <2>0. e \in i..Len(s) + 1 /\ i \in 1..Len(s) + 1 /\ e # Len(s) + 1
    BY <1>1, <2>1
  <2>3. PICK t : t = Rest(g, a, e)
    OBVIOUS
  <2>4. t \in Seq(Seq(S)) /\ Rest(f, s, e) = t \o r
    <3>1. CASE e = Len(a) + 1
      <4>1. t = <<>> /\ Rest(f, s, e) = r
        <5>1. e + 1 = Len(a) + 2
          BY <1>1, <3>1
        <5> QED
          BY <2>0, <2>3, <3>1, <5>1 DEF Rest, r
      <4>2. <<>> \o r = r /\ <<>> \in Seq(Seq(S))
        BY <1>0
      <4> QED
        BY <4>1, <4>2
    <3>2. CASE e # Len(a) + 1
      <4>1. PICK k \in i + 1..Len(a) + 1 : k = e + 1
        BY <1>1, <2>1, <3>2
      <4>2. t = g[k] /\ Rest(f, s, e) = f[k]
        BY <2>0, <2>3, <3>2, <4>1 DEF Rest
      <4>3. f[k] = g[k] \o r /\ k \in 1..Len(a) + 1
        BY <1>2, <4>1
      <4> QED
        BY <1>0, <4>2, <4>3
    <3> QED
      BY <3>1, <3>2
  <2>5. Piece(s, i, e, t \o r) = Piece(s, i, e, t) \o r
    <3>1. IsPiece(s, i, e)
      BY <2>0 DEF IsPiece
    <3> QED
      BY <1>0, <2>4, <3>1, PieceConcat
  <2>6. Piece(s, i, e, t) = Piece(a, i, e, t)
    <3>1. Alike(s, i, a, i, e - i)
      <4> SUFFICES ASSUME NEW k \in 0..e - i - 1 PROVE s[i + k] = a[i + k]
        BY DEF Alike
      <4>1. i + k \in 1..Len(a)
        BY <1>1, <2>1
      <4> QED
        BY <4>1, Zenon DEF Before
    <3>2. AlikeWords(s, i, e, a, i, e)
      BY <2>0, <2>1, <3>1 DEF AlikeWords
    <3> QED
      BY <3>2, SamePiece
  <2>7. f[i] = Piece(s, i, e, Rest(f, s, e))
    BY <2>0, <2>2, SplitsAtEnd
  <2>8. g[i] = Piece(a, i, e, t)
    BY <2>1, <2>3, SplitsAtEnd
  <2> QED
    BY <2>4, <2>5, <2>6, <2>7, <2>8
<1>3. 0 \in I
  BY <1>1, <1>2
<1>4. ASSUME NEW n \in Nat, n \in I PROVE n + 1 \in I
  <2> SUFFICES ASSUME NEW i \in Len(a) + 1 - (n + 1)..Len(a) + 1, i > 0 PROVE f[i] = g[i] \o r
    OBVIOUS
  <2>1. i \in 1..Len(a) + 1 /\ \A k \in i + 1..Len(a) + 1 : k \in Len(a) + 1 - n..Len(a) + 1 /\ k > 0
    BY <1>1
  <2>2. \A k \in i + 1..Len(a) + 1 : f[k] = g[k] \o r
    BY <1>4, <2>1
  <2> QED
    BY <1>2, <2>1, <2>2
<1> HIDE DEF I
<1>5. Len(a) + 1 \in I
  BY <1>1, <1>3, <1>4, SetInduction
<1>6. \A i \in 1..Len(a) + 1 : i \in Len(a) + 1 - (Len(a) + 1)..Len(a) + 1 /\ i > 0
  BY <1>1
<1> QED
  BY <1>5, <1>6 DEF I, r, Splices

(* Split by one byte, and its recursive function. *)
LEMMA SplitByte ==
  ASSUME NEW S, NEW s \in Seq(S), NEW c \in S
  PROVE  /\ Split(s, <<c>>) \in Seq(Seq(S) \ {<<>>})
         /\ \E f : IsSplitting(f, s, <<c>>, 1) /\ Split(s, <<c>>) = f[1]
<1>1. PICK p : p = <<c>> /\ Len(p) \in Nat \ {0}
  <2>1. Len(<<c>>) \in Nat \ {0}
    OBVIOUS
  <2> QED
    BY <2>1, Zenon
<1>2. PICK f : IsSplitting(f, s, p, 1) /\ Split(s, p) = f[1]
  <2>1. Len(s) \in Nat
    OBVIOUS
  <2> QED
    BY <1>1, <2>1, SplitIs
<1>3. \A i \in 1..Len(s) + 1 : f[i] \in Seq(Seq(S) \ {<<>>})
  BY <1>1, <1>2, SplittingType
<1>4. 1 \in 1..Len(s) + 1
  OBVIOUS
<1> QED
  BY <1>1, <1>2, <1>3, <1>4, Zenon

(* The pieces of a text that is cut at the byte: those of both parts.      *)
Joined(s, a, c, b) == Before(s, a, c) /\ Follows(s, Len(a) + 1, b)

LEMMA SplitJoined ==
  ASSUME NEW S, NEW s \in Seq(S), NEW a \in Seq(S), NEW b \in Seq(S), NEW c \in S, Joined(s, a, c, b)
  PROVE  Split(s, <<c>>) = Split(a, <<c>>) \o Split(b, <<c>>)
<1>1. PICK f : IsSplitting(f, s, <<c>>, 1) /\ Split(s, <<c>>) = f[1]
  BY SplitByte
<1>2. PICK g : IsSplitting(g, a, <<c>>, 1) /\ Split(a, <<c>>) = g[1]
  BY SplitByte
<1>3. PICK h : IsSplitting(h, b, <<c>>, 1) /\ Split(b, <<c>>) = h[1]
  BY SplitByte
<1>4. PICK m \in Nat : m = Len(a) + 1
  OBVIOUS
<1>5. \A j \in 1..Len(b) + 1 : f[m + j] = h[j]
  <2>1. Follows(s, m, b)
    BY <1>4 DEF Joined
  <2> QED
    BY <1>1, <1>3, <2>1, SplittingBehind
<1>6. Splices(f, g, f[Len(a) + 2], Len(a) + 1)
  <2>1. Before(s, a, c)
    BY DEF Joined
  <2> QED
    BY <1>1, <1>2, <2>1, SplittingBefore
<1>7. f[m + 1] = h[1]
  <2>1. 1 \in 1..Len(b) + 1
    OBVIOUS
  <2> QED
    BY <1>5, <2>1
<1>8. f[1] = g[1] \o f[Len(a) + 2]
  <2>1. 1 \in 1..Len(a) + 1
    OBVIOUS
  <2> QED
    BY <1>6, <2>1 DEF Splices
<1>9. m + 1 = Len(a) + 2
  BY <1>4
<1> QED
  BY <1>1, <1>2, <1>3, <1>7, <1>8, <1>9

(* An empty text has no piece. *)
LEMMA SplitEmpty ==
  ASSUME NEW S, NEW c \in S
  PROVE  Split(<<>>, <<c>>) = <<>>
<1>1. PICK s \in Seq(S) : s = <<>> /\ Len(s) = 0
  <2>1. <<>> \in Seq(S) /\ Len(<<>>) = 0
    OBVIOUS
  <2> QED
    BY <2>1, Zenon
<1>2. PICK f : IsSplitting(f, s, <<c>>, 1) /\ Split(s, <<c>>) = f[1]
  BY SplitByte
<1>3. WordEnd(s, c, 1) = 1
  <2>1. 1 \in 1..Len(s) + 1
    BY <1>1
  <2>2. EndsAt(s, c, 1, 1)
    BY <1>1 DEF EndsAt
  <2> QED
    BY <2>1, <2>2, EndIsUnique
<1>4. f[1] = Piece(s, 1, 1, Rest(f, s, 1))
  <2>1. 1 \in 1..Len(s) + 1
    BY <1>1
  <2> QED
    BY <1>2, <1>3, <2>1, SplitsAtEnd
<1>5. Rest(f, s, 1) = <<>>
  BY <1>1 DEF Rest
<1> QED
  BY <1>1, <1>2, <1>4, <1>5 DEF Piece

(* A text without the byte is one piece. *)
LEMMA SplitWhole ==
  ASSUME NEW S, NEW s \in Seq(S), NEW c \in S, s # <<>>, \A n \in 1..Len(s) : s[n] # c
  PROVE  Split(s, <<c>>) = <<s>>
<1>1. PICK f : IsSplitting(f, s, <<c>>, 1) /\ Split(s, <<c>>) = f[1]
  BY SplitByte
<1>2. PICK e \in Nat : e = Len(s) + 1 /\ e # 1 /\ e - 1 = Len(s)
  OBVIOUS
<1>3. 1 \in 1..Len(s) + 1
  BY <1>2
<1>4. WordEnd(s, c, 1) = e
  <2>1. EndsAt(s, c, 1, e)
    BY <1>2, <1>3 DEF EndsAt
  <2> QED
    BY <1>3, <2>1, EndIsUnique
<1>5. f[1] = Piece(s, 1, e, Rest(f, s, e))
  BY <1>1, <1>3, <1>4, SplitsAtEnd
<1>6. Rest(f, s, e) = <<>>
  BY <1>2 DEF Rest
<1>7. SubSeq(s, 1, e - 1) = s
  <2>1. PICK d \in Nat : d = Len(s) /\ 1 <= d + 1
    OBVIOUS
  <2>2. /\ SubSeq(s, 1, d) \in Seq(S) /\ Len(SubSeq(s, 1, d)) = d + 1 - 1
        /\ \A n \in 1..d + 1 - 1 : SubSeq(s, 1, d)[n] = s[1 + n - 1]
    BY <2>1, SubSeqIs
  <2>3. PICK t \in Seq(S) : t = SubSeq(s, 1, d) /\ Len(t) = Len(s) /\ \A n \in 1..Len(s) : t[n] = s[n]
    BY <2>1, <2>2
  <2>4. t = s
    BY <2>3, SeqEqual
  <2> QED
    BY <1>2, <2>1, <2>3, <2>4
<1>8. <<s>> \o <<>> = <<s>>
  OBVIOUS
<1> QED
  BY <1>1, <1>2, <1>5, <1>6, <1>7, <1>8 DEF Piece

(* What is said of all elements is said of the first and of the others. *)
LEMMA ConsOfWords ==
  ASSUME NEW X, NEW Y, NEW w \in X, NEW t \in Seq(X), <<w>> \o t \in Seq(Y)
  PROVE  w \in Y /\ t \in Seq(Y)
<1>1. PICK v \in Seq(X) : v = <<w>> /\ Len(v) = 1 /\ v[1] = w
  <2>1. <<w>> \in Seq(X) /\ Len(<<w>>) = 1 /\ <<w>>[1] = w
    OBVIOUS
  <2> QED
    BY <2>1
<1>2. PICK u \in Seq(Y) : u = v \o t
  BY <1>1
<1>3. Len(u) = 1 + Len(t) /\ \A i \in 1..1 + Len(t) : u[i] = IF i <= 1 THEN v[i] ELSE t[i - 1]
  BY <1>1, <1>2, ConcatProperties
<1>4. u[1] = w
  <2>1. 1 \in 1..1 + Len(t)
    OBVIOUS
  <2> QED
    BY <1>1, <1>3, <2>1
<1>5. ASSUME NEW i \in 1..Len(t) PROVE t[i] \in Y
  <2>1. PICK j \in 1..Len(u) : j = i + 1 /\ ~(j <= 1) /\ j - 1 = i
    BY <1>3
  <2>2. u[j] = t[i] /\ u[j] \in Y
    BY <1>3, <2>1
  <2> QED
    BY <2>2
<1> QED
  BY <1>3, <1>4, <1>5

(* Every byte but the one that cuts is in a piece. *)
LEMMA SplitCovers ==
  ASSUME NEW S, NEW s \in Seq(S), NEW c \in S, NEW T, Split(s, <<c>>) \in Seq(Seq(T))
  PROVE  s \in Seq(T \cup {c})
<1>1. PICK f : IsSplitting(f, s, <<c>>, 1) /\ Split(s, <<c>>) = f[1]
  BY SplitByte
<1>2. PICK p : p = <<c>> /\ Len(p) \in Nat \ {0}
  <2>1. Len(<<c>>) \in Nat \ {0}
    OBVIOUS
  <2> QED
    BY <2>1, Zenon
<1>3. \A i \in 1..Len(s) + 1 : f[i] \in Seq(Seq(S))
  <2>1. \A i \in 1..Len(s) + 1 : f[i] \in Seq(Seq(S) \ {<<>>})
    BY <1>1, <1>2, SplittingType
  <2>2. \A q : q \in Seq(Seq(S) \ {<<>>}) => q \in Seq(Seq(S))
    OBVIOUS
  <2> QED
    BY <2>1, <2>2, Zenon
<1> DEFINE C(i) == f[i] \in Seq(Seq(T)) => \A n \in i..Len(s) : s[n] \in T \cup {c}
           I == {n \in Nat : \A i \in Len(s) + 1 - n..Len(s) + 1 : i > 0 => C(i)}
<1>4. ASSUME NEW i \in 1..Len(s) + 1, \A k \in i + 1..Len(s) + 1 : C(k) PROVE C(i)
  <2> SUFFICES ASSUME f[i] \in Seq(Seq(T)) PROVE \A n \in i..Len(s) : s[n] \in T \cup {c}
    OBVIOUS
  <2>1. PICK e : e = WordEnd(s, c, i) /\ EndsAt(s, c, i, e)
    BY EndIs
  <2>2. e \in i..Len(s) + 1 /\ (e # Len(s) + 1 => s[e] = c)
    BY <2>1 DEF EndsAt
  <2>3. PICK t : t = Rest(f, s, e)
    OBVIOUS
  <2>4. f[i] = Piece(s, i, e, t)
    BY <1>1, <2>1, <2>3, SplitsAtEnd
  <2>5. t \in Seq(Seq(S))
    <3>1. e # Len(s) + 1 => e + 1 \in 1..Len(s) + 1
      BY <2>2
    <3>2. CASE e = Len(s) + 1
      BY <2>3, <3>2 DEF Rest
    <3>3. CASE e # Len(s) + 1
      BY <1>3, <2>3, <3>1, <3>3 DEF Rest
    <3> QED
      BY <3>2, <3>3
  <2>6. t \in Seq(Seq(T)) /\ \A n \in i..e - 1 : s[n] \in T
    <3>1. CASE e = i
      BY <2>2, <2>4, <3>1 DEF Piece
    <3>2. CASE e # i
      <4>1. PICK d \in Nat : d = e - 1 /\ i \in Nat \ {0} /\ i <= d + 1 /\ d <= Len(s)
        BY <2>2
      <4>2. /\ SubSeq(s, i, d) \in Seq(S)
            /\ Len(SubSeq(s, i, d)) = d + 1 - i
            /\ \A n \in 1..d + 1 - i : SubSeq(s, i, d)[n] = s[i + n - 1]
        BY <4>1, SubSeqIs
      <4>3. PICK w \in Seq(S) : /\ w = SubSeq(s, i, d) /\ Len(w) = e - i
                                /\ \A n \in 1..e - i : w[n] = s[i + n - 1]
        <5>1. d + 1 - i = e - i
          BY <2>2, <4>1
        <5> QED
          BY <4>2, <5>1
      <4>4. <<w>> \o t \in Seq(Seq(T))
        BY <2>4, <3>2, <4>1, <4>3 DEF Piece
      <4>5. PICK X, Y : X = Seq(S) /\ Y = Seq(T)
        OBVIOUS
      <4>6. w \in Y /\ t \in Seq(Y)
        <5>1. w \in X /\ t \in Seq(X) /\ <<w>> \o t \in Seq(Y)
          BY <2>5, <4>4, <4>5
        <5> QED
          BY <5>1, ConsOfWords
      <4>7. ASSUME NEW n \in i..e - 1 PROVE s[n] \in T
        <5>1. PICK l \in 1..e - i : l = n - i + 1 /\ i + l - 1 = n
          BY <2>2
        <5>2. w[l] = s[n] /\ l \in 1..Len(w)
          BY <4>3, <5>1
        <5> QED
          BY <4>5, <4>6, <5>2
      <4> QED
        BY <4>5, <4>6, <4>7
    <3> QED
      BY <3>1, <3>2
  <2> SUFFICES ASSUME NEW n \in i..Len(s) PROVE s[n] \in T \cup {c}
    OBVIOUS
  <2>7. CASE n < e
    BY <2>2, <2>6, <2>7
  <2>8. CASE n = e
    BY <2>2, <2>8
  <2>9. CASE n > e
    <3>1. PICK k \in i + 1..Len(s) + 1 : k = e + 1 /\ n \in k..Len(s) /\ e # Len(s) + 1
      BY <2>2, <2>9
    <3>2. t = f[k]
      BY <2>3, <3>1 DEF Rest
    <3>3. C(k)
      BY <1>4, <3>1
    <3> QED
      BY <2>6, <3>1, <3>2, <3>3
  <2> QED
    BY <2>2, <2>7, <2>8, <2>9
<1> HIDE DEF C
<1>5. Len(s) \in Nat
  OBVIOUS
<1>6. 0 \in I
  BY <1>4, <1>5
<1>7. ASSUME NEW n \in Nat, n \in I PROVE n + 1 \in I
  <2> SUFFICES ASSUME NEW i \in Len(s) + 1 - (n + 1)..Len(s) + 1, i > 0 PROVE C(i)
    OBVIOUS
  <2>1. i \in 1..Len(s) + 1 /\ \A k \in i + 1..Len(s) + 1 : k \in Len(s) + 1 - n..Len(s) + 1 /\ k > 0
    BY <1>5
  <2>2. \A k \in i + 1..Len(s) + 1 : C(k)
    BY <1>7, <2>1
  <2> QED
    BY <1>4, <2>1, <2>2
<1> HIDE DEF I
<1>8. Len(s) + 1 \in I
  BY <1>5, <1>6, <1>7, SetInduction
<1>9. C(1)
  <2>1. 1 \in Len(s) + 1 - (Len(s) + 1)..Len(s) + 1 /\ 1 > 0
    BY <1>5
  <2> QED
    BY <1>8, <2>1 DEF I
<1>10. \A n \in 1..Len(s) : s[n] \in T \cup {c}
  BY <1>1, <1>9 DEF C
<1> QED
  BY <1>10

(* A text is cut at its last byte ... *)
LEMMA WithoutEnd ==
  ASSUME NEW T, NEW l \in Seq(T), l # <<>>
  PROVE  /\ SubSeq(l, 1, Len(l) - 1) \in Seq(T)
         /\ Joined(l, SubSeq(l, 1, Len(l) - 1), l[Len(l)], <<>>)
<1>1. PICK d \in Nat : d = Len(l) - 1 /\ 1 <= d + 1 /\ d <= Len(l) /\ d + 1 = Len(l)
  <2>1. PICK n \in Nat : n = Len(l) /\ n # 0
    OBVIOUS
  <2>2. n - 1 \in Nat /\ 1 <= n - 1 + 1 /\ n - 1 <= n /\ n - 1 + 1 = n
    BY <2>1
  <2> QED
    BY <2>1, <2>2
<1>2. /\ SubSeq(l, 1, d) \in Seq(T) /\ Len(SubSeq(l, 1, d)) = d + 1 - 1
      /\ \A n \in 1..d + 1 - 1 : SubSeq(l, 1, d)[n] = l[1 + n - 1]
  BY <1>1, SubSeqIs
<1>3. PICK m \in Seq(T) : m = SubSeq(l, 1, d) /\ Len(m) = d /\ \A n \in 1..d : m[n] = l[n]
  <2>1. d + 1 - 1 = d /\ \A n \in 1..d : 1 + n - 1 = n
    OBVIOUS
  <2> QED
    BY <1>2, <2>1, ZenonT(30)
<1>4. Before(l, m, l[Len(l)])
  BY <1>1, <1>3 DEF Before
<1>5. Follows(l, d + 1, <<>>)
  <2>1. Len(<<>>) = 0
    OBVIOUS
  <2> QED
    BY <1>1, <2>1 DEF Follows
<1>6. Joined(l, m, l[Len(l)], <<>>)
  BY <1>3, <1>4, <1>5 DEF Joined
<1> QED
  BY <1>1, <1>3, <1>6

(* ... and at its first. *)
LEMMA WithoutBegin ==
  ASSUME NEW T, NEW r \in Seq(T), r # <<>>
  PROVE  /\ SubSeq(r, 2, Len(r)) \in Seq(T)
         /\ Joined(r, <<>>, r[1], SubSeq(r, 2, Len(r)))
<1>1. PICK d \in Nat : d = Len(r) /\ 2 <= d + 1 /\ d <= Len(r)
  OBVIOUS
<1>2. /\ SubSeq(r, 2, d) \in Seq(T) /\ Len(SubSeq(r, 2, d)) = d + 1 - 2
      /\ \A n \in 1..d + 1 - 2 : SubSeq(r, 2, d)[n] = r[2 + n - 1]
  BY <1>1, SubSeqIs
<1>3. PICK m \in Seq(T) : m = SubSeq(r, 2, d) /\ Len(m) = d - 1 /\ \A n \in 1..d - 1 : m[n] = r[1 + n]
  <2>1. PICK m \in Seq(T) : m = SubSeq(r, 2, d)
    BY <1>2, Zenon
  <2>2. Len(m) = d + 1 - 2 /\ \A n \in 1..d + 1 - 2 : m[n] = r[2 + n - 1]
    BY <1>2, <2>1, Zenon
  <2>3. d + 1 - 2 = d - 1
    OBVIOUS
  <2>4. \A n \in 1..d - 1 : m[n] = r[1 + n]
    <3> SUFFICES ASSUME NEW n \in 1..d - 1 PROVE m[n] = r[1 + n]
      OBVIOUS
    <3>1. 2 + n - 1 = 1 + n
      OBVIOUS
    <3>2. m[n] = r[2 + n - 1]
      BY <2>2, <2>3
    <3> QED
      BY <3>1, <3>2, Zenon
  <2> QED
    BY <2>1, <2>2, <2>3, <2>4
<1>4. Len(<<>>) = 0
  OBVIOUS
<1>5. Before(r, <<>>, r[1])
  BY <1>1, <1>4 DEF Before
<1>6. Follows(r, 1, m)
  BY <1>1, <1>3 DEF Follows
<1>7. Joined(r, <<>>, r[1], m)
  BY <1>4, <1>5, <1>6 DEF Joined
<1> QED
  BY <1>1, <1>3, <1>7

(* What is put behind a text is behind its cut ... *)
LEMMA JoinedAndMore ==
  ASSUME NEW T, NEW l \in Seq(T), NEW m \in Seq(T), NEW c \in T, Joined(l, m, c, <<>>), NEW b \in Seq(T)
  PROVE  l \o b \in Seq(T) /\ Joined(l \o b, m, c, b)
<1>1. Len(<<>>) = 0
  OBVIOUS
<1>2. /\ Len(m) \in Nat /\ Len(b) \in Nat
      /\ Len(l) = Len(m) + 1 /\ l[Len(m) + 1] = c /\ \A i \in 1..Len(m) : l[i] = m[i]
  BY <1>1 DEF Joined, Before, Follows
<1>3. PICK s \in Seq(T) : /\ s = l \o b /\ Len(s) = Len(l) + Len(b)
                          /\ \A i \in 1..Len(l) + Len(b) : s[i] = IF i <= Len(l) THEN l[i] ELSE b[i - Len(l)]
  <2>1. /\ l \o b \in Seq(T) /\ Len(l \o b) = Len(l) + Len(b)
        /\ \A i \in 1..Len(l) + Len(b) : (l \o b)[i] = IF i <= Len(l) THEN l[i] ELSE b[i - Len(l)]
    BY ConcatProperties
  <2> QED
    BY <2>1
<1>4. \A i \in 1..Len(m) + 1 : s[i] = l[i]
  BY <1>2, <1>3
<1>5. Before(s, m, c)
  BY <1>2, <1>3, <1>4 DEF Before
<1>6. \A j \in 1..Len(b) : s[Len(m) + 1 + j] = b[j]
  <2> SUFFICES ASSUME NEW j \in 1..Len(b) PROVE s[Len(m) + 1 + j] = b[j]
    OBVIOUS
  <2>1. PICK i \in 1..Len(l) + Len(b) : i = Len(m) + 1 + j /\ ~(i <= Len(l)) /\ i - Len(l) = j
    BY <1>2
  <2> QED
    BY <1>3, <2>1
<1>7. Follows(s, Len(m) + 1, b)
  BY <1>2, <1>3, <1>6 DEF Follows
<1> QED
  BY <1>3, <1>5, <1>7 DEF Joined

(* ... and what is put before it is before the cut. *)
LEMMA MoreAndJoined ==
  ASSUME NEW T, NEW r \in Seq(T), NEW b \in Seq(T), NEW c \in T, Joined(r, <<>>, c, b), NEW a \in Seq(T)
  PROVE  a \o r \in Seq(T) /\ Joined(a \o r, a, c, b)
<1>1. Len(<<>>) = 0
  OBVIOUS
<1>2. /\ Len(a) \in Nat /\ Len(b) \in Nat
      /\ Len(r) = Len(b) + 1 /\ r[1] = c /\ \A j \in 1..Len(b) : r[1 + j] = b[j]
  BY <1>1 DEF Joined, Before, Follows
<1>3. PICK s \in Seq(T) : /\ s = a \o r /\ Len(s) = Len(a) + Len(r)
                          /\ \A i \in 1..Len(a) + Len(r) : s[i] = IF i <= Len(a) THEN a[i] ELSE r[i - Len(a)]
  <2>1. /\ a \o r \in Seq(T) /\ Len(a \o r) = Len(a) + Len(r)
        /\ \A i \in 1..Len(a) + Len(r) : (a \o r)[i] = IF i <= Len(a) THEN a[i] ELSE r[i - Len(a)]
    BY ConcatProperties
  <2> QED
    BY <2>1
<1>4. \A j \in 1..Len(b) + 1 : s[Len(a) + j] = r[j]
  <2> SUFFICES ASSUME NEW j \in 1..Len(b) + 1 PROVE s[Len(a) + j] = r[j]
    OBVIOUS
  <2>0. /\ Len(a) + j \in 1..Len(a) + Len(r)
        /\ ~(Len(a) + j <= Len(a)) /\ Len(a) + j - Len(a) = j
    BY <1>2
  <2>1. PICK i \in 1..Len(a) + Len(r) : i = Len(a) + j /\ ~(i <= Len(a)) /\ i - Len(a) = j
    BY <2>0
  <2> QED
    BY <1>3, <2>1
<1>5. Before(s, a, c)
  <2>1. \A i \in 1..Len(a) : s[i] = a[i]
    BY <1>2, <1>3
  <2>2. s[Len(a) + 1] = r[1]
    BY <1>2, <1>4
  <2>3. Len(a) + 1 <= Len(s)
    BY <1>2, <1>3
  <2> QED
    BY <1>2, <2>1, <2>2, <2>3 DEF Before
<1>6. \A j \in 1..Len(b) : s[Len(a) + 1 + j] = b[j]
  <2> SUFFICES ASSUME NEW j \in 1..Len(b) PROVE s[Len(a) + 1 + j] = b[j]
    OBVIOUS
  <2>1. PICK k \in 1..Len(b) + 1 : k = 1 + j /\ Len(a) + 1 + j = Len(a) + k
    BY <1>2
  <2> QED
    BY <1>2, <1>4, <2>1
<1>7. Follows(s, Len(a) + 1, b)
  BY <1>2, <1>3, <1>6 DEF Follows
<1> QED
  BY <1>3, <1>5, <1>7 DEF Joined

(* The empty sequence adds nothing. *)
LEMMA WithNothing ==
  ASSUME NEW T, NEW s \in Seq(T)
  PROVE  s \o <<>> = s /\ <<>> \o s = s
OBVIOUS

(* A sequence and one more element. *)
IsMore(p, t, x) ==
  /\ p # <<>>
  /\ SubSeq(p, 1, Len(p) - 1) = t
  /\ p[Len(p)] = x

(* A sequence and one more element, and how to get them back. *)
LEMMA OneElementMore ==
  ASSUME NEW X, NEW t \in Seq(X), NEW x \in X
  PROVE  t \o <<x>> \in Seq(X) /\ IsMore(t \o <<x>>, t, x)
<1>1. PICK v \in Seq(X) : v = <<x>> /\ Len(v) = 1 /\ v[1] = x
  <2>1. <<x>> \in Seq(X) /\ Len(<<x>>) = 1 /\ <<x>>[1] = x
    OBVIOUS
  <2> QED
    BY <2>1
<1>2. PICK n \in Nat : n = Len(t)
  OBVIOUS
<1>3. PICK p \in Seq(X) : /\ p = t \o v /\ Len(p) = n + 1
                          /\ \A i \in 1..n + 1 : p[i] = IF i <= n THEN t[i] ELSE v[i - n]
  <2>1. /\ t \o v \in Seq(X) /\ Len(t \o v) = Len(t) + Len(v)
        /\ \A i \in 1..Len(t) + Len(v) : (t \o v)[i] = IF i <= Len(t) THEN t[i] ELSE v[i - Len(t)]
    BY ConcatProperties
  <2> QED
    BY <1>1, <1>2, <2>1
<1>4. p[n + 1] = x
  <2>1. n + 1 \in 1..n + 1 /\ ~(n + 1 <= n) /\ n + 1 - n = 1
    OBVIOUS
  <2> QED
    BY <1>1, <1>3, <2>1
<1>5. \A i \in 1..n : p[i] = t[i]
  BY <1>3
<1>6. PICK q \in Seq(X) : q = SubSeq(p, 1, n) /\ Len(q) = n /\ \A i \in 1..n : q[i] = p[i]
  <2>1. n + 1 - 1 = n /\ \A i \in 1..n : 1 + i - 1 = i
    OBVIOUS
  <2>0. 1 \in Nat \ {0} /\ 1 <= n + 1 /\ n <= Len(p)
    BY <1>3
  <2>2. PICK q \in Seq(X) : q = SubSeq(p, 1, n)
    <3>1. SubSeq(p, 1, n) \in Seq(X)
      BY <2>0, SubSeqIs
    <3> QED
      BY <3>1, Zenon
  <2>3. Len(q) = n + 1 - 1 /\ \A i \in 1..n + 1 - 1 : q[i] = p[1 + i - 1]
    BY <2>0, <2>2, SubSeqIs
  <2>4. \A i \in 1..n : q[i] = p[i]
    BY <2>1, <2>3
  <2> QED
    BY <2>1, <2>2, <2>3, <2>4
<1>7. q = t
  BY <1>2, <1>5, <1>6, SeqEqual
<1>8. p # <<>>
  <2>1. Len(p) # 0
    BY <1>3
  <2> QED
    BY <2>1, NotEmpty
<1>9. Len(p) - 1 = n
  BY <1>3
<1> QED
  BY <1>1, <1>3, <1>4, <1>6, <1>7, <1>8, <1>9 DEF IsMore

(* Append is such a concatenation. *)
LEMMA AppendIsMore ==
  ASSUME NEW X, NEW t \in Seq(X), NEW x \in X
  PROVE  Append(t, x) = t \o <<x>> /\ Append(t, x) \in Seq(X)
<1>1. Append(<<>> \o t, x) = <<>> \o (t \o <<x>>)
  BY AppendToConcat
<1>2. <<>> \o t = t
  BY WithNothing
<1>3. t \o <<x>> \in Seq(X)
  BY OneElementMore
<1>4. <<>> \o (t \o <<x>>) = t \o <<x>>
  BY <1>3, WithNothing
<1> QED
  BY <1>1, <1>2, <1>3, <1>4

(* Another sequence can come first. *)
LEMMA MoreBehind ==
  ASSUME NEW X, NEW b \in Seq(X), NEW t \in Seq(X), NEW x \in X
  PROVE  b \o (t \o <<x>>) = (b \o t) \o <<x>>
<1>1. b \o t \in Seq(X)
  BY ConcatProperties
<1> QED
  BY <1>1, AppendToConcat, AppendIsMore

(* Every sequence but the empty one is one and one more element. *)
LEMMA EndsInMore ==
  ASSUME NEW X, NEW s \in Seq(X), s # <<>>
  PROVE  \E t \in Seq(X), x \in X : s = t \o <<x>> /\ IsMore(s, t, x)
<1>1. PICK d \in Nat : d + 1 = Len(s) /\ d = Len(s) - 1
  OBVIOUS
<1>2. PICK x \in X : x = s[d + 1]
  BY <1>1
<1>3. PICK t \in Seq(X) : t = SubSeq(s, 1, d) /\ Len(t) = d /\ \A i \in 1..d : t[i] = s[i]
  <2>1. d + 1 - 1 = d /\ (\A i \in 1..d : 1 + i - 1 = i) /\ d <= Len(s)
    BY <1>1
  <2>0. 1 \in Nat \ {0} /\ 1 <= d + 1 /\ d <= Len(s)
    BY <2>1
  <2>2. PICK t \in Seq(X) : t = SubSeq(s, 1, d)
    <3>1. SubSeq(s, 1, d) \in Seq(X)
      BY <2>0, SubSeqIs
    <3> QED
      BY <3>1, Zenon
  <2>3. Len(t) = d + 1 - 1 /\ \A i \in 1..d + 1 - 1 : t[i] = s[1 + i - 1]
    BY <2>0, <2>2, SubSeqIs
  <2>4. \A i \in 1..d : t[i] = s[i]
    BY <2>1, <2>3
  <2> QED
    BY <2>1, <2>2, <2>3, <2>4
<1>4. PICK v \in Seq(X) : v = <<x>> /\ Len(v) = 1 /\ v[1] = x
  <2>1. <<x>> \in Seq(X) /\ Len(<<x>>) = 1 /\ <<x>>[1] = x
    OBVIOUS
  <2> QED
    BY <2>1
<1>5. PICK p \in Seq(X) : /\ p = t \o v /\ Len(p) = d + 1
                          /\ \A i \in 1..d + 1 : p[i] = IF i <= d THEN t[i] ELSE v[i - d]
  <2>1. /\ t \o v \in Seq(X) /\ Len(t \o v) = Len(t) + Len(v)
        /\ \A i \in 1..Len(t) + Len(v) : (t \o v)[i] = IF i <= Len(t) THEN t[i] ELSE v[i - Len(t)]
    BY ConcatProperties
  <2>2. PICK p \in Seq(X) : p = t \o v
    BY <2>1, Zenon
  <2>3. Len(p) = d + 1
    BY <1>3, <1>4, <2>1, <2>2
  <2>4. \A i \in 1..d + 1 : p[i] = IF i <= d THEN t[i] ELSE v[i - d]
    BY <1>3, <1>4, <2>1, <2>2
  <2> QED
    BY <2>2, <2>3, <2>4
<1>6. \A i \in 1..d + 1 : p[i] = s[i]
  <2> SUFFICES ASSUME NEW i \in 1..d + 1 PROVE p[i] = s[i]
    OBVIOUS
  <2>1. CASE i <= d
    BY <1>3, <1>5, <2>1
  <2>2. CASE ~(i <= d)
    <3>1. i = d + 1 /\ i - d = 1
      BY <2>2
    <3> QED
      BY <1>2, <1>4, <1>5, <2>2, <3>1
  <2> QED
    BY <2>1, <2>2
<1>7. p = s
  BY <1>1, <1>5, <1>6, SeqEqual
<1>8. IsMore(s, t, x)
  BY <1>1, <1>2, <1>3 DEF IsMore
<1> QED
  BY <1>4, <1>5, <1>7, <1>8

(* A text is cut at each of its bytes. *)
LEMMA CutAt ==
  ASSUME NEW S, NEW s \in Seq(S), NEW n \in 1..Len(s)
  PROVE  /\ SubSeq(s, 1, n - 1) \in Seq(S) /\ SubSeq(s, n + 1, Len(s)) \in Seq(S)
         /\ Joined(s, SubSeq(s, 1, n - 1), s[n], SubSeq(s, n + 1, Len(s)))
         /\ Len(SubSeq(s, 1, n - 1)) = n - 1
         /\ \A i \in 1..n - 1 : SubSeq(s, 1, n - 1)[i] = s[i]
         /\ \A i \in 1..Len(SubSeq(s, n + 1, Len(s))) : SubSeq(s, n + 1, Len(s))[i] = s[n + i]
<1>1. PICK d \in Nat, e \in Nat : /\ d = n - 1 /\ d + 1 = n /\ e = Len(s) - n /\ Len(s) = n + e
                                  /\ d + 1 <= Len(s)
  <2>1. PICK d \in Nat : d = n - 1
    OBVIOUS
  <2>2. PICK e \in Nat : e = Len(s) - n
    OBVIOUS
  <2>3. d + 1 = n /\ Len(s) = n + e /\ d + 1 <= Len(s)
    BY <2>1, <2>2
  <2> QED
    BY <2>1, <2>2, <2>3
<1>2. PICK a \in Seq(S) : a = SubSeq(s, 1, d) /\ Len(a) = d /\ \A i \in 1..d : a[i] = s[i]
  <2>1. d + 1 - 1 = d /\ (\A i \in 1..d : 1 + i - 1 = i)
    OBVIOUS
  <2>2. 1 \in Nat \ {0} /\ 1 <= d + 1 /\ d <= Len(s)
    BY <1>1
  <2>3. PICK t \in Seq(S) : t = SubSeq(s, 1, d)
    <3>1. SubSeq(s, 1, d) \in Seq(S)
      BY <2>2, SubSeqIs
    <3> QED
      BY <3>1, Zenon
  <2>4. Len(t) = d + 1 - 1 /\ \A i \in 1..d + 1 - 1 : t[i] = s[1 + i - 1]
    BY <2>2, <2>3, SubSeqIs
  <2>5. \A i \in 1..d : t[i] = s[i]
    BY <2>1, <2>4
  <2> QED
    BY <2>1, <2>3, <2>4, <2>5
<1>3. PICK l \in Nat : l = Len(s)
  OBVIOUS
<1>4. PICK b \in Seq(S) : b = SubSeq(s, n + 1, l) /\ Len(b) = e /\ \A i \in 1..e : b[i] = s[n + i]
  <2>1. PICK k \in Nat \ {0} : k = n + 1
    BY <1>1
  <2>2. l + 1 - k = e /\ (\A i \in 1..e : k + i - 1 = n + i) /\ k <= l + 1 /\ l <= Len(s)
    BY <1>1, <1>3, <2>1
  <2>3. PICK t \in Seq(S) : t = SubSeq(s, k, l)
    <3>1. SubSeq(s, k, l) \in Seq(S)
      BY <2>2, SubSeqIs
    <3> QED
      BY <3>1, Zenon
  <2>4. Len(t) = l + 1 - k /\ \A i \in 1..l + 1 - k : t[i] = s[k + i - 1]
    BY <2>2, <2>3, SubSeqIs
  <2>5. \A i \in 1..e : t[i] = s[n + i]
    BY <2>2, <2>4
  <2> QED
    BY <2>1, <2>2, <2>3, <2>4, <2>5
<1>5. Before(s, a, s[n])
  BY <1>1, <1>2 DEF Before
<1>6. Follows(s, n, b)
  BY <1>1, <1>4 DEF Follows
<1>7. Joined(s, a, s[n], b)
  BY <1>1, <1>2, <1>5, <1>6 DEF Joined
<1> QED
  BY <1>1, <1>2, <1>3, <1>4, <1>7

(* Both parts and the byte determine the text. *)
LEMMA JoinedSame ==
  ASSUME NEW S, NEW s \in Seq(S), NEW t \in Seq(S), NEW a \in Seq(S), NEW b \in Seq(S), NEW c,
         Joined(s, a, c, b), Joined(t, a, c, b)
  PROVE  s = t
<1>1. PICK n \in Nat, m \in Nat : n = Len(a) /\ m = Len(b)
  OBVIOUS
<1>2. /\ Len(s) = n + 1 + m /\ Len(t) = n + 1 + m /\ s[n + 1] = c /\ t[n + 1] = c
      /\ \A i \in 1..n : s[i] = a[i] /\ t[i] = a[i]
      /\ \A j \in 1..m : s[n + 1 + j] = b[j] /\ t[n + 1 + j] = b[j]
  BY <1>1 DEF Joined, Before, Follows
<1>3. \A i \in 1..n + 1 + m : s[i] = t[i]
  <2> SUFFICES ASSUME NEW i \in 1..n + 1 + m PROVE s[i] = t[i]
    OBVIOUS
  <2>1. CASE i <= n
    BY <1>2, <2>1
  <2>2. CASE i = n + 1
    BY <1>2, <2>2
  <2>3. CASE n + 1 < i
    <3>1. PICK j \in 1..m : i = n + 1 + j
      <4>1. i - (n + 1) \in 1..m /\ i = n + 1 + (i - (n + 1))
        BY <2>3
      <4> QED
        BY <4>1
    <3> QED
      BY <1>2, <3>1
  <2> QED
    BY <2>1, <2>2, <2>3
<1> QED
  BY <1>2, <1>3, SeqEqual

(* The text that two parts and a byte make. *)
LEMMA ConcatJoined ==
  ASSUME NEW S, NEW a \in Seq(S), NEW b \in Seq(S), NEW c \in S
  PROVE  a \o <<c>> \o b \in Seq(S) /\ Joined(a \o <<c>> \o b, a, c, b)
<1>1. PICK m \in Seq(S) : m = <<c>> /\ Len(m) = 1 /\ m[1] = c
  <2>1. <<c>> \in Seq(S) /\ Len(<<c>>) = 1 /\ <<c>>[1] = c
    OBVIOUS
  <2> QED
    BY <2>1
<1>2. Joined(m, <<>>, c, <<>>)
  <2>1. Len(<<>>) = 0
    OBVIOUS
  <2> QED
    BY <1>1, <2>1 DEF Joined, Before, Follows
<1>3. <<>> \in Seq(S)
  OBVIOUS
<1>4. PICK k \in Seq(S) : k = a \o m /\ Joined(k, a, c, <<>>)
  <2>1. a \o m \in Seq(S) /\ Joined(a \o m, a, c, <<>>)
    BY <1>2, <1>3, MoreAndJoined
  <2> QED
    BY <2>1
<1>5. k \o b \in Seq(S) /\ Joined(k \o b, a, c, b)
  BY <1>4, JoinedAndMore
<1> QED
  BY <1>1, <1>4, <1>5

LEMMA JoinedIs ==
  ASSUME NEW S, NEW s \in Seq(S), NEW a \in Seq(S), NEW b \in Seq(S), NEW c \in S, Joined(s, a, c, b)
  PROVE  s = a \o <<c>> \o b
<1>1. PICK z \in Seq(S) : z = a \o <<c>> \o b /\ Joined(z, a, c, b)
  BY ConcatJoined
<1>2. s = z
  BY <1>1, JoinedSame
<1> QED
  BY <1>1, <1>2

(* A cut of the second part is a cut of the text. *)
LEMMA JoinedTwice ==
  ASSUME NEW S, NEW s \in Seq(S), NEW a \in Seq(S), NEW b \in Seq(S), NEW c \in S, Joined(s, a, c, b),
         NEW x \in Seq(S), NEW y \in Seq(S), NEW d, Joined(b, x, d, y)
  PROVE  Joined(s, a \o <<c>> \o x, d, y)
<1>1. PICK z \in Seq(S) : z = a \o <<c>> \o x /\ Joined(z, a, c, x)
  BY ConcatJoined
<1>2. PICK n \in Nat, m \in Nat, l \in Nat, q \in Nat :
        n = Len(a) /\ m = Len(b) /\ l = Len(x) /\ q = Len(y)
  OBVIOUS
<1>3. /\ Len(s) = n + 1 + m /\ s[n + 1] = c
      /\ \A i \in 1..n : s[i] = a[i]
      /\ \A j \in 1..m : s[n + 1 + j] = b[j]
  BY <1>2 DEF Joined, Before, Follows
<1>4. /\ Len(z) = n + 1 + l /\ z[n + 1] = c
      /\ \A i \in 1..n : z[i] = a[i]
      /\ \A j \in 1..l : z[n + 1 + j] = x[j]
  BY <1>1, <1>2 DEF Joined, Before, Follows
<1>5. /\ m = l + 1 + q /\ b[l + 1] = d
      /\ \A i \in 1..l : b[i] = x[i]
      /\ \A j \in 1..q : b[l + 1 + j] = y[j]
  BY <1>2 DEF Joined, Before, Follows
<1>6. \A i \in 1..n + 1 + l : s[i] = z[i]
  <2> SUFFICES ASSUME NEW i \in 1..n + 1 + l PROVE s[i] = z[i]
    OBVIOUS
  <2>1. CASE i <= n
    BY <1>3, <1>4, <2>1
  <2>2. CASE i = n + 1
    BY <1>3, <1>4, <2>2
  <2>3. CASE n + 1 < i
    <3>1. PICK j \in 1..l : i = n + 1 + j
      <4>1. i - (n + 1) \in 1..l /\ i = n + 1 + (i - (n + 1))
        BY <2>3
      <4> QED
        BY <4>1
    <3>2. j \in 1..m
      BY <1>5
    <3> QED
      BY <1>3, <1>4, <1>5, <3>1, <3>2
  <2> QED
    BY <2>1, <2>2, <2>3
<1>7. Before(s, z, d)
  <2>1. l + 1 \in 1..m /\ Len(z) + 1 = n + 1 + (l + 1) /\ Len(z) + 1 <= Len(s)
    BY <1>3, <1>4, <1>5
  <2>2. s[Len(z) + 1] = d
    BY <1>3, <1>5, <2>1
  <2> QED
    BY <1>4, <1>6, <2>1, <2>2 DEF Before
<1>8. Follows(s, Len(z) + 1, y)
  <2>1. Len(s) = Len(z) + 1 + Len(y)
    BY <1>2, <1>3, <1>4, <1>5
  <2>2. \A j \in 1..q : s[Len(z) + 1 + j] = y[j]
    <3> SUFFICES ASSUME NEW j \in 1..q PROVE s[Len(z) + 1 + j] = y[j]
      OBVIOUS
    <3>1. PICK k \in 1..m : k = l + 1 + j /\ Len(z) + 1 + j = n + 1 + k
      <4>1. l + 1 + j \in 1..m /\ Len(z) + 1 + j = n + 1 + (l + 1 + j)
        BY <1>4, <1>5
      <4> QED
        BY <4>1
    <3> QED
      BY <1>3, <1>5, <3>1
  <2> QED
    BY <1>2, <2>1, <2>2 DEF Follows
<1> QED
  BY <1>1, <1>7, <1>8 DEF Joined

(* A sequence of which every element is in a set. *)
LEMMA ElementsIn ==
  ASSUME NEW X, NEW s \in Seq(X), NEW Y, \A i \in 1..Len(s) : s[i] \in Y
  PROVE  s \in Seq(Y)
<1>1. s = [i \in 1..Len(s) |-> s[i]] /\ Len(s) \in Nat
  OBVIOUS
<1> QED
  BY <1>1

IsCut(s, n, a, b) ==
  /\ a = SubSeq(s, 1, n - 1) /\ b = SubSeq(s, n + 1, Len(s))
  /\ Joined(s, a, s[n], b)
  /\ Len(a) = n - 1 /\ Len(s) = n + Len(b)
  /\ \A i \in 1..n - 1 : a[i] = s[i]
  /\ \A i \in 1..Len(b) : b[i] = s[n + i]

LEMMA Cuts ==
  ASSUME NEW S, NEW s \in Seq(S), NEW n \in 1..Len(s)
  PROVE  \E a \in Seq(S), b \in Seq(S) : IsCut(s, n, a, b)
<1>1. PICK a : a = SubSeq(s, 1, n - 1)
  OBVIOUS
<1>2. PICK b : b = SubSeq(s, n + 1, Len(s))
  OBVIOUS
<1>3. /\ a \in Seq(S) /\ b \in Seq(S) /\ Joined(s, a, s[n], b) /\ Len(a) = n - 1
      /\ \A i \in 1..n - 1 : a[i] = s[i]
      /\ \A i \in 1..Len(b) : b[i] = s[n + i]
  BY <1>1, <1>2, CutAt
<1>4. Len(s) = n - 1 + 1 + Len(b)
  BY <1>3 DEF Joined, Follows
<1>5. Len(s) = n + Len(b)
  BY <1>3, <1>4
<1> QED
  BY <1>1, <1>2, <1>3, <1>5 DEF IsCut

-------------------------------------------------------------------------------
(* Texts that consist of others: u stands in s behind m bytes.             *)
StandsIn(s, m, u) == m + Len(u) <= Len(s) /\ \A j \in 1..Len(u) : s[m + j] = u[j]

LEMMA StandsOccurs ==
  ASSUME NEW S, NEW s \in Seq(S), NEW u \in Seq(S), NEW m \in Nat
  PROVE  Occurs(u, s, m + 1) <=> StandsIn(s, m, u)
<1>1. PICK n \in Nat : n = Len(u)
  OBVIOUS
<1>2. Len(s) \in Nat
  OBVIOUS
<1>3. CASE m + n <= Len(s)
  <2>1. PICK e \in Nat : e = m + n /\ m + 1 <= e + 1 /\ e <= Len(s) /\ m + 1 \in Nat \ {0} /\ e = (m + 1) + n - 1
    BY <1>3
  <2>2. PICK t : t = SubSeq(s, m + 1, e)
    OBVIOUS
  <2>3. t \in Seq(S) /\ Len(t) = e + 1 - (m + 1) /\ \A k \in 1..e + 1 - (m + 1) : t[k] = s[(m + 1) + k - 1]
    BY <2>1, <2>2, SubSeqIs
  <2>4. Len(t) = n /\ \A k \in 1..n : t[k] = s[m + k]
    <3>1. e + 1 - (m + 1) = n /\ \A k \in 1..n : (m + 1) + k - 1 = m + k
      BY <2>1
    <3> QED
      BY <2>3, <3>1
  <2>5. t = u <=> \A k \in 1..n : t[k] = u[k]
    BY <1>1, <2>3, <2>4, SeqEqual
  <2>6. Occurs(u, s, m + 1) <=> t = u
    <3>1. m + 1 + n <= Len(s) + 1
      BY <1>2, <1>3
    <3>2. t = SubSeq(s, m + 1, (m + 1) + Len(u) - 1)
      BY <1>1, <2>1, <2>2
    <3> QED
      BY <1>1, <3>1, <3>2 DEF Occurs
  <2>7. StandsIn(s, m, u) <=> \A k \in 1..n : s[m + k] = u[k]
    BY <1>1, <1>3 DEF StandsIn
  <2> QED
    BY <2>4, <2>5, <2>6, <2>7
<1>4. CASE ~(m + n <= Len(s))
  BY <1>1, <1>2, <1>4 DEF Occurs, StandsIn
<1> QED
  BY <1>3, <1>4

LEMMA ConcatOf ==
  ASSUME NEW S, NEW u \in Seq(S), NEW v \in Seq(S)
  PROVE  /\ u \o v \in Seq(S) /\ Len(u \o v) = Len(u) + Len(v)
         /\ \A j \in 1..Len(u) : (u \o v)[j] = u[j]
         /\ \A j \in 1..Len(v) : (u \o v)[Len(u) + j] = v[j]
<1>1. /\ u \o v \in Seq(S) /\ Len(u \o v) = Len(u) + Len(v)
      /\ \A i \in 1..Len(u) + Len(v) : (u \o v)[i] = IF i <= Len(u) THEN u[i] ELSE v[i - Len(u)]
  BY ConcatProperties
<1>2. Len(u) \in Nat /\ Len(v) \in Nat
  OBVIOUS
<1>3. ASSUME NEW j \in 1..Len(u) PROVE (u \o v)[j] = u[j]
  BY <1>1, <1>2
<1>4. ASSUME NEW j \in 1..Len(v) PROVE (u \o v)[Len(u) + j] = v[j]
  <2>1. Len(u) + j \in 1..Len(u) + Len(v) /\ ~(Len(u) + j <= Len(u)) /\ (Len(u) + j) - Len(u) = j
    BY <1>2
  <2> QED
    BY <1>1, <2>1
<1> QED
  BY <1>1, <1>3, <1>4

LEMMA StandsApart ==
  ASSUME NEW S, NEW s \in Seq(S), NEW u \in Seq(S), NEW v \in Seq(S), NEW m \in Nat,
         StandsIn(s, m, u \o v)
  PROVE  StandsIn(s, m, u) /\ StandsIn(s, m + Len(u), v)
<1>1. PICK w : w = u \o v
  OBVIOUS
<1>2. /\ Len(w) = Len(u) + Len(v)
      /\ \A j \in 1..Len(u) : w[j] = u[j]
      /\ \A j \in 1..Len(v) : w[Len(u) + j] = v[j]
  BY <1>1, ConcatOf
<1>3. PICK a \in Nat, b \in Nat : a = Len(u) /\ b = Len(v)
  OBVIOUS
<1>4. m + (a + b) <= Len(s) /\ \A j \in 1..a + b : s[m + j] = w[j]
  BY <1>1, <1>2, <1>3 DEF StandsIn
<1>5. Len(s) \in Nat
  OBVIOUS
<1>6. StandsIn(s, m, u)
  <2>1. \A j \in 1..a : j \in 1..a + b
    OBVIOUS
  <2>2. \A j \in 1..a : s[m + j] = u[j]
    BY <1>2, <1>3, <1>4, <2>1
  <2> QED
    BY <1>3, <1>4, <1>5, <2>2 DEF StandsIn
<1>7. StandsIn(s, m + a, v)
  <2>1. ASSUME NEW j \in 1..b PROVE s[(m + a) + j] = v[j]
    <3>1. a + j \in 1..a + b /\ (m + a) + j = m + (a + j)
      OBVIOUS
    <3> QED
      BY <1>2, <1>3, <1>4, <3>1
  <2> QED
    BY <1>3, <1>4, <1>5, <2>1 DEF StandsIn
<1> QED
  BY <1>3, <1>6, <1>7

LEMMA FollowsApart ==
  ASSUME NEW S, NEW s \in Seq(S), NEW u \in Seq(S), NEW v \in Seq(S), NEW m \in Nat,
         Follows(s, m, u \o v)
  PROVE  StandsIn(s, m, u) /\ Follows(s, m + Len(u), v)
<1>1. PICK w : w = u \o v
  OBVIOUS
<1>2. Len(w) = Len(u) + Len(v) /\ Len(u) \in Nat /\ Len(v) \in Nat /\ Len(s) \in Nat
  BY <1>1, ConcatOf
<1>3. StandsIn(s, m, u \o v) /\ Len(s) = m + Len(w)
  BY <1>1, <1>2 DEF Follows, StandsIn
<1>4. StandsIn(s, m, u) /\ StandsIn(s, m + Len(u), v)
  BY <1>3, StandsApart
<1> QED
  BY <1>2, <1>3, <1>4 DEF Follows, StandsIn

LEMMA FollowsItself ==
  ASSUME NEW S, NEW s \in Seq(S)
  PROVE  Follows(s, 0, s) /\ StandsIn(s, 0, s)
BY DEF Follows, StandsIn

(* The first place where p stands. *)
LEMMA FirstPlace ==
  ASSUME NEW S, NEW s \in Seq(S), NEW p \in Seq(S), p # <<>>, NEW i \in Nat \ {0}, NEW m \in Nat, i <= m + 1,
         StandsIn(s, m, p), \A k \in i - 1..m - 1 : ~StandsIn(s, k, p)
  PROVE  Find(p, s, i) = m + 1
<1>1. Len(p) \in Nat \ {0} /\ Len(s) \in Nat
  BY EmptySeq
<1>2. m + 1 \in i..Len(s)
  BY <1>1 DEF StandsIn
<1>3. Occurs(p, s, m + 1)
  BY StandsOccurs
<1>4. \A n \in i..m : ~Occurs(p, s, n)
  <2>1. ASSUME NEW n \in i..m PROVE ~Occurs(p, s, n)
    <3>1. PICK k \in Nat : k = n - 1 /\ k \in i - 1..m - 1 /\ n = k + 1
      OBVIOUS
    <3>2. ~StandsIn(s, k, p)
      BY <3>1
    <3> QED
      BY <3>1, <3>2, StandsOccurs
  <2> QED
    BY <2>1
<1>5. PICK n : n = Find(p, s, i)
  OBVIOUS
<1>6. \/ n = npos /\ \A j \in i..Len(s) : ~Occurs(p, s, j)
      \/ n \in i..Len(s) /\ Occurs(p, s, n) /\ \A j \in i..n - 1 : ~Occurs(p, s, j)
  BY <1>1, <1>5, FindIsFirst
<1>7. n \in i..Len(s) /\ Occurs(p, s, n) /\ \A j \in i..n - 1 : ~Occurs(p, s, j)
  BY <1>2, <1>3, <1>6
<1>8. ~(n <= m)
  BY <1>4, <1>7
<1>9. ~(n > m + 1)
  BY <1>2, <1>3, <1>7
<1> QED
  BY <1>5, <1>7, <1>8, <1>9

IsFirstPlace(p, s, i, m) ==
  i <= m + 1 /\ StandsIn(s, m, p) /\ \A k \in i - 1..m - 1 : ~StandsIn(s, k, p)

LEMMA FirstPlaceIs ==
  ASSUME NEW S, NEW s \in Seq(S), NEW p \in Seq(S), p # <<>>, NEW i \in Nat \ {0}, NEW m \in Nat,
         IsFirstPlace(p, s, i, m)
  PROVE  Find(p, s, i) = m + 1
BY FirstPlace DEF IsFirstPlace

LEMMA PlaceAtStart ==
  ASSUME NEW S, NEW s \in Seq(S), NEW p \in Seq(S), p # <<>>, StandsIn(s, 0, p)
  PROVE  Find(p, s, 1) = 1
<1>1. PICK i \in Nat \ {0}, m \in Nat : i = 1 /\ m = 0
  OBVIOUS
<1>2. i <= m + 1 /\ StandsIn(s, m, p) /\ \A k \in i - 1..m - 1 : ~StandsIn(s, k, p)
  BY <1>1
<1>3. Find(p, s, i) = m + 1
  BY <1>2, FirstPlace
<1> QED
  BY <1>1, <1>3

LEMMA NoPlace ==
  ASSUME NEW S, NEW s \in Seq(S), NEW p \in Seq(S), NEW i \in Nat \ {0},
         \A k \in Nat : k >= i - 1 => ~StandsIn(s, k, p)
  PROVE  Find(p, s, i) = npos
<1>1. Len(s) \in Nat
  OBVIOUS
<1>2. \A n \in i..Len(s) : ~Occurs(p, s, n)
  <2>1. ASSUME NEW n \in i..Len(s) PROVE ~Occurs(p, s, n)
    <3>1. PICK k \in Nat : k = n - 1 /\ k >= i - 1 /\ n = k + 1
      OBVIOUS
    <3>2. ~StandsIn(s, k, p)
      BY <3>1
    <3> QED
      BY <3>1, <3>2, StandsOccurs
  <2> QED
    BY <2>1
<1>3. Find(p, s, i) = npos \/ (Find(p, s, i) \in i..Len(s) /\ Occurs(p, s, Find(p, s, i)))
  BY <1>1, FindIsFirst
<1> QED
  BY <1>2, <1>3

LEMMA SomePlace ==
  ASSUME NEW S, NEW s \in Seq(S), NEW p \in Seq(S), NEW i \in Nat \ {0}, Find(p, s, i) # npos
  PROVE  /\ Find(p, s, i) \in Nat /\ Find(p, s, i) >= i
         /\ StandsIn(s, Find(p, s, i) - 1, p)
<1>1. PICK n : n = Find(p, s, i)
  OBVIOUS
<1>2. n \in i..Len(s) /\ Occurs(p, s, n)
  <2>1. Len(s) \in Nat
    OBVIOUS
  <2> QED
    BY <1>1, <2>1, FindIsFirst
<1>3. PICK k \in Nat : k = n - 1 /\ n = k + 1
  BY <1>2
<1> QED
  BY <1>1, <1>2, <1>3, StandsOccurs

(* What stands in the first c bytes. *)
LEMMA StandsInCut ==
  ASSUME NEW S, NEW s \in Seq(S), NEW c \in 0..Len(s), NEW u \in Seq(S), NEW m \in Nat
  PROVE  StandsIn(SubSeq(s, 1, c), m, u) <=> StandsIn(s, m, u) /\ m + Len(u) <= c
<1>1. PICK b : b = SubSeq(s, 1, c)
  OBVIOUS
<1>2. c \in Nat /\ c <= Len(s) /\ Len(s) \in Nat /\ Len(u) \in Nat
  OBVIOUS
<1>3. Len(b) = c /\ \A n \in 1..c : b[n] = s[n]
  <2>1. b \in Seq(S) /\ Len(b) = c + 1 - 1 /\ \A n \in 1..c + 1 - 1 : b[n] = s[1 + n - 1]
    BY <1>1, <1>2, SubSeqIs
  <2>2. c + 1 - 1 = c /\ \A n \in 1..c : 1 + n - 1 = n
    BY <1>2
  <2> QED
    BY <2>1, <2>2
<1>4. m + Len(u) <= c => \A j \in 1..Len(u) : m + j \in 1..c
  BY <1>2
<1>5. m + Len(u) <= c => m + Len(u) <= Len(s)
  BY <1>2
<1> QED
  BY <1>1, <1>3, <1>4, <1>5 DEF StandsIn

(* A text's place in a text that is a part of another one. *)
LEMMA OccursInPart ==
  ASSUME NEW S, NEW s \in Seq(S), NEW line, Len(line) \in Nat \ {0},
         NEW i \in Nat \ {0}, NEW e \in Nat, i <= e + 1, e <= Len(s),
         NEW m \in 1..Len(SubSeq(s, i, e)), Occurs(line, SubSeq(s, i, e), m)
  PROVE  Occurs(line, s, i + m - 1) /\ i + m - 1 \in i..e
<1>1. PICK t \in Seq(S) : t = SubSeq(s, i, e) /\ Len(t) = e + 1 - i
                          /\ \A n \in 1..e + 1 - i : t[n] = s[i + n - 1]
  <2>1. /\ SubSeq(s, i, e) \in Seq(S) /\ Len(SubSeq(s, i, e)) = e + 1 - i
        /\ \A n \in 1..e + 1 - i : SubSeq(s, i, e)[n] = s[i + n - 1]
    BY SubSeqIs
  <2> QED
    BY <2>1
<1>2. PICK l \in Nat \ {0} : l = Len(line)
  OBVIOUS
<1>3. m \in Nat \ {0} /\ m <= e + 1 - i /\ Len(s) \in Nat
  BY <1>1
<1>4. m + l <= Len(t) + 1 /\ SubSeq(t, m, m + l - 1) = line
  BY <1>1, <1>2 DEF Occurs
<1>5. PICK j \in Nat \ {0} : j = i + m - 1
  BY <1>3
<1>6. j \in i..e /\ j + l <= Len(s) + 1
  BY <1>1, <1>2, <1>3, <1>4, <1>5
<1>7. SubSeq(t, m, m + l - 1) = SubSeq(s, j, j + l - 1)
  <2>1. Alike(t, m, s, j, l)
    <3>1. ASSUME NEW n \in 0..l - 1 PROVE t[m + n] = s[j + n]
      <4>1. m + n \in 1..e + 1 - i
        BY <1>1, <1>3, <1>4
      <4>2. i + (m + n) - 1 = j + n
        BY <1>3, <1>5
      <4> QED
        BY <1>1, <4>1, <4>2
    <3> QED
      BY <3>1 DEF Alike
  <2>2. m + l - 1 <= Len(t) /\ j + l - 1 <= Len(s) /\ l \in Nat
    BY <1>1, <1>3, <1>4, <1>6
  <2> QED
    BY <1>3, <2>1, <2>2, SameSubSeq, SMTT(30)
<1> QED
  BY <1>2, <1>4, <1>5, <1>6, <1>7 DEF Occurs

-------------------------------------------------------------------------------
(* Tuples, and sequences of more than they must have. *)
LEMMA Wider ==
  ASSUME NEW X, NEW Y, X \subseteq Y, NEW s \in Seq(X)
  PROVE  s \in Seq(Y)
<1>1. \A i \in 1..Len(s) : s[i] \in Y
  OBVIOUS
<1> QED
  BY <1>1, ElementsIn

LEMMA Tuples ==
  ASSUME NEW S
  PROVE  /\ \A a \in S : <<a>> \in Seq(S) /\ Len(<<a>>) = 1 /\ <<a>>[1] = a /\ <<a>> # <<>>
         /\ \A a, b \in S : <<a, b>> \in Seq(S) /\ Len(<<a, b>>) = 2 /\ <<a, b>>[1] = a /\ <<a, b>>[2] = b
         /\ \A a, b, c \in S : /\ <<a, b, c>> \in Seq(S) /\ Len(<<a, b, c>>) = 3
                               /\ <<a, b, c>>[1] = a /\ <<a, b, c>>[2] = b /\ <<a, b, c>>[3] = c
         /\ \A a, b, c, d \in S : /\ <<a, b, c, d>> \in Seq(S) /\ Len(<<a, b, c, d>>) = 4
                                  /\ <<a, b, c, d>>[1] = a /\ <<a, b, c, d>>[4] = d
OBVIOUS

IsFour(u, S, v, w, x, y) ==
  u \in Seq(S) /\ Len(u) = 4 /\ u[1] = v /\ u[2] = w /\ u[3] = x /\ u[4] = y

LEMMA FourOf ==
  ASSUME NEW S, NEW v \in S, NEW w \in S, NEW x \in S, NEW y \in S
  PROVE  IsFour(<<v, w, x, y>>, S, v, w, x, y)
BY DEF IsFour

Regrouped(u, v, w) == u \o (v \o w) = (u \o v) \o w

LEMMA Regroup ==
  ASSUME NEW S, NEW u \in Seq(S), NEW v \in Seq(S), NEW w \in Seq(S)
  PROVE  Regrouped(u, v, w)
BY ConcatAssociative, SMTT(30) DEF Regrouped

LEMMA MaxIs ==
  ASSUME NEW S, NEW n \in S, \A j \in S : j \in Nat /\ j <= n
  PROVE  Max(S) = n
<1>1. \A x \in S : (\A y \in S : x >= y) => x = n
  OBVIOUS
<1>2. \A y \in S : n >= y
  OBVIOUS
<1> QED
  BY <1>1, <1>2 DEF Max

-------------------------------------------------------------------------------
(* A splitter that finds one piece after another, with a pattern of any    *)
(* length: the piece at i of a text that is split at p.                    *)
PieceEnd(p, s, i) == IF Find(p, s, i) = npos THEN Len(s) + 1 ELSE Find(p, s, i)
PieceAt(p, s, i) == SubSeq(s, i, PieceEnd(p, s, i) - 1)
PieceAfter(p, s, i) == IF Find(p, s, i) = npos THEN Len(s) + 1 ELSE Find(p, s, i) + Len(p)

LEMMA SplitsAt ==
  ASSUME NEW f, NEW s, NEW p, IsSplitting(f, s, p, 1), NEW i \in 1..Len(s) + 1
  PROVE  f[i] = Pieces(f, s, p, i)
BY DEF IsSplitting

LEMMA NoPieceAtEnd ==
  ASSUME NEW S, NEW s \in Seq(S), NEW p, Len(p) \in Nat \ {0}, NEW f, IsSplitting(f, s, p, 1)
  PROVE  f[Len(s) + 1] = <<>>
<1>0. Len(s) \in Nat
  OBVIOUS
<1>1. f[Len(s) + 1] = Pieces(f, s, p, Len(s) + 1)
  <2>1. Len(s) + 1 \in 1..Len(s) + 1
    BY <1>0
  <2> QED
    BY <2>1, SplitsAt
<1>2. SubSeq(s, Len(s) + 1, (Len(s) + 1) - 1) = <<>>
  BY <1>0, SubSeqEmpty
<1>3. Find(p, s, Len(s) + 1) = npos
  BY <1>0, FindIs
<1> QED
  BY <1>1, <1>2, <1>3 DEF Pieces

LEMMA PieceIs ==
  ASSUME NEW S, NEW s \in Seq(S), NEW p, Len(p) \in Nat \ {0}, p # <<>>,
         NEW f, IsSplitting(f, s, p, 1), NEW i \in 1..Len(s)
  PROVE  /\ PieceAt(p, s, i) \in Seq(S)
         /\ PieceAfter(p, s, i) \in 1..Len(s) + 1
         /\ f[i] = IF PieceAt(p, s, i) = <<>> THEN f[PieceAfter(p, s, i)]
                   ELSE <<PieceAt(p, s, i)>> \o f[PieceAfter(p, s, i)]
<1>1. Len(s) \in Nat
  OBVIOUS
<1>2. PICK n : n = Find(p, s, i)
  OBVIOUS
<1>3. n = npos \/ (n \in i..Len(s) /\ n + Len(p) <= Len(s) + 1)
  BY <1>1, <1>2, FindIs
<1>4. /\ PieceEnd(p, s, i) = IF n = npos THEN Len(s) + 1 ELSE n
      /\ PieceAfter(p, s, i) = IF n = npos THEN Len(s) + 1 ELSE n + Len(p)
  BY <1>2 DEF PieceEnd, PieceAfter
<1>5. PieceEnd(p, s, i) \in 1..Len(s) + 1 /\ PieceAfter(p, s, i) \in 1..Len(s) + 1
  BY <1>1, <1>3, <1>4
<1>6. PieceAt(p, s, i) \in Seq(S)
  <2>1. \A m \in i..PieceEnd(p, s, i) - 1 : s[m] \in S
    BY <1>1, <1>5
  <2>2. i \in Int /\ PieceEnd(p, s, i) - 1 \in Int
    BY <1>1, <1>5
  <2> QED
    BY <2>1, <2>2, SubSeqProperties DEF PieceAt
<1>7. f[i] = IF PieceAt(p, s, i) = <<>> THEN f[PieceAfter(p, s, i)]
             ELSE <<PieceAt(p, s, i)>> \o f[PieceAfter(p, s, i)]
  <2>1. f[i] = Pieces(f, s, p, i)
    <3>1. i \in 1..Len(s) + 1
      BY <1>1
    <3> QED
      BY <3>1, SplitsAt
  <2>2. PICK rest : rest = IF n = npos THEN <<>> ELSE f[n + Len(p)]
    OBVIOUS
  <2>3. rest = f[PieceAfter(p, s, i)]
    <3>1. f[Len(s) + 1] = <<>>
      BY NoPieceAtEnd
    <3> QED
      BY <1>4, <2>2, <3>1
  <2>4. Pieces(f, s, p, i) = IF PieceAt(p, s, i) = <<>> THEN rest ELSE <<PieceAt(p, s, i)>> \o rest
    BY <1>2, <2>2 DEF Pieces, PieceAt, PieceEnd
  <2> QED
    BY <2>1, <2>3, <2>4
<1> QED
  BY <1>5, <1>6, <1>7

-------------------------------------------------------------------------------
(* What the splitter has counted or collected of s, and what is to come.   *)
Splits(S, s, p, where, phase, number, list) ==
  /\ phase \in {"count", "collect", "done"}
  /\ where \in 1..Len(s) + 1 /\ number \in Nat /\ list \in Seq(Seq(S) \ {<<>>})
  /\ phase = "count" => list = <<>>
  /\ \A f : IsSplitting(f, s, p, 1) =>
       /\ phase = "count" => number + Len(f[where]) = Len(f[1])
       /\ phase = "collect" => list \o f[where] = f[1]
       /\ phase = "done" => list = f[1]
       /\ phase # "count" => number = Len(f[1])

LEMMA SplitsFromStart ==
  ASSUME NEW S, NEW s \in Seq(S), NEW p, Len(p) \in Nat \ {0}
  PROVE  Splits(S, s, p, 1, "count", 0, <<>>)
<1>1. ASSUME NEW f, IsSplitting(f, s, p, 1) PROVE Len(f[1]) \in Nat
  <2>1. 1 \in 1..Len(s) + 1
    OBVIOUS
  <2>2. f[1] \in Seq(Seq(S) \ {<<>>})
    BY <1>1, <2>1, SplittingType
  <2> QED
    BY <2>2
<1>2. 1 \in 1..Len(s) + 1 /\ 0 \in Nat /\ <<>> \in Seq(Seq(S) \ {<<>>})
  OBVIOUS
<1> QED
  BY <1>1, <1>2 DEF Splits

LEMMA OnePieceMore ==
  ASSUME NEW W, NEW a \in Seq(W), NEW b \in W, NEW c \in Seq(W)
  PROVE  /\ Append(a, b) \in Seq(W) /\ <<b>> \o c \in Seq(W)
         /\ Append(a, b) \o c = a \o (<<b>> \o c)
         /\ Len(<<b>> \o c) = Len(c) + 1
<1>1. PICK e \in Seq(W) : e = <<b>> /\ Len(e) = 1
  <2>1. <<b>> \in Seq(W) /\ Len(<<b>>) = 1
    OBVIOUS
  <2> QED
    BY <2>1
<1>2. Append(a, b) = a \o e /\ Append(a, b) \in Seq(W)
  BY <1>1, AppendIsMore
<1>3. (a \o e) \o c = a \o (e \o c)
  BY ConcatAssociative
<1>4. e \o c \in Seq(W) /\ Len(e \o c) = Len(e) + Len(c)
  BY ConcatProperties
<1> QED
  BY <1>1, <1>2, <1>3, <1>4

(* One get_next: counting, and collecting. *)
LEMMA SplitsOn ==
  ASSUME NEW S, NEW s \in Seq(S), NEW p, Len(p) \in Nat \ {0}, p # <<>>,
         NEW where \in 1..Len(s), NEW phase, NEW number, NEW list,
         Splits(S, s, p, where, phase, number, list), NEW piece, piece = PieceAt(p, s, where)
  PROVE  /\ phase = "count" =>
              Splits(S, s, p, PieceAfter(p, s, where), "count",
                     IF piece # <<>> THEN number + 1 ELSE number, <<>>)
         /\ phase = "collect" =>
              Splits(S, s, p, PieceAfter(p, s, where), "collect", number,
                     IF piece # <<>> THEN Append(list, piece) ELSE list)
<1>1. PICK W : W = Seq(S) \ {<<>>}
  OBVIOUS
<1>2. PICK next : next = PieceAfter(p, s, where)
  OBVIOUS
<1>3. ASSUME NEW f, IsSplitting(f, s, p, 1)
      PROVE  /\ piece \in Seq(S) /\ next \in 1..Len(s) + 1
             /\ f[where] = IF piece = <<>> THEN f[next] ELSE <<piece>> \o f[next]
             /\ f[next] \in Seq(W) /\ f[1] \in Seq(W) /\ f[where] \in Seq(W)
  <2>1. /\ piece \in Seq(S) /\ next \in 1..Len(s) + 1
        /\ f[where] = IF piece = <<>> THEN f[next] ELSE <<piece>> \o f[next]
    BY <1>2, <1>3, PieceIs
  <2>2. \A i \in 1..Len(s) + 1 : f[i] \in Seq(W)
    BY <1>1, <1>3, SplittingType
  <2>3. 1 \in 1..Len(s) + 1 /\ where \in 1..Len(s) + 1
    OBVIOUS
  <2> QED
    BY <2>1, <2>2, <2>3
<1>4. piece \in Seq(S) /\ next \in 1..Len(s) + 1
  <2>1. \E f : IsSplitting(f, s, p, 1)
    <3>1. Len(s) \in Nat
      OBVIOUS
    <3> QED
      BY <3>1, SplittingExists
  <2> QED
    BY <1>3, <2>1
<1>5. number \in Nat /\ list \in Seq(W)
  BY <1>1 DEF Splits
<1>6. piece # <<>> => piece \in W
  BY <1>1, <1>4
<1>7. CASE phase = "count"
  <2>1. ASSUME NEW f, IsSplitting(f, s, p, 1)
        PROVE  (IF piece # <<>> THEN number + 1 ELSE number) + Len(f[next]) = Len(f[1])
    <3>1. number + Len(f[where]) = Len(f[1])
      BY <1>7, <2>1 DEF Splits
    <3>2. PICK r \in Seq(W) : r = f[next]
      BY <1>3, <2>1
    <3>3. Len(f[where]) = IF piece # <<>> THEN Len(r) + 1 ELSE Len(r)
      <4>1. CASE piece # <<>>
        <5>1. Len(<<piece>> \o r) = Len(r) + 1
          BY <1>6, <3>2, <4>1, OnePieceMore
        <5> QED
          BY <1>3, <2>1, <3>2, <4>1, <5>1
      <4>2. CASE piece = <<>>
        BY <1>3, <2>1, <3>2, <4>2
      <4> QED
        BY <4>1, <4>2
    <3>4. PICK l \in Nat : l = Len(r)
      <4>1. Len(r) \in Nat
        BY <3>2
      <4> QED
        BY <4>1
    <3>5. number + (IF piece # <<>> THEN l + 1 ELSE l) = Len(f[1])
      BY <3>1, <3>3, <3>4
    <3>6. number + (IF piece # <<>> THEN l + 1 ELSE l)
            = (IF piece # <<>> THEN number + 1 ELSE number) + l
      <4>1. PICK n \in Nat : n = number
        BY <1>5
      <4> QED
        BY <4>1
    <3> QED
      BY <3>2, <3>4, <3>5, <3>6
  <2>2. <<>> \in Seq(W) /\ (IF piece # <<>> THEN number + 1 ELSE number) \in Nat
    BY <1>5
  <2> QED
    BY <1>1, <1>2, <1>4, <1>7, <2>1, <2>2 DEF Splits
<1>8. CASE phase = "collect"
  <2>1. PICK longer : longer = IF piece # <<>> THEN Append(list, piece) ELSE list
    OBVIOUS
  <2>2. longer \in Seq(W)
    BY <1>5, <1>6, <2>1, OnePieceMore
  <2>3. ASSUME NEW f, IsSplitting(f, s, p, 1)
        PROVE  longer \o f[next] = f[1] /\ number = Len(f[1])
    <3>1. list \o f[where] = f[1] /\ number = Len(f[1])
      BY <1>8, <2>3 DEF Splits
    <3>2. PICK r \in Seq(W) : r = f[next]
      BY <1>3, <2>3
    <3>3. CASE piece # <<>>
      <4>1. Append(list, piece) \o r = list \o (<<piece>> \o r)
        <5>1. \A u \in Seq(W), v \in W, w \in Seq(W) : Append(u, v) \o w = u \o (<<v>> \o w)
          BY OnePieceMore, SMTT(30)
        <5>2. list \in Seq(W) /\ piece \in W /\ r \in Seq(W)
          BY <1>5, <1>6, <3>2, <3>3
        <5> QED
          BY <5>1, <5>2
      <4> QED
        BY <1>3, <2>1, <2>3, <3>1, <3>2, <3>3, <4>1
    <3>4. CASE piece = <<>>
      BY <1>3, <2>1, <2>3, <3>1, <3>2, <3>4
    <3> QED
      BY <3>3, <3>4
  <2> QED
    BY <1>1, <1>2, <1>4, <1>5, <1>8, <2>1, <2>2, <2>3 DEF Splits
<1> QED
  BY <1>7, <1>8

(* The end of a pass. *)
LEMMA SplitsToEnd ==
  ASSUME NEW S, NEW s \in Seq(S), NEW p, Len(p) \in Nat \ {0},
         NEW phase, NEW number, NEW list, NEW where, where = Len(s) + 1,
         Splits(S, s, p, where, phase, number, list)
  PROVE  /\ phase = "count" => Splits(S, s, p, 1, "collect", number, list)
         /\ phase = "collect" => Splits(S, s, p, where, "done", number, list)
<1>1. PICK W : W = Seq(S) \ {<<>>}
  OBVIOUS
<1>2. number \in Nat /\ list \in Seq(W) /\ where \in 1..Len(s) + 1 /\ 1 \in 1..Len(s) + 1
  BY <1>1 DEF Splits
<1>3. ASSUME NEW f, IsSplitting(f, s, p, 1)
      PROVE  f[where] = <<>> /\ f[1] \in Seq(W)
  <2>1. \A i \in 1..Len(s) + 1 : f[i] \in Seq(W)
    BY <1>1, <1>3, SplittingType
  <2>2. f[Len(s) + 1] = <<>>
    BY <1>3, NoPieceAtEnd
  <2> QED
    BY <1>2, <2>1, <2>2
<1>4. CASE phase = "count"
  <2>1. list = <<>>
    BY <1>4 DEF Splits
  <2>2. ASSUME NEW f, IsSplitting(f, s, p, 1)
        PROVE  list \o f[1] = f[1] /\ number = Len(f[1])
    <3>1. number + Len(f[where]) = Len(f[1])
      BY <1>4, <2>2 DEF Splits
    <3>2. f[where] = <<>> /\ f[1] \in Seq(W)
      BY <1>3, <2>2
    <3>3. Len(f[where]) = 0
      BY <3>2
    <3> QED
      BY <1>2, <2>1, <3>1, <3>2, <3>3
  <2> QED
    BY <1>1, <1>2, <1>4, <2>2 DEF Splits
<1>5. CASE phase = "collect"
  <2>1. ASSUME NEW f, IsSplitting(f, s, p, 1)
        PROVE  list = f[1] /\ number = Len(f[1])
    <3>1. list \o f[where] = f[1] /\ number = Len(f[1])
      BY <1>5, <2>1 DEF Splits
    <3>2. f[where] = <<>>
      BY <1>3, <2>1
    <3> QED
      BY <1>2, <3>1, <3>2
  <2> QED
    BY <1>1, <1>2, <1>5, <2>1 DEF Splits
<1> QED
  BY <1>4, <1>5
===============================================================================
