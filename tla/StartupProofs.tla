----------------------------- MODULE StartupProofs ----------------------------
(***************************************************************************)
(* The order in which main does things, and what it reads from the user,   *)
(* for every argument, every mime.txt and every number of workers and      *)
(* requests.                                                               *)
(*                                                                         *)
(* The value of an argument and the pieces of a line are computed by       *)
(* recursive functions: that such a function exists, and what it returns,  *)
(* is shown with SetInduction, which rests on the least number of a set.   *)
(***************************************************************************)
EXTENDS Startup, TextLemmas

-------------------------------------------------------------------------------
(* The recursive function of ValueOf. *)
IsValue(f, p, m) == f = [n \in 0..m |-> IF n = 0 THEN 0 ELSE 10 * f[n - 1] + p[n]]

LEMMA ValueExists ==
  ASSUME NEW p, NEW m \in Nat PROVE \E f : IsValue(f, p, m)
<1> DEFINE I == {n \in Nat : \E f : IsValue(f, p, n)}
<1>1. 0 \in I
  <2> DEFINE f == [i \in 0..0 |-> 0]
  <2>1. IsValue(f, p, 0)
    BY DEF IsValue
  <2> QED
    BY <2>1
<1>2. ASSUME NEW n \in Nat, n \in I PROVE n + 1 \in I
  <2>1. PICK f : IsValue(f, p, n)
    BY <1>2
  <2> DEFINE g == [i \in 0..n + 1 |-> IF i = n + 1 THEN 10 * f[n] + p[n + 1] ELSE f[i]]
  <2>2. ASSUME NEW i \in 0..n + 1 PROVE g[i] = IF i = 0 THEN 0 ELSE 10 * g[i - 1] + p[i]
    <3>1. CASE i = n + 1
      <4>1. i - 1 = n /\ n \in 0..n + 1
        BY <3>1
      <4> QED
        BY <3>1, <4>1
    <3>2. CASE i # n + 1
      <4>1. i \in 0..n
        BY <2>2, <3>2
      <4>2. f[i] = IF i = 0 THEN 0 ELSE 10 * f[i - 1] + p[i]
        BY <2>1, <4>1 DEF IsValue
      <4>3. i # 0 => i - 1 \in 0..n + 1 /\ i - 1 # n + 1
        BY <4>1
      <4> QED
        BY <3>2, <4>2, <4>3
    <3> QED
      BY <3>1, <3>2
  <2>3. IsValue(g, p, n + 1)
    BY <2>2 DEF IsValue
  <2> HIDE DEF g
  <2> QED
    BY <2>3
<1> HIDE DEF I
<1>3. m \in I
  BY <1>1, <1>2, SetInduction
<1> QED
  BY <1>3 DEF I

LEMMA ValueIs ==
  ASSUME NEW p, Len(p) \in Nat
  PROVE  \E f : IsValue(f, p, Len(p)) /\ ValueOf(p) = f[Len(p)]
<1> DEFINE F(f) == [n \in 0..Len(p) |-> IF n = 0 THEN 0 ELSE 10 * f[n - 1] + p[n]]
           upTo == CHOOSE f : f = F(f)
<1>1. \E f : f = F(f)
  BY ValueExists DEF IsValue
<1>2. upTo = F(upTo)
  BY <1>1
<1>3. ValueOf(p) = upTo[Len(p)]
  BY DEF ValueOf
<1> QED
  BY <1>2, <1>3 DEF IsValue

(* A number does not become smaller when digits are put behind it. *)
LEMMA ValueGrows ==
  ASSUME NEW p, NEW m \in Nat, NEW f, IsValue(f, p, m), \A i \in 1..m : p[i] \in 0..9,
         NEW a \in 0..m, f[a] \in Nat
  PROVE  f[m] \in Nat /\ f[m] >= f[a]
<1> DEFINE I == {n \in Nat : a + n <= m => f[a + n] \in Nat /\ f[a + n] >= f[a]}
<1>1. 0 \in I
  OBVIOUS
<1>2. ASSUME NEW n \in Nat, n \in I PROVE n + 1 \in I
  <2> SUFFICES ASSUME a + (n + 1) <= m
               PROVE  f[a + (n + 1)] \in Nat /\ f[a + (n + 1)] >= f[a]
    OBVIOUS
  <2>1. f[a + n] \in Nat /\ f[a + n] >= f[a]
    BY <1>2
  <2>2. PICK i \in 1..m : i = a + (n + 1) /\ i - 1 = a + n
    OBVIOUS
  <2>3. f[i] = 10 * f[i - 1] + p[i] /\ p[i] \in 0..9
    BY <2>2 DEF IsValue
  <2> QED
    BY <2>1, <2>2, <2>3
<1> HIDE DEF I
<1>3. m - a \in I
  BY <1>1, <1>2, SetInduction
<1> QED
  BY <1>3 DEF I

-------------------------------------------------------------------------------
(* The check before each digit bounds the number after it: ten times a     *)
(* port and a digit.                                                       *)
Port ==
  /\ result \in 0..10 * MaxPort + 9
  /\ outcome = "accepted" => result \in 0..MaxPort

(* The number that parse_port has so far is bounded (utils.cpp:32-37).     *)
LEMMA PortStep ==
  ASSUME Port, ParseStep PROVE Port'
<1> USE PortAssumption
<1>1. CASE TakeDigit
  <2>1. PICK c \in 0..9 : result' = 10 * result + c
    BY <1>1 DEF TakeDigit, IsDigit
  <2>2. result \in 0..MaxPort /\ outcome' # "accepted"
    BY <1>1 DEF TakeDigit, Running, TooLarge, Port
  <2> QED
    BY <2>1, <2>2 DEF Port
<1>2. CASE RefusePort \/ AcceptPort
  BY <1>2 DEF RefusePort, AcceptPort, TooLarge, Port
<1> QED
  BY <1>1, <1>2 DEF ParseStep

(* The number so far is that of the digits so far. *)
Digits ==
  /\ param \in Params /\ k \in 1..Len(param) + 1
  /\ \A i \in 1..k - 1 : IsDigit(param[i])
  /\ \A f : IsValue(f, param, Len(param)) => result = f[k - 1]
  /\ PortIsTheNumber

LEMMA DigitsStep ==
  ASSUME Port, Digits, ParseStep PROVE Digits'
<1>1. /\ param \in Seq(Int) /\ Len(param) \in Nat /\ DOMAIN param = 1..Len(param)
      /\ k \in 1..Len(param) + 1 /\ result \in Nat /\ MaxPort \in Nat
  BY PortAssumption DEF Digits, Port
<1>2. PICK f : IsValue(f, param, Len(param)) /\ ValueOf(param) = f[Len(param)]
  BY <1>1, ValueIs
<1>3. result = f[k - 1]
  BY <1>2 DEF Digits
<1>4. CASE TakeDigit
  <2>1. /\ k \in 1..Len(param) /\ k' = k + 1 /\ result' = 10 * result + param[k]
        /\ IsDigit(param[k]) /\ UNCHANGED <<param, outcome>> /\ outcome = "none"
    BY <1>1, <1>4 DEF TakeDigit, Running
  <2>2. ASSUME NEW g, IsValue(g, param, Len(param)) PROVE result' = g[k' - 1]
    <3>1. result = g[k - 1]
      BY <2>2 DEF Digits
    <3>2. g[k] = 10 * g[k - 1] + param[k]
      BY <2>1, <2>2 DEF IsValue
    <3>3. k' - 1 = k
      BY <2>1
    <3> QED
      BY <2>1, <3>1, <3>2, <3>3
  <2>3. \A i \in 1..k' - 1 : IsDigit(param[i])
    <3>1. \A i \in 1..k' - 1 : i \in 1..k - 1 \/ i = k
      BY <2>1
    <3> QED
      BY <2>1, <3>1 DEF Digits
  <2>4. k' \in 1..Len(param) + 1
    BY <1>1, <2>1
  <2>5. PortIsTheNumber'
    BY <2>1 DEF PortIsTheNumber
  <2> QED
    BY <2>1, <2>2, <2>3, <2>4, <2>5 DEF Digits
<1>5. CASE AcceptPort
  <2>1. k = Len(param) + 1 /\ result <= MaxPort
    BY <1>1, <1>5 DEF AcceptPort, TooLarge
  <2>2. result = ValueOf(param)
    <3>1. k - 1 = Len(param)
      BY <1>1, <2>1
    <3> QED
      BY <1>2, <1>3, <3>1
  <2>3. IsPort(param)
    BY <1>1, <2>1, <2>2 DEF IsPort, Digits
  <2> QED
    BY <1>5, <2>2, <2>3 DEF AcceptPort, Digits, PortIsTheNumber
<1>6. CASE RefusePort
  <2>1. ~IsPort(param)
    <3>1. SUFFICES ASSUME \A i \in 1..Len(param) : IsDigit(param[i]) PROVE ~(ValueOf(param) <= MaxPort)
      BY <1>1 DEF IsPort
    <3>2. result > MaxPort
      BY <1>1, <1>6, <3>1 DEF RefusePort, Running, TooLarge
    <3>3. k - 1 \in 0..Len(param) /\ f[k - 1] \in Nat
      BY <1>1, <1>3
    <3>4. f[Len(param)] \in Nat /\ f[Len(param)] >= f[k - 1]
      BY <1>1, <1>2, <3>1, <3>3, ValueGrows DEF IsDigit
    <3> QED
      BY <1>1, <1>2, <1>3, <3>2, <3>4
  <2> QED
    BY <1>6, <2>1 DEF RefusePort, Digits, PortIsTheNumber
<1> QED
  BY <1>4, <1>5, <1>6 DEF ParseStep

-------------------------------------------------------------------------------
(* The words of a line; and one round of the splitter over it.  A line is  *)
(* split at <<Blank>>, which is one byte long.                             *)
Word == Seq(DOMAIN Lower) \ {<<>>}
Behind(s, i) == IF Find(<<Blank>>, s, i) = npos THEN Len(s) + 1 ELSE Find(<<Blank>>, s, i)
Segment(s, i) == SubSeq(s, i, Behind(s, i) - 1)
After(s, i) == IF Find(<<Blank>>, s, i) = npos THEN Len(s) + 1 ELSE Find(<<Blank>>, s, i) + 1

LEMMA SplittingAt ==
  ASSUME NEW f, NEW s, NEW p, NEW j, IsSplitting(f, s, p, j), NEW i \in j..Len(s) + 1
  PROVE  f[i] = Pieces(f, s, p, i)
BY DEF IsSplitting

LEMMA LineSplits ==
  ASSUME NEW s \in Seq(DOMAIN Lower)
  PROVE  /\ \E f : IsSplitting(f, s, <<Blank>>, 1) /\ Split(s, <<Blank>>) = f[1]
         /\ \A f : IsSplitting(f, s, <<Blank>>, 1) =>
              /\ \A i \in 1..Len(s) + 1 : f[i] \in Seq(Word)
              /\ f[Len(s) + 1] = <<>>
<1>1. Len(s) \in Nat
  OBVIOUS
<1>2. Len(<<Blank>>) = 1 /\ <<Blank>> # <<>>
  OBVIOUS
<1>3. PICK p : p = <<Blank>>
  OBVIOUS
<1>4. Len(p) \in Nat \ {0} /\ p # <<>> /\ Len(p) = 1
  BY <1>3, <1>2
<1>5. \E f : IsSplitting(f, s, p, 1) /\ Split(s, p) = f[1]
  BY <1>1, <1>4, SplitIs
<1>6. ASSUME NEW f, IsSplitting(f, s, p, 1) PROVE \A i \in 1..Len(s) + 1 : f[i] \in Seq(Word)
  BY <1>4, <1>6, SplittingType DEF Word
<1>7. ASSUME NEW f, IsSplitting(f, s, p, 1) PROVE f[Len(s) + 1] = <<>>
  <2>1. f[Len(s) + 1] = Pieces(f, s, p, Len(s) + 1)
    BY <1>1, <1>7, SplittingAt
  <2>2. SubSeq(s, Len(s) + 1, (Len(s) + 1) - 1) = <<>>
    BY <1>1, SubSeqEmpty
  <2>3. Find(p, s, Len(s) + 1) = npos
    BY <1>1, <1>4, FindIs
  <2> QED
    BY <1>4, <2>1, <2>2, <2>3 DEF Pieces
<1> QED
  BY <1>3, <1>5, <1>6, <1>7

LEMMA SegmentIs ==
  ASSUME NEW s \in Seq(DOMAIN Lower), NEW f, IsSplitting(f, s, <<Blank>>, 1), NEW i \in 1..Len(s)
  PROVE  /\ Segment(s, i) \in Seq(DOMAIN Lower)
         /\ After(s, i) \in 1..Len(s) + 1
         /\ f[i] = IF Segment(s, i) = <<>> THEN f[After(s, i)] ELSE <<Segment(s, i)>> \o f[After(s, i)]
         /\ f[Len(s) + 1] = <<>>
<1>1. Len(s) \in Nat /\ Len(<<Blank>>) = 1 /\ <<Blank>> # <<>>
  OBVIOUS
<1>2. PICK n : n = Find(<<Blank>>, s, i)
  OBVIOUS
<1>3. n = npos \/ (n \in i..Len(s) /\ n + 1 <= Len(s) + 1)
  BY <1>1, <1>2, FindIs
<1>4. /\ Behind(s, i) = IF n = npos THEN Len(s) + 1 ELSE n
      /\ After(s, i) = IF n = npos THEN Len(s) + 1 ELSE n + 1
  BY <1>2 DEF Behind, After
<1>5. Behind(s, i) \in 1..Len(s) + 1 /\ After(s, i) \in 1..Len(s) + 1
  BY <1>1, <1>3, <1>4
<1>6. Segment(s, i) \in Seq(DOMAIN Lower)
  <2>1. \A m \in i..Behind(s, i) - 1 : s[m] \in DOMAIN Lower
    BY <1>1, <1>5
  <2>2. i \in Int /\ Behind(s, i) - 1 \in Int
    BY <1>1, <1>5
  <2> QED
    BY <2>1, <2>2, SubSeqProperties DEF Segment
<1>7. f[Len(s) + 1] = <<>>
  BY LineSplits
<1>8. f[i] = IF Segment(s, i) = <<>> THEN f[After(s, i)] ELSE <<Segment(s, i)>> \o f[After(s, i)]
  <2>1. f[i] = Pieces(f, s, <<Blank>>, i)
    <3>1. i \in 1..Len(s) + 1
      BY <1>1
    <3> QED
      BY <3>1, SplittingAt
  <2>2. PICK rest : rest = IF n = npos THEN <<>> ELSE f[n + Len(<<Blank>>)]
    OBVIOUS
  <2>3. rest = f[After(s, i)]
    BY <1>1, <1>4, <1>7, <2>2
  <2>4. Pieces(f, s, <<Blank>>, i) = IF Segment(s, i) = <<>> THEN rest ELSE <<Segment(s, i)>> \o rest
    BY <1>1, <1>2, <2>2 DEF Pieces, Segment, Behind
  <2> QED
    BY <2>1, <2>3, <2>4
<1> QED
  BY <1>5, <1>6, <1>7, <1>8

(* What the splitter has collected and what it still has to go through are *)
(* the words of its line.                                                  *)
SplitterOK ==
  /\ line \in Seq(DOMAIN Lower)
  /\ pass \in {"count", "collect", "done"}
  /\ data.current_pos \in 1..Len(line) + 1
  /\ vec \in Seq(Word)
  /\ pass = "count" => vec = <<>>
  /\ \A f : IsSplitting(f, line, <<Blank>>, 1) =>
       /\ pass = "collect" => vec \o f[data.current_pos] = f[1]
       /\ pass = "done" => vec = f[1]

LEMMA WordsJoin ==
  \A a, c \in Seq(Word), b \in Word : Append(a, b) \in Seq(Word) /\ Append(a, b) \o c = a \o (<<b>> \o c)
<1> TAKE a, c \in Seq(Word), b \in Word
<1>1. PICK W : W = Word
  OBVIOUS
<1>2. a \in Seq(W) /\ c \in Seq(W) /\ b \in W
  BY <1>1
<1>3. Append(a, b) = a \o <<b>> /\ <<b>> \in Seq(W) /\ Append(a, b) \in Seq(W)
  BY <1>2
<1>4. PICK e \in Seq(W) : e = <<b>>
  BY <1>3
<1>5. (a \o e) \o c = a \o (e \o c)
  BY <1>2, ConcatAssociative
<1> QED
  BY <1>1, <1>3, <1>4, <1>5

LEMMA FindOfSplitter ==
  /\ Splitter!npos = npos
  /\ \A p, s, i : Splitter!Find(p, s, i) = Find(p, s, i)
BY Zenon DEF Splitter!npos, npos, Splitter!Find, Find, Splitter!Occurs, Occurs, Splitter!Min, Min

LEMMA SplitterStep ==
  ASSUME SplitterOK, Splitter!SplitStep, line' = line
  PROVE  SplitterOK'
<1>1. /\ line \in Seq(DOMAIN Lower) /\ Len(line) \in Nat /\ Len(<<Blank>>) = 1
      /\ <<Blank>> # <<>>
  BY DEF SplitterOK
<1>2. ASSUME Splitter!More
      PROVE  /\ Splitter!get_next.last_segment = Segment(line, data.current_pos)
             /\ Splitter!get_next.current_pos = After(line, data.current_pos)
  <2>1. Splitter!find_pattern = Find(<<Blank>>, line, data.current_pos)
    BY <1>1, <1>2, FindOfSplitter DEF Splitter!find_pattern, Splitter!More, SplitterOK
  <2> QED
    BY <1>1, <2>1, FindOfSplitter DEF Splitter!get_next, Segment, Behind, After
<1>3. PICK f : IsSplitting(f, line, <<Blank>>, 1)
  BY <1>1, LineSplits
<1>4. ASSUME NEW g, IsSplitting(g, line, <<Blank>>, 1)
      PROVE  /\ \A i \in 1..Len(line) + 1 : g[i] \in Seq(Word)
             /\ g[Len(line) + 1] = <<>>
  BY <1>1, <1>4, LineSplits
<1>5. CASE Splitter!Count
  <2>1. /\ Splitter!More /\ pass = "count" /\ pass' = "count" /\ vec' = vec
        /\ data'.current_pos = After(line, data.current_pos)
    BY <1>2, <1>5 DEF Splitter!Count
  <2>2. data.current_pos \in 1..Len(line)
    BY <1>1, <2>1 DEF Splitter!More, SplitterOK
  <2>3. After(line, data.current_pos) \in 1..Len(line) + 1
    BY <1>1, <1>3, <2>2, SegmentIs
  <2> QED
    BY <2>1, <2>3 DEF SplitterOK
<1>6. CASE Splitter!Counted
  <2>1. /\ pass' = "collect" /\ data'.current_pos = 1 /\ vec' = vec /\ vec = <<>>
    BY <1>6 DEF Splitter!Counted, Splitter!Start, SplitterOK
  <2>2. ASSUME NEW g, IsSplitting(g, line, <<Blank>>, 1) PROVE vec \o g[1] = g[1]
    <3>1. g[1] \in Seq(Word)
      BY <1>1, <1>4, <2>2
    <3> QED
      BY <2>1, <3>1
  <2> QED
    BY <1>1, <2>1, <2>2 DEF SplitterOK
<1>7. CASE Splitter!Collect
  <2> DEFINE i == data.current_pos
  <2>1. /\ Splitter!More /\ pass = "collect" /\ pass' = "collect"
        /\ data'.current_pos = After(line, i)
        /\ vec' = IF Segment(line, i) # <<>> THEN Append(vec, Segment(line, i)) ELSE vec
    BY <1>2, <1>7 DEF Splitter!Collect
  <2>2. i \in 1..Len(line)
    BY <1>1, <2>1 DEF Splitter!More, SplitterOK
  <2>3. After(line, i) \in 1..Len(line) + 1 /\ Segment(line, i) \in Seq(DOMAIN Lower)
    BY <1>1, <1>3, <2>2, SegmentIs
  <2>4. vec \in Seq(Word)
    BY DEF SplitterOK
  <2>5. vec' \in Seq(Word)
    BY <2>1, <2>3, <2>4 DEF Word
  <2>6. ASSUME NEW g, IsSplitting(g, line, <<Blank>>, 1) PROVE vec' \o g[After(line, i)] = g[1]
    <3>1. vec \o g[i] = g[1]
      BY <2>1, <2>6 DEF SplitterOK
    <3>2. g[After(line, i)] \in Seq(Word)
      BY <1>4, <2>3, <2>6
    <3>3. g[i] = IF Segment(line, i) = <<>> THEN g[After(line, i)]
                 ELSE <<Segment(line, i)>> \o g[After(line, i)]
      BY <1>1, <2>2, <2>6, SegmentIs
    <3>4. CASE Segment(line, i) = <<>>
      BY <2>1, <3>1, <3>3, <3>4
    <3>5. CASE Segment(line, i) # <<>>
      <4>1. Segment(line, i) \in Word
        BY <2>3, <3>5 DEF Word
      <4>2. PICK a : a = vec
        OBVIOUS
      <4>3. PICK b : b = Segment(line, i)
        OBVIOUS
      <4>4. PICK c : c = g[After(line, i)]
        OBVIOUS
      <4>5. Append(a, b) \o c = a \o (<<b>> \o c)
        BY <2>4, <3>2, <4>1, <4>2, <4>3, <4>4, WordsJoin
      <4>6. vec' = Append(a, b) /\ g[i] = <<b>> \o c
        BY <2>1, <3>3, <3>5, <4>2, <4>3, <4>4
      <4> QED
        BY <3>1, <4>2, <4>4, <4>5, <4>6
    <3> QED
      BY <3>4, <3>5
  <2> QED
    BY <2>1, <2>3, <2>5, <2>6 DEF SplitterOK
<1>8. CASE Splitter!Collected
  <2>1. pass = "collect" /\ pass' = "done" /\ UNCHANGED <<data, vec>> /\ ~Splitter!More
    BY <1>8 DEF Splitter!Collected
  <2>2. data.current_pos = Len(line) + 1
    BY <1>1, <2>1 DEF Splitter!More, SplitterOK
  <2>3. ASSUME NEW g, IsSplitting(g, line, <<Blank>>, 1) PROVE vec = g[1]
    <3>1. vec \o g[Len(line) + 1] = g[1]
      BY <2>1, <2>2, <2>3 DEF SplitterOK
    <3>2. g[Len(line) + 1] = <<>>
      BY <1>4, <2>3
    <3>3. vec \in Seq(Word)
      BY DEF SplitterOK
    <3> QED
      BY <3>1, <3>2, <3>3
  <2> QED
    BY <2>1, <2>3 DEF SplitterOK
<1> QED
  BY <1>5, <1>6, <1>7, <1>8 DEF Splitter!SplitStep

-------------------------------------------------------------------------------
(* What a line of the file says, and what the table has of the first m     *)
(* lines: of each key the first.                                           *)
Key(n) == LowerCase(PopCR(Split(lines[n], <<Blank>>)[1]))
Value(n) == PopCR(Split(lines[n], <<Blank>>)[2])
PairsUpTo(m) == {n \in Pairs : n <= m}

TableHas(m) ==
  /\ \A n \in 1..m : lines[n] = <<>> \/ n \in Pairs
  /\ DOMAIN table = {Key(n) : n \in PairsUpTo(m)}
  /\ \A n \in PairsUpTo(m) : (\A j \in PairsUpTo(n - 1) : Key(j) # Key(n)) => table[Key(n)] = Value(n)

(* How many lines are in the table. *)
LinesDone == IF pc = "use" THEN at - 2 ELSE at - 1

Reader ==
  /\ lines \in Files
  /\ at \in 1..Len(lines) + 1
  /\ bad \in BOOLEAN
  /\ eof <=> at = Len(lines) + 1
  /\ pc \in {"open", "read", "use", "loaded", "refused"}
  /\ pc = "open" => at = 1 /\ ~bad
  /\ pc = "loaded" => eof /\ ~bad
  /\ eof => ~bad
  /\ pc = "use" => SplitterOK
  /\ pc \in {"open", "read"} \/ (pc = "use" /\ line = <<>>) => Splitter!Ready
  /\ line \in Seq(DOMAIN Lower)
  /\ pc = "use" /\ ~bad => at > 1 /\ line = lines[at - 1]

Table ==
  /\ ~bad /\ pc # "refused" => TableHas(LinesDone)
  /\ pc = "refused" /\ at > 1 /\ ~bad => \E n \in DOMAIN lines : lines[n] # <<>> /\ n \notin Pairs

LEMMA LinesAre ==
  ASSUME Reader
  PROVE  /\ Len(lines) \in Nat \ {0} /\ DOMAIN lines = 1..Len(lines)
         /\ \A n \in 1..Len(lines) : lines[n] \in Seq(DOMAIN Lower)
<1>1. lines \in Seq(Seq(DOMAIN Lower)) /\ lines # <<>>
  BY MimeAssumption DEF Reader
<1> QED
  BY <1>1

LEMMA ReaderStep ==
  ASSUME Reader, LoadStep PROVE Reader'
<1>1. /\ Len(lines) \in Nat \ {0} /\ DOMAIN lines = 1..Len(lines)
      /\ \A n \in 1..Len(lines) : lines[n] \in Seq(DOMAIN Lower)
      /\ at \in 1..Len(lines) + 1
      /\ line \in Seq(DOMAIN Lower)
  BY LinesAre DEF Reader
<1>2. CASE OpenMime \/ LoadEnd
  BY <1>2 DEF OpenMime, LoadEnd, Reader, Splitter!Ready, splitter
<1>3. CASE GetLine \/ GetLineFails \/ GetLineAgain
  <2>1. Splitter!Ready /\ UNCHANGED splitter /\ pc' = "use"
    BY <1>3 DEF GetLine, GetLineFails, GetLineAgain, Reader
  <2>2. Splitter!Ready'
    BY <2>1 DEF Splitter!Ready, splitter
  <2>3. line' \in Seq(DOMAIN Lower)
    <3>1. CASE GetLine
      <4>1. line' = lines[at] /\ at # Len(lines) + 1
        BY <3>1, Zenon DEF GetLine, Reader
      <4>2. at \in 1..Len(lines)
        BY <1>1, <4>1
      <4> QED
        BY <1>1, <4>1, <4>2
    <3>2. CASE GetLineFails
      <4>1. at # Len(lines) + 1
        BY <3>2, Zenon DEF GetLineFails, Reader
      <4>2. at \in 1..Len(lines)
        BY <1>1, <4>1
      <4>3. PICK n \in 0..Len(lines[at]) : line' = SubSeq(lines[at], 1, n)
        BY <3>2 DEF GetLineFails
      <4>4. lines[at] \in Seq(DOMAIN Lower)
        BY <1>1, <4>2
      <4>5. \A m \in 1..n : lines[at][m] \in DOMAIN Lower
        BY <4>4
      <4>6. 1 \in Int /\ n \in Int
        OBVIOUS
      <4> QED
        BY <4>3, <4>5, <4>6, SubSeqProperties
    <3>3. CASE GetLineAgain
      BY <1>1, <3>3 DEF GetLineAgain
    <3> QED
      BY <1>3, <3>1, <3>2, <3>3
  <2>4. SplitterOK'
    <3>1. data'.current_pos = 1 /\ pass' = "count" /\ vec' = <<>>
      BY <2>2 DEF Splitter!Ready, Splitter!Start
    <3>2. Len(line') \in Nat
      BY <2>3
    <3> QED
      BY <2>3, <3>1, <3>2 DEF SplitterOK
  <2>5. /\ lines' = lines /\ at' \in 1..Len(lines) + 1 /\ bad' \in BOOLEAN
        /\ eof' <=> at' = Len(lines) + 1
        /\ eof' => ~bad'
        /\ ~bad' => at' > 1 /\ line' = lines[at' - 1]
    <3>1. CASE GetLine
      <4>1. at # Len(lines) + 1
        BY <3>1, Zenon DEF GetLine, Reader
      <4>2. eof' <=> at = Len(lines)
        BY <3>1, Zenon DEF GetLine
      <4>3. ~bad /\ UNCHANGED <<lines, bad>> /\ at' = at + 1 /\ line' = lines[at]
        BY <3>1, Zenon DEF GetLine
      <4>4. at \in 1..Len(lines) /\ at' - 1 = at
        BY <1>1, <4>1, <4>3
      <4>5. at' > 1 /\ line' = lines[at' - 1] /\ at' \in 1..Len(lines) + 1
        BY <1>1, <4>3, <4>4
      <4>6. at = Len(lines) <=> at' = Len(lines) + 1
        <5>1. at' = at + 1 /\ at \in Nat /\ Len(lines) \in Nat
          BY <1>1, <4>3
        <5>2. \A m, n \in Nat : m = n <=> m + 1 = n + 1
          OBVIOUS
        <5> QED
          BY <5>1, <5>2, Zenon
      <4>7. lines' = lines /\ bad' \in BOOLEAN /\ ~bad'
        BY <3>1, SMT DEF GetLine, Reader
      <4> QED
        BY <4>2, <4>5, <4>6, <4>7, Zenon
    <3>2. CASE GetLineFails
      BY <1>1, <3>2 DEF GetLineFails, Reader
    <3>3. CASE GetLineAgain
      BY <1>1, <3>3 DEF GetLineAgain, Reader
    <3> QED
      BY <1>3, <3>1, <3>2, <3>3
  <2> QED
    BY <2>1, <2>2, <2>3, <2>4, <2>5 DEF Reader
<1>4. CASE EmptyLine
  BY <1>4 DEF EmptyLine, Reader, Splitter!Ready, splitter
<1>5. CASE SplitLine
  <2>1. /\ pc = "use" /\ line # <<>> /\ Splitter!SplitStep
        /\ UNCHANGED <<lines, at, line, eof, bad, table, pc>>
    BY <1>5 DEF SplitLine
  <2>2. SplitterOK'
    BY <2>1, SplitterStep DEF Reader
  <2> QED
    BY <2>1, <2>2 DEF Reader
<1>6. CASE WrongLine
  BY <1>6 DEF WrongLine, Reader
<1>7. CASE AddLine
  <2>1. /\ pc = "use" /\ pc' = "read" /\ Splitter!Restart
        /\ UNCHANGED <<lines, at, line, eof, bad>>
    BY <1>7 DEF AddLine
  <2>2. Splitter!Ready'
    BY <2>1 DEF Splitter!Ready, Splitter!Restart, Splitter!Start
  <2> QED
    BY <2>1, <2>2 DEF Reader
<1> QED
  BY <1>2, <1>3, <1>4, <1>5, <1>6, <1>7 DEF LoadStep

(* The line that has been split. *)
LEMMA LineIsSplit ==
  ASSUME Reader, pc = "use", ~bad, pass = "done"
  PROVE  /\ at - 1 \in 1..Len(lines) /\ line = lines[at - 1] /\ line # <<>>
         /\ vec = Split(lines[at - 1], <<Blank>>)
<1>1. /\ at \in 1..Len(lines) + 1 /\ at > 1 /\ line = lines[at - 1] /\ SplitterOK
      /\ line \in Seq(DOMAIN Lower)
  BY DEF Reader
<1>2. line # <<>>
  BY DEF Reader, Splitter!Ready
<1>3. PICK f : IsSplitting(f, line, <<Blank>>, 1) /\ Split(line, <<Blank>>) = f[1]
  BY <1>1, LineSplits
<1>4. vec = Split(line, <<Blank>>)
  BY <1>1, <1>3 DEF SplitterOK
<1>5. at - 1 \in 1..Len(lines)
  BY <1>1, LinesAre
<1> QED
  BY <1>1, <1>2, <1>4, <1>5

LEMMA TableStep ==
  ASSUME Reader, Table, LoadStep PROVE Table'
<1>1. /\ Len(lines) \in Nat \ {0} /\ DOMAIN lines = 1..Len(lines)
      /\ at \in 1..Len(lines) + 1
  BY LinesAre DEF Reader
<1>2. lines' = lines /\ Pairs' = Pairs /\ \A n : Key(n)' = Key(n) /\ Value(n)' = Value(n)
  <2>1. lines' = lines
    BY DEF LoadStep, OpenMime, GetLine, GetLineFails, GetLineAgain, LoadEnd, EmptyLine, SplitLine,
           WrongLine, AddLine
  <2> QED
    BY <2>1 DEF Pairs, Key, Value
<1>3. ASSUME NEW m, TableHas(m), table' = table PROVE TableHas(m)'
  BY <1>2, <1>3 DEF TableHas, PairsUpTo
<1>4. CASE OpenMime \/ GetLine \/ GetLineAgain \/ LoadEnd \/ SplitLine
  <2>1. PICK m : m = LinesDone
    OBVIOUS
  <2>2. bad' = bad /\ table' = table
    BY <1>4 DEF OpenMime, GetLine, GetLineAgain, LoadEnd, SplitLine
  <2>3. ~bad => pc # "refused" /\ LinesDone' = m
    <3>1. CASE OpenMime \/ LoadEnd \/ SplitLine
      BY <2>1, <3>1 DEF OpenMime, LoadEnd, SplitLine, LinesDone
    <3>2. CASE GetLine
      <4>1. pc = "read" /\ pc' = "use" /\ at' = at + 1
        BY <3>2, Zenon DEF GetLine
      <4> QED
        BY <1>1, <2>1, <4>1 DEF LinesDone
    <3>3. CASE GetLineAgain
      BY <3>3, Zenon DEF GetLineAgain
    <3> QED
      BY <1>4, <3>1, <3>2, <3>3
  <2>4. pc' = "refused" => at' = 1
    BY <1>4 DEF OpenMime, GetLine, GetLineAgain, LoadEnd, SplitLine, Reader
  <2>5. ~bad => TableHas(m)'
    BY <1>3, <2>1, <2>2, <2>3 DEF Table
  <2> QED
    BY <2>2, <2>3, <2>4, <2>5 DEF Table
<1>5. CASE GetLineFails
  BY <1>5 DEF GetLineFails, Table
<1>6. CASE EmptyLine
  <2>1. /\ pc = "use" /\ pc' = "read" /\ UNCHANGED <<at, bad, table>> /\ line = <<>>
    BY <1>6 DEF EmptyLine
  <2>2. ASSUME ~bad PROVE TableHas(at - 1)'
    <3>1. TableHas(at - 2) /\ at > 1 /\ lines[at - 1] = <<>>
      BY <2>1, <2>2 DEF Table, LinesDone, Reader
    <3>2. Len(lines[at - 1]) = 0 /\ at - 1 \notin Pairs
      <4>1. Split(<<>>, <<Blank>>) = <<>>
        <5>1. <<>> \in Seq(DOMAIN Lower) /\ Len(<<>>) + 1 = 1
          OBVIOUS
        <5>2. PICK s : s = <<>> /\ s \in Seq(DOMAIN Lower) /\ Len(s) + 1 = 1
          BY <5>1
        <5>3. PICK f : IsSplitting(f, s, <<Blank>>, 1) /\ Split(s, <<Blank>>) = f[1]
          BY <5>2, LineSplits
        <5>4. f[Len(s) + 1] = <<>>
          BY <5>2, <5>3, LineSplits
        <5> QED
          BY <5>2, <5>3, <5>4
      <4> QED
        BY <3>1, <4>1 DEF Pairs
    <3>3. PairsUpTo(at - 1) = PairsUpTo(at - 2)
      <4>1. \A n \in Pairs : n \in Nat
        BY <1>1 DEF Pairs
      <4>2. \A n \in Pairs : n <= at - 1 <=> n <= at - 2
        BY <1>1, <3>2, <4>1
      <4> QED
        BY <4>2 DEF PairsUpTo
    <3>4. \A n \in 1..at - 1 : n \in 1..at - 2 \/ n = at - 1
      BY <1>1
    <3>5. TableHas(at - 1)
      BY <3>1, <3>3, <3>4 DEF TableHas
    <3> QED
      BY <1>3, <2>1, <3>5
  <2>3. LinesDone' = at - 1
    BY <2>1 DEF LinesDone
  <2> QED
    BY <2>1, <2>2, <2>3 DEF Table
<1>7. CASE WrongLine
  <2>1. /\ pc = "use" /\ pass = "done" /\ Len(vec) # 2 /\ pc' = "refused" /\ UNCHANGED <<at, bad>>
    BY <1>7 DEF WrongLine
  <2>2. ASSUME ~bad PROVE \E n \in DOMAIN lines : lines[n] # <<>> /\ n \notin Pairs
    <3>1. at - 1 \in DOMAIN lines /\ lines[at - 1] # <<>> /\ at - 1 \notin Pairs
      BY <1>1, <2>1, <2>2, LineIsSplit DEF Pairs
    <3> QED
      BY <3>1
  <2> QED
    BY <1>2, <2>1, <2>2 DEF Table
<1>8. CASE AddLine
  <2>1. /\ pc = "use" /\ pass = "done" /\ Len(vec) = 2 /\ pc' = "read" /\ UNCHANGED <<at, bad>>
        /\ table' = Emplace(PopCR(vec[1]), PopCR(vec[2]))
    BY <1>8 DEF AddLine
  <2>2. ASSUME ~bad PROVE TableHas(at - 1)'
    <3>1. PICK n \in 1..Len(lines) : n = at - 1 /\ at - 2 = n - 1 /\ vec = Split(lines[n], <<Blank>>)
      BY <1>1, <2>1, <2>2, LineIsSplit
    <3>2. n \in Pairs
      BY <1>1, <2>1, <3>1 DEF Pairs
    <3>3. TableHas(n - 1)
      BY <2>1, <2>2, <3>1 DEF Table, LinesDone
    <3>4. table' = [e \in DOMAIN table \cup {Key(n)} |-> IF e \in DOMAIN table THEN table[e] ELSE Value(n)]
      BY <2>1, <3>1 DEF Emplace, Key, Value
    <3>5. PairsUpTo(n) = PairsUpTo(n - 1) \cup {n}
      <4>1. \A m \in Pairs : m \in Nat
        BY <1>1 DEF Pairs
      <4>2. \A m \in Pairs : m <= n <=> m <= n - 1 \/ m = n
        BY <4>1
      <4> QED
        BY <3>2, <4>2 DEF PairsUpTo
    <3>6. DOMAIN table' = {Key(m) : m \in PairsUpTo(n)}
      BY <3>3, <3>4, <3>5 DEF TableHas
    <3>7. \A m \in 1..n : lines[m] = <<>> \/ m \in Pairs
      <4>1. \A m \in 1..n : m \in 1..n - 1 \/ m = n
        OBVIOUS
      <4> QED
        BY <3>2, <3>3, <4>1 DEF TableHas
    <3>8. ASSUME NEW m \in PairsUpTo(n), \A j \in PairsUpTo(m - 1) : Key(j) # Key(m)
          PROVE  table'[Key(m)] = Value(m)
      <4>1. CASE m = n
        <5>1. Key(n) \notin DOMAIN table
          BY <3>3, <3>8, <4>1 DEF TableHas
        <5> QED
          BY <3>4, <4>1, <5>1
      <4>2. CASE m # n
        <5>1. m \in PairsUpTo(n - 1)
          BY <3>5, <3>8, <4>2
        <5>2. Key(m) \in DOMAIN table /\ table[Key(m)] = Value(m)
          BY <3>3, <3>8, <5>1 DEF TableHas
        <5> QED
          BY <3>4, <5>2
      <4> QED
        BY <4>1, <4>2
    <3>9. PairsUpTo(n)' = PairsUpTo(n) /\ \A m : PairsUpTo(m - 1)' = PairsUpTo(m - 1)
      BY <1>2 DEF PairsUpTo
    <3>10. TableHas(n)'
      BY <1>2, <3>6, <3>7, <3>8, <3>9 DEF TableHas
    <3> QED
      BY <2>1, <3>1, <3>10
  <2>3. LinesDone' = at - 1
    BY <2>1 DEF LinesDone
  <2> QED
    BY <2>1, <2>2, <2>3 DEF Table
<1> QED
  BY <1>4, <1>5, <1>6, <1>7, <1>8 DEF LoadStep

-------------------------------------------------------------------------------
(* A word without the CR of a line end. *)
LEMMA PopCRIs ==
  ASSUME NEW word \in Word
  PROVE  /\ PopCR(word) \in Seq(DOMAIN Lower)
         /\ PopCR(word) = [i \in {i \in DOMAIN word : i < Len(word) \/ word[i] # CR} |-> word[i]]
<1> DEFINE n == Len(word)
           I == {i \in DOMAIN word : i < Len(word) \/ word[i] # CR}
<1>1. /\ n \in Nat \ {0} /\ DOMAIN word = 1..n /\ word \in Seq(DOMAIN Lower)
      /\ word = [i \in 1..n |-> word[i]] /\ n - 1 \in Nat
  BY DEF Word
<1>2. CASE word[n] = CR
  <2>1. PopCR(word) = SubSeq(word, 1, n - 1)
    BY <1>2 DEF PopCR
  <2>2. I = 1..n - 1
    BY <1>1, <1>2
  <2>3. SubSeq(word, 1, n - 1) \in Seq(DOMAIN Lower)
    <3>1. \A i \in 1..n - 1 : word[i] \in DOMAIN Lower
      BY <1>1
    <3>2. 1 \in Int /\ n - 1 \in Int
      BY <1>1
    <3> QED
      BY <3>1, <3>2, SubSeqProperties
  <2>4. SubSeq(word, 1, n - 1) = [i \in 1..n - 1 |-> word[i]]
    BY <1>1
  <2> QED
    BY <2>1, <2>2, <2>3, <2>4
<1>3. CASE word[n] # CR
  <2>1. I = 1..n
    BY <1>1, <1>3
  <2>2. PopCR(word) = word
    BY <1>3 DEF PopCR
  <2> QED
    BY <1>1, <2>1, <2>2
<1> QED
  BY <1>2, <1>3

LEMMA SameLowerCase ==
  ASSUME NEW a \in Seq(DOMAIN Lower), NEW b \in Seq(DOMAIN Lower)
  PROVE  SameWord(a, b) <=> LowerCase(a) = LowerCase(b)
<1>1. /\ DOMAIN a = 1..Len(a) /\ DOMAIN b = 1..Len(b) /\ Len(a) \in Nat /\ Len(b) \in Nat
  OBVIOUS
<1>2. ASSUME SameWord(a, b) PROVE LowerCase(a) = LowerCase(b)
  BY <1>1, <1>2 DEF SameWord, LowerCase
<1>3. ASSUME LowerCase(a) = LowerCase(b) PROVE SameWord(a, b)
  <2>1. DOMAIN a = DOMAIN b
    BY <1>3 DEF LowerCase
  <2>2. Len(a) = Len(b)
    <3>1. PICK m \in Nat : m = Len(a) /\ DOMAIN a = 1..m
      BY <1>1
    <3>2. PICK n \in Nat : n = Len(b) /\ DOMAIN b = 1..n
      BY <1>1
    <3>3. 1..m = 1..n
      BY <2>1, <3>1, <3>2, Zenon
    <3>4. m = n
      BY <3>3
    <3> QED
      BY <3>1, <3>2, <3>4, Zenon
  <2>3. \A i \in DOMAIN a : LowerCase(a)[i] = Lower[a[i]] /\ LowerCase(b)[i] = Lower[b[i]]
    BY <2>1 DEF LowerCase
  <2> QED
    BY <1>3, <2>2, <2>3 DEF SameWord
<1> QED
  BY <1>2, <1>3

(* What WordOf says of a pair is what the table was given. *)
LEMMA PairIs ==
  ASSUME Reader, NEW n \in Pairs
  PROVE  /\ WordOf(n, 1) \in Seq(DOMAIN Lower)
         /\ Key(n) = LowerCase(WordOf(n, 1))
         /\ Value(n) = WordOf(n, 2)
<1>1. n \in DOMAIN lines /\ lines[n] \in Seq(DOMAIN Lower) /\ Len(Split(lines[n], <<Blank>>)) = 2
  BY LinesAre DEF Pairs
<1>2. Split(lines[n], <<Blank>>) \in Seq(Word)
  <2>1. PICK s \in Seq(DOMAIN Lower) : s = lines[n]
    BY <1>1
  <2>2. PICK f : IsSplitting(f, s, <<Blank>>, 1) /\ Split(s, <<Blank>>) = f[1]
    BY LineSplits
  <2>3. 1 \in 1..Len(s) + 1
    OBVIOUS
  <2> QED
    BY <2>1, <2>2, <2>3, LineSplits
<1>3. PICK words \in Seq(Word) : words = Split(lines[n], <<Blank>>)
  BY <1>2
<1>4. words[1] \in Word /\ words[2] \in Word
  BY <1>1, <1>3
<1>5. WordOf(n, 1) = PopCR(words[1]) /\ WordOf(n, 2) = PopCR(words[2])
  BY <1>3, <1>4, PopCRIs DEF WordOf
<1> QED
  BY <1>3, <1>4, <1>5, PopCRIs DEF Key, Value

LEMMA TableIsRead ==
  ASSUME Reader, Table PROVE TableIsOfFile
<1>1. Len(lines) \in Nat \ {0} /\ DOMAIN lines = 1..Len(lines)
  BY LinesAre
<1>2. ASSUME pc = "loaded"
      PROVE  /\ ~bad /\ \A n \in DOMAIN lines : lines[n] = <<>> \/ n \in Pairs
             /\ \A key \in Keys :
                  LET entries == {n \in Pairs : SameWord(WordOf(n, 1), key)}
                  IN  extension_to_mime(key) = IF entries = {} THEN Unknown ELSE WordOf(Min(entries), 2)
  <2>1. ~bad /\ at = Len(lines) + 1
    BY <1>2 DEF Reader
  <2>2. LinesDone = Len(lines)
    BY <1>1, <1>2, <2>1 DEF LinesDone
  <2>3. TableHas(Len(lines))
    BY <1>2, <2>1, <2>2 DEF Table
  <2>4. \A n \in Pairs : n \in Nat /\ n <= Len(lines)
    BY <1>1 DEF Pairs
  <2>5. PairsUpTo(Len(lines)) = Pairs
    BY <2>4 DEF PairsUpTo
  <2>6. ASSUME NEW key \in Keys, NEW entries, entries = {n \in Pairs : SameWord(WordOf(n, 1), key)}
        PROVE  extension_to_mime(key) = IF entries = {} THEN Unknown ELSE WordOf(Min(entries), 2)
    <3>1. PICK low : low = LowerCase(key)
      OBVIOUS
    <3>2. \A n \in Pairs : n \in entries <=> Key(n) = low
      <4> TAKE n \in Pairs
      <4>1. key \in Seq(DOMAIN Lower)
        BY MimeAssumption
      <4>2. SameWord(WordOf(n, 1), key) <=> Key(n) = low
        BY <3>1, <4>1, PairIs, SameLowerCase
      <4> QED
        BY <2>6, <4>2
    <3>3. entries \subseteq Pairs
      BY <2>6
    <3>4. low \in DOMAIN table <=> entries # {}
      <4>1. low \in DOMAIN table <=> \E n \in Pairs : Key(n) = low
        BY <2>3, <2>5 DEF TableHas
      <4> QED
        BY <3>2, <3>3, <4>1
    <3>5. extension_to_mime(key) = IF low \in DOMAIN table THEN table[low] ELSE Unknown
      BY <3>1 DEF extension_to_mime
    <3>6. ASSUME entries # {} PROVE table[low] = WordOf(Min(entries), 2)
      <4>1. \E n \in entries : \A j \in entries : n <= j
        BY <2>4, <3>3, <3>6, Least
      <4>2. PICK m : m = Min(entries) /\ m \in entries /\ \A j \in entries : m <= j
        BY <4>1 DEF Min
      <4>3. m \in Pairs /\ Key(m) = low
        BY <3>2, <3>3, <4>2
      <4>4. \A j \in PairsUpTo(m - 1) : Key(j) # Key(m)
        <5>1. ASSUME NEW j \in PairsUpTo(m - 1) PROVE j \in Pairs /\ j \notin entries
          BY <2>4, <4>2, <4>3, <5>1 DEF PairsUpTo
        <5> QED
          BY <3>2, <4>3, <5>1
      <4>5. table[Key(m)] = Value(m)
        BY <2>3, <2>5, <4>3, <4>4 DEF TableHas
      <4> QED
        BY <4>2, <4>3, <4>5, PairIs
    <3> QED
      BY <3>4, <3>5, <3>6
  <2> QED
    BY <1>1, <2>1, <2>3, <2>6 DEF TableHas
<1>3. pc = "refused" /\ at > 1 => bad \/ \E n \in DOMAIN lines : lines[n] # <<>> /\ n \notin Pairs
  BY DEF Table
<1> QED
  BY <1>2, <1>3 DEF TableIsOfFile

-------------------------------------------------------------------------------
(* The places behind each call of main's. *)
Forked == {"detach", "open_file", "set_level", "set_terminate", "configure", "pool",
           "callback", "open", "accepting"}
Logging == Forked \ {"detach", "open_file"}
Levelled == Logging \ {"set_level"}
Guarded == Levelled \ {"set_terminate"}
Configured == Guarded \ {"configure"}

(* What main has done, by where it is: SIGPIPE, the level, the terminate   *)
(* handler, the settings and the callback are set on the way to the place  *)
(* where the first thread needs them, and nothing on the way undoes them.  *)
Order ==
  /\ process \in [id : {"parent", "child"}, stderr : {"terminal", "null"},
                  cwd : {"launch"}, sigpipe : {"default", "ignored"}]
  /\ set \in [level : {"debug", "info"}, terminate : {"default", "logging"},
              config : SUBSET Settings, callback : {"none", "default", "http_handler"}]
  /\ step \in {"daemon"} \cup Forked => process.sigpipe = "ignored"
  /\ step \in Levelled => set.level = "debug"
  /\ set.terminate = "logging" <=> step \in Guarded
  /\ step \in Configured => set.config = Settings
  /\ step \in {"open", "accepting"} => set.callback = "http_handler"
  /\ step # "accepting" => serving = {}
  /\ handler \in [Threads -> {"none", "entered", "reported"}]
  /\ \A t \in Threads : handler[t] # "none" => step \in Guarded
  /\ queue \in Seq(Messages)
  /\ death # "sigpipe"

(* Whoever can still be told is told: the message goes to the terminal as  *)
(* long as the command has not succeeded, and what has succeeded has been  *)
(* checked.                                                                *)
Told ==
  /\ shell \in [status : {"none", "failure", "success"}, told : BOOLEAN]
  /\ step \in {"port", "mime", "signal", "daemon"} \cup Forked => argc = "good"
  /\ step \in {"mime", "signal", "daemon"} \cup Forked => outcome = "accepted"
  /\ step \in {"signal", "daemon"} \cup Forked => pc = "loaded"
  /\ shell.status = "success" => step \in Forked
  /\ step \in {"args", "port", "mime", "signal", "daemon", "detach"} => process.stderr = "terminal"
  /\ shell.status = "failure" \/ death = "returned" => shell.told

(* A report that has been pushed is in the queue until it is written, and  *)
(* each line of a stack trace comes behind one.                            *)
Written == stream = "closed" \/ "report" \in file
Reports ==
  /\ \A t \in Threads : handler[t] = "reported" => "report" \in pushed
  /\ "report" \in pushed => Written \/ \E j \in DOMAIN queue : queue[j] = "report"
  /\ \A i \in DOMAIN queue :
       queue[i] = "trace" => Written \/ \E j \in 1..i - 1 : queue[j] = "report"
  /\ step \notin Guarded =>
       "report" \notin pushed /\ \A i \in DOMAIN queue : queue[i] # "trace"

IInv == Port /\ Order /\ Told /\ Reports /\ CrashIsReported

-------------------------------------------------------------------------------
LEMMA PortInvariant ==
  ASSUME Port, [Next]_vars PROVE Port'
<1>1. CASE ParsePort
  BY <1>1, PortStep DEF ParsePort
<1>2. CASE UNCHANGED portVars
  BY <1>2 DEF portVars, Port
<1>3. UNCHANGED portVars \/ ParsePort
  BY DEF Next, Main, vars, inputs, portVars, Return, Refuse, CallFails, CheckArguments, LoadMime,
         IgnoreSigpipe, Fork, Detach, Throw, Terminate, OpenFile, SetLevel, SetTerminate, Configure,
         StartWorker, ConstructServer, SetCallback, Open, Handle, Answer, SendToClosed,
         WorkerThrows, Report, TraceLine, Abort, LogWrites, Go
<1> QED
  BY <1>1, <1>2, <1>3

(* A message that is logged is put behind the others. *)
LEMMA LogAppends ==
  ASSUME NEW m \in DOMAIN LevelOf, queue \in Seq(Messages), Log(m)
  PROVE  /\ queue' \in Seq(Messages)
         /\ \/ queue' = Append(queue, m) /\ pushed' = pushed \cup {m}
            \/ set.level # "debug" /\ UNCHANGED <<queue, pushed>>
         /\ UNCHANGED <<logThread, stream, file>>
<1>1. set.level = "debug" => check_log_level(m)
  BY DEF check_log_level, Rank, LevelOf
<1>2. m \in Messages
  BY DEF Messages
<1> QED
  BY <1>1, <1>2 DEF Log, SimpleLog

LEMMA OrderInvariant ==
  ASSUME Order, [Next]_vars PROVE Order'
<1> USE DEF Order, Forked, Logging, Levelled, Guarded, Configured, At
<1>1. CASE Refuse \/ CallFails
  BY <1>1 DEF Refuse, CallFails, Return, log, work
<1>2. CASE CheckArguments \/ ParsePort \/ LoadMime
  BY <1>2 DEF CheckArguments, ParsePort, LoadMime, Go, log, work
<1>3. CASE IgnoreSigpipe \/ Fork \/ Detach
  BY <1>3 DEF IgnoreSigpipe, Fork, Detach, Go, log, work
<1>4. CASE OpenFile
  BY <1>4 DEF OpenFile, Go, work
<1>5. CASE SetLevel \/ SetTerminate \/ Configure
  BY <1>5 DEF SetLevel, SetTerminate, Configure, Set, Go, log, work, Settings
<1>6. CASE StartWorker \/ ConstructServer \/ SetCallback
  BY <1>6 DEF StartWorker, ConstructServer, SetCallback, Set, Go, log, work
<1>7. CASE Open
  <2>1. queue' \in Seq(Messages)
    BY <1>7, LogAppends DEF Open, LevelOf
  <2> QED
    BY <1>7, <2>1 DEF Open, Go, work
<1>8. ASSUME NEW w \in Workers, Handle(w) \/ Answer(w) \/ SendToClosed(w) PROVE Order'
  <2>1. queue' \in Seq(Messages)
    BY <1>8, LogAppends DEF Handle, Answer, SendToClosed, log, LevelOf
  <2> QED
    BY <1>8, <2>1 DEF Handle, Answer, SendToClosed, InService
<1>9. CASE Throw \/ \E w \in Workers : WorkerThrows(w)
  <2>1. PICK t \in Threads : Terminate(t)
    BY <1>9 DEF Throw, WorkerThrows, Threads
  <2>2. serving' = serving \/ step = "accepting"
    BY <1>9 DEF Throw, WorkerThrows, InService
  <2> QED
    BY <2>1, <2>2 DEF Terminate, log
<1>10. ASSUME NEW t \in Threads, Report(t) \/ TraceLine(t) \/ Abort(t) PROVE Order'
  <2>1. queue' \in Seq(Messages)
    BY <1>10, LogAppends DEF Report, TraceLine, Abort, SimpleLog, log, LevelOf, Messages
  <2>2. UNCHANGED <<step, process, set, serving>> /\ death' # "sigpipe"
    BY <1>10 DEF Report, TraceLine, Abort, work
  <2>3. handler' \in {handler, [handler EXCEPT ![t] = "reported"]} /\ handler[t] # "none"
    BY <1>10 DEF Report, TraceLine, Abort, work
  <2> QED
    BY <2>1, <2>2, <2>3
<1>11. CASE LogWrites
  BY <1>11 DEF LogWrites, work
<1>12. CASE UNCHANGED vars
  BY <1>12 DEF vars, log, work
<1> QED
  BY <1>1, <1>2, <1>3, <1>4, <1>5, <1>6, <1>7, <1>8, <1>9, <1>10, <1>11, <1>12 DEF Next, Main

LEMMA ToldInvariant ==
  ASSUME Order, Told, [Next]_vars PROVE Told'
<1> USE DEF Told, Forked, At
<1>1. CASE Refuse \/ CallFails
  <2>1. process.stderr = "terminal"
    BY <1>1 DEF Refuse, CallFails
  <2>2. Return
    BY <1>1 DEF Refuse, CallFails
  <2>3. shell'.told
    BY <2>1, <2>2 DEF Return
  <2>4. shell' \in [status : {"none", "failure", "success"}, told : BOOLEAN]
        /\ (shell'.status = "success" => shell.status = "success")
    BY <2>2 DEF Return
  <2>5. UNCHANGED <<step, argc, outcome, pc, process>>
    BY <2>2 DEF Return, inputs, portVars, mimeVars
  <2> QED
    BY <2>3, <2>4, <2>5
<1>2. CASE CheckArguments \/ ParsePort
  BY <1>2 DEF CheckArguments, ParsePort, Go, inputs, portVars, mimeVars, work
<1>3. CASE LoadMime
  BY <1>3 DEF LoadMime, Go, portVars, work
<1>4. CASE IgnoreSigpipe \/ Fork \/ Detach
  BY <1>4 DEF IgnoreSigpipe, Fork, Detach, Go, inputs, portVars, mimeVars, work, Order
<1>5. CASE OpenFile \/ SetLevel \/ SetTerminate \/ Configure
  BY <1>5 DEF OpenFile, SetLevel, SetTerminate, Configure, Set, Go, inputs, portVars, mimeVars, work
<1>6. CASE StartWorker \/ ConstructServer \/ SetCallback \/ Open
  BY <1>6 DEF StartWorker, ConstructServer, SetCallback, Open, Set, Go, inputs, portVars, mimeVars, work
<1>7. ASSUME NEW w \in Workers, Handle(w) \/ Answer(w) \/ SendToClosed(w) \/ WorkerThrows(w)
      PROVE  Told'
  BY <1>7 DEF Handle, Answer, SendToClosed, WorkerThrows, Terminate, inputs, portVars, mimeVars
<1>8. ASSUME NEW t \in Threads, Report(t) \/ TraceLine(t) \/ Abort(t)
      PROVE  Told'
  BY <1>8 DEF Report, TraceLine, Abort, inputs, portVars, mimeVars, work
<1>9. CASE Throw \/ LogWrites
  BY <1>9 DEF Throw, Terminate, LogWrites, inputs, portVars, mimeVars, work
<1>10. CASE UNCHANGED vars
  BY <1>10 DEF vars, inputs, portVars, mimeVars
<1> QED
  BY <1>1, <1>2, <1>3, <1>4, <1>5, <1>6, <1>7, <1>8, <1>9, <1>10 DEF Next, Main

(* A message behind the others is no line of a trace, or there is a report *)
(* before it.                                                              *)
LEMMA ReportsAppend ==
  ASSUME Order, Reports, NEW m \in Messages, queue' = Append(queue, m),
         pushed' = pushed \cup {m}, UNCHANGED <<stream, file>>,
         m = "trace" => "report" \in pushed, step \in Guarded \/ m \notin {"trace", "report"},
         step' \in Guarded \/ step \notin Guarded,
         \A t \in Threads : handler'[t] = "reported" => "report" \in pushed'
  PROVE  Reports'
<1>1. queue \in Seq(Messages) /\ Len(queue) \in Nat /\ queue' \in Seq(Messages)
  BY DEF Order
<1>2. /\ Len(queue') = Len(queue) + 1 /\ queue'[Len(queue) + 1] = m
      /\ \A i \in 1..Len(queue) : queue'[i] = queue[i]
      /\ DOMAIN queue = 1..Len(queue) /\ DOMAIN queue' = 1..Len(queue) + 1
  BY <1>1
<1>3. Written' = Written
  BY DEF Written
<1>4. "report" \in pushed' => Written' \/ \E j \in DOMAIN queue' : queue'[j] = "report"
  <2>1. CASE m = "report"
    BY <1>1, <1>2, <2>1
  <2>2. CASE m # "report"
    BY <1>1, <1>2, <1>3, <2>2 DEF Reports
  <2> QED
    BY <2>1, <2>2
<1>5. ASSUME NEW i \in DOMAIN queue', queue'[i] = "trace", ~Written'
      PROVE  \E j \in 1..i - 1 : queue'[j] = "report"
  <2>1. CASE i = Len(queue) + 1
    <3>1. PICK j \in DOMAIN queue : queue[j] = "report"
      BY <1>2, <1>3, <1>5, <2>1 DEF Reports
    <3> QED
      BY <1>1, <1>2, <2>1, <3>1
  <2>2. CASE i # Len(queue) + 1
    <3>1. i \in DOMAIN queue /\ queue[i] = "trace"
      BY <1>1, <1>2, <1>5, <2>2
    <3>2. PICK j \in 1..i - 1 : queue[j] = "report"
      BY <1>3, <1>5, <3>1 DEF Reports
    <3>3. j \in 1..Len(queue)
      BY <1>1, <1>2, <3>1, <3>2
    <3> QED
      BY <1>2, <3>2, <3>3
  <2> QED
    BY <2>1, <2>2
<1>6. ASSUME step' \notin Guarded
      PROVE  "report" \notin pushed' /\ \A i \in DOMAIN queue' : queue'[i] # "trace"
  <2>1. step \notin Guarded /\ m \notin {"trace", "report"}
    BY <1>6
  <2>2. "report" \notin pushed /\ \A i \in DOMAIN queue : queue[i] # "trace"
    BY <2>1 DEF Reports
  <2> QED
    BY <1>1, <1>2, <2>1, <2>2
<1> QED
  BY <1>4, <1>5, <1>6 DEF Reports

LEMMA ReportsKept ==
  ASSUME Reports, UNCHANGED <<stream, file, queue, pushed>>,
         step' \in Guarded \/ step \notin Guarded,
         \A t \in Threads : handler'[t] = "reported" => handler[t] = "reported"
  PROVE  Reports'
<1>1. Written' = Written
  BY DEF Written
<1> QED
  BY <1>1 DEF Reports

(* The log thread takes the messages in their order. *)
LEMMA ReportsWritten ==
  ASSUME Order, Reports, CrashIsReported, LogWrites
  PROVE  Reports' /\ CrashIsReported'
<1>1. queue \in Seq(Messages) /\ queue # <<>> /\ Len(queue) \in Nat \ {0}
  BY DEF Order, LogWrites
<1>2. /\ queue' = Tail(queue) /\ DOMAIN queue' = 1..Len(queue) - 1
      /\ DOMAIN queue = 1..Len(queue) /\ Head(queue) = queue[1]
      /\ \A i \in 1..Len(queue) - 1 : queue'[i] = queue[i + 1]
  BY <1>1 DEF LogWrites
<1>3. /\ UNCHANGED <<step, handler, death, pushed, stream>>
      /\ file' = IF stream = "closed" THEN file ELSE file \cup {queue[1]}
  BY <1>2 DEF LogWrites, work
<1>4. Written \/ queue[1] = "report" => Written'
  BY <1>3 DEF Written
<1>5. ASSUME NEW j \in DOMAIN queue, queue[j] = "report", ~Written'
      PROVE  j - 1 \in DOMAIN queue' /\ queue'[j - 1] = "report"
  <2>1. j \in 1..Len(queue) /\ j # 1
    BY <1>2, <1>4, <1>5
  <2>2. j - 1 \in 1..Len(queue) - 1 /\ (j - 1) + 1 = j
    BY <1>1, <2>1
  <2> QED
    BY <1>2, <1>5, <2>2
<1>6. "report" \in pushed' => Written' \/ \E j \in DOMAIN queue' : queue'[j] = "report"
  BY <1>3, <1>4, <1>5 DEF Reports
<1>7. ASSUME NEW i \in DOMAIN queue', queue'[i] = "trace", ~Written'
      PROVE  \E j \in 1..i - 1 : queue'[j] = "report"
  <2>1. i \in 1..Len(queue) - 1 /\ i + 1 \in DOMAIN queue /\ queue[i + 1] = "trace"
    BY <1>1, <1>2, <1>7
  <2>2. PICK j \in 1..(i + 1) - 1 : queue[j] = "report"
    BY <1>4, <1>7, <2>1 DEF Reports
  <2>3. j \in DOMAIN queue
    BY <1>1, <1>2, <2>1, <2>2
  <2>4. j - 1 \in DOMAIN queue' /\ queue'[j - 1] = "report"
    BY <1>5, <1>7, <2>2, <2>3
  <2>5. j - 1 \in 1..i - 1
    BY <1>1, <1>2, <2>1, <2>2, <2>4
  <2> QED
    BY <2>4, <2>5
<1>8. ASSUME step' \notin Guarded
      PROVE  "report" \notin pushed' /\ \A i \in DOMAIN queue' : queue'[i] # "trace"
  <2>1. "report" \notin pushed /\ \A i \in DOMAIN queue : queue[i] # "trace"
    BY <1>3, <1>8 DEF Reports
  <2>2. \A i \in 1..Len(queue) - 1 : i + 1 \in 1..Len(queue)
    BY <1>1
  <2> QED
    BY <1>2, <1>3, <2>1, <2>2
<1>9. Reports'
  BY <1>3, <1>6, <1>7, <1>8 DEF Reports
<1>10. ASSUME "trace" \in file' PROVE "report" \in file'
  <2>1. CASE "trace" \in file
    BY <1>3, <2>1 DEF CrashIsReported
  <2>2. CASE "trace" \notin file
    <3>1. stream # "closed" /\ queue[1] = "trace" /\ 1 \in DOMAIN queue
      BY <1>1, <1>2, <1>3, <1>10, <2>2
    <3>2. Written
      BY <3>1 DEF Reports
    <3> QED
      BY <1>3, <3>1, <3>2 DEF Written
  <2> QED
    BY <2>1, <2>2
<1> QED
  BY <1>3, <1>9, <1>10 DEF CrashIsReported

(* Where the program can be aborted, the handler is installed and the log  *)
(* takes errors, except while the log is being opened.                     *)
LEMMA CrashInvariant ==
  ASSUME Order, Reports, CrashIsReported, [Next]_vars
  PROVE  Reports' /\ CrashIsReported'
<1>1. CASE Throw \/ \E w \in Workers : WorkerThrows(w)
  <2>1. PICK t \in Threads : Terminate(t)
    BY <1>1 DEF Throw, WorkerThrows, Threads
  <2>2. UNCHANGED <<step, log>> /\ UNCHANGED <<stream, file, queue, pushed>>
    BY <2>1 DEF Terminate, log
  <2>3. \A u \in Threads : handler'[u] = "reported" => handler[u] = "reported"
    BY <2>1 DEF Terminate, Order
  <2>4. Reports'
    BY <2>2, <2>3, ReportsKept
  <2>5. step \in {"open_file"} \cup Guarded
    BY <1>1 DEF Throw, WorkerThrows, At, InService, Guarded, Levelled, Logging, Forked
  <2>6. step \in Guarded => death' = death
    BY <2>1 DEF Terminate, Order
  <2> QED
    BY <2>2, <2>4, <2>5, <2>6 DEF CrashIsReported
<1>2. ASSUME NEW t \in Threads, Report(t) PROVE Reports' /\ CrashIsReported'
  <2>1. /\ handler[t] # "none" /\ UNCHANGED <<step, death>> /\ death = "none"
        /\ Log("report") /\ handler' = [handler EXCEPT ![t] = "reported"]
    BY <1>2 DEF Report
  <2>2. step \in Guarded /\ set.level = "debug" /\ queue \in Seq(Messages)
    BY <2>1 DEF Order, Guarded
  <2>3. /\ queue' = Append(queue, "report") /\ pushed' = pushed \cup {"report"}
        /\ UNCHANGED <<stream, file>>
    BY <2>1, <2>2, LogAppends DEF LevelOf
  <2>4. "report" \in Messages
    BY DEF Messages, LevelOf
  <2>5. Reports'
    BY <2>1, <2>2, <2>3, <2>4, ReportsAppend
  <2> QED
    BY <2>1, <2>3, <2>5 DEF CrashIsReported
<1>3. ASSUME NEW t \in Threads, TraceLine(t) PROVE Reports' /\ CrashIsReported'
  <2>1. /\ handler[t] = "reported" /\ UNCHANGED <<step, death, handler>> /\ death = "none"
        /\ queue' = Append(queue, "trace") /\ pushed' = pushed \cup {"trace"}
        /\ UNCHANGED <<stream, file>>
    BY <1>3 DEF TraceLine, SimpleLog
  <2>2. "trace" \in Messages /\ "report" \in pushed /\ step \in Guarded
    BY <2>1 DEF Messages, Reports, Order
  <2>3. Reports'
    BY <2>1, <2>2, ReportsAppend DEF Reports
  <2> QED
    BY <2>1, <2>3 DEF CrashIsReported
<1>4. ASSUME NEW t \in Threads, Abort(t) PROVE Reports' /\ CrashIsReported'
  <2>1. /\ handler[t] = "reported" /\ UNCHANGED <<step, handler, queue, pushed, stream, file>>
    BY <1>4 DEF Abort, log, work
  <2> QED
    BY <2>1, ReportsKept DEF CrashIsReported, Reports
<1>5. CASE Open \/ \E w \in Workers : Handle(w) \/ Answer(w)
  <2>1. UNCHANGED handler /\ death' # "aborted" /\ step \in Guarded /\ step' \in Guarded
    BY <1>5 DEF Open, Handle, Answer, Go, At, InService, work, Guarded, Levelled, Logging, Forked
  <2>2. UNCHANGED log \/ \E m \in {"starts", "request", "bom"} : Log(m)
    BY <1>5 DEF Open, Handle, Answer
  <2>3. CASE UNCHANGED log
    <3>1. UNCHANGED <<stream, file, queue, pushed>>
      BY <2>3 DEF log
    <3> QED
      BY <2>1, <3>1, ReportsKept DEF CrashIsReported
  <2>4. ASSUME NEW m \in {"starts", "request", "bom"}, Log(m) PROVE Reports' /\ CrashIsReported'
    <3>1. m \in DOMAIN LevelOf /\ m \in Messages /\ m # "trace" /\ queue \in Seq(Messages)
      BY <2>4 DEF LevelOf, Messages, Order
    <3>2. /\ UNCHANGED <<stream, file>>
          /\ \/ queue' = Append(queue, m) /\ pushed' = pushed \cup {m}
             \/ UNCHANGED <<queue, pushed>>
      BY <2>4, <3>1, LogAppends
    <3>3. Reports'
      BY <2>1, <3>1, <3>2, ReportsKept, ReportsAppend DEF Reports
    <3> QED
      BY <2>1, <3>2, <3>3 DEF CrashIsReported
  <2> QED
    BY <2>2, <2>3, <2>4
<1>6. CASE OpenFile
  <2>1. /\ step = "open_file" /\ step' = "set_level" /\ death' # "aborted"
        /\ UNCHANGED <<file, queue, pushed, handler>>
    BY <1>6 DEF OpenFile, Go, At, work
  <2>2. "report" \notin pushed /\ \A i \in DOMAIN queue : queue[i] # "trace"
    BY <2>1 DEF Reports, Guarded, Levelled, Logging, Forked
  <2> QED
    BY <2>1, <2>2 DEF Reports, CrashIsReported
<1>7. CASE LogWrites
  BY <1>7, ReportsWritten
<1>8. ASSUME \/ Refuse \/ CallFails \/ CheckArguments \/ ParsePort \/ LoadMime \/ IgnoreSigpipe
             \/ Fork \/ Detach \/ SetLevel \/ SetTerminate \/ Configure \/ StartWorker
             \/ ConstructServer \/ SetCallback \/ (\E w \in Workers : SendToClosed(w))
             \/ UNCHANGED vars
      PROVE  Reports' /\ CrashIsReported'
  <2>1. UNCHANGED <<stream, file, queue, pushed, handler>>
    BY <1>8 DEF Refuse, CallFails, Return, CheckArguments, ParsePort, LoadMime, IgnoreSigpipe, Fork,
                Detach, SetLevel, SetTerminate, Configure, StartWorker, ConstructServer, SetCallback,
                SendToClosed, Set, Go, vars, log, work
  <2>2. step' \in Guarded \/ step \notin Guarded
    BY <1>8 DEF Refuse, CallFails, Return, CheckArguments, ParsePort, LoadMime, IgnoreSigpipe, Fork,
                Detach, SetLevel, SetTerminate, Configure, StartWorker, ConstructServer, SetCallback,
                SendToClosed, Go, At, vars, Guarded, Levelled, Logging, Forked
  <2>3. death' = "aborted" => death = "aborted" /\ step' = step
    BY <1>8 DEF Refuse, CallFails, Return, CheckArguments, ParsePort, LoadMime, IgnoreSigpipe, Fork,
                Detach, SetLevel, SetTerminate, Configure, StartWorker, ConstructServer, SetCallback,
                SendToClosed, InService, Go, At, vars
  <2>4. Reports'
    BY <2>1, <2>2, ReportsKept
  <2> QED
    BY <2>1, <2>3, <2>4 DEF CrashIsReported
<1> QED
  BY <1>1, <1>2, <1>3, <1>4, <1>5, <1>6, <1>7, <1>8 DEF Next, Main

LEMMA InitIInv == Init => IInv
<1> SUFFICES ASSUME Init PROVE IInv
  OBVIOUS
<1>1. Port
  BY PortAssumption DEF Init, PortInit, Port
<1>2. Order
  BY DEF Init, Order, Settings, Forked, Logging, Levelled, Guarded, Configured
<1>3. Told /\ CrashIsReported
  BY DEF Init, Told, CrashIsReported, Forked
<1>4. Reports
  BY DEF Init, Reports
<1> QED
  BY <1>1, <1>2, <1>3, <1>4 DEF IInv

LEMMA Invariance == Spec => []IInv
<1>1. IInv /\ [Next]_vars => IInv'
  BY PortInvariant, OrderInvariant, ToldInvariant, CrashInvariant DEF IInv
<1> QED
  BY <1>1, InitIInv, PTL DEF Spec

(* The argument and the file, as long as main is about them and after.     *)
AsWritten == Port /\ Digits /\ Reader /\ Table

LEMMA AsWrittenInit == Init => AsWritten
<1> SUFFICES ASSUME Init PROVE AsWritten
  OBVIOUS
<1>1. Port
  BY PortAssumption DEF Init, PortInit, Port
<1>2. Digits
  <2>1. param \in Params /\ k = 1 /\ result = 0 /\ outcome = "none" /\ param \in Seq(Int)
    BY PortAssumption DEF Init, PortInit
  <2>2. Len(param) \in Nat /\ k - 1 = 0
    BY <2>1
  <2>3. \A f : IsValue(f, param, Len(param)) => f[0] = 0
    BY <2>2 DEF IsValue
  <2> QED
    BY <2>1, <2>2, <2>3 DEF Digits, PortIsTheNumber
<1>3. Reader
  <2>1. /\ lines \in Files /\ at = 1 /\ line = <<>> /\ eof = FALSE /\ bad = FALSE /\ pc = "open"
        /\ Splitter!Ready
    BY DEF Init, MimeInit
  <2>2. Len(lines) \in Nat \ {0} /\ <<>> \in Seq(DOMAIN Lower)
    BY <2>1, MimeAssumption
  <2>3. ~eof /\ ~bad /\ bad \in BOOLEAN
    BY <2>1, Zenon
  <2>4. at \in 1..Len(lines) + 1 /\ at # Len(lines) + 1
    BY <2>1, <2>2
  <2> QED
    BY <2>1, <2>2, <2>3, <2>4, Zenon DEF Reader
<1>4. Table
  <2>1. pc = "open" /\ at = 1 /\ table = [key \in {} |-> <<>>]
    BY DEF Init, MimeInit
  <2>2. PairsUpTo(0) = {}
    BY <1>3, LinesAre DEF PairsUpTo, Pairs
  <2>3. TableHas(0)
    BY <2>1, <2>2 DEF TableHas
  <2>4. LinesDone = 0
    BY <2>1 DEF LinesDone
  <2> QED
    BY <2>1, <2>3, <2>4 DEF Table
<1> QED
  BY <1>1, <1>2, <1>3, <1>4 DEF AsWritten

LEMMA AsWrittenKept ==
  ASSUME AsWritten, UNCHANGED <<portVars, mimeVars>>
  PROVE  AsWritten'
<1>1. UNCHANGED <<param, k, result, outcome, lines, at, line, eof, bad, table, data, pass, total, vec, pc>>
  BY DEF portVars, mimeVars, splitter
<1>2. Port' /\ Digits'
  BY <1>1 DEF AsWritten, Port, Digits, PortIsTheNumber
<1>3. Reader'
  BY <1>1 DEF AsWritten, Reader, SplitterOK, Splitter!Ready
<1>4. Table'
  BY <1>1 DEF AsWritten, Table, LinesDone, TableHas, PairsUpTo, Pairs, Key, Value
<1> QED
  BY <1>2, <1>3, <1>4 DEF AsWritten

LEMMA AsWrittenStep ==
  ASSUME AsWritten, [Next]_vars PROVE AsWritten'
<1>1. CASE ParsePort
  <2>1. ParseStep /\ UNCHANGED mimeVars
    BY <1>1 DEF ParsePort
  <2>2. Port' /\ Digits'
    BY <2>1, PortStep, DigitsStep DEF AsWritten
  <2>3. UNCHANGED <<lines, at, line, eof, bad, table, data, pass, total, vec, pc>>
    BY <2>1 DEF mimeVars, splitter
  <2>4. Reader'
    BY <2>3 DEF AsWritten, Reader, SplitterOK, Splitter!Ready
  <2>5. Table'
    BY <2>3 DEF AsWritten, Table, LinesDone, TableHas, PairsUpTo, Pairs, Key, Value
  <2> QED
    BY <2>2, <2>4, <2>5 DEF AsWritten
<1>2. CASE LoadMime
  <2>1. LoadStep /\ UNCHANGED portVars
    BY <1>2 DEF LoadMime
  <2>2. Reader' /\ Table'
    BY <2>1, ReaderStep, TableStep DEF AsWritten
  <2>3. Port' /\ Digits'
    BY <2>1 DEF AsWritten, Port, Digits, PortIsTheNumber, portVars
  <2> QED
    BY <2>2, <2>3 DEF AsWritten
<1>3. UNCHANGED <<portVars, mimeVars>> \/ ParsePort \/ LoadMime
  BY DEF Next, Main, vars, inputs, Return, Refuse, CallFails, CheckArguments,
         IgnoreSigpipe, Fork, Detach, Throw, Terminate, OpenFile, SetLevel, SetTerminate, Configure,
         StartWorker, ConstructServer, SetCallback, Open, Handle, Answer, SendToClosed,
         WorkerThrows, Report, TraceLine, Abort, LogWrites, Go
<1> QED
  BY <1>1, <1>2, <1>3, AsWrittenKept

-------------------------------------------------------------------------------
(* Whatever the argument, the number stays within an int (utils.cpp:37).   *)
THEOREM NoOverflowCorrect == Spec => []NoOverflow
<1>1. IInv => NoOverflow
  BY PortAssumption DEF IInv, Port, NoOverflow
<1> QED
  BY <1>1, Invariance, PTL

(* The command succeeds only if all that the user gave is usable, and      *)
(* whatever fails before says so (main.cpp:313-341).                       *)
THEOREM RefusalIsToldCorrect == Spec => []RefusalIsTold
<1>1. IInv => RefusalIsTold
  BY DEF IInv, Told, RefusalIsTold, Forked
<1> QED
  BY <1>1, Invariance, PTL

(* A request meets the program with all its settings (main.cpp:334-355).   *)
THEOREM HandledAsConfiguredCorrect == Spec => []HandledAsConfigured
<1>1. IInv => HandledAsConfigured
  BY DEF IInv, Order, HandledAsConfigured, Configured, Guarded, Levelled, Logging, Forked
<1> QED
  BY <1>1, Invariance, PTL

(* Whatever exception ends the daemon, its report has been logged before,  *)
(* and stands before any stack trace (main.cpp:347).                       *)
THEOREM CrashIsReportedCorrect == Spec => []CrashIsReported
<1>1. IInv => CrashIsReported
  BY DEF IInv
<1> QED
  BY <1>1, Invariance, PTL

(* Whatever the argument and the file, the program serves with the port    *)
(* that the argument writes and with the table that the file says, or      *)
(* refuses one that is none (utils.cpp:28, global_config.cpp:9).           *)
THEOREM ReadAsWrittenCorrect == Spec => []ReadAsWritten
<1>1. AsWritten /\ [Next]_vars => AsWritten'
  BY AsWrittenStep
<1>2. AsWritten => ReadAsWritten
  BY TableIsRead DEF AsWritten, Digits, ReadAsWritten
<1> QED
  BY <1>1, <1>2, AsWrittenInit, PTL DEF Spec
===============================================================================
