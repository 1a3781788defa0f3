-------------------------------- MODULE Strings -------------------------------
(* std::string's operations on sequences of bytes, positions from 1.         *)
EXTENDS Naturals, Sequences, FiniteSetsExt

npos == 0

\* The pattern p stands in s at position i.
Occurs(p, s, i) == i + Len(p) <= Len(s) + 1 /\ SubSeq(s, i, i + Len(p) - 1) = p

\* s.find(p, i)
Find(p, s, i) ==
  LET at == {k \in i..Len(s) : Occurs(p, s, k)} IN IF at = {} THEN npos ELSE Min(at)

\* What string_split_to_list makes of s: the non-empty pieces between the
\* occurrences of p, looked for from the left.
Split(s, p) ==
  LET from[i \in 1..Len(s) + 1] ==
        LET k == IF p = <<>> THEN npos ELSE Find(p, s, i)
            piece == SubSeq(s, i, (IF k = npos THEN Len(s) + 1 ELSE k) - 1)
            rest == IF k = npos THEN <<>> ELSE from[k + Len(p)]
        IN  IF piece = <<>> THEN rest ELSE <<piece>> \o rest
  IN  from[1]
===============================================================================
