------------------------------- MODULE MCBrowsing -----------------------------
(* A tree two directories deep, with names that have dots and percent signs,  *)
(* and every way to write the root and the first url; and urls of bytes at    *)
(* and beside the edges of the classes of digits, and of percent signs.       *)
EXTENDS Browsing, SequencesExt

r == <<114>>
d == <<100>>
n == <<110>>
dd == <<100, Dot, 100>>         \* a directory with a dot in its name
nt == <<110, Dot, 116>>         \* a file with an extension
esc == <<PercentSign, 54, 69>>  \* "%6E", which decodes to n
bad == <<PercentSign, 110>>

Under(base) ==
  ({base, base \o <<bad>>, base \o <<d>>, base \o <<d, dd>>} \X {"dir"})
    \cup ({base \o <<n>>, base \o <<d, nt>>, base \o <<d, esc>>, base \o <<d, dd, nt>>} \X {"reg"})
    \cup ({base \o <<d, r>>} \X {"link"})
AsTree(pairs) == [p \in {x[1] : x \in pairs} |-> (CHOOSE x \in pairs : x[1] = p)[2]]

MCRoots == {r, <<Slash>> \o r, r \o <<Slash>>}
MCTrees == {AsTree(Under(<<r>>))}
EscapedBad == <<PercentSign, 50, 53, 110>>  \* "%25n", which decodes to bad
PlainUrls == {<<Slash>>, <<Slash>> \o d, <<Slash>> \o d \o <<Slash>>, d, <<>>, <<Slash>> \o r}
EdgeBytes == {PercentSign, 47, 48, 57, 58, 64, 65, 70, 71, 96, 97, 102, 103}
MCStartUrls ==
  {u \in PlainUrls \cup {EscapedBad} \cup BoundedSeq(EdgeBytes, 3) \cup BoundedSeq({PercentSign, 50, 53, 65}, 6) :
     Sendable(u)}
MCFileNames == {nt, bad, r}
===============================================================================
