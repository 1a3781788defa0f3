------------------------------- MODULE MCStartup ------------------------------
(* Arguments of up to eight characters around 65535, the int given just       *)
(* enough room for one digit more than a port.  Files of up to two lines:     *)
(* pairs in both cases, with either line end and with blanks, empty lines,    *)
(* and lines that are no pairs; of three lines, with one key or two.  A long  *)
(* argument meets a file that is refused, and a file an argument of one digit. *)
EXTENDS Startup, SequencesExt

NotADigit == 10
MCParams == BoundedSeq({0, 3, 5, 6, NotADigit}, 5) \cup BoundedSeq({0, 9}, 8) \cup BoundedSeq({5, 6}, 7)

Bytes == {"a", "A", "b", "x", "y", Blank, CR}
LowerA == [c \in Bytes |-> IF c = "A" THEN "a" ELSE c]

Lines ==
  {<<>>, <<CR>>, <<"a", Blank, "x">>, <<"A", Blank, "y", CR>>, <<Blank, "a", Blank, Blank, "y">>,
   <<"b", Blank, "x", "y", CR>>, <<"b">>, <<"a", Blank, "x", Blank, "y">>}
ThreeLines == {<<>>, <<"a", Blank, "x">>, <<"A", Blank, "y", CR>>, <<"b">>}
MCFiles == (BoundedSeq(Lines, 2) \cup BoundedSeq(ThreeLines, 3)) \ {<<>>}
AllKeys == {<<>>, <<"a">>, <<"A">>, <<"b">>, <<"a", "b">>}

MCInputs == (MCParams \X {<<<<"b">>>>}) \cup ({<<3>>} \X MCFiles)
===============================================================================
