--------------------------- MODULE MCRequestReading ---------------------------
(* A small instance of RequestReading for TLC: every class of byte that a  *)
(* field may hold occurs in it, empty urls, names that differ only in      *)
(* case, bodies that look like another request, and values that are empty, *)
(* with one blank, several or none before them, with a tab at either end.  *)
EXTENDS RequestReading

SmallMethods == {<<"H">>, <<"a", "1", ".">>}
SmallUrls == {<<>>, <<"/", "HI">>, <<"@", ":", "T">>}
SmallVersions == {<<"1">>, <<"1", "1">>}
SmallNames == {<<"a">>, <<"A">>, <<"P", "a">>}
SmallValues ==
  {<<>>, <<" ">>, <<" ", " ", "HI">>, <<" ", ":">>, <<"a", " ">>,
   <<"TAB", "1">>, <<" ", "TAB">>}
SmallBodies == {<<>>, <<"a", " ">>, <<"CR", "LF">>}
===============================================================================
