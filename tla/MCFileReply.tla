------------------------------ MODULE MCFileReply -----------------------------
(* A small instance of FileReply for TLC: files of no block, of one block  *)
(* (shorter than a mark and a byte, a mark alone, with a mark) and of two  *)
(* or three blocks, one of them with a mark where its second block begins. *)
EXTENDS FileReply

CONSTANTS f1, d1, none

OneFile == {f1}
OneDir == {d1}
SmallContents ==
  {<<>>, <<"a">>, BOM, BOM \o <<"a">>, BOM \o <<"a", "b">>,
   <<"a", "b", "c", "d">> \o BOM \o <<"e", "f">>}
SmallListings == {<<"x">>, <<"x", "y">>}
===============================================================================
