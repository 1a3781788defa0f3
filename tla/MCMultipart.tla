------------------------------ MODULE MCMultipart -----------------------------
(* Forms as browsers make them, cut off anywhere, and bodies of any bytes.    *)
EXTENDS Multipart

FileNames == {<<>>, <<"x">>, <<" ", "y">>, <<"file", "name=">>, <<Disposition>>}
Datas == {d \in BoundedSeq({"x", CR, LF, Dash, "B"}, 3) : Find(<<Dash, Dash, "B">>, d, 1) = npos}
FewDatas == {<<>>, <<"x">>, <<LF, "x", CR, LF>>, CRLF \o CRLF, <<"x", Dash, Dash>>, <<Disposition, Quote>>}

\* Many data in one part, two parts of several kinds, and one part of every kind.
AnyPart(names, kinds, datas) == [name : names, kind : kinds, data : datas]
DataForms == BoundedSeq(AnyPart({<<"x">>}, {"file"}, Datas), 1)
NameForms ==
  BoundedSeq(AnyPart({<<"file", "name=">>}, {"field", "file"}, FewDatas), 2)
    \cup BoundedSeq(AnyPart(FileNames, Kinds, FewDatas), 1)

\* Every form is sent whole, behind every Content-Type, and some are cut off anywhere.
Form(parts, tail, bytes) ==
  [boundary |-> <<"B">>, tail |-> tail, parts |-> parts, bytes |-> bytes]
Whole(parts, tail) == Form(parts, tail, Len(FormText(Form(parts, tail, 0))))
AllForms ==
  {Whole(parts, tail) : parts \in DataForms \cup NameForms, tail \in {<<>>, <<";", "x">>, <<" ">>}}
    \cup UNION {{Form(parts, <<>>, n) : n \in 0..Whole(parts, <<>>).bytes - 1} : parts \in NameForms}

\* Pieces of bodies in any order, under every kind of Content-Type.
Line == <<Dash, Dash, "B">>
BodyPieces == {Line, CRLF, <<"x">> \o CRLF \o CRLF, <<CR>>, <<Dash, Dash>>}
AnyBody(n) == {FlattenSeq(s) : s \in BoundedSeq(BodyPieces, n)}
FormTypes == {<<FormData, ";", " ", Boundary, "B">>}
OtherTypes == {<<>>, <<"x">>, <<FormData>>, <<FormData, Boundary>>}
AllOthers ==
  [type : FormTypes, body : AnyBody(6)] \cup [type : OtherTypes, body : AnyBody(4)]
===============================================================================
