------------------------------ MODULE MCFileStore -----------------------------
(* Two files; uploads of one and of two parts, of one name twice, and with  *)
(* a part that is no file; a POST that is no upload.                         *)
EXTENDS FileStore, TLC

CONSTANTS f, g, w1, w2

Get(n) == [method |-> "GET", url |-> n, is_multipart_formdata |-> FALSE, multipart_formdata |-> <<>>]
Post(parts) == [method |-> "POST", url |-> f, is_multipart_formdata |-> TRUE, multipart_formdata |-> parts]
File(n, len) == [name |-> n, size |-> len]

MCNames == {f, g}
MCRequests ==
  {Get(f), Post(<<File(f, 3)>>), Post(<<File(f, 2), File(NoName, 1), File(g, 1)>>),
   Post(<<File(f, 1), File(f, 0)>>), [Get(f) EXCEPT !.method = "POST"], [Get(f) EXCEPT !.method = "PUT"]}

TwoWorkers == {w1, w2}
Symmetry == Permutations(TwoWorkers)
===============================================================================
