------------------------------ MODULE MCConnection ----------------------------
(* A small instance of Connection for TLC. *)
EXTENDS Connection

(* Headers of two bytes; bodies and lengths around MaxContent = 2 and      *)
(* BufSize = 3, each shorter than, equal to and longer than the other; 15  *)
(* is what stoul makes of "-1".  Facts the code does not look at are fixed.*)
SmallRequests ==
  {r \in [head : {2}, body : 0..4,
          verdict : {"complete", "bad", "indeterminate"},
          urlOk : BOOLEAN,
          lengthHeader : {"absent", "invalid", "number"},
          length : {0, 1, 2, 3, 15},
          chunked : BOOLEAN,
          bodyOk : BOOLEAN] :
     /\ r.verdict = "indeterminate" => r.body = 0
     /\ r.verdict # "complete" => r.urlOk /\ r.lengthHeader = "absent" /\ ~r.chunked
     /\ ~r.urlOk => r.lengthHeader = "absent" /\ ~r.chunked
     /\ r.lengthHeader # "number" => r.length = 0 /\ r.bodyOk
     /\ r.lengthHeader = "invalid" => ~r.chunked}
===============================================================================
