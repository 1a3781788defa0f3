------------------------------ MODULE UrlDecoding -----------------------------
(* decode_percent_encoding_url (utils.cpp), and beside it what a decoder must *)
(* do, as a reference definition.  Bytes are their codes.                     *)
EXTENDS Integers, Sequences, FiniteSets

PercentSign == 37

(* The value of a hexadecimal digit, or -1. *)
hex_to_decimal(c) ==
  CASE c \in 48..57 -> c - 48        \* '0'..'9'
    [] c \in 97..102 -> c - 97 + 10  \* 'a'..'f'
    [] c \in 65..70 -> c - 65 + 10   \* 'A'..'F'
    [] OTHER -> -1

(* A plausible bug: one digit is enough. *)
OneDigit(p1, p2) == p1 >= 0 \/ p2 >= 0

BothDigits(p1, p2) == p1 >= 0 /\ p2 >= 0

(* The loop, from each position on: the text that is still appended, in a  *)
(* set that is empty if an exception is thrown.                            *)
decode_percent_encoding_url(url) ==
  LET p(i) == hex_to_decimal(url[i])
      from[i \in 1..Len(url) + 1] ==
        IF i > Len(url) THEN {<<>>}
        ELSE IF url[i] # PercentSign THEN {<<url[i]>> \o rest : rest \in from[i + 1]}
        ELSE IF i + 2 > Len(url) \/ ~BothDigits(p(i + 1), p(i + 2)) THEN {}
        ELSE {<<16 * p(i + 1) + p(i + 2)>> \o rest : rest \in from[i + 3]}
  IN  from[1]

-------------------------------------------------------------------------------
(* Since a percent sign is no digit, each one must begin an escape. *)
Escapes(u) == {k \in DOMAIN u : u[k] = PercentSign}
WellFormed(u) ==
  \A k \in Escapes(u) :
    /\ k + 2 <= Len(u)
    /\ hex_to_decimal(u[k + 1]) >= 0
    /\ hex_to_decimal(u[k + 2]) >= 0

(* The byte at each position that is not inside an escape, closed up. *)
Decoded(u) ==
  LET kept == {k \in DOMAIN u : {k - 1, k - 2} \cap Escapes(u) = {}}
      place(k) == Cardinality({j \in kept : j <= k})
  IN  [n \in 1..Cardinality(kept) |->
         LET k == CHOOSE j \in kept : place(j) = n
         IN  IF u[k] = PercentSign
             THEN 16 * hex_to_decimal(u[k + 1]) + hex_to_decimal(u[k + 2]) ELSE u[k]]
===============================================================================
