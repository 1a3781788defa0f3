------------------------------ MODULE PortNumber ------------------------------
(* parse_port (utils.cpp): the second argument of the program, digit by        *)
(* digit, in an int.                                                           *)
EXTENDS Integers, Sequences

CONSTANTS
  Params,  \* arguments: sequences of characters, a digit being its value
  MaxPort, \* the largest port, 65535 in the program
  MaxInt   \* the largest int, 2147483647 on the platforms of this program

ASSUME PortAssumption ==
  /\ Params \subseteq Seq(Int)
  /\ MaxPort \in Nat /\ MaxInt \in Nat /\ MaxInt >= 10 * MaxPort + 9

VARIABLES param, k, result, outcome

portVars == <<param, k, result, outcome>>

IsDigit(c) == c \in 0..9

PortInit ==
  /\ param \in Params
  /\ k = 1
  /\ result = 0
  /\ outcome = "none"

Running == outcome = "none" /\ k <= Len(param)

(* A plausible bug: one more is taken for a port. *)
TooLargeByOne == result > MaxPort + 1

TooLarge == result > MaxPort

RefusePort ==
  /\ \/ Running /\ (TooLarge \/ ~IsDigit(param[k]))
     \/ outcome = "none" /\ k > Len(param) /\ TooLarge
  /\ outcome' = "refused"
  /\ UNCHANGED <<param, k, result>>

TakeDigit ==
  /\ Running
  /\ ~TooLarge
  /\ IsDigit(param[k])
  /\ result' = 10 * result + param[k]
  /\ k' = k + 1
  /\ UNCHANGED <<param, outcome>>

AcceptPort ==
  /\ outcome = "none" /\ k > Len(param)
  /\ ~TooLarge
  /\ outcome' = "accepted"
  /\ UNCHANGED <<param, k, result>>

ParseStep == RefusePort \/ TakeDigit \/ AcceptPort

-------------------------------------------------------------------------------
(* However long the argument is, the number never exceeds an int           *)
(* (utils.cpp:37); a signed overflow would be undefined.                   *)
NoOverflow == result \in 0..MaxInt

(* The number that an argument writes; an empty one is 0 (utils.cpp:28). *)
ValueOf(p) ==
  LET upTo[n \in 0..Len(p)] == IF n = 0 THEN 0 ELSE 10 * upTo[n - 1] + p[n] IN upTo[Len(p)]

IsPort(p) == (\A n \in DOMAIN p : IsDigit(p[n])) /\ ValueOf(p) <= MaxPort

(* What is accepted is the number that the argument writes, and a port;    *)
(* what is refused is no port.                                             *)
PortIsTheNumber ==
  /\ outcome = "accepted" => IsPort(param) /\ result = ValueOf(param)
  /\ outcome = "refused" => ~IsPort(param)
===============================================================================
