------------------------------ MODULE StrSplitter -----------------------------
(***************************************************************************)
(* string_split_to_list (utils.cpp) over the class StrSplitter: a first    *)
(* pass counts the pieces to reserve room for them, the splitter's data    *)
(* are put back, a second pass collects them.  One get_next is one step.   *)
(* The caller gives str and pattern, and begins with Ready or Restart.     *)
(***************************************************************************)
EXTENDS Strings

VARIABLES
  str, pattern,
  data,   \* the changing members of data_part: current_pos, the last segment
  pass,   \* "count", "collect", "done"
  total,  \* calc_slices_number's result
  vec     \* string_split_to_list's result

Start == [current_pos |-> 1, last_segment |-> <<>>]

Ready == data = Start /\ pass = "count" /\ total = 0 /\ vec = <<>>
Restart == data' = Start /\ pass' = "count" /\ total' = 0 /\ vec' = <<>>

-------------------------------------------------------------------------------
(* Both variants of find_pattern; Find does not go beyond the end of str. *)
find_pattern ==
  IF pattern = <<>> \/ Len(str) < Len(pattern) THEN npos ELSE Find(pattern, str, data.current_pos)

(* get_next: the segment up to the next pattern, or else the rest. *)
More == data.current_pos <= Len(str)

get_next ==
  LET pos == find_pattern
      segment_end == IF pos = npos THEN Len(str) + 1 ELSE pos
  IN  [current_pos |-> IF pos = npos THEN segment_end ELSE pos + Len(pattern),
       last_segment |-> SubSeq(str, data.current_pos, segment_end - 1)]

Count ==
  /\ pass = "count" /\ More
  /\ data' = get_next
  /\ total' = IF data'.last_segment # <<>> THEN total + 1 ELSE total
  /\ UNCHANGED <<pass, vec>>

(* A plausible bug: calc_slices_number leaves the data where they are. *)
CountedWithoutRestore ==
  /\ pass = "count" /\ ~More
  /\ pass' = "collect"
  /\ UNCHANGED <<data, total, vec>>

(* calc_slices_number puts the data back. *)
Counted ==
  /\ pass = "count" /\ ~More
  /\ pass' = "collect"
  /\ data' = Start
  /\ UNCHANGED <<total, vec>>

Collect ==
  /\ pass = "collect" /\ More
  /\ data' = get_next
  /\ vec' = IF data'.last_segment # <<>> THEN Append(vec, data'.last_segment) ELSE vec
  /\ UNCHANGED <<pass, total>>

Collected ==
  /\ pass = "collect" /\ ~More
  /\ pass' = "done"
  /\ UNCHANGED <<data, total, vec>>

SplitStep == Count \/ Counted \/ Collect \/ Collected

-------------------------------------------------------------------------------
(* The room reserved is the room needed (utils.cpp:57), and the list has   *)
(* the pieces of the text, each once, in their order.                      *)
ListIsSplit == pass = "done" => vec = Split(str, pattern) /\ total = Len(vec)
===============================================================================
