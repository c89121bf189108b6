-------------------------------- MODULE Grep --------------------------------
(***************************************************************************)
(* Homework 4 (grep.c): the search for a pattern in one line.  The line is *)
(* read once; places where the pattern may have begun while another try    *)
(* was going on are remembered, and tried when the line is whole.          *)
(* (The code has room for 100 places; a line with more is not modelled.)   *)
(***************************************************************************)
EXTENDS Integers, Sequences

Start == [reading |-> FALSE, patterncounter |-> 0, print |-> FALSE,
          counter |-> 0, remember |-> << >>]

(* A plausible slip: the place is not remembered.                          *)
ReadForgetting(s, rchr, pattern) ==
  LET next == [s EXCEPT !.counter = @ + 1]
      over == [next EXCEPT !.reading = FALSE, !.patterncounter = 0]
      more == [next EXCEPT !.reading = TRUE, !.patterncounter = @ + 1]
      k == s.patterncounter + 1
      fits == k \in DOMAIN pattern /\ rchr = pattern[k]
      begins == rchr = pattern[1]
  IN  CASE ~s.reading -> IF begins THEN more ELSE next
        [] s.reading /\ ~fits ->
             IF begins THEN [next EXCEPT !.patterncounter = 1] ELSE over
        [] s.reading /\ fits ->
             IF k = Len(pattern) THEN [over EXCEPT !.print = TRUE]
             ELSE more

(* One character.  pattern[patterncounter] of the code is the next to come;*)
(* past the end of the pattern stands its zero, which no character equals. *)
Read(s, rchr, pattern) ==
  LET next == [s EXCEPT !.counter = @ + 1]
      over == [next EXCEPT !.reading = FALSE, !.patterncounter = 0]
      more == [next EXCEPT !.reading = TRUE, !.patterncounter = @ + 1]
      k == s.patterncounter + 1
      fits == k \in DOMAIN pattern /\ rchr = pattern[k]
      begins == rchr = pattern[1]
  IN  CASE ~s.reading -> IF begins THEN more ELSE next
        [] s.reading /\ ~fits ->
             IF begins THEN [next EXCEPT !.patterncounter = 1] ELSE over
        [] s.reading /\ fits ->
             IF k = Len(pattern) THEN [over EXCEPT !.print = TRUE]
             ELSE IF begins THEN [more EXCEPT !.remember = Append(@, s.counter)]
             ELSE more

OccursAt(line, pattern, place) ==
  /\ place + Len(pattern) <= Len(line)
  /\ \A c \in DOMAIN pattern : line[place + c] = pattern[c]

(* How far the search is behind each character of the line.                *)
States(line, pattern) ==
  LET state[n \in 0 .. Len(line)] ==
        IF n = 0 THEN Start ELSE Read(state[n - 1], line[n], pattern)
  IN  state

(* Is the line printed?                                                    *)
Printed(line, pattern) ==
  LET end == States(line, pattern)[Len(line)]
  IN  end.print \/ \E i \in DOMAIN end.remember : OccursAt(line, pattern, end.remember[i])

(* A line is printed if and only if the pattern is in it, although the     *)
(* search never goes back, provided the pattern has more than one          *)
(* character: the end of the pattern is only looked for behind a second    *)
(* one.                                                                    *)
PrintedIfFound(line, pattern) ==
  Printed(line, pattern) <=>
    Len(pattern) > 1 /\ \E place \in 0 .. Len(line) : OccursAt(line, pattern, place)
=============================================================================
