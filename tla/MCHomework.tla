----------------------------- MODULE MCHomework ------------------------------
(***************************************************************************)
(* The programs without threads, one after the other: a behaviour is one of*)
(* the program chosen at the start.  "linked", "circular", "timer" and     *)
(* "hw10" have states; for the others a problem is chosen, and what the    *)
(* program makes of it is compared with the answer.                        *)
(*                                                                         *)
(* The programs and their properties are in Homework, which the theorems   *)
(* are about; here is what they run on, one of them at a time.             *)
(***************************************************************************)
EXTENDS Homework

homeworkVars == <<program, problem, linkedVars, circularVars, timerVars, hw10Vars>>

Positions == {-1, 0, 2, 3}
Numbers == {-1, 0, 1}

-----------------------------------------------------------------------------
(* Problems                                                                *)

Words(alphabet, n) == UNION {[1 .. k -> alphabet] : k \in 0 .. n}

Matrices == {<< <<2>> >>, << <<3>> >>, << <<1, 2>> >>, << <<1>>, <<-1>> >>}
Operators == {"+", "-", "*"}

(* Words from both ends of the two halves of the alphabet.                 *)
Distances == Words({97, 98}, 3) \X Words({97, 98}, 3)
Texts == Words({97, 122, 66}, 2) \X Words({97, 65, 122}, 2)
Lines == Words({1, 2}, 6) \X (Words({1, 2}, 4) \ {<< >>})
Quotients == [1 .. 4 -> {0, 1, 7, 9}] \X {2, 7, 11, 101}
Sizes == {10 * k : k \in 1 .. 60}

\* Every type, with fields at both ends of what they can hold.
FieldValues(width) == {0, 1, SMALL_BYTE ^ width - 1}
Messages ==
  UNION {LET widths == Code!Fields(type)
             values == [DOMAIN widths -> UNION {FieldValues(w) : w \in 1 .. DOUBLE}]
         IN  {[type |-> type, data |-> d] :
                d \in {v \in values : \A k \in DOMAIN widths : v[k] \in FieldValues(widths[k])}}
         : type \in {Code!TypeNames[i] : i \in DOMAIN Code!TypeNames}}

Problems ==
  [message |-> Messages, distance |-> Distances, text |-> Texts, line |-> Lines,
   number |-> 1 .. range * range + range, quotient |-> Quotients,
   expression2 |-> [1 .. 2 -> Matrices] \X [1 .. 1 -> Operators],
   expression4 |-> [1 .. 4 -> Matrices] \X [1 .. 3 -> Operators],
   grid |-> Sizes \X Sizes]

HomeworkInit ==
  /\ Linked!Init /\ Init /\ Timer!Init /\ Batch!Init
  /\ \/ /\ program \in {"linked", "circular", "timer", "hw10"}
        /\ problem = None
     \/ /\ program \in DOMAIN Problems
        /\ problem \in Problems[program]
  /\ program = "circular" \/ allocated = 1

InLinked == program = "linked" /\ Linked!Next
              /\ UNCHANGED <<program, problem, circularVars, timerVars, hw10Vars>>
InCircular == program = "circular" /\ Next
                /\ UNCHANGED <<program, problem, linkedVars, timerVars, hw10Vars>>
InTimer == program = "timer" /\ Timer!Next
             /\ UNCHANGED <<program, problem, linkedVars, circularVars, hw10Vars>>
InHw10 == program = "hw10" /\ Batch!Next
            /\ UNCHANGED <<program, problem, linkedVars, circularVars, timerVars>>

HomeworkNext == InLinked \/ InCircular \/ InTimer \/ InHw10

Homework == HomeworkInit /\ [][HomeworkNext]_homeworkVars
=============================================================================
