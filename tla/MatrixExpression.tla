-------------------------- MODULE MatrixExpression --------------------------
(***************************************************************************)
(* Homework 5 (regular/main.c): an expression of matrices, read and        *)
(* evaluated from left to right with one operator of look-ahead.  A matrix *)
(* is the sequence of its rows.                                            *)
(***************************************************************************)
EXTENDS Integers, Sequences

Error == << >>     \* stands for "Chybny vstup!" and the code 100

(* Stands for whatever becomes of a program that frees a matrix twice: the *)
(* message is out, the code may be 100, or the allocator ends it.          *)
FreedTwice == << << >> >>

Rows(M) == Len(M)
Columns(M) == Len(M[1])

add(A, B) == [i \in 1 .. Rows(A) |-> [j \in 1 .. Columns(A) |-> A[i][j] + B[i][j]]]
sub(A, B) == [i \in 1 .. Rows(A) |-> [j \in 1 .. Columns(A) |-> A[i][j] - B[i][j]]]

(* A row by a column.                                                      *)
Sum(A, B, i, k) ==
  LET sum[j \in 0 .. Columns(A)] == IF j = 0 THEN 0 ELSE sum[j - 1] + A[i][j] * B[j][k]
  IN  sum[Columns(A)]

mult(A, B) ==
  IF A = Error \/ B = Error \/ Columns(A) # Rows(B) THEN Error
  ELSE [i \in 1 .. Rows(A) |-> [k \in 1 .. Columns(B) |-> Sum(A, B, i, k)]]

(* add and sub look at the size of the first operand only.                 *)
SameSize(A, B) == Rows(A) = Rows(B) /\ Columns(A) = Columns(B)

Apply(operator, A, B) ==
  IF A = Error \/ B = Error THEN Error
  ELSE CASE operator = "*" -> mult(A, B)
         [] operator = "+" -> add(A, B)
         [] operator = "-" -> sub(A, B)

(* A plausible slip: the sum of what was read is multiplied.               *)
NextOperandHasty(s, operator, M) ==
  [s EXCEPT !.A = Apply(s.previousoperator, s.A, s.B), !.B = M,
            !.previousoperator = operator]

(* What A comes to when operator is behind B.  mult clears its operands    *)
(* also if they do not fit, and between two products A is cleared again.   *)
NewA(s, operator) ==
  LET value == Apply(s.previousoperator, s.A, s.B)
  IN  IF value = Error /\ operator = "*" THEN FreedTwice ELSE value

(* One turn: the operator behind B is read, and the matrix behind that.  A *)
(* product binds to B while a sum or a difference waits; everything else is*)
(* carried out at once.                                                    *)
NextOperand(s, operator, M) ==
  IF s.A = FreedTwice THEN s
  ELSE IF operator = "*" /\ s.previousoperator # "*"
    THEN [s EXCEPT !.B = mult(s.B, M)]
    ELSE [s EXCEPT !.A = NewA(s, operator), !.B = M, !.previousoperator = operator]

(* The value of operands[1] operators[1] operands[2] ...                   *)
Evaluate(operands, operators) ==
  LET state[i \in 1 .. Len(operators)] ==
        IF i = 1
          THEN [A |-> operands[1], previousoperator |-> operators[1], B |-> operands[2]]
          ELSE NextOperand(state[i - 1], operators[i], operands[i + 1])
      end == state[Len(operators)]
  IN  IF end.A = FreedTwice THEN FreedTwice
      ELSE Apply(end.previousoperator, end.A, end.B)

-----------------------------------------------------------------------------
(* Reference: the terms of the sum, each a product.                        *)

(* The product of the operands first, first + 1, ... last.                 *)
Term(operands, first, last) ==
  LET term[k \in 0 .. last - first] ==
        IF k = 0 THEN operands[first] ELSE mult(term[k - 1], operands[first + k])
  IN  term[last - first]

(* Where terms begin, and the term that begins there.                      *)
Begins(operators) == {1} \union {i + 1 : i \in {j \in DOMAIN operators : operators[j] # "*"}}
TermAt(operands, operators, first) ==
  LET later == {b \in Begins(operators) : b > first}
      last == IF later = {} THEN Len(operands)
              ELSE (CHOOSE b \in later : \A c \in later : b <= c) - 1
  IN  Term(operands, first, last)

(* A product that begins the expression does not fit, and another factor   *)
(* follows.                                                                *)
ClearedTwice(operands, operators) ==
  \E k \in 2 .. Len(operators) :
    (\A i \in 1 .. k : operators[i] = "*") /\ Term(operands, 1, k) = Error

(* What the program expects of its input: sums and differences fit.        *)
SumsFit(operands, operators) ==
  \A b, c \in Begins(operators) :
    LET first == TermAt(operands, operators, b)
        other == TermAt(operands, operators, c)
    IN  first # Error /\ other # Error => SameSize(first, other)

(* A number of the term that begins at b, with the sign before the term.   *)
Signed(operands, operators, b, i, j) ==
  LET number == TermAt(operands, operators, b)[i][j]
  IN  IF b = 1 \/ operators[b - 1] = "+" THEN number ELSE -number

(* The sum of all these.                                                   *)
SignedSum(operands, operators, i, j) ==
  LET sum[b \in 0 .. Len(operands)] ==
        IF b = 0 THEN 0
        ELSE IF b \in Begins(operators)
               THEN sum[b - 1] + Signed(operands, operators, b, i, j)
               ELSE sum[b - 1]
  IN  sum[Len(operands)]

(* The value is the signed sum of the terms, place by place; a product that*)
(* does not fit is an error, wherever it stands; and the program goes wrong*)
(* over that, by freeing a matrix twice, in no other case than that of     *)
(* ClearedTwice.                                                           *)
ValueRight(operands, operators) ==
  SumsFit(operands, operators) =>
    LET value == Evaluate(operands, operators)
    IN  IF ClearedTwice(operands, operators) THEN value = FreedTwice
        ELSE IF \E b \in Begins(operators) : TermAt(operands, operators, b) = Error
          THEN value = Error
          ELSE /\ value # Error /\ SameSize(value, TermAt(operands, operators, 1))
               /\ \A i \in 1 .. Rows(value), j \in 1 .. Columns(value) :
                    value[i][j] = SignedSum(operands, operators, i, j)
=============================================================================
