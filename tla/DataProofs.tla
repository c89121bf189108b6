----------------------------- MODULE DataProofs ------------------------------
(***************************************************************************)
(* Lemmas about numbers, recursive functions and sequences that the proofs *)
(* about several components need.  Induction is had from the well-         *)
(* foundedness of < with the property as a set of numbers, so that no      *)
(* theorem with an operator as parameter is cited.                         *)
(***************************************************************************)
EXTENDS Integers, Sequences, SequencesExt, SequenceTheorems, WellFoundedInduction, TLAPS

-----------------------------------------------------------------------------
(* Numbers                                                                 *)

(* A set of numbers that is not empty has a smallest one.                  *)
LEMMA SmallestCandidate ==
  ASSUME NEW T, T \subseteq Nat, T # {}
  PROVE  \E i \in T : \A j \in T : i <= j
<1> DEFINE Less == {ss \in Nat \X Nat : ss[1] < ss[2]}
<1>1. IsWellFoundedOn(Less, Nat)
  BY NatLessThanWellFounded, Zenon DEF OpToRel
<1>2. PICK i \in T : \A j \in T : ~ (<<j, i>> \in Less)
  <2> HIDE DEF Less
  <2> QED BY <1>1, WFMin
<1>3. ASSUME NEW j \in T PROVE i <= j
  <2>1. i \in Nat /\ j \in Nat
    OBVIOUS
  <2>2. ~ (j < i)
    BY <1>2, <2>1
  <2> QED
    BY <2>1, <2>2, SMT
<1> QED
  BY <1>3

(* A number is the quotient times the divisor, and a remainder.            *)
LEMMA Division ==
  ASSUME NEW a \in Nat, NEW b \in Nat \ {0}
  PROVE  /\ a \div b \in Nat
         /\ a % b \in 0 .. b - 1
         /\ a = (a \div b) * b + (a % b)
  BY SMT

(* A quotient and a remainder are found in one way only.                   *)
LEMMA DivisionIsUnique ==
  ASSUME NEW b \in Nat \ {0}, NEW q \in Nat, NEW r \in 0 .. b - 1
  PROVE  /\ (q * b + r) \div b = q
         /\ (q * b + r) % b = r
<1> DEFINE a == q * b + r
<1> DEFINE d == a \div b
<1> DEFINE m == a % b
<1>1. a \in Nat
  BY SMT
<1>2. d \in Nat /\ m \in 0 .. b - 1 /\ a = d * b + m
  BY <1>1, Division
<1>3. q * b + r = d * b + m
  BY <1>2
<1> HIDE DEF a, d, m
<1>4. CASE d = q
  BY <1>2, <1>3, <1>4, SMT DEF a, d, m
<1>5. CASE d < q
  <2>1. (d + 1) * b <= q * b
    BY <1>2, <1>5, SMT
  <2>2. (d + 1) * b = d * b + b
    BY <1>2, SMT
  <2> QED
    BY <1>2, <1>3, <2>1, <2>2, SMT
<1>6. CASE d > q
  <2>1. (q + 1) * b <= d * b
    BY <1>2, <1>6, SMT
  <2>2. (q + 1) * b = q * b + b
    BY SMT
  <2> QED
    BY <1>2, <1>3, <2>1, <2>2, SMT
<1> QED
  BY <1>2, <1>4, <1>5, <1>6, SMT

(* A multiple leaves nothing.                                              *)
LEMMA MultipleOf ==
  ASSUME NEW d \in Nat \ {0}, NEW k \in Nat
  PROVE  (k * d) % d = 0 /\ (k * d) \div d = k
<1>1. 0 \in 0 .. d - 1 /\ k * d + 0 = k * d
  BY SMT
<1> QED
  BY <1>1, DivisionIsUnique, Zenon

(* What leaves nothing is a multiple.                                      *)
LEMMA IsMultiple ==
  ASSUME NEW n \in Nat, NEW d \in Nat \ {0}, n % d = 0
  PROVE  /\ n \div d \in Nat
         /\ n = (n \div d) * d
<1> DEFINE q == n \div d
           r == n % d
<1>1. q \in Nat /\ r = 0 /\ n = q * d + r
  BY Division
<1> HIDE DEF q, r
<1>2. n = q * d
  BY <1>1
<1> QED
  BY <1>1, <1>2, Zenon DEF q

(* Divisors of divisors are divisors.                                      *)
LEMMA DivisorOfDivisor ==
  ASSUME NEW a \in Nat \ {0}, NEW b \in Nat \ {0}, NEW c \in Nat, b % a = 0, c % b = 0
  PROVE  c % a = 0
<1>1. PICK k \in Nat : b = k * a
  BY IsMultiple, Zenon
<1>2. PICK l \in Nat : c = l * b
  BY IsMultiple, Zenon
<1>3. l * k \in Nat /\ c = (l * k) * a
  <2>1. c = l * (k * a)
    BY <1>1, <1>2
  <2>2. l * (k * a) = (l * k) * a
    BY SMT
  <2>3. l * k \in Nat
    BY SMT
  <2> QED
    BY <2>1, <2>2, <2>3, Zenon
<1> QED
  BY <1>3, MultipleOf, Zenon

(* The smaller of two numbers that make up less than s * s is below s.     *)
LEMMA FactorBelowRoot ==
  ASSUME NEW k \in Nat, NEW d \in Nat, NEW s \in Nat, k <= d, k * d < s * s
  PROVE  k < s
<1>1. SUFFICES ASSUME s <= k PROVE FALSE
  BY SMT
<1>2. s * s <= s * d
  <2>1. s <= d
    BY <1>1
  <2>2. \E e \in Nat : d = s + e
    BY <2>1
  <2>3. PICK e \in Nat : d = s + e
    BY <2>2
  <2>4. s * d = s * s + s * e /\ s * e \in Nat
    BY <2>3, SMT
  <2> QED
    BY <2>4, SMT
<1>3. s * d <= k * d
  <2>1. \E e \in Nat : k = s + e
    BY <1>1
  <2>2. PICK e \in Nat : k = s + e
    BY <2>1
  <2>3. k * d = s * d + e * d /\ e * d \in Nat
    BY <2>2, SMT
  <2> QED
    BY <2>3, SMT
<1>4. s * s \in Nat /\ s * d \in Nat /\ k * d \in Nat
  BY SMT
<1> DEFINE x == s * s
           y == s * d
           z == k * d
<1> HIDE DEF x, y, z
<1>5. x \in Nat /\ y \in Nat /\ z \in Nat /\ x <= y /\ y <= z /\ z < x
  BY <1>2, <1>3, <1>4, Zenon DEF x, y, z
<1> QED
  BY <1>5

(* A divisor that is not 1 nor the number itself has a cofactor like that. *)
LEMMA Cofactor ==
  ASSUME NEW n \in Nat \ {0}, NEW d \in 2 .. n - 1, n % d = 0
  PROVE  \E k \in 2 .. n - 1 : n = k * d /\ n % k = 0
<1>1. d \in Nat \ {0} /\ n \in Nat /\ d >= 2 /\ d < n
  BY SMT
<1>2. PICK k \in Nat : n = k * d
  BY <1>1, IsMultiple, Zenon
<1>3. k # 0 /\ k # 1
  BY <1>1, <1>2, SMT
<1>4. k < n
  <2>1. PICK e \in Nat : d = 2 + e
    <3>1. d - 2 \in Nat /\ d = 2 + (d - 2)
      BY <1>1
    <3> QED
      BY <3>1, Zenon
  <2>2. k * d = k + k + k * e /\ k * e \in Nat
    BY <2>1, SMT
  <2> DEFINE x == k * e
  <2>3. n = k + k + x /\ x \in Nat
    BY <1>2, <2>2, Zenon
  <2> HIDE DEF x
  <2> QED
    BY <1>3, <2>3
<1>5. n = d * k
  BY <1>2, SMT
<1>6. k \in Nat \ {0} /\ k \in 2 .. n - 1
  BY <1>3, <1>4
<1>7. n % k = 0
  BY <1>1, <1>5, <1>6, MultipleOf, Zenon
<1> QED
  BY <1>2, <1>6, <1>7, Zenon

(* A quotient rounded up is the number of pieces of b that a takes.        *)
LEMMA RoundedUp ==
  ASSUME NEW a \in Nat \ {0}, NEW b \in Nat \ {0},
         NEW c, c = IF a % b = 0 THEN a \div b ELSE a \div b + 1
  PROVE  /\ c \in Nat \ {0}
         /\ (c - 1) * b < a
         /\ a <= c * b
<1> DEFINE q == a \div b
<1> DEFINE r == a % b
<1>1. q \in Nat /\ r \in 0 .. b - 1 /\ a = q * b + r
  BY Division
<1>2. c = IF r = 0 THEN q ELSE q + 1
  OBVIOUS
<1> HIDE DEF q, r
<1>3. CASE r = 0
  <2>1. q # 0
    BY <1>1, <1>3, SMT
  <2>2. (q - 1) * b = q * b - b
    BY <1>1, SMT
  <2> QED
    BY <1>1, <1>2, <1>3, <2>1, <2>2, SMT
<1>4. CASE r # 0
  <2>1. (q + 1) * b = q * b + b /\ (q + 1) - 1 = q
    BY <1>1, SMT
  <2> QED
    BY <1>1, <1>2, <1>4, <2>1, SMT
<1> QED
  BY <1>3, <1>4

(* Induction: what holds of 0, and of every number up to n if it holds of  *)
(* the one before, holds up to n.                                          *)
LEMMA Induction ==
  ASSUME NEW P, NEW n \in Nat, 0 \in P, \A i \in 1 .. n : i - 1 \in P => i \in P
  PROVE  n \in P /\ \A i \in 0 .. n : i \in P
<1> SUFFICES ASSUME {i \in 0 .. n : i \notin P} # {} PROVE FALSE
  OBVIOUS
<1>1. PICK i \in {k \in 0 .. n : k \notin P} : \A j \in {k \in 0 .. n : k \notin P} : i <= j
  <2> DEFINE T == {k \in 0 .. n : k \notin P}
  <2>1. T \subseteq Nat /\ T # {}
    BY SMT
  <2> HIDE DEF T
  <2>2. \E i \in T : \A j \in T : i <= j
    BY <2>1, SmallestCandidate
  <2> QED
    BY <2>2 DEF T
<1>2. i \in 1 .. n /\ i \notin P
  OBVIOUS
<1>3. i - 1 \in 0 .. n /\ i - 1 < i
  BY <1>2, SMT
<1>4. i - 1 \in P
  BY <1>1, <1>3, SMT
<1> QED
  BY <1>2, <1>4

(* A function that carries a value on, step by step.                       *)
Iterates(a, g, m, f) == f = [k \in 0 .. m |-> IF k = 0 THEN a ELSE g[k][f[k - 1]]]

(* There is one.                                                           *)
LEMMA IterationExists ==
  ASSUME NEW S, NEW a \in S, NEW n \in Nat, NEW g \in [1 .. n -> [S -> S]]
  PROVE  \E f \in [0 .. n -> S] : Iterates(a, g, n, f)
<1> DEFINE P == {m \in 0 .. n : \E f \in [0 .. m -> S] : Iterates(a, g, m, f)}
<1>1. 0 \in P
  <2> DEFINE e == [i \in 0 .. 0 |-> a]
  <2>1. \A i \in 0 .. 0 : i = 0
    BY SMT
  <2>2. e = [i \in 0 .. 0 |-> IF i = 0 THEN a ELSE g[i][e[i - 1]]]
    BY <2>1, Zenon
  <2>3. e \in [0 .. 0 -> S] /\ 0 \in 0 .. n
    OBVIOUS
  <2> HIDE DEF e
  <2> QED
    BY <2>2, <2>3, Zenon DEF Iterates
<1>2. \A m \in 1 .. n : m - 1 \in P => m \in P
  <2> TAKE m \in 1 .. n
  <2> HAVE m - 1 \in P
  <2>1. PICK f \in [0 .. m - 1 -> S] : Iterates(a, g, m - 1, f)
    OBVIOUS
  <2> DEFINE last == g[m][f[m - 1]]
             h == [i \in 0 .. m |-> IF i = m THEN last ELSE f[i]]
             h1 == [i \in 0 .. m |-> IF i = 0 THEN a ELSE g[i][h[i - 1]]]
  <2>2. last \in S
    <3>1. m - 1 \in 0 .. m - 1 /\ m \in 1 .. n
      OBVIOUS
    <3>2. f[m - 1] \in S
      BY <3>1
    <3> QED
      BY <3>1, <3>2
  <2>3. h \in [0 .. m -> S] /\ m \in 0 .. n
    <3> HIDE DEF last
    <3> QED
      BY <2>2
  <2>4. ASSUME NEW i \in 0 .. m
        PROVE  h[i] = h1[i]
    <3>1. i # 0 => i - 1 \in 0 .. m /\ i - 1 # m
      OBVIOUS
    <3>2. i # 0 => h[i - 1] = f[i - 1]
      BY <3>1, Zenon
    <3>3. i # m => i \in 0 .. m - 1
      OBVIOUS
    <3>4. i # m => f[i] = IF i = 0 THEN a ELSE g[i][f[i - 1]]
      BY <2>1, <3>3, Zenon DEF Iterates
    <3>5. h1[i] = IF i = 0 THEN a ELSE g[i][h[i - 1]]
      BY Zenon
    <3>6. h[i] = IF i = m THEN g[m][f[m - 1]] ELSE f[i]
      BY Zenon
    <3>7. m # 0
      OBVIOUS
    <3> HIDE DEF h, h1
    <3> QED
      BY <3>2, <3>4, <3>5, <3>6, <3>7, Zenon
  <2>5. h = h1
    BY <2>4, Zenon
  <2>6. Iterates(a, g, m, h)
    BY <2>5, Zenon DEF Iterates
  <2> HIDE DEF h
  <2> QED
    BY <2>3, <2>6, Zenon
<1>3. n \in P
  <2> HIDE DEF P
  <2> QED
    BY <1>1, <1>2, Induction, Zenon
<1> QED
  BY <1>3, Zenon

(* A function whose values go back to smaller arguments, or begin.         *)
GoesBack(b, g, d, n, f) ==
  f = [k \in 1 .. n |-> IF d[k] = 0 THEN b[k] ELSE g[k][f[d[k]]]]

(* There is one.                                                           *)
LEMMA BackwardExists ==
  ASSUME NEW S, NEW n \in Nat, NEW b \in [1 .. n -> S], NEW g \in [1 .. n -> [S -> S]],
         NEW d \in [1 .. n -> Nat], \A k \in 1 .. n : d[k] < k
  PROVE  \E f \in [1 .. n -> S] : GoesBack(b, g, d, n, f)
<1> DEFINE P == {m \in 0 .. n : \E f \in [1 .. m -> S] : GoesBack(b, g, d, m, f)}
<1>1. 0 \in P
  <2> DEFINE e == [k \in 1 .. 0 |-> b[k]]
  <2>0. 1 .. 0 = {} /\ 0 \in 0 .. n
    BY SMT
  <2>1. e = [k \in 1 .. 0 |-> IF d[k] = 0 THEN b[k] ELSE g[k][e[d[k]]]]
    BY <2>0, SMT
  <2>2. e \in [1 .. 0 -> S]
    BY <2>0, SMT
  <2> HIDE DEF e
  <2> QED
    BY <2>0, <2>1, <2>2, Zenon DEF GoesBack
<1>2. \A m \in 1 .. n : m - 1 \in P => m \in P
  <2> TAKE m \in 1 .. n
  <2> HAVE m - 1 \in P
  <2>1. PICK f \in [1 .. m - 1 -> S] : GoesBack(b, g, d, m - 1, f)
    BY Zenon
  <2> DEFINE last == IF d[m] = 0 THEN b[m] ELSE g[m][f[d[m]]]
             h == [k \in 1 .. m |-> IF k = m THEN last ELSE f[k]]
             h1 == [k \in 1 .. m |-> IF d[k] = 0 THEN b[k] ELSE g[k][h[d[k]]]]
  <2>0. \A k \in 1 .. m : k \in 1 .. n /\ d[k] \in Nat /\ d[k] < k
    BY SMT
  <2>00. \A k \in 1 .. m : d[k] # 0 => d[k] \in 1 .. m - 1 /\ d[k] \in 1 .. m /\ d[k] # m
    BY <2>0, SMT
  <2>2. last \in S
    <3>1. m \in 1 .. m /\ m \in 1 .. n
      BY SMT
    <3>2. d[m] # 0 => f[d[m]] \in S
      BY <2>00, <3>1, Zenon
    <3>3. b[m] \in S /\ g[m] \in [S -> S]
      BY <3>1, Zenon
    <3>4. d[m] # 0 => g[m][f[d[m]]] \in S
      BY <3>2, <3>3, Zenon
    <3> QED
      BY <3>3, <3>4, Zenon
  <2>3. h \in [1 .. m -> S] /\ m \in 0 .. n
    <3> HIDE DEF last
    <3> QED
      BY <2>2
  <2>4. ASSUME NEW k \in 1 .. m
        PROVE  h[k] = h1[k]
    <3>1. d[k] # 0 => h[d[k]] = f[d[k]]
      BY <2>00, Zenon
    <3>2. k # m => k \in 1 .. m - 1
      OBVIOUS
    <3>3. k # m => f[k] = IF d[k] = 0 THEN b[k] ELSE g[k][f[d[k]]]
      BY <2>1, <3>2, Zenon DEF GoesBack
    <3>4. h1[k] = IF d[k] = 0 THEN b[k] ELSE g[k][h[d[k]]]
      BY Zenon
    <3>5. h[k] = IF k = m THEN (IF d[m] = 0 THEN b[m] ELSE g[m][f[d[m]]]) ELSE f[k]
      BY Zenon
    <3> HIDE DEF h, h1
    <3> QED
      BY <3>1, <3>3, <3>4, <3>5, Zenon
  <2>5. h = h1
    BY <2>4, Zenon
  <2>6. GoesBack(b, g, d, m, h)
    BY <2>5, Zenon DEF GoesBack
  <2> HIDE DEF h
  <2> QED
    BY <2>3, <2>6, Zenon
<1>3. n \in P
  <2> HIDE DEF P
  <2> QED
    BY <1>1, <1>2, Induction, Zenon
<1> QED
  BY <1>3, Zenon

-----------------------------------------------------------------------------
(* FlattenSeq                                                              *)

(* The recursive function of FlattenSeq, for the first n sequences.        *)
Flattening(ss, n, f) ==
  f = [i \in 1 .. n |-> IF i = 1 THEN ss[i] ELSE f[i - 1] \o ss[i]]

FlatteningStep(ss, f, i) == f[i] = IF i = 1 THEN ss[i] ELSE f[i - 1] \o ss[i]

LEMMA FlatteningAt ==
  ASSUME NEW ss, NEW n, NEW f, Flattening(ss, n, f), NEW i \in 1 .. n
  PROVE  FlatteningStep(ss, f, i)
<1> DEFINE g == [k \in 1 .. n |-> IF k = 1 THEN ss[k] ELSE f[k - 1] \o ss[k]]
<1>1. f = g
  BY Zenon DEF Flattening
<1>2. g[i] = IF i = 1 THEN ss[i] ELSE f[i - 1] \o ss[i]
  BY Zenon
<1> HIDE DEF g
<1> QED
  BY <1>1, <1>2, Zenon DEF FlatteningStep

(* There is one for every sequence of sequences.                           *)
LEMMA FlatteningExists ==
  ASSUME NEW S, NEW ss, NEW n \in Nat, \A i \in 1 .. n : ss[i] \in Seq(S)
  PROVE  \E f \in [1 .. n -> Seq(S)] : Flattening(ss, n, f)
<1> DEFINE Steps(f, k) == \A i \in 1 .. k : /\ i = 1 => f[i] = ss[i]
                                            /\ i # 1 => f[i] = f[i - 1] \o ss[i]
           P == {k \in 0 .. n : \E f \in [1 .. k -> Seq(S)] : Steps(f, k)}
<1>1. 0 \in P
  <2> DEFINE e == [i \in 1 .. 0 |-> ss[1]]
  <2>1. e \in [1 .. 0 -> Seq(S)] /\ 0 \in 0 .. n
    BY SMT
  <2>2. \A i \in 1 .. 0 : FALSE
    BY SMT
  <2> HIDE DEF e
  <2> QED
    BY <2>1, <2>2, Zenon
<1>2. \A k \in 1 .. n : k - 1 \in P => k \in P
  <2> TAKE k \in 1 .. n
  <2> HAVE k - 1 \in P
  <2>1. PICK f \in [1 .. k - 1 -> Seq(S)] : Steps(f, k - 1)
    OBVIOUS
  <2> DEFINE last == IF k = 1 THEN ss[k] ELSE f[k - 1] \o ss[k]
             g == [i \in 1 .. k |-> IF i = k THEN last ELSE f[i]]
  <2>2. last \in Seq(S)
    BY <2>1
  <2>3. g \in [1 .. k -> Seq(S)]
    <3> HIDE DEF last
    <3> QED
      BY <2>1, <2>2
  <2>4. ASSUME NEW i \in 1 .. k
        PROVE  /\ i = 1 => g[i] = ss[i]
               /\ i # 1 => g[i] = g[i - 1] \o ss[i]
    <3>1. i # 1 => i - 1 \in 1 .. k - 1 /\ i - 1 # k /\ i - 1 \in 1 .. k
      OBVIOUS
    <3>2. i # k => i \in 1 .. k - 1
      OBVIOUS
    <3>3. i # 1 => g[i - 1] = f[i - 1]
      BY <3>1
    <3>4. i # k => g[i] = f[i]
      BY Zenon
    <3>5. i = k => g[i] = last
      BY Zenon
    <3> HIDE DEF g
    <3> QED
      BY <2>1, <3>2, <3>3, <3>4, <3>5, Zenon
  <2>5. k \in 0 .. n
    OBVIOUS
  <2> HIDE DEF g
  <2> QED
    BY <2>3, <2>4, <2>5
<1>3. n \in P
  <2> HIDE DEF P
  <2> QED
    BY <1>1, <1>2, Induction, Zenon
<1>4. PICK f \in [1 .. n -> Seq(S)] : Steps(f, n)
  BY <1>3
<1>5. ASSUME NEW i \in 1 .. n
      PROVE  f[i] = IF i = 1 THEN ss[i] ELSE f[i - 1] \o ss[i]
  BY <1>4, Zenon
<1> DEFINE g == [i \in 1 .. n |-> IF i = 1 THEN ss[i] ELSE f[i - 1] \o ss[i]]
<1>6. f = [i \in 1 .. n |-> f[i]]
  BY <1>4, Zenon
<1>7. f = g
  BY <1>5, <1>6, Zenon
<1> QED
  BY <1>7, Zenon DEF Flattening

(* Two of them are the same as far as their sequences are.                 *)
Agree(s, t, n) == \A i \in 1 .. n : s[i] = t[i]

LEMMA FlatteningUnique ==
  ASSUME NEW ss, NEW tt, NEW f, NEW g, NEW m \in Nat, NEW k \in Nat, NEW n \in Nat,
         Flattening(ss, m, f), Flattening(tt, k, g), n <= m, n <= k, Agree(ss, tt, n)
  PROVE  Agree(f, g, n)
<1>0. \A i \in 1 .. n : ss[i] = tt[i]
  BY Zenon DEF Agree
<1>1. ASSUME NEW i \in 1 .. n
      PROVE  FlatteningStep(ss, f, i)
  <2>1. i \in 1 .. m
    OBVIOUS
  <2> QED
    BY <2>1, FlatteningAt, Zenon
<1>2. ASSUME NEW i \in 1 .. n
      PROVE  FlatteningStep(tt, g, i)
  <2>1. i \in 1 .. k
    OBVIOUS
  <2> QED
    BY <2>1, FlatteningAt, Zenon
<1> DEFINE P == {i \in 0 .. n : i # 0 => f[i] = g[i]}
<1>3. 0 \in P
  OBVIOUS
<1>4. ASSUME NEW i \in 1 .. n, i - 1 \in P
      PROVE  i \in P
  <2>1. i # 1 => i - 1 # 0
    OBVIOUS
  <2>2. i # 1 => f[i - 1] = g[i - 1]
    BY <1>4, <2>1, Zenon
  <2>3. f[i] = g[i]
    <3> HIDE DEF P
    <3> QED
      BY <1>0, <1>1, <1>2, <2>2, Zenon DEF FlatteningStep
  <2>4. i \in 0 .. n
    OBVIOUS
  <2> QED
    BY <2>3, <2>4, Zenon
<1>5. \A i \in 0 .. n : i \in P
  <2> HIDE DEF P
  <2> QED
    BY <1>3, <1>4, Induction, Zenon
<1>6. ASSUME NEW i \in 1 .. n
      PROVE  f[i] = g[i]
  <2>1. i \in 0 .. n /\ i # 0
    OBVIOUS
  <2> QED
    BY <1>5, <2>1, Zenon
<1> QED
  BY <1>6, Zenon DEF Agree

(* FlattenSeq returns the last value of the function, whichever one takes. *)
LEMMA FlattenUnfold ==
  ASSUME NEW S, NEW ss, NEW n \in Nat \ {0}, Len(ss) = n,
         \A i \in 1 .. n : ss[i] \in Seq(S)
  PROVE  \E f \in [1 .. n -> Seq(S)] : Flattening(ss, n, f) /\ FlattenSeq(ss) = f[n]
<1> DEFINE F == CHOOSE f : Flattening(ss, n, f)
<1>1. FlattenSeq(ss) = F[n]
  BY Zenon DEF FlattenSeq, Flattening
<1>2. PICK g \in [1 .. n -> Seq(S)] : Flattening(ss, n, g)
  BY FlatteningExists
<1>3. Flattening(ss, n, F)
  BY <1>2, Zenon
<1> HIDE DEF F
<1>4. F[n] = g[n]
  <2>1. Agree(ss, ss, n) /\ n \in Nat /\ n <= n /\ n \in 1 .. n
    BY DEF Agree
  <2>2. Agree(F, g, n)
    BY <1>2, <1>3, <2>1, FlatteningUnique, Zenon
  <2> QED
    BY <2>1, <2>2, Zenon DEF Agree
<1> QED
  BY <1>1, <1>2, <1>4

(* FlattenSeq of nothing is nothing.                                       *)
LEMMA FlattenEmpty ==
  FlattenSeq(<< >>) = << >>
  BY Zenon, EmptySeq DEF FlattenSeq

(* FlattenSeq puts the sequences behind each other.                        *)
LEMMA FlattenAppend ==
  ASSUME NEW S, NEW ss \in Seq(Seq(S)), NEW s \in Seq(S)
  PROVE  /\ FlattenSeq(ss) \in Seq(S)
         /\ FlattenSeq(Append(ss, s)) = FlattenSeq(ss) \o s
<1> DEFINE tt == Append(ss, s)
<1>0. PICK n \in Nat : n = Len(ss)
  OBVIOUS
<1>1. /\ n + 1 \in Nat \ {0} /\ Len(tt) = n + 1 /\ tt[n + 1] = s
      /\ \A i \in 1 .. n : tt[i] = ss[i] /\ ss[i] \in Seq(S)
  BY <1>0, AppendProperties
<1> HIDE DEF tt
<1>2. \A i \in 1 .. n + 1 : tt[i] \in Seq(S)
  BY <1>1
<1>3. PICK g \in [1 .. n + 1 -> Seq(S)] : Flattening(tt, n + 1, g) /\ FlattenSeq(tt) = g[n + 1]
  BY <1>1, <1>2, FlattenUnfold
<1>6. \A i \in 1 .. n + 1 : FlatteningStep(tt, g, i)
  BY <1>3, FlatteningAt, Zenon
<1>4. CASE n = 0
  <2>1. FlattenSeq(ss) = << >>
    <3>1. ss = << >>
      BY <1>0, <1>4, EmptySeq
    <3> QED
      BY <3>1, FlattenEmpty, Zenon
  <2>2. 1 \in 1 .. n + 1 /\ n + 1 = 1
    BY <1>4
  <2>3. g[1] = tt[1]
    BY <1>6, <2>2, Zenon DEF FlatteningStep
  <2> QED
    BY <1>1, <1>3, <2>1, <2>2, <2>3 DEF tt
<1>5. CASE n # 0
  <2>1. PICK f \in [1 .. n -> Seq(S)] : Flattening(ss, n, f) /\ FlattenSeq(ss) = f[n]
    <3>1. n \in Nat \ {0} /\ Len(ss) = n /\ \A i \in 1 .. n : ss[i] \in Seq(S)
      BY <1>0, <1>1, <1>5
    <3> QED
      BY <3>1, FlattenUnfold, Zenon
  <2>2. n \in 1 .. n /\ 1 .. n \subseteq 1 .. n + 1 /\ n + 1 \in 1 .. n + 1 /\ n + 1 # 1
        /\ n + 1 - 1 = n
    BY <1>5
  <2>3. f[n] = g[n]
    <3>1. Agree(ss, tt, n) /\ n + 1 \in Nat /\ n <= n /\ n <= n + 1
      BY <1>1 DEF Agree
    <3>2. Agree(f, g, n)
      BY <1>3, <2>1, <3>1, FlatteningUnique, Zenon
    <3> QED
      BY <2>2, <3>2, Zenon DEF Agree
  <2>4. PICK i \in 1 .. n + 1 : i = n + 1
    BY <2>2
  <2>5. i # 1 /\ i - 1 = n
    BY <2>2, <2>4
  <2>6. FlatteningStep(tt, g, i)
    BY <1>6, <2>4, Zenon
  <2>7. g[i] = g[n] \o tt[i]
    BY <2>5, <2>6, Zenon DEF FlatteningStep
  <2>8. f[n] \in Seq(S)
    BY <2>1, <2>2
  <2> QED
    BY <1>1, <1>3, <2>1, <2>3, <2>4, <2>7, <2>8, Zenon DEF tt
<1> QED
  BY <1>4, <1>5

LEMMA FlattenOne ==
  ASSUME NEW S, NEW s \in Seq(S)
  PROVE  FlattenSeq(<<s>>) = s
<1>1. << >> \in Seq(Seq(S)) /\ Append(<< >>, s) = <<s>>
  OBVIOUS
<1>2. FlattenSeq(Append(<< >>, s)) = << >> \o s
  BY <1>1, FlattenAppend, FlattenEmpty
<1> QED
  BY <1>1, <1>2

(* Sequences, one element at a time.                                       *)
LEMMA SubSeqAppend ==
  ASSUME NEW S, NEW s \in Seq(S), NEW i \in 1 .. Len(s)
  PROVE  SubSeq(s, 1, i) = Append(SubSeq(s, 1, i - 1), s[i])
<1>1. SubSeq(s, 1, i) = SubSeq(s, 1, i - 1) \o <<s[i]>>
  BY SubSeqRecursiveSecond, 1 \in 1 .. Len(s), i \in 1 .. Len(s)
<1>2. SubSeq(s, 1, i - 1) \in Seq(S) /\ s[i] \in S
  OBVIOUS
<1> QED
  BY <1>1, <1>2, AppendIsConcat

LEMMA ConcatAppend ==
  ASSUME NEW S, NEW s \in Seq(S), NEW t \in Seq(S), NEW e \in S
  PROVE  s \o Append(t, e) = Append(s \o t, e)
  BY SMT

LEMMA ConcatAt ==
  ASSUME NEW S, NEW s \in Seq(S), NEW t \in Seq(S), NEW u \in Seq(S),
         Len(u) = Len(s) + Len(t), \A k \in 1 .. Len(s) : u[k] = s[k],
         \A k \in 1 .. Len(t) : u[Len(s) + k] = t[k]
  PROVE  u = s \o t
<1>1. s \o t \in Seq(S) /\ Len(s \o t) = Len(u)
  OBVIOUS
<1>2. ASSUME NEW k \in 1 .. Len(u)
      PROVE  u[k] = (s \o t)[k]
  <2>1. CASE k <= Len(s)
    BY <2>1
  <2>2. CASE k > Len(s)
    <3>1. PICK j \in 1 .. Len(t) : k = Len(s) + j
      <4>1. k - Len(s) \in 1 .. Len(t) /\ k = Len(s) + (k - Len(s))
        BY <2>2
      <4> QED
        BY <4>1
    <3> QED
      BY <3>1
  <2> QED
    BY <2>1, <2>2
<1> QED
  BY <1>1, <1>2, SeqEqual

(* A sequence is its head and its tail; a part, and the rest.              *)
LEMMA HeadTail ==
  ASSUME NEW S, NEW s \in Seq(S), s # << >>
  PROVE  /\ Head(s) \in S /\ Head(s) = s[1] /\ Tail(s) \in Seq(S)
         /\ Len(s) >= 1 /\ Len(Tail(s)) = Len(s) - 1
         /\ \A k \in 1 .. Len(s) - 1 : Tail(s)[k] = s[k + 1]
         /\ s = <<Head(s)>> \o Tail(s)
<1>1. /\ Head(s) \in S /\ Head(s) = s[1] /\ Tail(s) \in Seq(S)
      /\ Len(s) >= 1 /\ Len(Tail(s)) = Len(s) - 1
      /\ \A k \in 1 .. Len(s) - 1 : Tail(s)[k] = s[k + 1]
  BY EmptySeq
<1>2. s = <<Head(s)>> \o Tail(s)
  BY <1>1, ConcatAt
<1> QED
  BY <1>1, <1>2

LEMMA SplitAt ==
  ASSUME NEW S, NEW s \in Seq(S), NEW n \in 0 .. Len(s)
  PROVE  /\ SubSeq(s, 1, n) \in Seq(S) /\ SubSeq(s, n + 1, Len(s)) \in Seq(S)
         /\ Len(SubSeq(s, 1, n)) = n
         /\ s = SubSeq(s, 1, n) \o SubSeq(s, n + 1, Len(s))
<1> DEFINE x == SubSeq(s, 1, n)
           y == SubSeq(s, n + 1, Len(s))
<1>1. /\ x \in Seq(S) /\ Len(x) = n /\ \A k \in 1 .. n : s[k] = x[k]
      /\ y \in Seq(S) /\ Len(y) = Len(s) - n /\ \A k \in 1 .. Len(s) - n : s[n + k] = y[k]
  OBVIOUS
<1> HIDE DEF x, y
<1>2. s = x \o y
  <2>1. /\ Len(s) = Len(x) + Len(y)
        /\ \A k \in 1 .. Len(x) : s[k] = x[k]
        /\ \A k \in 1 .. Len(y) : s[Len(x) + k] = y[k]
    BY <1>1
  <2> QED
    BY <1>1, <2>1, ConcatAt, Zenon
<1> QED
  BY <1>1, <1>2 DEF x, y

LEMMA CutConcat ==
  ASSUME NEW S, NEW s \in Seq(S), NEW t \in Seq(S)
  PROVE  Len(s) \in 0 .. Len(s \o t) /\ SubSeq(s \o t, 1, Len(s)) = s
<1>1. /\ SubSeq(s \o t, 1, Len(s)) \in Seq(S) /\ Len(s) \in 0 .. Len(s \o t)
      /\ Len(SubSeq(s \o t, 1, Len(s))) = Len(s)
      /\ \A k \in 1 .. Len(s) : SubSeq(s \o t, 1, Len(s))[k] = s[k]
  OBVIOUS
<1> QED
  BY <1>1, SeqEqual

LEMMA RemoveMiddle ==
  ASSUME NEW S, NEW s \in Seq(S), NEW t \in Seq(S), NEW e \in S
  PROVE  /\ Len(s) + 1 \in DOMAIN (s \o (<<e>> \o t))
         /\ RemoveAt(s \o (<<e>> \o t), Len(s) + 1) = s \o t
<1> DEFINE u == s \o (<<e>> \o t)
           n == Len(s) + 1
<1>1. /\ u \in Seq(S) /\ Len(u) = Len(s) + 1 + Len(t)
      /\ \A k \in 1 .. Len(s) : u[k] = s[k]
      /\ \A k \in 1 .. Len(t) : u[n + k] = t[k]
  OBVIOUS
<1>2. n \in DOMAIN u
  OBVIOUS
<1> HIDE DEF u
<1>3. /\ SubSeq(u, 1, n - 1) \in Seq(S) /\ Len(SubSeq(u, 1, n - 1)) = Len(s)
      /\ \A k \in 1 .. Len(s) : SubSeq(u, 1, n - 1)[k] = s[k]
  BY <1>1
<1>4. SubSeq(u, 1, n - 1) = s
  BY <1>3, SeqEqual
<1>5. /\ SubSeq(u, n + 1, Len(u)) \in Seq(S) /\ Len(SubSeq(u, n + 1, Len(u))) = Len(t)
      /\ \A k \in 1 .. Len(t) : SubSeq(u, n + 1, Len(u))[k] = t[k]
  BY <1>1
<1>6. SubSeq(u, n + 1, Len(u)) = t
  BY <1>5, SeqEqual
<1>7. RemoveAt(u, n) = SubSeq(u, 1, n - 1) \o SubSeq(u, n + 1, Len(u))
  BY Zenon DEF RemoveAt
<1> QED
  BY <1>2, <1>4, <1>6, <1>7, Zenon DEF u

LEMMA FlattenConcat ==
  ASSUME NEW S, NEW ss \in Seq(Seq(S)), NEW tt \in Seq(Seq(S))
  PROVE  FlattenSeq(ss \o tt) = FlattenSeq(ss) \o FlattenSeq(tt)
<1> DEFINE Holds(u) == FlattenSeq(ss \o u) = FlattenSeq(ss) \o FlattenSeq(u)
           P == {n \in 0 .. Len(tt) : Holds(SubSeq(tt, 1, n))}
<1>0. FlattenSeq(ss) \in Seq(S)
  BY FlattenAppend, EmptySeq
<1>1. Holds(<< >>)
  BY <1>0, FlattenEmpty, ConcatEmptySeq, Zenon
<1>2. ASSUME NEW u \in Seq(Seq(S)), NEW s \in Seq(S), Holds(u)
      PROVE  Holds(Append(u, s))
  <2>1. ss \o Append(u, s) = Append(ss \o u, s)
    BY ConcatAppend, SMT
  <2>2. ss \o u \in Seq(Seq(S))
    OBVIOUS
  <2>3. FlattenSeq(ss \o Append(u, s)) = (FlattenSeq(ss) \o FlattenSeq(u)) \o s
    BY <1>2, <2>1, <2>2, FlattenAppend, Zenon
  <2>4. FlattenSeq(Append(u, s)) = FlattenSeq(u) \o s /\ FlattenSeq(u) \in Seq(S)
    BY FlattenAppend, Zenon
  <2> DEFINE x == FlattenSeq(ss)
             y == FlattenSeq(u)
  <2>5. x \in Seq(S) /\ y \in Seq(S)
    BY <1>0, <2>4, Zenon
  <2>6. (x \o y) \o s = x \o (y \o s)
    <3> HIDE DEF x, y
    <3> QED
      BY <2>5, SMT
  <2> QED
    BY <2>3, <2>4, <2>6
<1> HIDE DEF Holds
<1>3. PICK n \in Nat : n = Len(tt)
  OBVIOUS
<1>4. 0 \in P
  <2>1. SubSeq(tt, 1, 0) = << >> /\ 0 \in 0 .. Len(tt)
    BY SMT
  <2> QED
    BY <1>1, <2>1, Zenon
<1>5. ASSUME NEW i \in 1 .. n, i - 1 \in P
      PROVE  i \in P
  <2>1. Holds(SubSeq(tt, 1, i - 1))
    BY <1>5, Zenon
  <2>2. SubSeq(tt, 1, i - 1) \in Seq(Seq(S)) /\ tt[i] \in Seq(S) /\ i \in 0 .. Len(tt)
    BY <1>3
  <2>3. SubSeq(tt, 1, i) = Append(SubSeq(tt, 1, i - 1), tt[i])
    BY <1>3, SubSeqAppend
  <2>4. Holds(SubSeq(tt, 1, i))
    BY <1>2, <2>1, <2>2, <2>3, Zenon
  <2> QED
    BY <2>2, <2>4, Zenon
<1>6. n \in P
  <2> HIDE DEF P
  <2> QED
    BY <1>4, <1>5, Induction, Zenon
<1>7. SubSeq(tt, 1, n) = tt
  BY <1>3, SubSeqFull, Zenon
<1> QED
  BY <1>6, <1>7, Zenon DEF Holds

-----------------------------------------------------------------------------
(* What the elements of a sequence stand for, one behind the other         *)

Marks(f, s) == [k \in DOMAIN s |-> f[s[k]]]
Collected(f, s) == FlattenSeq(Marks(f, s))

IsMark(f, B, S) == f \in [B -> Seq(S)]

LEMMA MarksFacts ==
  ASSUME NEW B, NEW S, NEW f, IsMark(f, B, S), NEW s \in Seq(B)
  PROVE  /\ Marks(f, s) \in Seq(Seq(S))
         /\ Len(Marks(f, s)) = Len(s)
         /\ \A k \in 1 .. Len(s) : Marks(f, s)[k] = f[s[k]]
<1>1. PICK n \in Nat : n = Len(s)
  OBVIOUS
<1>2. Marks(f, s) = [k \in 1 .. n |-> f[s[k]]]
  BY <1>1 DEF Marks
<1>3. \A k \in 1 .. n : f[s[k]] \in Seq(S)
  BY <1>1 DEF IsMark
<1>4. Marks(f, s) \in [1 .. n -> Seq(S)]
  BY <1>2, <1>3
<1> QED
  BY <1>1, <1>2, <1>4

LEMMA CollectedType ==
  ASSUME NEW B, NEW S, NEW f, IsMark(f, B, S), NEW s \in Seq(B)
  PROVE  Collected(f, s) \in Seq(S)
<1>1. Marks(f, s) \in Seq(Seq(S))
  BY MarksFacts
<1> DEFINE x == Marks(f, s)
<1> HIDE DEF x
<1>2. FlattenSeq(x) \in Seq(S)
  BY <1>1, FlattenAppend, EmptySeq DEF x
<1> QED
  BY <1>2, Zenon DEF Collected, x

LEMMA MarksConcat ==
  ASSUME NEW B, NEW S, NEW f, IsMark(f, B, S), NEW s \in Seq(B), NEW t \in Seq(B)
  PROVE  Marks(f, s \o t) = Marks(f, s) \o Marks(f, t)
<1> DEFINE T == Seq(S)
           x == Marks(f, s)
           y == Marks(f, t)
           z == Marks(f, s \o t)
<1>1. s \o t \in Seq(B) /\ Len(s \o t) = Len(s) + Len(t)
  OBVIOUS
<1>2. x \in Seq(T) /\ Len(x) = Len(s) /\ \A k \in 1 .. Len(s) : x[k] = f[s[k]]
  BY MarksFacts
<1>3. y \in Seq(T) /\ Len(y) = Len(t) /\ \A k \in 1 .. Len(t) : y[k] = f[t[k]]
  BY MarksFacts
<1>4. z \in Seq(T) /\ Len(z) = Len(s \o t)
      /\ \A k \in 1 .. Len(s \o t) : z[k] = f[(s \o t)[k]]
  <2> DEFINE u == s \o t
  <2>1. u \in Seq(B)
    BY <1>1
  <2> HIDE DEF u
  <2>2. Marks(f, u) \in Seq(T) /\ Len(Marks(f, u)) = Len(u)
        /\ \A k \in 1 .. Len(u) : Marks(f, u)[k] = f[u[k]]
    BY <2>1, MarksFacts
  <2> QED
    BY <2>2, Zenon DEF u
<1> HIDE DEF x, y, z
<1>5. ASSUME NEW k \in 1 .. Len(s)
      PROVE  z[k] = x[k]
  <2>1. k \in 1 .. Len(s \o t) /\ (s \o t)[k] = s[k]
    BY <1>1
  <2> QED
    BY <1>2, <1>4, <2>1, Zenon
<1>6. ASSUME NEW k \in 1 .. Len(t)
      PROVE  z[Len(s) + k] = y[k]
  <2>1. Len(s) + k \in 1 .. Len(s \o t) /\ (s \o t)[Len(s) + k] = t[k]
    BY <1>1
  <2> QED
    BY <1>3, <1>4, <2>1, Zenon
<1>7. x \in Seq(T) /\ y \in Seq(T) /\ z \in Seq(T) /\ Len(z) = Len(x) + Len(y)
  BY <1>1, <1>2, <1>3, <1>4
<1>8. /\ \A k \in 1 .. Len(x) : z[k] = x[k]
      /\ \A k \in 1 .. Len(y) : z[Len(x) + k] = y[k]
  BY <1>2, <1>3, <1>5, <1>6, Zenon
<1> HIDE DEF T
<1>9. z = x \o y
  BY <1>7, <1>8, ConcatAt, Zenon
<1> QED
  BY <1>9, Zenon DEF x, y, z

LEMMA CollectedConcat ==
  ASSUME NEW B, NEW S, NEW f, IsMark(f, B, S), NEW s \in Seq(B), NEW t \in Seq(B)
  PROVE  Collected(f, s \o t) = Collected(f, s) \o Collected(f, t)
<1> DEFINE x == Marks(f, s)
           y == Marks(f, t)
<1>1. x \in Seq(Seq(S)) /\ y \in Seq(Seq(S))
  BY MarksFacts
<1>2. Marks(f, s \o t) = x \o y
  BY MarksConcat
<1> HIDE DEF x, y
<1>3. FlattenSeq(x \o y) = FlattenSeq(x) \o FlattenSeq(y)
  BY <1>1, FlattenConcat
<1> QED
  BY <1>2, <1>3, Zenon DEF Collected, x, y

LEMMA CollectedEmpty ==
  ASSUME NEW f
  PROVE  Collected(f, << >>) = << >>
<1>1. [k \in DOMAIN << >> |-> f[<< >>[k]]] = << >>
  OBVIOUS
<1> QED
  BY <1>1, FlattenEmpty, Zenon DEF Collected, Marks

LEMMA CollectedOne ==
  ASSUME NEW B, NEW S, NEW f, IsMark(f, B, S), NEW b \in B
  PROVE  Collected(f, <<b>>) = f[b]
<1>1. <<b>> \in Seq(B)
  OBVIOUS
<1> DEFINE x == Marks(f, <<b>>)
           c == f[b]
<1>2. c \in Seq(S)
  BY DEF IsMark
<1>3. x \in Seq(Seq(S)) /\ Len(x) = 1 /\ x[1] = c
  <2>1. Len(<<b>>) = 1 /\ 1 \in 1 .. Len(<<b>>) /\ <<b>>[1] = b
    OBVIOUS
  <2> DEFINE u == <<b>>
  <2>2. u \in Seq(B) /\ Len(u) = 1 /\ u[1] = b /\ 1 \in 1 .. Len(u)
    BY <1>1
  <2> HIDE DEF u
  <2>3. Marks(f, u) \in Seq(Seq(S)) /\ Len(Marks(f, u)) = Len(u) /\ Marks(f, u)[1] = f[u[1]]
    BY <2>2, MarksFacts
  <2> QED
    BY <2>2, <2>3, Zenon DEF u
<1> HIDE DEF x, c
<1>4. x = <<c>>
  BY <1>3
<1>5. Collected(f, <<b>>) = FlattenSeq(x)
  BY Zenon DEF Collected, x
<1> QED
  BY <1>2, <1>4, <1>5, FlattenOne DEF c

LEMMA CollectedNone ==
  ASSUME NEW B, NEW S, NEW f, IsMark(f, B, S), NEW s \in Seq(B),
         \A k \in 1 .. Len(s) : f[s[k]] = << >>
  PROVE  Collected(f, s) = << >>
<1> DEFINE P == {k \in 0 .. Len(s) : Collected(f, SubSeq(s, 1, k)) = << >>}
<1>1. PICK n \in Nat : n = Len(s)
  OBVIOUS
<1>2. 0 \in P
  <2>1. SubSeq(s, 1, 0) = << >> /\ 0 \in 0 .. Len(s)
    BY SMT
  <2> QED
    BY <2>1, CollectedEmpty, Zenon
<1>3. ASSUME NEW k \in 1 .. n, k - 1 \in P
      PROVE  k \in P
  <2>1. Collected(f, SubSeq(s, 1, k - 1)) = << >>
    BY <1>3, Zenon
  <2>2. /\ SubSeq(s, 1, k - 1) \in Seq(B) /\ k \in 0 .. Len(s)
        /\ s[k] \in B /\ <<s[k]>> \in Seq(B) /\ f[s[k]] = << >>
    BY <1>1
  <2>3. SubSeq(s, 1, k) = SubSeq(s, 1, k - 1) \o <<s[k]>>
    <3>1. SubSeq(s, 1, k) = Append(SubSeq(s, 1, k - 1), s[k])
      BY <1>1, SubSeqAppend
    <3> QED
      BY <2>2, <3>1, AppendIsConcat
  <2>4. Collected(f, <<s[k]>>) = << >>
    <3> DEFINE b == s[k]
    <3>1. b \in B /\ f[b] = << >>
      BY <2>2
    <3> HIDE DEF b
    <3>2. Collected(f, <<b>>) = f[b]
      BY <3>1, CollectedOne
    <3> QED
      BY <3>1, <3>2, Zenon DEF b
  <2> DEFINE u == SubSeq(s, 1, k - 1)
             v == <<s[k]>>
  <2>5. u \in Seq(B) /\ v \in Seq(B)
    BY <2>2
  <2> HIDE DEF u, v
  <2>6. Collected(f, u \o v) = Collected(f, u) \o Collected(f, v)
    BY <2>5, CollectedConcat
  <2>7. Collected(f, SubSeq(s, 1, k)) = << >> \o << >>
    BY <2>1, <2>3, <2>4, <2>6, Zenon DEF u, v
  <2> QED
    BY <2>2, <2>7
<1>4. n \in P
  <2> HIDE DEF P
  <2> QED
    BY <1>2, <1>3, Induction, Zenon
<1> QED
  BY <1>1, <1>4, SubSeqFull, Zenon

(* If an element stands for one thing or nothing, taking the first takes   *)
(* the first thing or nothing.                                             *)
LEMMA CollectedTail ==
  ASSUME NEW B, NEW S, NEW f, IsMark(f, B, S), NEW s \in Seq(B), s # << >>
  PROVE  /\ f[Head(s)] = << >> => Collected(f, Tail(s)) = Collected(f, s)
         /\ \A e \in S : f[Head(s)] = <<e>> =>
              /\ Collected(f, s) # << >>
              /\ Collected(f, Tail(s)) = Tail(Collected(f, s))
              /\ Head(Collected(f, s)) = e
<1> DEFINE x == Collected(f, Tail(s))
<1>1. Head(s) \in B /\ Tail(s) \in Seq(B) /\ s = <<Head(s)>> \o Tail(s)
  BY HeadTail
<1>2. <<Head(s)>> \in Seq(B)
  BY <1>1
<1>3. Collected(f, s) = f[Head(s)] \o x /\ x \in Seq(S)
  <2> DEFINE b == Head(s)
             u == Tail(s)
  <2>1. b \in B /\ u \in Seq(B) /\ s = <<b>> \o u
    BY <1>1
  <2> HIDE DEF b, u
  <2>2. Collected(f, s) = f[b] \o Collected(f, u)
    <3> DEFINE h == <<b>>
    <3>1. h \in Seq(B) /\ s = h \o u
      BY <2>1
    <3>2. Collected(f, h) = f[b]
      BY <2>1, CollectedOne
    <3> HIDE DEF h
    <3>3. Collected(f, h \o u) = Collected(f, h) \o Collected(f, u)
      BY <2>1, <3>1, CollectedConcat
    <3> QED
      BY <3>1, <3>2, <3>3, Zenon
  <2>3. Collected(f, u) \in Seq(S)
    BY <2>1, CollectedType
  <2> QED
    BY <2>1, <2>2, <2>3, Zenon DEF b, u
<1> HIDE DEF x
<1>4. ASSUME f[Head(s)] = << >>
      PROVE  x = Collected(f, s)
  BY <1>3, <1>4
<1>5. ASSUME NEW e \in S, f[Head(s)] = <<e>>
      PROVE  /\ Collected(f, s) # << >>
             /\ x = Tail(Collected(f, s))
             /\ Head(Collected(f, s)) = e
  <2> DEFINE y == <<e>> \o x
  <2>1. Collected(f, s) = y
    BY <1>3, <1>5, Zenon
  <2>2. y \in Seq(S) /\ Len(y) = 1 + Len(x) /\ y[1] = e
        /\ \A k \in 1 .. Len(x) : y[k + 1] = x[k]
    BY <1>3
  <2> HIDE DEF y
  <2>3. y # << >> /\ Head(y) = e /\ Tail(y) \in Seq(S) /\ Len(Tail(y)) = Len(x)
        /\ \A k \in 1 .. Len(x) : Tail(y)[k] = x[k]
    BY <1>3, <2>2
  <2>4. Tail(y) = x
    BY <1>3, <2>3, SeqEqual
  <2> QED
    BY <2>1, <2>3, <2>4
<1> QED
  BY <1>4, <1>5, Zenon DEF x

(* Cutting a sequence off loses the last things.                           *)
LEMMA CollectedCut ==
  ASSUME NEW B, NEW S, NEW f, IsMark(f, B, S), NEW s \in Seq(B), NEW n \in 0 .. Len(s)
  PROVE  \E k \in 0 .. Len(Collected(f, s)) :
            Collected(f, SubSeq(s, 1, n)) = SubSeq(Collected(f, s), 1, k)
<1> DEFINE x == SubSeq(s, 1, n)
           y == SubSeq(s, n + 1, Len(s))
<1>1. x \in Seq(B) /\ y \in Seq(B) /\ s = x \o y
  BY SplitAt
<1> HIDE DEF x, y
<1> DEFINE p == Collected(f, x)
           q == Collected(f, y)
<1>2. p \in Seq(S) /\ q \in Seq(S) /\ Collected(f, s) = p \o q
  BY <1>1, CollectedConcat, CollectedType
<1> HIDE DEF p, q
<1>3. Len(p) \in 0 .. Len(p \o q) /\ SubSeq(p \o q, 1, Len(p)) = p
  BY <1>2, CutConcat
<1> QED
  BY <1>2, <1>3, Zenon DEF p, x

(* Without one element, one thing is lost at most.                         *)
LEMMA CollectedWithout ==
  ASSUME NEW B, NEW S, NEW f, IsMark(f, B, S), NEW s \in Seq(B), NEW i \in DOMAIN s,
         \A b \in B : f[b] = << >> \/ \E e \in S : f[b] = <<e>>
  PROVE  \/ Collected(f, RemoveAt(s, i)) = Collected(f, s)
         \/ \E k \in DOMAIN Collected(f, s) :
               Collected(f, RemoveAt(s, i)) = RemoveAt(Collected(f, s), k)
<1> DEFINE x == SubSeq(s, 1, i - 1)
           t == SubSeq(s, i, Len(s))
           b == Head(t)
           y == Tail(t)
<1>1. i \in 1 .. Len(s) /\ i - 1 \in 0 .. Len(s) /\ (i - 1) + 1 = i
  OBVIOUS
<1>2. x \in Seq(B) /\ t \in Seq(B) /\ Len(x) = i - 1 /\ s = x \o t
  BY <1>1, SplitAt
<1>3. t # << >>
  <2>1. Len(t) = Len(s) - i + 1
    BY <1>1
  <2> HIDE DEF t
  <2> QED
    BY <1>1, <1>2, <2>1
<1> HIDE DEF x, t
<1>4. b \in B /\ y \in Seq(B) /\ t = <<b>> \o y
  BY <1>2, <1>3, HeadTail
<1> HIDE DEF b, y
<1>5. RemoveAt(s, i) = x \o y
  <2>1. RemoveAt(x \o (<<b>> \o y), Len(x) + 1) = x \o y
    <3>1. x \in Seq(B) /\ b \in B /\ y \in Seq(B)
      BY <1>2, <1>4, Zenon
    <3> QED
      BY <3>1, RemoveMiddle
  <2>2. Len(x) + 1 = i
    BY <1>1, <1>2
  <2> QED
    BY <1>2, <1>4, <2>1, <2>2
<1> DEFINE p == Collected(f, x)
           q == Collected(f, y)
           r == Collected(f, t)
<1>6. /\ p \in Seq(S) /\ q \in Seq(S)
      /\ Collected(f, s) = p \o r /\ Collected(f, RemoveAt(s, i)) = p \o q
  <2>1. p \in Seq(S) /\ q \in Seq(S)
    BY <1>2, <1>4, CollectedType
  <2>2. Collected(f, x \o t) = p \o r
    BY <1>2, CollectedConcat
  <2>3. Collected(f, x \o y) = p \o q
    BY <1>2, <1>4, CollectedConcat
  <2> QED
    BY <1>2, <1>5, <2>1, <2>2, <2>3, Zenon
<1>7. r = f[b] \o q
  <2> DEFINE h == <<b>>
  <2>1. h \in Seq(B) /\ t = h \o y
    BY <1>4
  <2>2. Collected(f, h) = f[b]
    BY <1>4, CollectedOne
  <2> HIDE DEF h
  <2>3. Collected(f, h \o y) = Collected(f, h) \o q
    BY <1>4, <2>1, CollectedConcat
  <2> QED
    BY <2>1, <2>2, <2>3, Zenon
<1> HIDE DEF p, q, r
<1>8. CASE f[b] = << >>
  <2>1. r = q
    BY <1>6, <1>7, <1>8
  <2> QED
    BY <1>6, <2>1, Zenon
<1>9. ASSUME NEW e \in S, f[b] = <<e>>
      PROVE  \E k \in DOMAIN Collected(f, s) :
               Collected(f, RemoveAt(s, i)) = RemoveAt(Collected(f, s), k)
  <2>1. Collected(f, s) = p \o (<<e>> \o q)
    BY <1>6, <1>7, <1>9, Zenon
  <2>2. /\ Len(p) + 1 \in DOMAIN (p \o (<<e>> \o q))
        /\ RemoveAt(p \o (<<e>> \o q), Len(p) + 1) = p \o q
    BY <1>6, RemoveMiddle
  <2> QED
    BY <1>6, <2>1, <2>2, Zenon
<1> QED
  BY <1>4, <1>8, <1>9, Zenon

(* There are not more things than elements.                                *)
LEMMA CollectedLength ==
  ASSUME NEW B, NEW S, NEW f, IsMark(f, B, S), NEW s \in Seq(B),
         \A b \in B : f[b] = << >> \/ \E e \in S : f[b] = <<e>>
  PROVE  Len(Collected(f, s)) <= Len(s)
<1> DEFINE P == {k \in 0 .. Len(s) : Len(Collected(f, SubSeq(s, 1, k))) <= k}
<1>1. PICK n \in Nat : n = Len(s)
  OBVIOUS
<1>2. 0 \in P
  <2>1. SubSeq(s, 1, 0) = << >> /\ 0 \in 0 .. Len(s) /\ Len(<< >>) <= 0
    BY SMT
  <2> QED
    BY <2>1, CollectedEmpty, Zenon
<1>3. ASSUME NEW k \in 1 .. n, k - 1 \in P
      PROVE  k \in P
  <2> DEFINE u == SubSeq(s, 1, k - 1)
             b == s[k]
             h == <<b>>
  <2>1. Len(Collected(f, u)) <= k - 1
    BY <1>3, Zenon
  <2>2. u \in Seq(B) /\ b \in B /\ h \in Seq(B) /\ k \in 0 .. Len(s)
    BY <1>1
  <2>3. SubSeq(s, 1, k) = u \o h
    <3>1. SubSeq(s, 1, k) = Append(u, b)
      BY <1>1, SubSeqAppend
    <3> HIDE DEF u, b
    <3> QED
      BY <2>2, <3>1, AppendIsConcat
  <2> HIDE DEF u, b
  <2>4. Collected(f, h) = f[b]
    BY <2>2, CollectedOne
  <2>5. Len(f[b]) <= 1 /\ Len(f[b]) \in Nat
    <3>1. PICK y : y = f[b]
      OBVIOUS
    <3>2. Len(<< >>) = 0 /\ \A e : Len(<<e>>) = 1
      OBVIOUS
    <3>3. y = << >> \/ \E e \in S : y = <<e>>
      BY <2>2, <3>1, Zenon
    <3>4. Len(y) = 0 \/ Len(y) = 1
      BY <3>2, <3>3, Zenon
    <3>5. \A l \in {0, 1} : l <= 1 /\ l \in Nat
      OBVIOUS
    <3>6. Len(y) <= 1 /\ Len(y) \in Nat
      BY <3>4, <3>5, Zenon
    <3> QED
      BY <3>1, <3>6, Zenon
  <2> HIDE DEF h
  <2>6. Collected(f, u \o h) = Collected(f, u) \o Collected(f, h)
    BY <2>2, CollectedConcat
  <2>7. Collected(f, u) \in Seq(S)
    BY <2>2, CollectedType
  <2>8. f[b] \in Seq(S)
    BY <2>2 DEF IsMark
  <2> DEFINE x == Collected(f, u)
             y == f[b]
  <2>9. Len(x \o y) <= k
    <3>1. x \in Seq(S) /\ y \in Seq(S) /\ Len(x) <= k - 1 /\ Len(y) <= 1
      BY <2>1, <2>5, <2>7, <2>8
    <3> HIDE DEF x, y
    <3>2. Len(x \o y) = Len(x) + Len(y) /\ Len(x) \in Nat /\ Len(y) \in Nat
      BY <3>1
    <3> QED
      BY <3>1, <3>2
  <2>10. Len(Collected(f, SubSeq(s, 1, k))) <= k
    BY <2>3, <2>4, <2>6, <2>9, Zenon
  <2> QED
    BY <2>2, <2>10, Zenon
<1>4. n \in P
  <2> HIDE DEF P
  <2> QED
    BY <1>2, <1>3, Induction, Zenon
<1> QED
  BY <1>1, <1>4, SubSeqFull, Zenon

(* Concatenation may be grouped as one likes.                              *)
LEMMA ConcatRegroup ==
  ASSUME NEW S, NEW a \in Seq(S), NEW b \in Seq(S), NEW c \in Seq(S)
  PROVE  a \o (b \o c) = (a \o b) \o c
  BY ConcatAssociative

(* What a sequence has at the places ix, and places that increase.         *)
Selected(c, m, ix) == [j \in 1 .. m |-> c[ix[j]]]
Places(m, ix, l) ==
  /\ ix \in [1 .. m -> 1 .. l]
  /\ \A i, j \in 1 .. m : i < j => ix[i] < ix[j]

(* The places in K of a sequence, in order, and what there is at them.     *)
MarkAt(s, K, i) == IF i \in K THEN <<s[i]>> ELSE << >>

Enumerates(m, ix, l, K) ==
  /\ Places(m, ix, l)
  /\ \A j \in 1 .. m : ix[j] \in K
  /\ \A i \in K : \E j \in 1 .. m : ix[j] = i

Picked(s, l, K) == FlattenSeq([i \in 1 .. l |-> MarkAt(s, K, i)])

(* The places of a set are the values of an increasing sequence, and what  *)
(* is picked at them is what that sequence selects.                        *)
LEMMA PlacesExist ==
  ASSUME NEW S, NEW s \in Seq(S), NEW l \in Nat, Len(s) = l, NEW K \in SUBSET (1 .. l)
  PROVE  \E m \in Nat : \E ix :
           Enumerates(m, ix, l, K) /\ Picked(s, l, K) = Selected(s, m, ix)
<1> DEFINE marks(k) == [i \in 1 .. k |-> MarkAt(s, K, i)]
           Found(k, m, ix) ==
             /\ Places(m, ix, k)
             /\ \A j \in 1 .. m : ix[j] \in K
             /\ \A i \in K : i <= k => \E j \in 1 .. m : ix[j] = i
             /\ FlattenSeq(marks(k)) = Selected(s, m, ix)
           P == {k \in 0 .. l : \E m \in Nat : \E ix : Found(k, m, ix)}
<1>1. \A i \in 1 .. l : s[i] \in S /\ MarkAt(s, K, i) \in Seq(S)
  BY DEF MarkAt
<1>2. 0 \in P
  <2> DEFINE ix == [j \in 1 .. 0 |-> 1]
  <2>1. Places(0, ix, 0)
    BY DEF Places
  <2>2. marks(0) = << >>
    OBVIOUS
  <2>3. Selected(s, 0, ix) = << >>
    BY DEF Selected
  <2>4. FlattenSeq(marks(0)) = Selected(s, 0, ix)
    BY <2>2, <2>3, FlattenEmpty, Zenon
  <2>5. (\A i \in K : ~(i <= 0)) /\ (\A j \in 1 .. 0 : FALSE) /\ 0 \in 0 .. l /\ 0 \in Nat
    OBVIOUS
  <2> HIDE DEF ix, marks
  <2>6. Found(0, 0, ix)
    BY <2>1, <2>4, <2>5, Zenon
  <2> HIDE DEF Found
  <2> QED
    BY <2>5, <2>6, Zenon
<1>3. ASSUME NEW k \in 1 .. l, k - 1 \in P
      PROVE  k \in P
  <2>1. PICK m \in Nat : \E ix : Found(k - 1, m, ix)
    BY <1>3, Zenon
  <2>2. PICK ix : Found(k - 1, m, ix)
    BY <2>1, Zenon
  <2>3. /\ ix \in [1 .. m -> 1 .. k - 1]
        /\ \A i, j \in 1 .. m : i < j => ix[i] < ix[j]
        /\ \A j \in 1 .. m : ix[j] \in K
        /\ \A i \in K : i <= k - 1 => \E j \in 1 .. m : ix[j] = i
        /\ FlattenSeq(marks(k - 1)) = Selected(s, m, ix)
    BY <2>2, Zenon DEF Places
  <2>4. marks(k - 1) \in Seq(Seq(S)) /\ MarkAt(s, K, k) \in Seq(S)
    BY <1>1
  <2>5. marks(k) = Append(marks(k - 1), MarkAt(s, K, k))
    <3> DEFINE x == marks(k)
               y == marks(k - 1)
               z == MarkAt(s, K, k)
    <3>1. x \in Seq(Seq(S)) /\ Len(x) = k /\ x[k] = z /\ \A i \in 1 .. k - 1 : x[i] = y[i]
      BY <1>1
    <3>2. y \in Seq(Seq(S)) /\ Len(y) = k - 1 /\ z \in Seq(S)
      BY <2>4
    <3> HIDE DEF x, y, z
    <3>3. x = Append(y, z)
      BY <3>1, <3>2
    <3> QED
      BY <3>3, Zenon DEF x, y, z
  <2>6. FlattenSeq(marks(k)) = Selected(s, m, ix) \o MarkAt(s, K, k)
    <3> DEFINE y == marks(k - 1)
               z == MarkAt(s, K, k)
    <3>1. y \in Seq(Seq(S)) /\ z \in Seq(S)
      BY <2>4
    <3>2. FlattenSeq(Append(y, z)) = FlattenSeq(y) \o z
      <4> HIDE DEF y, z
      <4> QED
        BY <3>1, FlattenAppend
    <3> QED
      BY <2>3, <2>5, <3>2, Zenon
  <2>7. Selected(s, m, ix) \in Seq(S) /\ Len(Selected(s, m, ix)) = m
        /\ \A j \in 1 .. m : Selected(s, m, ix)[j] = s[ix[j]]
    BY <1>1, <2>3 DEF Selected
  <2>8. k \in 0 .. l /\ \A i \in 1 .. k - 1 : i \in 1 .. k
    OBVIOUS
  <2> HIDE DEF marks
  <2>9. CASE k \notin K
    <3>1. MarkAt(s, K, k) = << >>
      BY <2>9, Zenon DEF MarkAt
    <3>2. FlattenSeq(marks(k)) = Selected(s, m, ix)
      BY <2>6, <2>7, <3>1
    <3>3. Places(m, ix, k)
      BY <2>3, <2>8 DEF Places
    <3>4. \A i \in K : i <= k => \E j \in 1 .. m : ix[j] = i
      <4>1. \A i \in K : i <= k => i <= k - 1
        BY <2>9
      <4> QED
        BY <2>3, <4>1
    <3>5. Found(k, m, ix)
      BY <2>3, <3>2, <3>3, <3>4, Zenon
    <3> HIDE DEF Found
    <3> QED
      BY <2>8, <3>5, Zenon
  <2>10. CASE k \in K
    <3> DEFINE ix1 == [j \in 1 .. m + 1 |-> IF j <= m THEN ix[j] ELSE k]
    <3>1. (\A j \in 1 .. m : ix1[j] = ix[j] /\ j \in 1 .. m + 1)
          /\ ix1[m + 1] = k /\ m + 1 \in 1 .. m + 1 /\ m + 1 \in Nat
          /\ \A j \in 1 .. m + 1 : j \in 1 .. m \/ j = m + 1
      BY SMT
    <3>2. Places(m + 1, ix1, k)
      <4>1. ix1 \in [1 .. m + 1 -> 1 .. k]
        BY <2>3
      <4>2. ASSUME NEW i \in 1 .. m + 1, NEW j \in 1 .. m + 1, i < j
            PROVE  ix1[i] < ix1[j]
        <5>1. i \in 1 .. m /\ ix1[i] = ix[i] /\ ix[i] \in 1 .. k - 1
          BY <2>3, <3>1, <4>2
        <5>2. CASE j \in 1 .. m
          BY <2>3, <3>1, <4>2, <5>1, <5>2
        <5>3. CASE j = m + 1
          BY <3>1, <5>1, <5>3
        <5> QED
          BY <3>1, <5>2, <5>3
      <4> HIDE DEF ix1
      <4> QED
        BY <4>1, <4>2 DEF Places
    <3> HIDE DEF ix1
    <3>3. \A j \in 1 .. m + 1 : ix1[j] \in K
      BY <2>3, <2>10, <3>1
    <3>4. \A i \in K : i <= k => \E j \in 1 .. m + 1 : ix1[j] = i
      <4>1. \A i \in K : i <= k => i <= k - 1 \/ i = k
        OBVIOUS
      <4> QED
        BY <2>3, <3>1, <4>1
    <3>5. FlattenSeq(marks(k)) = Selected(s, m + 1, ix1)
      <4> DEFINE x == Selected(s, m, ix)
                 y == Selected(s, m + 1, ix1)
                 e == s[k]
      <4>1. MarkAt(s, K, k) = <<e>>
        BY <2>10, Zenon DEF MarkAt
      <4>2. x \in Seq(S) /\ Len(x) = m /\ \A j \in 1 .. m : x[j] = s[ix[j]]
        BY <2>7
      <4>3. e \in S
        BY <1>1
      <4>4. y \in Seq(S) /\ Len(y) = m + 1 /\ \A j \in 1 .. m + 1 : y[j] = s[ix1[j]]
        <5>1. \A j \in 1 .. m + 1 : s[ix1[j]] \in S
          BY <1>1, <3>3
        <5>2. y = [j \in 1 .. m + 1 |-> s[ix1[j]]]
          BY Zenon DEF Selected
        <5>3. y \in [1 .. m + 1 -> S]
          BY <5>1, <5>2, Zenon
        <5> HIDE DEF y
        <5> QED
          BY <3>1, <5>2, <5>3
      <4>5. (\A j \in 1 .. m : y[j] = x[j]) /\ y[m + 1] = e
        BY <3>1, <4>2, <4>4
      <4> HIDE DEF x, y, e
      <4>6. y = x \o <<e>>
        <5>1. x \in Seq(S) /\ y \in Seq(S) /\ Len(x) = m /\ Len(y) = m + 1
          BY <4>2, <4>4
        <5>2. y = Append(x, e)
          BY <4>3, <4>5, <5>1
        <5> QED
          BY <4>3, <5>1, <5>2, AppendIsConcat
      <4> QED
        BY <2>6, <4>1, <4>6, Zenon DEF x, y
    <3>6. Found(k, m + 1, ix1)
      BY <3>2, <3>3, <3>4, <3>5, Zenon
    <3> HIDE DEF Found
    <3> QED
      BY <2>8, <3>1, <3>6, Zenon
  <2> QED
    BY <2>9, <2>10
<1>4. l \in P
  <2> HIDE DEF P
  <2> QED
    BY <1>2, <1>3, Induction, Zenon
<1>5. PICK m \in Nat : \E ix : Found(l, m, ix)
  BY <1>4, Zenon
<1>6. PICK ix : Found(l, m, ix)
  BY <1>5, Zenon
<1>7. \A i \in K : i <= l
  OBVIOUS
<1> QED
  BY <1>6, <1>7, Zenon DEF Enumerates, Picked
=============================================================================
