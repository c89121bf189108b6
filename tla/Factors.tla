------------------------------ MODULE Factors -------------------------------
(***************************************************************************)
(* Homework 2 (main.c): factors of a number by the primes of a sieve, and  *)
(* of a number of up to 100 digits by long division.                       *)
(***************************************************************************)
EXTENDS Integers, Sequences

CONSTANTS
  range,     \* 1000000 in the code
  sqrt       \* 1000 in the code

(* What the constants must be; assumed where there is an instance.         *)
FactorsAssumption ==
  range \in Nat /\ sqrt \in Nat /\ range > 2 /\ sqrt * sqrt >= range

(* Of what is left, the multiples of i go if i is still there.             *)
Struck(left, i) ==
  IF i \in left THEN {n \in left : n < 2 * i \/ n % i # 0} ELSE left

(* Numbers that the sieve leaves, one pass of its outer loop after another.*)
sieveofErastoten ==
  LET left[i \in 1 .. sqrt] == IF i = 1 THEN 2 .. range - 1 ELSE Struck(left[i - 1], i)
  IN  left[sqrt]

(* How often p divides number, and what is left of it then.                *)
Times(number, p) ==
  LET times[n \in 1 .. number] == IF n % p = 0 THEN 1 + times[n \div p] ELSE 0
  IN  times[number]

Without(number, p) ==
  LET left[n \in 1 .. number] == IF n % p = 0 THEN left[n \div p] ELSE n
  IN  left[number]

(* A plausible slip: the last number of the sieve is left out.             *)
LastTriedEarly == range - 2

LastTried == range - 1

(* One number is tried: if the sieve left it and it divides what the       *)
(* others left, it is a factor.                                            *)
Tried(s, pointer, primes) ==
  IF s.factor # 1 /\ pointer \in primes /\ s.factor % pointer = 0
    THEN [factor |-> Without(s.factor, pointer),
          found |-> Append(s.found, <<pointer, Times(s.factor, pointer)>>)]
    ELSE s

(* The factors that manage_output prints, with their exponents; what the   *)
(* primes leave is printed as it is.                                       *)
manage_output(number) ==
  LET primes == sieveofErastoten
      tried[pointer \in 1 .. LastTried] ==
        IF pointer = 1 THEN [factor |-> number, found |-> << >>]
        ELSE Tried(tried[pointer - 1], pointer, primes)
      end == tried[LastTried]
  IN  IF number = 1 THEN << <<1, 1>> >>
      ELSE IF end.factor = 1 THEN end.found
      ELSE Append(end.found, <<end.factor, 1>>)

(* Does the quotient begin here?                                           *)
Enough(n, divider) == divider <= n

(* A digit more: digits are taken until they make up the divider; every one*)
(* behind gives a digit of the quotient.                                   *)
Taken(s, digit, divider) ==
  LET n == s.n * 10 + digit
  IN  IF s.rest = << >> /\ ~Enough(n, divider)
        THEN [s EXCEPT !.n = n]
        ELSE [rest |-> Append(s.rest, n \div divider), n |-> n % divider]

(* divide: the digits of the quotient, and the remainder.                  *)
divide(num, divider) ==
  LET taken[k \in 0 .. Len(num)] ==
        IF k = 0 THEN [rest |-> << >>, n |-> 0] ELSE Taken(taken[k - 1], num[k], divider)
      end == taken[Len(num)]
  IN  IF end.rest = << >> THEN [rest |-> <<0>>, n |-> end.n] ELSE end

-----------------------------------------------------------------------------
(* References                                                              *)

Prime(n) == n > 1 /\ \A d \in 2 .. n - 1 : n % d # 0

Power(b, e) ==
  LET power[k \in 0 .. e] == IF k = 0 THEN 1 ELSE b * power[k - 1]
  IN  power[e]

Product(factors) ==
  LET product[k \in 0 .. Len(factors)] ==
        IF k = 0 THEN 1 ELSE product[k - 1] * Power(factors[k][1], factors[k][2])
  IN  product[Len(factors)]

Value(digits) ==
  LET value[k \in 0 .. Len(digits)] == IF k = 0 THEN 0 ELSE 10 * value[k - 1] + digits[k]
  IN  value[Len(digits)]

(* The factors make up the number, they are primes in ascending order, and *)
(* the last one is too if the number is below range * range.               *)
FactorsRight(number) ==
  LET factors == manage_output(number)
  IN  /\ Product(factors) = number
      /\ \A i \in 1 .. Len(factors) - 1 : factors[i][1] < factors[i + 1][1]
      /\ number \in 2 .. range * range - 1 =>
           \A i \in DOMAIN factors : Prime(factors[i][1])

(* Digits and a remainder of the quotient, and none of them begins with 0. *)
QuotientRight(num, divider) ==
  LET q == divide(num, divider)
  IN  /\ Value(num) = Value(q.rest) * divider + q.n
      /\ q.n \in 0 .. divider - 1
      /\ \A i \in DOMAIN q.rest : q.rest[i] \in 0 .. 9
      /\ Len(q.rest) > 1 => q.rest[1] # 0
=============================================================================
