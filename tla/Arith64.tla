---- MODULE Arith64 ----
(***************************************************************************)
(* The 64-bit arithmetic that the compiler calls on the 32-bit machine     *)
(* (src/util/arith64.c), for words of Bits bits, a power of two: division  *)
(* by shifting and subtracting, shifts on the two halves, and the counts   *)
(* of leading and trailing zeros.  A word is a natural number below Word;  *)
(* the signed functions read it in two's complement.                       *)
(***************************************************************************)
EXTENDS Integers, Sequences, SequencesExt

CONSTANT Bits

Half == Bits \div 2
Word == 2 ^ Bits
HalfWord == 2 ^ Half
Words == 0 .. Word - 1

Shl(a, n) == (a * 2 ^ n) % Word
Shr(a, n) == a \div 2 ^ n
Hi(a) == a \div HalfWord
Lo(a) == a % HalfWord
Pair(hi, lo) == HalfWord * hi + lo

Signed(a) == IF a >= Word \div 2 THEN a - Word ELSE a
Unsigned(n) == n % Word

(* arith64_neg and arith64_abs: a is negated when b, read as signed, is negative. *)
neg(a, b) == IF Signed(b) < 0 THEN Unsigned(0 - a) ELSE a

----
(* __clzdi2 and __ctzdi2: half of the word, a quarter, an eighth, ... are tested
   and shifted out when they are zero. *)
Steps(bits) == SelectSeq([i \in 1 .. bits |-> bits \div 2 ^ i], LAMBDA s : s > 0)
clz(a, bits) ==
  FoldLeft(LAMBDA r, s : IF r.a < 2 ^ (bits - s)
                           THEN [n |-> r.n + s, a |-> (r.a * 2 ^ s) % 2 ^ bits] ELSE r,
           [n |-> 0, a |-> a], Steps(bits)).n
ctz(a, bits) ==
  FoldLeft(LAMBDA r, s : IF r.a % 2 ^ s = 0 THEN [n |-> r.n + s, a |-> r.a \div 2 ^ s] ELSE r,
           [n |-> 0, a |-> a], Steps(bits)).n
ffsdi2(a) == IF a = 0 THEN 0 ELSE ctz(a, Bits) + 1

(* The shifts, half by half. *)
ashldi3(a, n) ==
  LET b == n % Bits
  IN IF b >= Half THEN Pair((Lo(a) * 2 ^ (b - Half)) % HalfWord, 0)
     ELSE IF b = 0 THEN a
     ELSE Pair((Shr(Lo(a), Half - b) + Hi(a) * 2 ^ b) % HalfWord, (Lo(a) * 2 ^ b) % HalfWord)

lshrdi3(a, n) ==
  LET b == n % Bits
  IN IF b >= Half THEN Pair(0, Shr(Hi(a), b - Half))
     ELSE IF b = 0 THEN a
     ELSE Pair(Shr(Hi(a), b), ((Hi(a) * 2 ^ (Half - b)) % HalfWord) + Shr(Lo(a), b))

SignedHalf(h) == IF h >= HalfWord \div 2 THEN h - HalfWord ELSE h
ashrdi3(a, n) ==
  LET b == n % Bits
      hi == SignedHalf(Hi(a))
  IN IF b >= Half THEN Pair((hi \div 2 ^ (Half - 1)) % HalfWord, (hi \div 2 ^ (b - Half)) % HalfWord)
     ELSE IF b = 0 THEN a
     ELSE Pair((hi \div 2 ^ b) % HalfWord, ((Hi(a) * 2 ^ (Half - b)) % HalfWord) + Shr(Lo(a), b))

(* __divmoddi4's loop: a bit of the numerator moves into the remainder, and the
   sign of b - rem - 1 tells whether b goes into it. *)
DivStepStrict(b, r) ==
  LET rem == (Shl(r.rem, 1) + Shr(r.a, Bits - 1)) % Word
      wrap == IF Signed(Unsigned(b - rem)) < 0 THEN 1 ELSE 0
  IN [rem |-> Unsigned(rem - wrap * b), a |-> (Shl(r.a, 1) + r.wrap) % Word, wrap |-> wrap]

DivStep(b, r) ==
  LET rem == (Shl(r.rem, 1) + Shr(r.a, Bits - 1)) % Word
      wrap == IF Signed(Unsigned(b - rem - 1)) < 0 THEN 1 ELSE 0
  IN [rem |-> Unsigned(rem - wrap * b), a |-> (Shl(r.a, 1) + r.wrap) % Word, wrap |-> wrap]

LongDivision(a, b) ==
  LET bits == clz(b, Bits) - clz(a, Bits) + 1
      r == FoldLeft(LAMBDA s, i : DivStep(b, s),
                    [rem |-> Shr(a, bits), a |-> Shl(a, Bits - bits), wrap |-> 0],
                    [i \in 1 .. bits |-> i])
  IN [q |-> (Shl(r.a, 1) + r.wrap) % Word, r |-> r.rem]

divmoddi4(a, b) ==
  CASE b > a -> [q |-> 0, r |-> a]
    [] b =< a /\ b = 1 -> [q |-> a, r |-> 0]
    [] b =< a /\ b # 1 /\ Hi(b) = 0 /\ Hi(a) = 0 -> [q |-> Lo(a) \div Lo(b), r |-> Lo(a) % Lo(b)]
    [] OTHER -> LongDivision(a, b)

(* The signed quotient and remainder: of the magnitudes, then negated when the
   signs differ, and when the numerator is negative. *)
divdi3(a, b) ==
  LET q == divmoddi4(neg(a, a), neg(b, b)).q
  IN IF (Signed(a) < 0) # (Signed(b) < 0) THEN Unsigned(0 - q) ELSE q
moddi3(a, b) == neg(divmoddi4(neg(a, a), neg(b, b)).r, a)

----
(* One operand; the property takes every other one. *)
VARIABLES operand, divided
arithVars == <<operand, divided>>
ArithInit == operand = 0 /\ divided = FALSE
Divide(a) == ~ divided /\ operand' = a /\ divided' = TRUE
ArithNext == \E a \in Words : Divide(a)

Magnitude(n) == IF n < 0 THEN 0 - n ELSE n
Toward0(n, d) ==
  LET q == Magnitude(n) \div Magnitude(d) IN IF (n < 0) # (d < 0) THEN 0 - q ELSE q

(* The library computes what C's operators mean, for every pair of words: the
   quotient and the remainder, unsigned and rounded toward zero, also for
   divisors with the top bit set, for which the sign test in the loop could be
   misled, and for the smallest number, which has no negation; the three shifts;
   and the counts of zeros. *)
WideArithmetic ==
  divided => LET a == operand IN
  /\ \A b \in Words \ {0} :
       /\ divmoddi4(a, b) = [q |-> a \div b, r |-> a % b]
       /\ divdi3(a, b) = Unsigned(Toward0(Signed(a), Signed(b)))
       /\ moddi3(a, b) = Unsigned(Signed(a) - Toward0(Signed(a), Signed(b)) * Signed(b))
  /\ \A n \in 0 .. Bits - 1 :
       /\ ashldi3(a, n) = Shl(a, n) /\ lshrdi3(a, n) = Shr(a, n)
       /\ ashrdi3(a, n) = Unsigned(Signed(a) \div 2 ^ n)
  /\ a # 0 => /\ a * 2 ^ clz(a, Bits) \in Word \div 2 .. Word - 1
              /\ a % 2 ^ ctz(a, Bits) = 0 /\ (a \div 2 ^ ctz(a, Bits)) % 2 = 1
              /\ ffsdi2(a) = ctz(a, Bits) + 1
====
