----------------------------- MODULE Montgomery ------------------------------
(* The primality tests of src/cpu/AP26.cpp and of the checkn kernel, on words *)
(* of Width = 16 bits in the place of 64: the largest whose products TLC can  *)
(* hold in parts.  The code depends on the width only through the word itself *)
(* and through the number of squarings in mont_init, 2^(squarings+1) = Width. *)
EXTENDS Integers, Sequences

CONSTANT
  Masked    \* a shift by all the bits of a word leaves it as it is (x86, OpenCL) or,
            \* FALSE, leaves nothing (CUDA)

ASSUME MontgomeryAssumption == Masked \in BOOLEAN

Width == 16
R     == 65536               \* 2^Width
Word  == 0 .. R - 1
Squarings == 3               \* 5 for 64 bits: 4^{2^5} = 2^64

(* <<ab0, ab1>>, the low and the high word of a * b.                          *)
mul_wide(a, b) ==
  LET high == (a \div 256) * b
      low  == (high % 256) * 256 + (a % 256) * b
  IN  <<low % R, high \div 256 + low \div R>>
Product(a, b) == mul_wide(a, b)[1]

(* What count rounds of next make of first: round i takes x to next[i][x].    *)
Iterates(first, next, count) ==
  LET x[i \in 0 .. count] == IF i = 0 THEN first ELSE next[i][x[i - 1]] IN x
Repeated(first, round, count) == Iterates(first, [i \in 1 .. count |-> round], count)

(* p_inv *= 2 - p*p_inv until it no longer changes; each round doubles the    *)
(* number of right bits, so that an odd p is done within Width rounds.        *)
invert(p) ==
  LET newton == [x \in Word |-> Product(x, (2 - Product(p, x)) % R)]
      inv  == Repeated(1, newton, Width)
      last == CHOOSE i \in 1 .. Width :
                inv[i] = inv[i - 1] /\ \A j \in 1 .. i - 1 : inv[j] # inv[j - 1]
  IN  inv[last]

(* Deviation: the high words are subtracted without the correction by p.      *)
montMulUncorrected(a, b, p, q) ==
  LET ab == mul_wide(a, b)
      mp == mul_wide(Product(ab[1], q), p)[2]
  IN  (ab[2] - mp) % R

(* ab / R mod p, p odd and q its inverse, for a, b below p.                   *)
montMul(a, b, p, q) ==
  LET ab == mul_wide(a, b)
      mp == mul_wide(Product(ab[1], q), p)[2]
      r  == (ab[2] - mp) % R
  IN  IF ab[2] < mp THEN (r + p) % R ELSE r

add(a, b, p) == (a + b - (IF a >= (p - b) % R THEN p ELSE 0)) % R

(* x >> i, for every i.                                                       *)
Shifts(x) == Repeated(x, [y \in Word |-> y \div 2], Width)

(* t and exp, N - 1 = exp * 2^t with exp odd.  For N = 1 the builtins are not *)
(* defined; one is zero then and every choice of t and exp ends the same way. *)
ctz(N) ==
  LET shifts == Shifts(N - 1)
  IN  IF N = 1 THEN 0
      ELSE CHOOSE t \in 0 .. Width - 1 : shifts[t] % 2 = 1 /\ \A s \in 0 .. t - 1 : shifts[s] % 2 = 0
exp(N) == Shifts(N)[ctz(N)]

(* The bits of exp below its highest, highest first: the values of            *)
(* exp & curBit on the way.  For exp = 1 curBit is shifted by all its bits,   *)
(* and where that is Masked the loop takes every bit of the word.             *)
Bits(N) ==
  LET shifts == Shifts(exp(N))
      top == IF Masked /\ exp(N) = 1 THEN Width
             ELSE CHOOSE i \in 0 .. Width - 1 : shifts[i] = 1
  IN  [j \in 1 .. top |-> shifts[top - j] % 2 = 1]

one(N) == ((0 - N) % R) % N
two(N) == add(one(N), one(N), N)
nmo(N) == N - one(N)

(* A residue that begins as start, is squared for every bit of exp, and goes  *)
(* on to step of itself at those which are set; both clauses for what that is.*)
Square(N) == LET q == invert(N) IN [x \in Word |-> montMul(x, x, N, q)]
Powered(N, start, step) ==
  LET square == Square(N)
      bits   == Bits(N)
  IN  Iterates(start, [j \in 1 .. Len(bits) |-> [x \in Word |->
                         IF bits[j] THEN step[square[x]] ELSE square[x]]], Len(bits))[Len(bits)]

(* The clauses for the residue c[0] and its squares.                          *)
EitherClause(N, c) == c[0] = one(N) \/ c[0] = nmo(N) \/ \E s \in 1 .. ctz(N) - 1 : c[s] = nmo(N)
Clauses(N, start, step) == EitherClause(N, Repeated(Powered(N, start, step), Square(N), Width))

(* The base 2 test of the walks: a doubling for each set bit.                 *)
PrimeQ(N) == Clauses(N, two(N), [x \in Word |-> add(x, x, N)])

(* mont_init: r2 is 2^(2*Width) % N, reached from 4 by squarings.             *)
r2(N) == Repeated(add(two(N), two(N), N), Square(N), Squarings)[Squarings]
strong_prp(base, N) ==
  LET q == invert(N)
      mbase == montMul(base, r2(N), N, q)
  IN  Clauses(N, mbase, [x \in Word |-> montMul(x, mbase, N, q)])
=============================================================================
