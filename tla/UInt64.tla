------------------------------- MODULE UInt64 -------------------------------
(* The uint64_t arithmetic of the search, on words of three base-2^24        *)
(* digits <<high, middle, low>> with high < 2^16: TLC's integers have 31     *)
(* bits, the numbers of this program need 64.  Plus, Minus and Times wrap    *)
(* modulo 2^64 as the C operators do.                                        *)
EXTENDS Integers, Sequences

B   == 16777216          \* 2^24
Top == 65536             \* 2^16: the high digit of a 64-bit word

UInt64 == (0 .. Top - 1) \X (0 .. B - 1) \X (0 .. B - 1)

Small(k) == <<0, k \div B, k % B>>
Zero == Small(0)

(* Any column sums below 2^31, carried into a word.                          *)
Carried(high, middle, low) ==
  LET mid == middle + low \div B
  IN  <<(high + mid \div B) % Top, mid % B, low % B>>

Plus(a, b)  == Carried(a[1] + b[1], a[2] + b[2], a[3] + b[3])
Minus(a, b) == Carried(a[1] - b[1] + Top, a[2] - b[2], a[3] - b[3])

AtLeast(a, b) ==
  \/ a[1] > b[1]
  \/ a[1] = b[1] /\ (a[2] > b[2] \/ (a[2] = b[2] /\ a[3] >= b[3]))

(* The product modulo 2^64, from half digits: a word is six base-2^12 halves *)
(* and the columns beyond the sixth are lost, as in the machine.             *)
Halves(a) == <<a[3] % 4096, a[3] \div 4096, a[2] % 4096,
               a[2] \div 4096, a[1] % 4096, a[1] \div 4096>>
Columns(x, y) ==
  LET c1 == x[1] * y[1]
      c2 == x[1] * y[2] + x[2] * y[1] + c1 \div 4096
      c3 == x[1] * y[3] + x[2] * y[2] + x[3] * y[1] + c2 \div 4096
      c4 == x[1] * y[4] + x[2] * y[3] + x[3] * y[2] + x[4] * y[1] + c3 \div 4096
      c5 == x[1] * y[5] + x[2] * y[4] + x[3] * y[3] + x[4] * y[2] + x[5] * y[1]
            + c4 \div 4096
      c6 == x[1] * y[6] + x[2] * y[5] + x[3] * y[4] + x[4] * y[3] + x[5] * y[2]
            + x[6] * y[1] + c5 \div 4096
  IN  <<(c5 % 4096) + 4096 * (c6 % 16), (c3 % 4096) + 4096 * (c4 % 4096),
        (c1 % 4096) + 4096 * (c2 % 4096)>>
Times(a, b) == Columns(Halves(a), Halves(b))

(* a % p for 0 < p < 2^15: Horner's rule on the digits.                      *)
Rem(a, p) ==
  LET b  == B % p
      hi == ((a[1] % p) * b + a[2]) % p
  IN  (hi * b + a[3]) % p

(* a % m for 2^47 < m < 2^48: long division by m * 2^16, ..., m.             *)
Mod(a, m) ==
  LET r[d \in 0 .. 17] ==
        IF d = 17 THEN a
        ELSE LET x == r[d + 1]
                 q == Times(m, Small(2 ^ d))
             IN  IF AtLeast(x, q) THEN Minus(x, q) ELSE x
  IN  r[0]

(* A decimal literal, in groups of six digits.                               *)
Million == 1000000
Dec(groups) ==
  LET w[i \in 0 .. Len(groups)] ==
        IF i = 0 THEN Zero
        ELSE Plus(Times(w[i - 1], Small(Million)), Small(groups[i]))
  IN  w[Len(groups)]
=============================================================================
