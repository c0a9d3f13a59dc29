-------------------------------- MODULE Vli ---------------------------------
(***************************************************************************)
(* The large-integer arithmetic below the signature check: the vli_        *)
(* functions of attest/ecc.c, of which the signing tool has a copy.        *)
(*                                                                         *)
(* A vli is a function from digit numbers to digits, lowest digit first,   *)
(* as in the code.  The width of a digit is a constant, and half of it     *)
(* plays the part of the 32 bits that the reduction modulo curve_p moves   *)
(* about, so that a digit of two bits gives the algorithms of secp256r1    *)
(* with the prime 2^8 - 2^7 + 2^6 + 2^3 - 1.                               *)
(***************************************************************************)
EXTENDS Integers, TLC

CONSTANTS
  W,         \* bits of a digit: 64 in the code
  curve_p, curve_n,  \* the field's prime and the group's order, as vlis
  Right      \* the second operands to try

NUM_ECC_DIGITS == 4
Base == 2 ^ W
Half == 2 ^ (W \div 2)

VliAssumption == W \in Nat /\ W > 0 /\ W % 2 = 0

Index == 0 .. NUM_ECC_DIGITS - 1
Limit == Base ^ NUM_ECC_DIGITS

RECURSIVE Sum(_, _)
Sum(v, i) == IF i < 0 THEN 0 ELSE v[i] * Base ^ i + Sum(v, i - 1)
Value(v) == Sum(v, NUM_ECC_DIGITS - 1)
WideValue(v) == Sum(v, 2 * NUM_ECC_DIGITS - 1)

\* The vli with the digits d(0) to d(3), and the array with d(0) to d(7).
Digits(d(_)) == 0 :> d(0) @@ 1 :> d(1) @@ 2 :> d(2) @@ 3 :> d(3)
WideDigits(d(_)) == Digits(d) @@ 4 :> d(4) @@ 5 :> d(5) @@ 6 :> d(6) @@ 7 :> d(7)
OfValue(x) == Digits(LAMBDA i : (x \div Base ^ i) % Base)

VARIABLES op, left, right, res
vars == <<op, left, right, res>>

-----------------------------------------------------------------------------
Truth(b) == IF b THEN 1 ELSE 0

vli_clear == Digits(LAMBDA i : 0)
vli_isZero(v) == \A i \in Index : v[i] = 0
vli_testBit(v, bit) == (v[bit \div W] \div 2 ^ (bit % W)) % 2 = 1

RECURSIVE DigitsFrom(_, _)
DigitsFrom(v, i) == IF i >= 0 /\ v[i] = 0 THEN DigitsFrom(v, i - 1) ELSE i + 1
vli_numDigits(v) == DigitsFrom(v, NUM_ECC_DIGITS - 1)

RECURSIVE BitLength(_)
BitLength(digit) == IF digit = 0 THEN 0 ELSE 1 + BitLength(digit \div 2)

vli_numBits(v) ==
  LET n == vli_numDigits(v)
  IN IF n = 0 THEN 0 ELSE (n - 1) * W + BitLength(v[n - 1])

RECURSIVE CmpFrom(_, _, _)
CmpFrom(l, r, i) ==
  IF i < 0 THEN 0
  ELSE IF l[i] > r[i] THEN 1
  ELSE IF l[i] < r[i] THEN -1
  ELSE CmpFrom(l, r, i - 1)
vli_cmp(l, r) == CmpFrom(l, r, NUM_ECC_DIGITS - 1)

vli_lshift(v, shift) ==
  LET over(i) == IF i = 0 THEN 0 ELSE v[i - 1] \div 2 ^ (W - shift)
  IN [v |-> Digits(LAMBDA i : ((v[i] * 2 ^ shift) % Base) + over(i)),
      carry |-> over(NUM_ECC_DIGITS)]

vli_rshift1(v) ==
  Digits(LAMBDA i : v[i] \div 2 +
     (IF i + 1 \in Index THEN (v[i + 1] % 2) * (Base \div 2) ELSE 0))

\* Faulty variant: a carry into a digit that comes out as it went in is lost.
vli_add_carry_lost(l, r) ==
  LET carry[i \in 0 .. NUM_ECC_DIGITS] ==
        IF i = 0 THEN 0
        ELSE Truth((l[i - 1] + r[i - 1] + carry[i - 1]) % Base < l[i - 1])
  IN [v |-> Digits(LAMBDA i : (l[i] + r[i] + carry[i]) % Base),
      carry |-> carry[NUM_ECC_DIGITS]]

\* The carry out of a digit is read off the sum, and stays as it is when the
\* sum is the left digit again.
vli_add(l, r) ==
  LET carry[i \in 0 .. NUM_ECC_DIGITS] ==
        IF i = 0 THEN 0
        ELSE LET c == carry[i - 1]
                 sum == (l[i - 1] + r[i - 1] + c) % Base
             IN IF sum # l[i - 1] THEN Truth(sum < l[i - 1]) ELSE c
  IN [v |-> Digits(LAMBDA i : (l[i] + r[i] + carry[i]) % Base),
      carry |-> carry[NUM_ECC_DIGITS]]

vli_sub(l, r) ==
  LET borrow[i \in 0 .. NUM_ECC_DIGITS] ==
        IF i = 0 THEN 0
        ELSE LET b == borrow[i - 1]
                 diff == (l[i - 1] - r[i - 1] - b) % Base
             IN IF diff # l[i - 1] THEN Truth(diff > l[i - 1]) ELSE b
  IN [v |-> Digits(LAMBDA i : (l[i] - r[i] - borrow[i]) % Base),
      carry |-> borrow[NUM_ECC_DIGITS]]

-----------------------------------------------------------------------------
(* Products.  acc is r01, two digits wide, and r2, which counts the carries *)
(* out of it.                                                              *)

Accumulate(acc, product, extra) ==
  LET r01 == (acc.r01 + product) % Base ^ 2
  IN [r01 |-> r01, r2 |-> (acc.r2 + extra + Truth(r01 < product)) % Base]

RECURSIVE Column(_, _, _, _, _)
Column(acc, l, r, k, i) ==
  IF i > k \/ i >= NUM_ECC_DIGITS THEN acc
  ELSE Column(Accumulate(acc, l[i] * r[k - i], 0), l, r, k, i + 1)

\* The pairs off the diagonal count twice.
RECURSIVE SquareColumn(_, _, _, _)
SquareColumn(acc, l, k, i) ==
  LET product == l[i] * l[k - i]
      twice == Truth(i < k - i)
  IN IF i > k - i THEN acc
     ELSE SquareColumn(Accumulate(acc, (product * (1 + twice)) % Base ^ 2,
                                  twice * (product \div (Base ^ 2 \div 2))),
                       l, k, i + 1)

RECURSIVE Columns(_, _, _, _, _, _)
Columns(v, acc, squaring, l, r, k) ==
  LET min == IF k < NUM_ECC_DIGITS THEN 0 ELSE (k + 1) - NUM_ECC_DIGITS
      a == IF squaring THEN SquareColumn(acc, l, k, min) ELSE Column(acc, l, r, k, min)
  IN IF k = 2 * NUM_ECC_DIGITS - 1 THEN [v EXCEPT ![k] = acc.r01 % Base]
     ELSE Columns([v EXCEPT ![k] = a.r01 % Base],
                  [r01 |-> a.r01 \div Base + a.r2 * Base, r2 |-> 0],
                  squaring, l, r, k + 1)

Zero == [r01 |-> 0, r2 |-> 0]
vli_mult(l, r) == Columns(WideDigits(LAMBDA i : 0), Zero, FALSE, l, r, 0)
vli_square(l) == Columns(WideDigits(LAMBDA i : 0), Zero, TRUE, l, l, 0)

-----------------------------------------------------------------------------
(* Arithmetic modulo m.                                                    *)

vli_modAdd(l, r, m) ==
  LET s == vli_add(l, r)
  IN IF s.carry # 0 \/ vli_cmp(s.v, m) >= 0 THEN vli_sub(s.v, m).v ELSE s.v

vli_modSub(l, r, m) ==
  LET s == vli_sub(l, r)
  IN IF s.carry # 0 THEN vli_add(s.v, m).v ELSE s.v

Low(d) == d % Half
High(d) == d \div Half
Up(d) == (d % Half) * Half     \* d << 32
Top(d) == d - (d % Half)        \* d & 0xffffffff00000000

\* vli_mmod_fast ends by bringing the carry and the value below curve_p.
RECURSIVE Settle(_, _, _)
Settle(v, carry, negative) ==
  IF negative
  THEN LET s == vli_add(v, curve_p)
       IN IF carry + s.carry < 0 THEN Settle(s.v, carry + s.carry, TRUE) ELSE s.v
  ELSE IF carry # 0 \/ vli_cmp(curve_p, v) # 1
       THEN LET s == vli_sub(v, curve_p) IN Settle(s.v, carry - s.carry, FALSE)
       ELSE v

Four(a, b, c, d) == 0 :> a @@ 1 :> b @@ 2 :> c @@ 3 :> d
Plus(acc, r) ==
  LET s == vli_add(acc.v, r) IN [v |-> s.v, carry |-> acc.carry + s.carry]
Twice(acc, r) ==
  LET d == vli_lshift(r, 1)
      s == vli_add(acc.v, d.v)
  IN [v |-> s.v, carry |-> acc.carry + d.carry + s.carry]
Minus(acc, r) ==
  LET s == vli_sub(acc.v, r) IN [v |-> s.v, carry |-> acc.carry - s.carry]

vli_mmod_fast(P) ==
  LET t == [v |-> Digits(LAMBDA i : P[i]), carry |-> 0]
      s1 == Twice(t, Four(0, Top(P[5]), P[6], P[7]))
      s2 == Twice(s1, Four(0, Up(P[6]), High(P[6]) + Up(P[7]), High(P[7])))
      s3 == Plus(s2, Four(P[4], Low(P[5]), 0, P[7]))
      s4 == Plus(s3, Four(High(P[4]) + Up(P[5]), High(P[5]) + Top(P[6]), P[7],
                          High(P[6]) + Up(P[4])))
      d1 == Minus(s4, Four(High(P[5]) + Up(P[6]), High(P[6]), 0, Low(P[4]) + Up(P[5])))
      d2 == Minus(d1, Four(P[6], P[7], 0, High(P[4]) + Top(P[5])))
      d3 == Minus(d2, Four(High(P[6]) + Up(P[7]), High(P[7]) + Up(P[4]),
                           High(P[4]) + Up(P[5]), Up(P[6])))
      d4 == Minus(d3, Four(P[7], Top(P[4]), P[5], Top(P[6])))
  IN Settle(d4.v, d4.carry, d4.carry < 0)

vli_modMult_fast(l, r) == vli_mmod_fast(vli_mult(l, r))
vli_modSquare_fast(l) == vli_mmod_fast(vli_square(l))

EVEN(v) == v[0] % 2 = 0

\* u / 2 modulo m, through u + m when u is odd.
Halve(u, m) ==
  LET s == IF EVEN(u) THEN [v |-> u, carry |-> 0] ELSE vli_add(u, m)
  IN [vli_rshift1(s.v) EXCEPT ![NUM_ECC_DIGITS - 1] = @ + s.carry * (Base \div 2)]

\* u - v modulo m, for u below v through u + m, whose carry is not needed.
Less(u, v, m) ==
  vli_sub(IF vli_cmp(u, v) < 0 THEN vli_add(u, m).v ELSE u, v).v

\* One round of the loop of vli_modInv, on [a, b, u, v].
InvRound(t, m) ==
  LET cmp == vli_cmp(t.a, t.b)
  IN IF EVEN(t.a) THEN [t EXCEPT !.a = vli_rshift1(@), !.u = Halve(@, m)]
     ELSE IF EVEN(t.b) THEN [t EXCEPT !.b = vli_rshift1(@), !.v = Halve(@, m)]
     ELSE IF cmp > 0
     THEN [t EXCEPT !.a = vli_rshift1(vli_sub(@, t.b).v), !.u = Halve(Less(@, t.v, m), m)]
     ELSE [t EXCEPT !.b = vli_rshift1(vli_sub(@, t.a).v), !.v = Halve(Less(@, t.u, m), m)]

-----------------------------------------------------------------------------
(* vli_modMult: long division of the product by m.                         *)

LowHalf(v) == Digits(LAMBDA i : v[i])
HighHalf(v) == Digits(LAMBDA i : v[i + NUM_ECC_DIGITS])
Joined(lo, hi) == WideDigits(LAMBDA i : IF i \in Index THEN lo[i] ELSE hi[i - NUM_ECC_DIGITS])

\* m << (digits and bits), in an array of twice the digits.
ShiftedMod(m, digits, bits) ==
  LET s == IF bits = 0 THEN [v |-> m, carry |-> 0] ELSE vli_lshift(m, bits)
  IN WideDigits(LAMBDA i : IF i - digits \in Index THEN s.v[i - digits]
                     ELSE IF i = digits + NUM_ECC_DIGITS THEN s.carry ELSE 0)

WideSub(P, M) ==
  LET lo == vli_sub(LowHalf(P), LowHalf(M))
      hi == IF lo.carry # 0 THEN vli_sub(HighHalf(P), [vli_clear EXCEPT ![0] = 1]).v
            ELSE HighHalf(P)
  IN Joined(lo.v, vli_sub(hi, HighHalf(M)).v)

WideShift(M) ==
  Joined([vli_rshift1(LowHalf(M)) EXCEPT
            ![NUM_ECC_DIGITS - 1] = @ + (M[NUM_ECC_DIGITS] % 2) * (Base \div 2)],
         vli_rshift1(HighHalf(M)))

RECURSIVE Divide(_, _, _, _)

Divide(P, M, bits, m) ==
  IF bits > NUM_ECC_DIGITS * W \/ vli_cmp(LowHalf(M), m) >= 0
  THEN LET cmp == vli_cmp(HighHalf(M), HighHalf(P))
       IN Divide(IF cmp < 0 \/ (cmp = 0 /\ vli_cmp(LowHalf(M), LowHalf(P)) <= 0)
                 THEN WideSub(P, M) ELSE P,
                 WideShift(M), bits - 1, m)
  ELSE LowHalf(P)

vli_modMult(l, r, m) ==
  LET P == vli_mult(l, r)
      hi == vli_numBits(HighHalf(P))
      bits == IF hi # 0 THEN hi + NUM_ECC_DIGITS * W ELSE vli_numBits(LowHalf(P))
      shift == bits - vli_numBits(m)
  IN IF shift < 0 THEN LowHalf(P)
     ELSE Divide(P, ShiftedMod(m, shift \div W, shift % W), bits, m)

-----------------------------------------------------------------------------
(* One call of one function, on the values left and right.                 *)

Call(name, l, r, result) == op' = name /\ left' = l /\ right' = r /\ res' = result

Compare(l, r) ==
  LET a == OfValue(l)
  IN Call("cmp", l, r, <<vli_cmp(a, OfValue(r)), vli_numBits(a),
                         {bit \in 0 .. NUM_ECC_DIGITS * W - 1 : vli_testBit(a, bit)}>>)

Add(l, r) ==
  LET s == vli_add(OfValue(l), OfValue(r))
  IN Call("add", l, r, Value(s.v) + s.carry * Limit)

Subtract(l, r) ==
  LET s == vli_sub(OfValue(l), OfValue(r))
  IN Call("sub", l, r, Value(s.v) - s.carry * Limit)

Multiply(l, r) == Call("mult", l, r, WideValue(vli_mult(OfValue(l), OfValue(r))))
Square(l) ==
  \/ Call("mult", l, l, WideValue(vli_square(OfValue(l))))
  \/ Call("mod", l * l, Value(curve_p), Value(vli_modSquare_fast(OfValue(l))))

\* Any product, not only one of two values below curve_p.
Reduce(l, r) ==
  Call("reduce", l, r, Value(vli_mmod_fast(Joined(OfValue(r), OfValue(l)))))

AddMod(l, r) ==
  /\ l < Value(curve_p) /\ r < Value(curve_p)
  /\ \/ Call("mod", l + r, Value(curve_p),
            Value(vli_modAdd(OfValue(l), OfValue(r), curve_p)))
     \/ Call("mod", l - r, Value(curve_p),
            Value(vli_modSub(OfValue(l), OfValue(r), curve_p)))

MultiplyMod(l, r) ==
  \/ Call("mod", l * r, Value(curve_n),
          Value(vli_modMult(OfValue(l), OfValue(r), curve_n)))
  \/ Call("mod", l * r, Value(curve_p),
          Value(vli_modMult_fast(OfValue(l), OfValue(r))))

\* vli_modInv up to its loop.
Invert(l, m) ==
  /\ l < Value(m)
  /\ IF vli_isZero(OfValue(l)) THEN Call("inverse", l, m, vli_clear)
     ELSE Call("inv", l, m, [a |-> OfValue(l), b |-> m,
                             u |-> [vli_clear EXCEPT ![0] = 1], v |-> vli_clear])

\* The loop of vli_modInv, a round at a time.
InvStep ==
  /\ op = "inv"
  /\ \/ /\ vli_cmp(res.a, res.b) # 0
        /\ res' = InvRound(res, right)
        /\ UNCHANGED op
     \/ /\ vli_cmp(res.a, res.b) = 0
        /\ op' = "inverse" /\ res' = res.u
  /\ UNCHANGED <<left, right>>

Init == op = "none" /\ left = 0 /\ right = 0 /\ res = 0

Start ==
  /\ op = "none"
  /\ \E l \in 0 .. Limit - 1 :
       \/ \E r \in Right : \/ Compare(l, r) \/ Add(l, r) \/ Subtract(l, r)
                          \/ Multiply(l, r) \/ Reduce(l, r)
                          \/ AddMod(l, r) \/ MultiplyMod(l, r)
       \/ Square(l) \/ Invert(l, curve_p) \/ Invert(l, curve_n)

Next == Start \/ InvStep

Spec == Init /\ [][Next]_vars

-----------------------------------------------------------------------------
\* Every function gives what the integers give.  The carry that each digit's
\* comparison guesses from the sum is the real one, also when a digit of all
\* ones meets a carry, and r2 never overflows; the word shuffle of
\* vli_mmod_fast gives the remainder of every number of twice the digits,
\* whichever sign the carry ends up with; remainders are below the modulus also
\* when the factors are not, as the hash of a module in ecdsa_sign; and what
\* the rounds of vli_modInv leave is the inverse, though u + m may pass the
\* size of a vli, with zero for zero.
ArithmeticExact ==
  /\ op = "add" => res = left + right
  /\ op = "sub" => res = left - right
  /\ op = "mult" => res = left * right
  /\ op = "cmp" => /\ res[1] = (IF left > right THEN 1 ELSE IF left < right THEN -1 ELSE 0)
                   /\ left \div 2 ^ res[2] = 0
                   /\ \A bit \in res[3] : bit < res[2]
                   /\ left # 0 => res[2] - 1 \in res[3]
  /\ op = "reduce" => res = (left * Limit + right) % Value(curve_p)
  /\ op = "mod" => res = left % right
  /\ op = "inverse" => LET m == Value(right)
                       IN /\ Value(res) < m
                          /\ (left * Value(res)) % m = (IF left = 0 THEN 0 ELSE 1)
=============================================================================
