------------------------------- MODULE Ecdsa --------------------------------
(***************************************************************************)
(* The signature of an emodule: tools/sign makes the key pair and signs the *)
(* hash of a module, and the manager's ecdsa_verify accepts the signature   *)
(* or not.  The point arithmetic, the ladder of EccPoint_mult, the loops of *)
(* drawing random numbers and the double-and-add loop of ecdsa_verify are   *)
(* those of ecc.c; the tool and the manager have the same file but for      *)
(* getRandomNumber.                                                         *)
(*                                                                          *)
(* A vli is the number it stands for and a field operation is the one on    *)
(* numbers: module Vli shows that the code's digits compute just that.      *)
(***************************************************************************)
EXTENDS Integers, Sequences

CONSTANTS
  curve_p, curve_b, curve_n, curve_G,   \* y^2 = x^3 - 3x + b
  Limit,         \* the numbers a vli can hold
  MAX_TRIES,
  Random,        \* what getRandomNumber gives when a key is made
  Nonce,         \* what it gives in ecdsa_sign and ecdh_shared_secret
  Hash,          \* hashes of modules
  SigningKey,    \* the private keys whose key pair is used further
  Damaged        \* signatures that no ecdsa_sign made: pairs

EcdsaAssumption ==
  /\ curve_p % 4 = 3 /\ curve_n < curve_p /\ 2 * curve_n >= Limit
  /\ Random \subseteq 0 .. Limit - 1 /\ Nonce \subseteq 0 .. Limit - 1

VARIABLES
  pc,
  tries,     \* l_tries
  lad,       \* EccPoint_mult: its arguments, i, and R[0] and R[1]
  key,       \* [d, pub]: the private key and the compressed public key
  sig,       \* [e, k, r, s]: the hash and the signature
  ver,       \* ecdsa_verify: [u1, u2, pub, sum, rx, ry, z, i]
  ret        \* what the last function returned

vars == <<pc, tries, lad, key, sig, ver, ret>>

-----------------------------------------------------------------------------
(* The field and the bits of a scalar.                                     *)

Inverses == [m \in {curve_p, curve_n} |->
               [a \in 0 .. m - 1 |->
                  IF a = 0 THEN 0 ELSE CHOOSE c \in 1 .. m - 1 : (a * c) % m = 1]]
modInv(a, m) == Inverses[m][a]
Mod(a) == a % curve_p

testBit(v, bit) == (v \div 2 ^ bit) % 2 = 1
RECURSIVE numBits(_)
numBits(v) == IF v = 0 THEN 0 ELSE 1 + numBits(v \div 2)

\* x if it is below curve_n, and otherwise curve_n is taken away, once.
BelowOrder(x) == IF x < curve_n THEN x ELSE x - curve_n

-----------------------------------------------------------------------------
(* Points.  (0, 0) stands for the point at infinity.                       *)

EccPoint_isZero(P) == P = <<0, 0>>

EccPoint_double_jacobian(X, Y, Z) ==
  LET A == Mod(X * Y * Y)
      B == Mod(Mod(3 * (X * X - Mod(Z * Z) * Mod(Z * Z))) * modInv(2, curve_p))
      x3 == Mod(B * B - 2 * A)
  IN IF Z = 0 THEN <<X, Y, Z>>
     ELSE <<x3, Mod(B * (A - x3) - Mod(Y * Y) * Mod(Y * Y)), Mod(Y * Z)>>

apply_z(P, z) == <<Mod(P[1] * Mod(z * z)), Mod(P[2] * Mod(z * z * z))>>

\* <<P', 2P>> with the same z, from P and the z to start with.
XYcZ_initial_double(P, z) ==
  LET Q == apply_z(P, z)
      D == EccPoint_double_jacobian(Q[1], Q[2], z)
  IN <<apply_z(P, D[3]), <<D[1], D[2]>>>>

\* <<P', P + Q>>
XYcZ_add(P, Q) ==
  LET A == Mod((Q[1] - P[1]) * (Q[1] - P[1]))
      B == Mod(P[1] * A)
      C == Mod(Q[1] * A)
      dy == Mod(Q[2] - P[2])
      y == Mod(P[2] * (C - B))
      x3 == Mod(dy * dy - B - C)
  IN <<<<B, y>>, <<x3, Mod(dy * (B - x3) - y)>>>>

\* <<P - Q, P + Q>>
XYcZ_addC(P, Q) ==
  LET A == Mod((Q[1] - P[1]) * (Q[1] - P[1]))
      B == Mod(P[1] * A)
      C == Mod(Q[1] * A)
      sy == Mod(Q[2] + P[2])
      dy == Mod(Q[2] - P[2])
      y == Mod(P[2] * (C - B))
      x3 == Mod(dy * dy - B - C)
      x3c == Mod(sy * sy - B - C)
  IN <<<<x3c, Mod(sy * (x3c - B) - y)>>, <<x3, Mod(dy * (B - x3) - y)>>>>

-----------------------------------------------------------------------------
(* EccPoint_mult.  Its end goes on where the caller says.                  *)

EccPoint_mult(P, scalar, z, after) ==
  /\ lad' = [P |-> P, scalar |-> scalar, i |-> numBits(scalar) - 2, z |-> z,
             R |-> XYcZ_initial_double(P, z), after |-> after]
  /\ pc' = "ladder"

\* R[nb] and R[1 - nb] are Rn and Ro; a pair in their order.
Ordered(bit, Rn, Ro) == IF bit THEN <<Rn, Ro>> ELSE <<Ro, Rn>>

LadderRound(R, bit) ==
  LET Rn == IF bit THEN R[1] ELSE R[2]     \* nb = !bit
      Ro == IF bit THEN R[2] ELSE R[1]
      c == XYcZ_addC(Ro, Rn)
      s == XYcZ_add(c[2], c[1])
  IN Ordered(bit, s[1], s[2])

\* The last round stops between the two additions to find 1 / Z.
LadderLast(P, R, bit) ==
  LET Rn == IF bit THEN R[1] ELSE R[2]
      Ro == IF bit THEN R[2] ELSE R[1]
      c == XYcZ_addC(Ro, Rn)
      X == Ordered(bit, c[2], c[1])
      z0 == Mod(Mod(Mod(X[2][1] - X[1][1]) * c[1][2]) * P[1])
      z == Mod(Mod(modInv(z0, curve_p) * P[2]) * c[1][1])
      s == XYcZ_add(c[2], c[1])
  IN apply_z(Ordered(bit, s[1], s[2])[1], z)

LadderStep ==
  /\ pc = "ladder" /\ lad.i > 0
  /\ lad' = [lad EXCEPT !.R = LadderRound(@, testBit(lad.scalar, lad.i)), !.i = @ - 1]
  /\ UNCHANGED <<pc, tries, key, sig, ver, ret>>

LadderEnd ==
  /\ pc = "ladder" /\ lad.i <= 0
  /\ lad' = [lad EXCEPT !.i = 0, !.R = <<LadderLast(lad.P, @, testBit(lad.scalar, 0)), <<0, 0>>>>]
  /\ pc' = lad.after
  /\ UNCHANGED <<tries, key, sig, ver, ret>>

Product == lad.R[1]

-----------------------------------------------------------------------------
(* ecc_make_key.                                                           *)

\* The tool reads ECC_BYTES from /dev/urandom, or fails.
NoRandom == -1
getRandomNumber(numbers) == numbers \cup {NoRandom}

Failed == /\ pc' = "failed" /\ ret' = 0 /\ UNCHANGED <<tries, lad, key, sig, ver>>

\* continue goes to the condition of the loop, which reads a point that has no
\* value yet: it may be zero, and may be not.
MakeKeyDraw ==
  /\ pc = "make_key"
  /\ \E random \in getRandomNumber(Random) :
       \/ (random = NoRandom \/ tries >= MAX_TRIES) /\ Failed
       \/ /\ tries < MAX_TRIES /\ random \notin {0, NoRandom}
          /\ tries' = tries + 1
          /\ key' = [key EXCEPT !.d = BelowOrder(random)]
          /\ EccPoint_mult(curve_G, key'.d, 1, "key_made")
          /\ UNCHANGED <<sig, ver, ret>>
       \/ /\ tries < MAX_TRIES /\ random = 0
          /\ tries' = tries + 1
          /\ \/ UNCHANGED <<pc, key, ret>>
             \/ key' = [d |-> 0, pub |-> <<2, 1>>] /\ pc' = "keys" /\ ret' = 1
          /\ UNCHANGED <<lad, sig, ver>>

MakeKeyEnd ==
  /\ pc = "key_made"
  /\ \/ EccPoint_isZero(Product) /\ pc' = "make_key" /\ UNCHANGED <<key, ret>>
     \/ /\ ~EccPoint_isZero(Product)
        /\ key' = [key EXCEPT !.pub = <<2 + (Product[2] % 2), Product[1]>>]
        /\ pc' = "keys" /\ ret' = 1
  /\ UNCHANGED <<tries, lad, sig, ver>>

\* a ^ ((curve_p + 1) / 4), from the highest bit of the exponent.
mod_sqrt(a) ==
  LET f[i \in 0 .. numBits(curve_p + 1)] ==
        IF i = numBits(curve_p + 1) THEN 1
        ELSE LET r == f[i + 1]
                 sq == Mod(r * r)
             IN IF testBit(curve_p + 1, i) THEN Mod(sq * a) ELSE sq
  IN f[2]

ecc_point_decompress(pub) ==
  LET x == pub[2]
      y == mod_sqrt(Mod(Mod(Mod(x * x) - 3) * x + curve_b))
  IN <<x, IF y % 2 # pub[1] % 2 THEN curve_p - y ELSE y>>

\* ecdh_shared_secret with the public key of a peer, here of the same pair.
SharedSecret ==
  /\ pc = "keys" /\ key.d \in SigningKey
  /\ \E random \in getRandomNumber(Nonce) :
       \/ random = NoRandom /\ Failed
       \/ /\ random # NoRandom
          /\ EccPoint_mult(ecc_point_decompress(key.pub), key.d, random, "secret")
          /\ UNCHANGED <<tries, key, sig, ver, ret>>

SecretEnd ==
  /\ pc = "secret"
  /\ ret' = (IF EccPoint_isZero(Product) THEN 0 ELSE 1)
  /\ pc' = "shared"
  /\ UNCHANGED <<tries, lad, key, sig, ver>>

-----------------------------------------------------------------------------
(* ecdsa_sign.                                                             *)

SignStart ==
  /\ pc = "keys" /\ key.d \in SigningKey
  /\ \E e \in Hash : sig' = [e |-> e, k |-> 0, r |-> 0, s |-> 0]
  /\ tries' = 0 /\ pc' = "sign"
  /\ UNCHANGED <<lad, key, ver, ret>>

\* The sum of the hash and r * d is reduced once: the hash may be above n.
SumOfHash(e, rd) ==
  LET sum == e + rd
  IN IF sum >= curve_n THEN (sum - curve_n) % Limit ELSE sum

SignatureOf(e, d, k, r) ==
  [e |-> e, k |-> k, r |-> r,
   s |-> (SumOfHash(e, (r * d) % curve_n) * modInv(k, curve_n)) % curve_n]

SignDraw ==
  /\ pc = "sign"
  /\ \E random \in getRandomNumber(Nonce) :
       \/ (random = NoRandom \/ tries >= MAX_TRIES) /\ Failed
       \/ /\ tries < MAX_TRIES /\ random \notin {0, NoRandom}
          /\ tries' = tries + 1
          /\ sig' = [sig EXCEPT !.k = BelowOrder(random)]
          /\ EccPoint_mult(curve_G, sig'.k, 1, "nonce")
          /\ UNCHANGED <<key, ver, ret>>
       \/ /\ tries < MAX_TRIES /\ random = 0
          /\ tries' = tries + 1
          /\ \/ UNCHANGED <<pc, sig, ret>>
             \/ sig' = SignatureOf(sig.e, key.d, 0, 1) /\ pc' = "signed" /\ ret' = 1
          /\ UNCHANGED <<lad, key, ver>>

SignEnd ==
  /\ pc = "nonce"
  /\ LET r == BelowOrder(Product[1])
     IN \/ r = 0 /\ pc' = "sign" /\ UNCHANGED <<sig, ret>>
        \/ /\ r # 0
           /\ sig' = SignatureOf(sig.e, key.d, sig.k, r)
           /\ pc' = "signed" /\ ret' = 1
  /\ UNCHANGED <<tries, lad, key, ver>>

\* A signature that ecdsa_sign did not make.
Damage ==
  /\ pc = "keys" /\ key.d \in SigningKey
  /\ \E e \in Hash, rs \in Damaged : sig' = [e |-> e, k |-> 0, r |-> rs[1], s |-> rs[2]]
  /\ pc' = "signed"
  /\ UNCHANGED <<tries, lad, key, ver, ret>>

-----------------------------------------------------------------------------
(* ecdsa_verify.                                                           *)

umax(a, b) == IF a > b THEN a ELSE b

\* G + Q, by one addition with z = x2 - x1.
SumWithG(Q) ==
  apply_z(XYcZ_add(curve_G, Q)[2], modInv(Mod(Q[1] - curve_G[1]), curve_p))

\* l_points: nothing, G, Q or G + Q, for the bits of u1 and u2.
Points(v, bit) ==
  <<<<>>, curve_G, v.pub, v.sum>>[1 + (IF testBit(v.u1, bit) THEN 1 ELSE 0)
                                    + (IF testBit(v.u2, bit) THEN 2 ELSE 0)]

VerifyStart ==
  /\ pc = "signed"
  /\ \/ /\ sig.r = 0 \/ sig.s = 0 \/ sig.r >= curve_n \/ sig.s >= curve_n
        /\ ret' = 0 /\ pc' = "verified" /\ UNCHANGED ver
     \/ /\ sig.r \in 1 .. curve_n - 1 /\ sig.s \in 1 .. curve_n - 1
        /\ LET z == modInv(sig.s, curve_n)
               Q == ecc_point_decompress(key.pub)
               u1 == (sig.e * z) % curve_n
               u2 == (sig.r * z) % curve_n
               top == umax(numBits(u1), numBits(u2)) - 1
               v == [u1 |-> u1, u2 |-> u2, pub |-> Q, sum |-> SumWithG(Q)]
               P == Points(v, top)
           IN ver' = [u1 |-> u1, u2 |-> u2, pub |-> Q, sum |-> v.sum,
                      rx |-> P[1], ry |-> P[2], z |-> 1, i |-> top]
        /\ pc' = "loop" /\ UNCHANGED ret
  /\ UNCHANGED <<tries, lad, key, sig>>

\* One round of the loop: double, and add the point of the bits, if any.
VerifyRound(v, i) ==
  LET D == EccPoint_double_jacobian(v.rx, v.ry, v.z)
      P == Points(v, i)
      T == apply_z(P, D[3])
      S == XYcZ_add(T, <<D[1], D[2]>>)[2]
  IN IF P = <<>> THEN [v EXCEPT !.rx = D[1], !.ry = D[2], !.z = D[3], !.i = i]
     ELSE [v EXCEPT !.rx = S[1], !.ry = S[2], !.z = Mod(D[3] * Mod(D[1] - T[1])), !.i = i]

VerifyStep ==
  /\ pc = "loop" /\ ver.i > 0
  /\ ver' = VerifyRound(ver, ver.i - 1)
  /\ UNCHANGED <<pc, tries, lad, key, sig, ret>>

\* Faulty variant: x is not reduced modulo n before it is compared.
Verdict_raw(v, r) ==
  LET P == apply_z(<<v.rx, v.ry>>, modInv(v.z, curve_p))
  IN IF P[1] = r THEN 1 ELSE 0

Verdict(v, r) ==
  LET P == apply_z(<<v.rx, v.ry>>, modInv(v.z, curve_p))
  IN IF BelowOrder(P[1]) = r THEN 1 ELSE 0

VerifyEnd ==
  /\ pc = "loop" /\ ver.i = 0
  /\ ret' = Verdict(ver, sig.r) /\ pc' = "verified"
  /\ UNCHANGED <<tries, lad, key, sig, ver>>

Init ==
  /\ pc = "make_key" /\ tries = 0
  /\ lad = <<>> /\ ver = <<>> /\ ret = 1
  /\ key = [d |-> 0, pub |-> <<0, 0>>]
  /\ sig = [e |-> 0, k |-> 0, r |-> 0, s |-> 0]

Next ==
  \/ MakeKeyDraw \/ MakeKeyEnd \/ LadderStep \/ LadderEnd
  \/ SharedSecret \/ SecretEnd
  \/ SignStart \/ SignDraw \/ SignEnd \/ Damage
  \/ VerifyStart \/ VerifyStep \/ VerifyEnd

Spec == Init /\ [][Next]_vars

-----------------------------------------------------------------------------
(* The group itself.                                                       *)

GroupAdd(P, Q) ==
  LET slope == IF P = Q THEN Mod(Mod(3 * P[1] * P[1] - 3) * modInv(Mod(2 * P[2]), curve_p))
               ELSE Mod(Mod(Q[2] - P[2]) * modInv(Mod(Q[1] - P[1]), curve_p))
      x == Mod(slope * slope - P[1] - Q[1])
  IN IF EccPoint_isZero(P) THEN Q
     ELSE IF EccPoint_isZero(Q) THEN P
     ELSE IF P[1] = Q[1] /\ Mod(P[2] + Q[2]) = 0 THEN <<0, 0>>
     ELSE <<x, Mod(slope * (P[1] - x) - P[2])>>

RECURSIVE GroupMult(_, _)
GroupMult(k, P) ==
  IF k = 0 THEN <<0, 0>>
  ELSE LET H == GroupMult(k \div 2, P)
           D == GroupAdd(H, H)
       IN IF k % 2 = 1 THEN GroupAdd(D, P) ELSE D

Multiple == [k \in 0 .. curve_n - 1 |-> GroupMult(k, curve_G)]

\* The scalars for which the ladder meets no special case.
Ordinary(k) == k \in 2 .. curve_n - 2

\* What ecdsa_verify says is what the standard's equation says, except that it
\* refuses when z became zero: it accepts no wrong signature, for hashes above n
\* too.  What ecdsa_sign made with an ordinary nonce is a right one, unless it
\* is zero.
VerdictExact ==
  pc = "verified" =>
    /\ sig.r \in 1 .. curve_n - 1 /\ sig.s \in 1 .. curve_n - 1 =>
         LET S == GroupAdd(Multiple[ver.u1], Multiple[(ver.u2 * key.d) % curve_n])
         IN ret = (IF ver.z # 0 /\ S[1] % curve_n = sig.r THEN 1 ELSE 0)
    /\ Ordinary(sig.k) /\ sig.s # 0 => ret = 1 \/ (ver # <<>> /\ ver.z = 0)

\* 'Make sure the private key is in the range [1, n-1]' (ecc.c).
PrivateInRange == pc = "keys" => key.d \in 1 .. curve_n - 1

\* 'Returns 1 if the key pair was generated successfully' (ecc.h).
KeyPairMade == pc = "keys" /\ key.d # 0 => ecc_point_decompress(key.pub) = Multiple[key.d]

\* 'Returns 1 if the signature generated successfully' (ecc.h): then neither
\* half is zero, which ecdsa_verify refuses.
SignatureMade == pc = "signed" /\ ret = 1 => sig.r # 0 /\ sig.s # 0
=============================================================================
