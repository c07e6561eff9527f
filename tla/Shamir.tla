------------------------------- MODULE Shamir -------------------------------
(***************************************************************************)
(* Secret sharing over GF(2^Bits) (crates/crypto/src/shamir.rs) and the    *)
(* place lock built on it (crates/core/src/place.rs).  The code has        *)
(* Bits = 8 and the polynomial 0x1B.  A secret is one field element here:  *)
(* the code shares each byte of a key by itself.                           *)
(***************************************************************************)
EXTENDS SequencesExt, FiniteSetsExt, Naturals, Bitwise

CONSTANTS
  Bits,  \* bits of a field element: 8 in the code
  Poly   \* what a product that overflows is reduced by: 0x1B

Size == 2 ^ Bits

Field == 0..(Size - 1)

\* One turn of gf_mul's loop: a is doubled, b is halved.
mul_turn(s) ==
  [product |-> IF s.b % 2 = 1 THEN s.product ^^ s.a ELSE s.product,
   a |-> IF s.a >= Size \div 2 THEN ((2 * s.a) % Size) ^^ Poly ELSE 2 * s.a,
   b |-> s.b \div 2]

gf_mul(a, b) ==
  LET after[i \in 0..Bits] ==
        IF i = 0 THEN [product |-> 0, a |-> a, b |-> b] ELSE mul_turn(after[i - 1])
  IN  after[Bits].product

\* Squaring and multiplying: the variables of the loop are the function's arguments.
gf_pow(base, exp) ==
  LET loop[result \in Field, b \in Field, e \in 0..exp] ==
        IF e = 0 THEN result
        ELSE loop[IF e % 2 = 1 THEN gf_mul(result, b) ELSE result, gf_mul(b, b), e \div 2]
  IN  loop[1, base, exp]

gf_inv(a) == gf_pow(a, Size - 2)

\* Horner's rule, from the highest coefficient.
eval_poly(coeffs, x) == FoldLeft(LAMBDA acc, c : gf_mul(acc, x) ^^ c, 0, Reverse(coeffs))

Err == [ok |-> FALSE]

Ok(v) == [ok |-> TRUE, v |-> v]

\* split: random holds the threshold - 1 random coefficients.
split(secret, threshold, shares, random) ==
  IF threshold < 2 \/ shares < threshold THEN Err
  ELSE Ok([x \in 1..shares |-> [x |-> x, y |-> eval_poly(<<secret>> \o random, x)]])

\* Lagrange's coefficient of share i at 0.
coefficient(shares, i) ==
  FoldLeft(LAMBDA acc, j :
             IF j = i THEN acc
             ELSE gf_mul(acc, gf_mul(shares[j].x, gf_inv(shares[j].x ^^ shares[i].x))),
           1, [j \in DOMAIN shares |-> j])

\* combine.  Shares at the same point are not rejected.
combine(shares) ==
  IF Len(shares) < 2 \/ \E i \in DOMAIN shares : shares[i].x = 0 THEN Err
  ELSE Ok(FoldLeft(LAMBDA acc, i : acc ^^ gf_mul(shares[i].y, coefficient(shares, i)),
                   0, [i \in DOMAIN shares |-> i]))

-----------------------------------------------------------------------------
(* place *)

\* seal: the i-th share is sealed for the i-th custodian.
seal(key, custodians, threshold, random) ==
  LET s == split(key, threshold, Len(custodians), random)
  IN  IF custodians = <<>> THEN Err
      ELSE IF ~s.ok THEN Err
      ELSE Ok([i \in DOMAIN custodians |-> [for |-> custodians[i], share |-> s.v[i]]])

open_skips(available, threshold) ==
  LET good == SelectSeq(available, LAMBDA a : a.by = a.sealed.for)
  IN  IF Len(available) < threshold \/ threshold < 2 THEN Err
      ELSE combine([i \in DOMAIN good |-> good[i].sealed.share])

\* open: all available shares are used, and one that its secret does not open is an error.
open(available, threshold) ==
  IF Len(available) < threshold \/ threshold < 2 THEN Err
  ELSE IF \E i \in DOMAIN available : available[i].by # available[i].sealed.for THEN Err
  ELSE combine([i \in DOMAIN available |-> available[i].sealed.share])

=============================================================================
