-------------------------------- MODULE Lcg --------------------------------
(***************************************************************************)
(* The arithmetic of clients/rng.c: last = (coeff * last + incr) % mod in  *)
(* 32-bit unsigned arithmetic, with parameters meant to satisfy the        *)
(* Hull-Dobell theorem.                                                    *)
(***************************************************************************)
EXTENDS Integers, Sequences, FiniteSetsExt, Functions

-----------------------------------------------------------------------------
(* 32-bit unsigned arithmetic in base 256: every intermediate value stays  *)
(* small, whatever the operands.                                           *)

Byte(x, i) == (x \div 256^i) % 256

\* Column i of the long multiplication a * b + c.
Column(a, b, c, i) ==
  Byte(c, i) + MapThenSumSet(LAMBDA j : Byte(a, j) * Byte(b, i - j), 0..i)

\* The bytes of (a * b + c) % 2^32, the least significant first.
MulAdd(a, b, c) ==
  LET carry[i \in 0..3] ==
        IF i = 0 THEN 0 ELSE (Column(a, b, c, i - 1) + carry[i - 1]) \div 256
  IN  [i \in 0..3 |-> (Column(a, b, c, i) + carry[i]) % 256]

Mod(bytes, m) ==
  LET rem[i \in 0..4] ==
        IF i = 4 THEN 0 ELSE (rem[i + 1] * 256 + bytes[i]) % m
  IN  rem[0]

\* What rng_lcfc stores in last and returns.
rng_lcfc(g) == Mod(MulAdd(g.coeff, g.last, g.incr), g.mod)

-----------------------------------------------------------------------------
coprime(a, bpfacts) == \A i \in DOMAIN bpfacts : a % bpfacts[i] # 0

\* Mutant: the coefficient is only one more than the product.
NewRngWithoutFour(period, pfactors, incr, seed) ==
  [last |-> seed, coeff |-> FoldFunction(LAMBDA x, y : x * y, 1, pfactors) + 1,
   incr |-> incr, mod |-> period]

\* The state that rng_lcfc_init_incr builds from coprime arguments.
NewRng(period, pfactors, incr, seed) ==
  [last |-> seed, coeff |-> 4 * FoldFunction(LAMBDA x, y : x * y, 1, pfactors) + 1,
   incr |-> incr, mod |-> period]

\* The increments that neither loop of rng_lcfc_init draws again.
Accepted(r, period, pfactors) == r \notin {0, 1, period - 1} /\ coprime(r, pfactors)
=============================================================================
