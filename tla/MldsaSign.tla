------------------------------ MODULE MldsaSign ------------------------------
(***************************************************************************)
(* tools/pqc/mldsa: key generation, the rejection loop of                  *)
(* mldsa_sign_internal and mldsa_verify_internal.                          *)
(*                                                                         *)
(* The ring is Z_Q (polynomials of one coefficient), so that a product is  *)
(* a product whether or not it goes through the NTT; s1, y and z have one  *)
(* entry (ell = 1), t, s2, w and h have K.  The streams that give A, s1,   *)
(* s2 and y may give any value in range.  The random oracle is injective:  *)
(* its value is its argument w1, and the challenge it gives is 1 or -1.    *)
(***************************************************************************)
EXTENDS Integers, FiniteSets

CONSTANTS
  Q, PowD,         \* MLDSA_PAR_Q, 1 << MLDSA_PAR_D
  Gamma1, Gamma2,  \* par->gamma1, par->gamma2
  Eta, Beta,       \* par->eta, par->beta = tau * eta
  Omega, K,        \* par->omega, par->k
  Matrices,        \* the matrices A: functions from rows to Z_Q
  MaxTries         \* bound: rounds of the rejection loop that are followed

Rows == 1..K

ASSUME MldsaAssumption ==
  /\ Q \in Nat /\ Q > 1 /\ Gamma1 \in Nat /\ Gamma2 \in Nat
  /\ PowD \in Nat /\ PowD > 0 /\ PowD % 2 = 0
  /\ Eta \in Nat /\ Beta \in Nat /\ Omega \in Nat /\ K \in Nat /\ MaxTries \in Nat /\ MaxTries < 2^16
  /\ Beta >= Eta /\ Gamma1 > Beta /\ Gamma2 > Beta
  /\ (Q - 1) % (2 * Gamma2) = 0
  /\ Matrices \subseteq [Rows -> 0..(Q - 1)]

VARIABLES
  pc,
  a, s1, s2, t1, t0,   \* mat and the unpacked keys
  nonce,               \* rounds of the rejection loop begun
  y, w1, w0, c, z, h,  \* locals of mldsa_sign_internal; c is cp
  sig,                 \* the signature that sign wrote
  v1,                  \* w1 as verify reconstructs it
  ret                  \* what verify returned

vars == <<pc, a, s1, s2, t1, t0, nonce, y, w1, w0, c, z, h, sig, v1, ret>>
key  == <<a, s1, s2, t1, t0>>

Short    == (-Eta)..Eta
MaskSet  == (1 - Gamma1)..Gamma1
Zero     == [r \in Rows |-> 0]
NoSig    == [c |-> 0, ct |-> Zero, z |-> 0, h |-> Zero]
Steps    == {"keygen", "rej", "decompose", "oracle", "z", "w0", "ct0", "hint",
             "verify", "rebuild", "compare", "done", "bound"}

Init ==
  /\ pc = "keygen"
  /\ a = Zero /\ s1 = 0 /\ s2 = Zero /\ t1 = Zero /\ t0 = Zero
  /\ nonce = 0
  /\ y = 0 /\ w1 = Zero /\ w0 = Zero /\ c = 0 /\ z = 0 /\ h = Zero
  /\ sig = NoSig /\ v1 = Zero /\ ret = 0

----------------------------------------------------------------------------
\* Arithmetic on one coefficient.

\* poly_caddq after a reduction: the standard representative.
Std(x) == x % Q
\* mldsa_poly_reduce: the representative around zero.  (reduce32 may be off it
\* by Q, but only with both too large for every bound that chknorm is given.)
Reduce(x) == LET m == x % Q IN IF m > (Q - 1) \div 2 THEN m - Q ELSE m

power2round(x) ==
  LET x1 == (x + PowD \div 2 - 1) \div PowD IN <<x1, x - x1 * PowD>>

\* decompose_32 and decompose_88: the quotient by 2 * Gamma2, rounded half
\* down and taken modulo (Q - 1) / (2 * Gamma2), and the centred rest.
High == (Q - 1) \div (2 * Gamma2)
decompose(x) ==
  LET x1 == ((x + Gamma2 - 1) \div (2 * Gamma2)) % High
      x0 == x - x1 * 2 * Gamma2
  IN  <<x1, IF x0 > (Q - 1) \div 2 THEN x0 - Q ELSE x0>>

\* Mutant: no hint at the lower edge.
MakeHintNoEdge(x0, x1) == IF x0 > Gamma2 \/ x0 < -Gamma2 THEN 1 ELSE 0

make_hint(x0, x1) ==
  IF x0 > Gamma2 \/ x0 < -Gamma2 \/ (x0 = -Gamma2 /\ x1 # 0) THEN 1 ELSE 0

\* Mutant: the corrected high part is not wrapped round.
UseHintNoWrap(x, hint) ==
  LET d == decompose(x)
  IN  IF hint = 0 THEN d[1] ELSE IF d[2] > 0 THEN d[1] + 1 ELSE d[1] - 1

use_hint(x, hint) ==
  LET d == decompose(x)
  IN  IF hint = 0 THEN d[1]
      ELSE IF d[2] > 0 THEN (d[1] + 1) % High ELSE (d[1] - 1) % High

Abs(x) == IF x < 0 THEN -x ELSE x
\* poly_chknorm: 1 (too large) also for a bound above (Q - 1) / 8.
chknorm(x, bound) == bound > (Q - 1) \div 8 \/ Abs(x) >= bound
chknorm_k(v, bound) == \E r \in Rows : chknorm(v[r], bound)

----------------------------------------------------------------------------
\* Keys.

mldsa_keygen_internal ==
  /\ pc = "keygen"
  /\ \E m \in Matrices, x \in Short, e \in [Rows -> Short] :
       LET t == [r \in Rows |-> power2round(Std(m[r] * x + e[r]))]
       IN  /\ a' = m /\ s1' = x /\ s2' = e
           /\ t1' = [r \in Rows |-> t[r][1]]
           /\ t0' = [r \in Rows |-> t[r][2]]
  /\ pc' = "rej"
  /\ UNCHANGED <<nonce, y, w1, w0, c, z, h, sig, v1, ret>>

----------------------------------------------------------------------------
\* mldsa_sign_internal from the label rej on.

\* polyvecl_uniform_gamma1(rhop, nonce++): another nonce, another mask.
SampleMask ==
  /\ pc = "rej" /\ nonce < MaxTries
  /\ y' \in MaskSet
  /\ nonce' = (nonce + 1) % 2^16
  /\ pc' = "decompose"
  /\ UNCHANGED <<key, w1, w0, c, z, h, sig, v1, ret>>

\* w = A y; its high part goes to the oracle, its low part is kept.
DecomposeW ==
  /\ pc = "decompose"
  /\ LET w == [r \in Rows |-> decompose(Std(a[r] * y))]
     IN  /\ w1' = [r \in Rows |-> w[r][1]]
         /\ w0' = [r \in Rows |-> w[r][2]]
  /\ pc' = "oracle"
  /\ UNCHANGED <<key, nonce, y, c, z, h, sig, v1, ret>>

AskOracle ==
  /\ pc = "oracle"
  /\ c' \in {1, -1}
  /\ pc' = "z"
  /\ UNCHANGED <<key, nonce, y, w1, w0, z, h, sig, v1, ret>>

\* Mutant: z is bounded by Gamma1 alone.
CheckZLoose ==
  /\ pc = "z"
  /\ z' = Reduce(c * s1 + y)
  /\ pc' = IF chknorm(z', Gamma1) THEN "rej" ELSE "w0"
  /\ UNCHANGED <<key, nonce, y, w1, w0, c, h, sig, v1, ret>>

\* z = y + c s1; start again if it could reveal s1.
CheckZ ==
  /\ pc = "z"
  /\ z' = Reduce(c * s1 + y)
  /\ pc' = IF chknorm(z', Gamma1 - Beta) THEN "rej" ELSE "w0"
  /\ UNCHANGED <<key, nonce, y, w1, w0, c, h, sig, v1, ret>>

\* Mutant: the low bits are not checked after c s2 is subtracted.
SkipCheckW0 ==
  /\ pc = "w0"
  /\ w0' = [r \in Rows |-> Reduce(w0[r] - c * s2[r])]
  /\ pc' = "ct0"
  /\ UNCHANGED <<key, nonce, y, w1, c, z, h, sig, v1, ret>>

CheckW0 ==
  /\ pc = "w0"
  /\ w0' = [r \in Rows |-> Reduce(w0[r] - c * s2[r])]
  /\ pc' = IF chknorm_k(w0', Gamma2 - Beta) THEN "rej" ELSE "ct0"
  /\ UNCHANGED <<key, nonce, y, w1, c, z, h, sig, v1, ret>>

CheckCt0 ==
  /\ pc = "ct0"
  /\ h' = [r \in Rows |-> Reduce(c * t0[r])]
  /\ pc' = IF chknorm_k(h', Gamma2) THEN "rej" ELSE "hint"
  /\ UNCHANGED <<key, nonce, y, w1, w0, c, z, sig, v1, ret>>

\* The hints, the limit on their number, pack_sig.
MakeHints ==
  /\ pc = "hint"
  /\ w0' = [r \in Rows |-> w0[r] + h[r]]
  /\ h' = [r \in Rows |-> make_hint(w0'[r], w1[r])]
  /\ IF Cardinality({r \in Rows : h'[r] = 1}) > Omega
     THEN pc' = "rej" /\ UNCHANGED sig
     ELSE pc' = "verify" /\ sig' = [c |-> c, ct |-> w1, z |-> z, h |-> h']
  /\ UNCHANGED <<key, nonce, y, w1, c, z, v1, ret>>

\* Bound of the model: the loop goes on in the code.
OutOfTries ==
  /\ pc = "rej" /\ nonce >= MaxTries
  /\ pc' = "bound"
  /\ UNCHANGED <<key, nonce, y, w1, w0, c, z, h, sig, v1, ret>>

----------------------------------------------------------------------------
\* mldsa_verify_internal, given the signature that sign wrote.

VerifyNorm ==
  /\ pc = "verify"
  /\ IF chknorm(sig.z, Gamma1 - Beta) THEN ret' = 0 /\ pc' = "done"
     ELSE pc' = "rebuild" /\ UNCHANGED ret
  /\ UNCHANGED <<key, nonce, y, w1, w0, c, z, h, sig, v1>>

\* A z - c t1 2^D, corrected by the hints.
Rebuild ==
  /\ pc = "rebuild"
  /\ v1' = [r \in Rows |-> use_hint(Std(a[r] * sig.z - sig.c * t1[r] * PowD), sig.h[r])]
  /\ pc' = "compare"
  /\ UNCHANGED <<key, nonce, y, w1, w0, c, z, h, sig, ret>>

Compare ==
  /\ pc = "compare"
  /\ ret' = IF v1 = sig.ct THEN 1 ELSE 0
  /\ pc' = "done"
  /\ UNCHANGED <<key, nonce, y, w1, w0, c, z, h, sig, v1>>

Done == pc \in {"done", "bound"} /\ UNCHANGED vars

Next ==
  \/ mldsa_keygen_internal
  \/ SampleMask \/ DecomposeW \/ AskOracle \/ CheckZ \/ CheckW0 \/ CheckCt0
  \/ MakeHints \/ OutOfTries
  \/ VerifyNorm \/ Rebuild \/ Compare \/ Done

Spec == Init /\ [][Next]_vars

----------------------------------------------------------------------------
\* Properties.

\* Ranges of the values, among them what the packers of the code assume: the
\* high parts are below (Q - 1) / (2 * Gamma2), on both sides of the exchange.
TypeOK ==
  /\ pc \in Steps /\ ret \in {0, 1}
  /\ s1 \in Short /\ s2 \in [Rows -> Short]
  /\ t0 \in [Rows -> (1 - PowD \div 2)..(PowD \div 2)]
  /\ y \in MaskSet /\ c \in {0, 1, -1}
  /\ w1 \in [Rows -> 0..(High - 1)] /\ v1 \in [Rows -> 0..(High - 1)]
  /\ sig.h \in [Rows -> {0, 1}]

\* A signature that mldsa_sign_internal writes is accepted by
\* mldsa_verify_internal: the checks of the loop leave only cases in which the
\* hints turn A z - c t1 2^D back into the high part of A y.
SignedVerifies == pc = "done" => ret = 1

\* What a signature tells of s1: its z could have come from every short s1
\* with some mask in range.
MaskHidesKey ==
  pc \in {"verify", "rebuild", "compare", "done"} =>
    \A s \in Short : sig.z - sig.c * s \in MaskSet

\* What a signature tells of s2: w - c s2, which t and z give away, has its high
\* part so far from an edge that every short s2 would have led to the same w1.
LowBitsHideKey ==
  pc \in {"verify", "rebuild", "compare", "done"} =>
    \A r \in Rows, e \in Short :
      LET t == t1[r] * PowD + t0[r]
      IN  decompose(Std(a[r] * sig.z - sig.c * t + sig.c * e))[1] = sig.ct[r]
=============================================================================
