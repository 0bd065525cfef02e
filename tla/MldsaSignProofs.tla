--------------------------- MODULE MldsaSignProofs ---------------------------
(***************************************************************************)
(* Sign and verify of ML-DSA agree, and a signature hides the key, for     *)
(* every modulus and every parameter set of MldsaAssumption.               *)
(*                                                                         *)
(* First the arithmetic of one coefficient: what decompose returns for a   *)
(* number given as u * 2 * Gamma2 + v, and that a hint made from v gives u *)
(* back.  Then the invariant: at each step of the rejection loop, which    *)
(* congruences modulo Q hold between the locals and which of them the      *)
(* checks have bounded.                                                    *)
(***************************************************************************)
EXTENDS MldsaSign, TLAPS

alpha == 2 * Gamma2
Cong(x, x2) == \E n \in Int : x = x2 + n * Q

\* Q - 1 is a positive number of intervals of alpha.
LEMMA Intervals ==
  /\ alpha \in Nat /\ alpha >= 2 /\ alpha = 2 * Gamma2 /\ Gamma2 \in Nat /\ Gamma2 > 0
  /\ Q \in Nat /\ High \in Nat /\ High > 0
  /\ Q = High * alpha + 1 /\ (Q - 1) \div 2 = High * Gamma2
  <1>1. alpha \in Nat /\ alpha >= 2 /\ alpha = 2 * Gamma2 /\ Gamma2 \in Nat /\ Gamma2 > 0
    BY MldsaAssumption DEF alpha
  <1>2. Q - 1 = alpha * High /\ High \in Int
    BY MldsaAssumption, <1>1 DEF High, alpha
  <1>3. High > 0
    BY MldsaAssumption, <1>1, <1>2
  <1>4. Q - 1 = 2 * (High * Gamma2)
    BY <1>1, <1>2
  <1> QED
    BY <1>1, <1>2, <1>3, <1>4, MldsaAssumption

\* A division by alpha, when quotient and rest are known.
LEMMA DivAlpha ==
  ASSUME NEW q \in Int, NEW r \in 0..(alpha - 1)
  PROVE  (alpha * q + r) \div alpha = q
  BY Intervals

\* Std and Reduce stay in the class of their argument, and Std is one number per
\* class.
LEMMA StdCong ==
  ASSUME NEW x \in Int
  PROVE  Std(x) \in 0..(Q - 1) /\ Cong(x, Std(x)) /\ Cong(Std(x), x)
  <1>1. /\ x % Q \in 0..(Q - 1) /\ x \div Q \in Int
        /\ x = (x % Q) + (x \div Q) * Q /\ x % Q = x + (-(x \div Q)) * Q
    BY MldsaAssumption
  <1> QED
    BY <1>1 DEF Std, Cong

\* A number of 0..Q-1 in the class of x is Std(x).
LEMMA StdUnique ==
  ASSUME NEW x \in Int, NEW m \in 0..(Q - 1), Cong(x, m)
  PROVE  Std(x) = m
  <1>1. PICK n \in Int : x = m + n * Q
    BY DEF Cong
  <1> QED
    BY <1>1, MldsaAssumption DEF Std

\* Congruence modulo Q is transitive.
LEMMA CongTrans ==
  ASSUME NEW x \in Int, NEW x2 \in Int, NEW x3 \in Int, Cong(x, x2), Cong(x2, x3)
  PROVE  Cong(x, x3)
  <1>1. PICK n \in Int : x = x2 + n * Q
    BY DEF Cong
  <1>2. PICK m \in Int : x2 = x3 + m * Q
    BY DEF Cong
  <1>3. x = x3 + (n + m) * Q /\ n + m \in Int
    BY <1>1, <1>2, MldsaAssumption
  <1> QED
    BY <1>3 DEF Cong

\* Reduce, the representative around zero, stays in its argument's class.
LEMMA ReduceCong ==
  ASSUME NEW x \in Int
  PROVE  Reduce(x) \in Int /\ Cong(Reduce(x), x)
  <1>1. PICK m \in Int : m = Std(x)
    BY StdCong, MldsaAssumption
  <1>2. Cong(m, x)
    BY <1>1, StdCong
  <1>3. m - Q = m + (-1) * Q /\ m - Q \in Int
    BY MldsaAssumption
  <1>4. Cong(m - Q, m)
    BY <1>3 DEF Cong
  <1>5. Cong(m - Q, x)
    BY <1>2, <1>3, <1>4, CongTrans
  <1>6. Reduce(x) = m \/ Reduce(x) = m - Q
    BY <1>1 DEF Reduce, Std
  <1> QED
    BY <1>2, <1>3, <1>5, <1>6

\* Congruent numbers have the same standard representative.
LEMMA CongStd ==
  ASSUME NEW x \in Int, NEW x2 \in Int, Cong(x, x2)
  PROVE  Std(x) = Std(x2)
  <1>1. Std(x2) \in 0..(Q - 1) /\ Std(x2) \in Int /\ Cong(x2, Std(x2))
    BY StdCong, MldsaAssumption
  <1>2. Cong(x, Std(x2))
    BY <1>1, CongTrans
  <1> QED
    BY <1>1, <1>2, StdUnique

----------------------------------------------------------------------------
\* What decompose returns for a number whose high and low part are given: below the
\* last half interval, and in it, where the high part wraps to 0.
LEMMA DecomposeOf ==
  ASSUME NEW u \in 0..(High - 1), NEW v \in (1 - Gamma2)..Gamma2, u * alpha + v >= 0
  PROVE  /\ u * alpha + v \in 0..(Q - 1)
         /\ decompose(u * alpha + v) = <<u, v>>
  <1> DEFINE x == u * alpha + v
  <1>1. u * alpha <= (High - 1) * alpha /\ u * alpha \in Int /\ (High - 1) * alpha = High * alpha - alpha
    BY Intervals
  <1>2. x \in 0..(Q - 1)
    BY <1>1, Intervals
  <1>3. (x + Gamma2 - 1) \div alpha = u
    <2>1. x + Gamma2 - 1 = alpha * u + (v + Gamma2 - 1)
      BY <1>1, Intervals
    <2> QED
      BY <2>1, DivAlpha, Intervals
  <1>4. u % High = u
    BY Intervals
  <1>5. x - u * 2 * Gamma2 = v
    BY <1>1, Intervals
  <1>6. v <= High * Gamma2
    BY Intervals
  <1> QED
    BY <1>2, <1>3, <1>4, <1>5, <1>6, Intervals DEF decompose, alpha

\* In the last half interval the high part is 0 and the low part is negative.
LEMMA DecomposeTop ==
  ASSUME NEW v \in (-Gamma2)..(-1)
  PROVE  Q + v \in 0..(Q - 1) /\ decompose(Q + v) = <<0, v>>
  <1> DEFINE x == Q + v
  <1>1. Gamma2 <= High * Gamma2 /\ High * alpha = 2 * (High * Gamma2) /\ High * Gamma2 \in Int
    BY Intervals
  <1>2. x \in 0..(Q - 1) /\ x > High * Gamma2
    BY <1>1, Intervals
  <1>3. (x + Gamma2 - 1) \div alpha = High
    <2>1. x + Gamma2 - 1 = alpha * High + (v + Gamma2)
      BY <1>1, Intervals
    <2> QED
      BY <2>1, DivAlpha, Intervals
  <1>4. High % High = 0
    BY Intervals
  <1> QED
    BY <1>2, <1>3, <1>4, Intervals DEF decompose, alpha

\* Every number below Q is one of the two.
LEMMA DecomposeRange ==
  ASSUME NEW x \in 0..(Q - 1)
  PROVE  /\ decompose(x)[1] \in 0..(High - 1)
         /\ decompose(x)[2] \in (-Gamma2)..Gamma2
         /\ Cong(x, decompose(x)[1] * alpha + decompose(x)[2])
  <1> DEFINE q == (x + Gamma2 - 1) \div alpha
             v == x - q * alpha
  <1>1. q \in Int /\ q * alpha \in Int
    BY Intervals
  <1>2. v \in (1 - Gamma2)..Gamma2
    BY <1>1, Intervals
  <1>3. x = q * alpha + v
    BY <1>1
  <1>4. q \in 0..High
    BY <1>1, <1>2, Intervals
  <1> HIDE DEF q, v
  <1>5. CASE q < High
    <2>1. q \in 0..(High - 1)
      BY <1>4, <1>5, Intervals
    <2>2. decompose(x) = <<q, v>>
      BY <2>1, <1>2, <1>3, DecomposeOf
    <2>3. x = q * alpha + v + 0 * Q
      BY <1>1, <1>2, <1>3, Intervals
    <2> QED
      BY <2>1, <2>2, <2>3, <1>2, Intervals DEF Cong
  <1>6. CASE q = High
    <2>1. x - Q \in (-Gamma2)..(-1) /\ x = Q + (x - Q)
      BY <1>2, <1>3, <1>6, Intervals
    <2>2. decompose(x) = <<0, x - Q>>
      BY <2>1, DecomposeTop
    <2>3. x = 0 * alpha + (x - Q) + 1 * Q
      BY Intervals
    <2>4. Cong(x, 0 * alpha + (x - Q))
      BY <2>3 DEF Cong
    <2> QED
      BY <2>1, <2>2, <2>4, Intervals
  <1> QED
    BY <1>4, <1>5, <1>6, Intervals

\* The high part that decompose finds in u * alpha + v modulo Q.
LEMMA HighOf ==
  ASSUME NEW u \in 0..(High - 1), NEW v \in (-Gamma2)..Gamma2, v = -Gamma2 => u = 0
  PROVE  decompose(Std(u * alpha + v)) = <<u, v>>
  <1>1. u * alpha \in Int /\ (u > 0 => u * alpha >= alpha) /\ (u = 0 => u * alpha = 0)
    BY Intervals
  <1>2. CASE u * alpha + v >= 0
    <2>1. v \in (1 - Gamma2)..Gamma2
      BY <1>1, <1>2, Intervals
    <2>2. u * alpha + v \in 0..(Q - 1) /\ decompose(u * alpha + v) = <<u, v>>
      BY <1>2, <2>1, DecomposeOf
    <2>3. Std(u * alpha + v) = u * alpha + v
      BY <2>2, Intervals DEF Std
    <2> QED
      BY <2>2, <2>3
  <1>3. CASE u * alpha + v < 0
    <2>1. u = 0 /\ v \in (-Gamma2)..(-1) /\ u * alpha + v = v
      BY <1>1, <1>3, Intervals
    <2>2. Q + v \in 0..(Q - 1) /\ decompose(Q + v) = <<0, v>>
      BY <2>1, DecomposeTop
    <2>3. v = Q + v + (-1) * Q
      BY <2>1, Intervals
    <2>4. Std(v) = Q + v
      BY <2>1, <2>2, <2>3, StdUnique DEF Cong
    <2> QED
      BY <2>1, <2>2, <2>4
  <1> QED
    BY <1>1, <1>2, <1>3

\* One step up or down from the high part, modulo High.
LEMMA StepsWrap ==
  ASSUME NEW u \in 0..(High - 1)
  PROVE  /\ u % High = u
         /\ u + 1 < High => (u + 1) % High = u + 1
         /\ u + 1 = High => (u + 1) % High = 0
         /\ u > 0 => (u - 1) % High = u - 1
         /\ u = 0 => (u - 1) % High = High - 1
  <1>1. u = 0 => u - 1 = High * (-1) + (High - 1)
    BY Intervals
  <1> QED
    BY <1>1, Intervals

\* make_hint and use_hint: whichever number below alpha is added to the high part
\* u, the hint made from the two gives u back.
LEMMA HintGivesBack ==
  ASSUME NEW u \in 0..(High - 1), NEW v \in (1 - alpha)..(alpha - 1)
  PROVE  use_hint(Std(u * alpha + v), make_hint(v, u)) = u
  <1>0. u * alpha \in Int /\ u * alpha + v \in Int
    BY Intervals
  <1>1. CASE v \in (-Gamma2)..Gamma2 /\ (v = -Gamma2 => u = 0)
    <2>1. make_hint(v, u) = 0
      BY <1>1, Intervals DEF make_hint
    <2> QED
      BY <1>1, <2>1, HighOf DEF use_hint
  <1>2. CASE v > Gamma2
    <2>1. make_hint(v, u) = 1
      BY <1>2, Intervals DEF make_hint
    <2>2. CASE u + 1 < High
      <3>1. u * alpha + v = (u + 1) * alpha + (v - alpha)
        BY Intervals
      <3>2. u + 1 \in 0..(High - 1) /\ v - alpha \in (1 - Gamma2)..(-1)
        BY <1>2, <2>2, Intervals
      <3>3. v - alpha \in (-Gamma2)..Gamma2 /\ v - alpha # -Gamma2
        BY <3>2, Intervals
      <3>4. decompose(Std((u + 1) * alpha + (v - alpha))) = <<u + 1, v - alpha>>
        BY <3>2, <3>3, HighOf
      <3>5. decompose(Std(u * alpha + v)) = <<u + 1, v - alpha>>
        BY <3>1, <3>4
      <3> QED
        BY <2>1, <2>2, <3>5, StepsWrap, Intervals DEF use_hint
    <2>3. CASE u + 1 = High
      <3>1. u * alpha + v = 0 * alpha + (v - alpha - 1) + 1 * Q
        BY <2>3, Intervals
      <3>2. Std(u * alpha + v) = Std(0 * alpha + (v - alpha - 1))
        BY <3>1, <1>0, CongStd, Intervals DEF Cong
      <3>3. decompose(Std(u * alpha + v)) = <<0, v - alpha - 1>>
        BY <1>2, <3>2, HighOf, Intervals
      <3> QED
        BY <2>1, <2>3, <3>3, StepsWrap, Intervals DEF use_hint
    <2> QED
      BY <2>2, <2>3, Intervals
  <1>3. CASE v <= -Gamma2 /\ u > 0
    <2>1. make_hint(v, u) = 1
      BY <1>3, Intervals DEF make_hint
    <2>2. u * alpha + v = (u - 1) * alpha + (v + alpha)
      BY Intervals
    <2>3. u - 1 \in 0..(High - 1) /\ v + alpha \in 1..Gamma2
      BY <1>3, Intervals
    <2>4. v + alpha \in (-Gamma2)..Gamma2 /\ v + alpha # -Gamma2
      BY <2>3, Intervals
    <2>5. decompose(Std((u - 1) * alpha + (v + alpha))) = <<u - 1, v + alpha>>
      BY <2>3, <2>4, HighOf
    <2>6. decompose(Std(u * alpha + v)) = <<u - 1, v + alpha>>
      BY <2>2, <2>5
    <2> QED
      BY <1>3, <2>1, <2>6, StepsWrap, Intervals DEF use_hint
  <1>4. CASE v < -Gamma2 /\ u = 0
    <2>1. make_hint(v, u) = 1
      BY <1>4, Intervals DEF make_hint
    <2>2. u * alpha + v = (High - 1) * alpha + (v + alpha + 1) + (-1) * Q
      BY <1>4, Intervals
    <2>3. Std(u * alpha + v) = Std((High - 1) * alpha + (v + alpha + 1))
      BY <2>2, <1>0, CongStd, Intervals DEF Cong
    <2>4. High - 1 \in 0..(High - 1) /\ v + alpha + 1 \in 1..Gamma2
      BY <1>4, Intervals
    <2>5. v + alpha + 1 \in (-Gamma2)..Gamma2 /\ v + alpha + 1 # -Gamma2
      BY <2>4, Intervals
    <2>6. decompose(Std((High - 1) * alpha + (v + alpha + 1))) = <<High - 1, v + alpha + 1>>
      BY <2>4, <2>5, HighOf
    <2>7. decompose(Std(u * alpha + v)) = <<High - 1, v + alpha + 1>>
      BY <2>3, <2>6
    <2> QED
      BY <1>4, <2>1, <2>7, StepsWrap, Intervals DEF use_hint
  <1> QED
    BY <1>1, <1>2, <1>3, <1>4, Intervals

----------------------------------------------------------------------------
\* power2round splits its argument, with the low part around zero.
LEMMA PowerParts ==
  ASSUME NEW x \in Int
  PROVE  /\ power2round(x)[1] \in Int
         /\ power2round(x)[2] \in (1 - PowD \div 2)..(PowD \div 2)
         /\ power2round(x)[1] * PowD + power2round(x)[2] = x
  <1> DEFINE q == (x + PowD \div 2 - 1) \div PowD
  <1>1. PowD = 2 * (PowD \div 2) /\ PowD \div 2 \in Nat
    BY MldsaAssumption
  <1>2. q \in Int /\ q * PowD \in Int
    BY <1>1, MldsaAssumption
  <1>3. x + PowD \div 2 - 1 - q * PowD \in 0..(PowD - 1)
    BY <1>1, <1>2, MldsaAssumption
  <1>4. x - q * PowD \in (1 - PowD \div 2)..(PowD \div 2)
    BY <1>1, <1>2, <1>3
  <1>5. power2round(x) = <<q, x - q * PowD>>
    BY DEF power2round
  <1> HIDE DEF q
  <1> QED
    BY <1>2, <1>4, <1>5

\* A z - c t, for z = y + c s1 and t = A s1 + s2, is A y - c s2: the high part of
\* A y with its low part reduced by c s2.
LEMMA LowCong ==
  ASSUME NEW A \in Int, NEW Y \in Int, NEW Z \in Int, NEW C \in Int, NEW S \in Int,
         NEW E \in Int, NEW T \in Int, NEW W \in Int, NEW L0 \in Int, NEW L \in Int,
         Cong(A * Y, W + L0), Cong(Z, C * S + Y), Cong(T, A * S + E), Cong(L, L0 - C * E)
  PROVE  Cong(A * Z - C * T, W + L)
  <1>1. PICK n1 \in Int : A * Y = W + L0 + n1 * Q
    BY DEF Cong
  <1>2. PICK n2 \in Int : Z = C * S + Y + n2 * Q
    BY DEF Cong
  <1>3. PICK n3 \in Int : T = A * S + E + n3 * Q
    BY DEF Cong
  <1>4. PICK n4 \in Int : L = L0 - C * E + n4 * Q
    BY DEF Cong
  <1>5. A * Z - C * T = W + L + (n1 - n4 + A * n2 - C * n3) * Q
    BY <1>1, <1>2, <1>3, <1>4, MldsaAssumption
  <1>6. n1 - n4 + A * n2 - C * n3 \in Int
    OBVIOUS
  <1> QED
    BY <1>5, <1>6 DEF Cong

\* Without t0, which verify does not have, c t0 is added to the low part.
LEMMA NoT0Cong ==
  ASSUME NEW X \in Int, NEW C \in Int, NEW T1 \in Int, NEW T0 \in Int, NEW W \in Int,
         NEW L \in Int, NEW H \in Int,
         Cong(X - C * (T1 * PowD + T0), W + L), Cong(H, C * T0)
  PROVE  Cong(X - C * T1 * PowD, W + (L + H))
  <1>1. PICK n1 \in Int : X - C * (T1 * PowD + T0) = W + L + n1 * Q
    BY DEF Cong
  <1>2. PICK n2 \in Int : H = C * T0 + n2 * Q
    BY DEF Cong
  <1>3. X - C * T1 * PowD = W + (L + H) + (n1 - n2) * Q
    BY <1>1, <1>2, MldsaAssumption
  <1> QED
    BY <1>3 DEF Cong

\* A product of c with a short number is short.
LEMMA ShortProduct ==
  ASSUME NEW C \in {0, 1, -1}, NEW e \in Short
  PROVE  C * e \in (-Beta)..Beta
  BY MldsaAssumption DEF Short

\* What chknorm leaves.
LEMMA NormBound ==
  ASSUME NEW x \in Int, NEW bound \in Int, ~chknorm(x, bound)
  PROVE  x \in (1 - bound)..(bound - 1)
  BY MldsaAssumption DEF chknorm, Abs

----------------------------------------------------------------------------
\* The invariant.

Signed == {"verify", "rebuild", "compare", "done"}

Types ==
  /\ TypeOK
  /\ a \in [Rows -> 0..(Q - 1)] /\ t1 \in [Rows -> Int]
  /\ w0 \in [Rows -> Int] /\ h \in [Rows -> Int] /\ z \in Int

t(r) == t1[r] * PowD + t0[r]

\* The key: t is A s1 + s2.
KeyPhase == pc # "keygen" => \A r \in Rows : Cong(t(r), a[r] * s1 + s2[r])

\* The commitment: w1 and w0 are the parts of A y.
CommitPhase ==
  pc \in {"oracle", "z", "w0"} => \A r \in Rows : Cong(a[r] * y, w1[r] * alpha + w0[r])

\* The response.
ResponsePhase ==
  pc \in {"w0", "ct0", "hint"} \cup Signed =>
    Cong(z, c * s1 + y) /\ ~chknorm(z, Gamma1 - Beta)

\* A z - c t has the high part w1 and a low part that is at least Beta away from
\* the edges.
LowBits(r, low) ==
  /\ low \in (1 - (Gamma2 - Beta))..(Gamma2 - Beta - 1)
  /\ Cong(a[r] * z - c * t(r), w1[r] * alpha + low)

LowPhase == pc \in {"ct0", "hint"} => \A r \in Rows : LowBits(r, w0[r])

HintPhase ==
  pc = "hint" => \A r \in Rows : Cong(h[r], c * t0[r]) /\ h[r] \in (1 - Gamma2)..(Gamma2 - 1)

\* The signature, and what the hints in it were made from.
SigPhase ==
  pc \in Signed =>
    /\ sig = [c |-> c, ct |-> w1, z |-> z, h |-> h]
    /\ \A r \in Rows :
         /\ \E low \in Int : LowBits(r, low)
         /\ w0[r] \in (1 - alpha)..(alpha - 1)
         /\ Cong(a[r] * z - c * t1[r] * PowD, w1[r] * alpha + w0[r])
         /\ h[r] = make_hint(w0[r], w1[r])

VerifyPhase == (pc = "compare" => v1 = w1) /\ (pc = "done" => ret = 1)

IInv == /\ Types /\ KeyPhase /\ CommitPhase /\ ResponsePhase /\ LowPhase /\ HintPhase
        /\ SigPhase /\ VerifyPhase

\* IInv holds before key generation: only the types say anything yet.
LEMMA InitIInv == Init => IInv
  <1> SUFFICES ASSUME Init PROVE IInv
    OBVIOUS
  <1>1. Types
    BY MldsaAssumption, Intervals
    DEF Init, Types, TypeOK, Steps, Short, MaskSet, Zero, NoSig
  <1> QED
    BY <1>1
    DEF Init, IInv, KeyPhase, CommitPhase, ResponsePhase, LowPhase, HintPhase, SigPhase,
        VerifyPhase, Signed

\* Key generation makes a key.
LEMMA KeygenStep ==
  ASSUME IInv, mldsa_keygen_internal
  PROVE  IInv'
  <1>1. PICK m \in Matrices, x \in Short, e \in [Rows -> Short] :
          LET T == [r \in Rows |-> power2round(Std(m[r] * x + e[r]))]
          IN  /\ a' = m /\ s1' = x /\ s2' = e
              /\ t1' = [r \in Rows |-> T[r][1]]
              /\ t0' = [r \in Rows |-> T[r][2]]
    BY DEF mldsa_keygen_internal
  <1>2. ASSUME NEW r \in Rows
        PROVE  /\ m[r] \in 0..(Q - 1)
               /\ t1'[r] \in Int /\ t0'[r] \in (1 - PowD \div 2)..(PowD \div 2)
               /\ Cong(t(r), a[r] * s1 + s2[r])'
    <2>1. m[r] \in 0..(Q - 1) /\ m[r] \in Int /\ x \in Int /\ e[r] \in Int
      BY MldsaAssumption DEF Short
    <2> DEFINE X == m[r] * x + e[r]
    <2>2. X \in Int
      BY <2>1
    <2> HIDE DEF X
    <2>3. Std(X) \in Int /\ Cong(Std(X), X)
      BY <2>2, StdCong
    <2>4. t1'[r] = power2round(Std(X))[1] /\ t0'[r] = power2round(Std(X))[2]
      BY <1>1 DEF X
    <2>5. /\ t1'[r] \in Int /\ t0'[r] \in (1 - PowD \div 2)..(PowD \div 2)
          /\ t1'[r] * PowD + t0'[r] = Std(X)
      BY <2>3, <2>4, PowerParts
    <2>6. a'[r] * s1' + s2'[r] = X
      BY <1>1 DEF X
    <2>7. Cong(t1'[r] * PowD + t0'[r], a'[r] * s1' + s2'[r])
      BY <2>3, <2>5, <2>6
    <2> QED
      BY <2>1, <2>5, <2>7 DEF t, Cong
  <1>3. Types'
    <2>1. s1' \in Short /\ s2' \in [Rows -> Short] /\ a' \in [Rows -> 0..(Q - 1)]
      BY <1>1, MldsaAssumption
    <2>2. t1' \in [Rows -> Int] /\ t0' \in [Rows -> (1 - PowD \div 2)..(PowD \div 2)]
      BY <1>1, <1>2
    <2> QED
      BY <2>1, <2>2 DEF IInv, Types, TypeOK, mldsa_keygen_internal, Steps
  <1> QED
    BY <1>2, <1>3
    DEF IInv, mldsa_keygen_internal, KeyPhase, CommitPhase, ResponsePhase, LowPhase,
        HintPhase, SigPhase, VerifyPhase, Signed

\* A new mask; what the earlier rounds left is forgotten.
LEMMA SampleMaskStep ==
  ASSUME IInv, SampleMask
  PROVE  IInv'
  <1>1. Types'
    BY DEF IInv, SampleMask, key, Types, TypeOK, Steps
  <1>2. KeyPhase'
    BY DEF IInv, SampleMask, key, KeyPhase, t, Cong
  <1> QED
    BY <1>1, <1>2
    DEF IInv, SampleMask, CommitPhase, ResponsePhase, LowPhase, HintPhase, SigPhase,
        VerifyPhase, Signed

\* The high and low parts of A y.
LEMMA DecomposeStep ==
  ASSUME IInv, DecomposeW
  PROVE  IInv'
  <1>1. ASSUME NEW r \in Rows
        PROVE  /\ w1'[r] \in 0..(High - 1) /\ w0'[r] \in Int
               /\ Cong(a[r] * y, w1[r] * alpha + w0[r])'
    <2>1. a[r] \in Int /\ y \in Int
      BY MldsaAssumption DEF IInv, Types, TypeOK, MaskSet
    <2> DEFINE X == a[r] * y
    <2>2. X \in Int
      BY <2>1
    <2> HIDE DEF X
    <2>3. w1'[r] = decompose(Std(X))[1] /\ w0'[r] = decompose(Std(X))[2]
      BY DEF DecomposeW, X
    <2>4. Std(X) \in 0..(Q - 1) /\ Std(X) \in Int /\ Cong(X, Std(X))
      BY <2>2, StdCong
    <2>5. /\ w1'[r] \in 0..(High - 1) /\ w0'[r] \in (-Gamma2)..Gamma2
          /\ Cong(Std(X), w1'[r] * alpha + w0'[r])
      BY <2>3, <2>4, DecomposeRange
    <2>6. w0'[r] \in Int /\ w1'[r] * alpha + w0'[r] \in Int
      BY <2>5, Intervals
    <2>7. Cong(X, w1'[r] * alpha + w0'[r])
      BY <2>2, <2>4, <2>5, <2>6, CongTrans
    <2>8. X = a'[r] * y'
      BY DEF X, DecomposeW, key
    <2> QED
      BY <2>5, <2>6, <2>7, <2>8 DEF Cong, alpha
  <1>2. Types'
    <2>1. w1' \in [Rows -> 0..(High - 1)] /\ w0' \in [Rows -> Int]
      BY <1>1 DEF DecomposeW
    <2> QED
      BY <2>1 DEF IInv, DecomposeW, key, Types, TypeOK, Steps
  <1>3. KeyPhase'
    BY DEF IInv, DecomposeW, key, KeyPhase, t, Cong
  <1> QED
    BY <1>1, <1>2, <1>3
    DEF IInv, DecomposeW, CommitPhase, ResponsePhase, LowPhase, HintPhase, SigPhase,
        VerifyPhase, Signed

\* The answer of the random oracle: c is one of the short challenges.
LEMMA OracleStep ==
  ASSUME IInv, AskOracle
  PROVE  IInv'
  <1>1. Types'
    BY DEF IInv, AskOracle, key, Types, TypeOK, Steps
  <1>2. KeyPhase' /\ CommitPhase'
    BY DEF IInv, AskOracle, key, KeyPhase, CommitPhase, t, Cong, alpha
  <1> QED
    BY <1>1, <1>2
    DEF IInv, AskOracle, ResponsePhase, LowPhase, HintPhase, SigPhase, VerifyPhase, Signed

\* z leaves the check in the class of y + c s1 and below Gamma1 - Beta.
LEMMA CheckZStep ==
  ASSUME IInv, CheckZ
  PROVE  IInv'
  <1>1. c \in Int /\ s1 \in Int /\ y \in Int /\ c * s1 + y \in Int
    BY MldsaAssumption DEF IInv, Types, TypeOK, MaskSet, Short
  <1>2. z' \in Int /\ Cong(z', c * s1 + y)
    BY <1>1, ReduceCong DEF CheckZ
  <1>3. Types'
    BY <1>2 DEF IInv, CheckZ, key, Types, TypeOK, Steps
  <1>4. KeyPhase' /\ CommitPhase'
    BY DEF IInv, CheckZ, key, KeyPhase, CommitPhase, t, Cong, alpha
  <1>5. ResponsePhase'
    BY <1>2 DEF CheckZ, key, ResponsePhase, Signed, Cong, chknorm, Abs
  <1> QED
    BY <1>3, <1>4, <1>5
    DEF IInv, CheckZ, LowPhase, HintPhase, SigPhase, VerifyPhase, Signed

\* The low part leaves the check Beta away from the edges.
LEMMA CheckW0Step ==
  ASSUME IInv, CheckW0
  PROVE  IInv'
  <1>1. ASSUME NEW r \in Rows
        PROVE  /\ w0'[r] \in Int
               /\ pc' = "ct0" => LowBits(r, w0[r])'
    <2>1. /\ a[r] \in Int /\ y \in Int /\ z \in Int /\ c \in Int /\ s1 \in Int /\ s2[r] \in Int
          /\ t1[r] \in Int /\ t0[r] \in Int /\ w1[r] \in Int /\ w0[r] \in Int
          /\ w1[r] * alpha \in Int /\ t(r) \in Int /\ w0[r] - c * s2[r] \in Int
      BY MldsaAssumption, Intervals DEF IInv, Types, TypeOK, MaskSet, Short, t
    <2>2. w0'[r] \in Int /\ Cong(w0'[r], w0[r] - c * s2[r])
      BY <2>1, ReduceCong DEF CheckW0
    <2>3. Cong(a[r] * y, w1[r] * alpha + w0[r]) /\ Cong(z, c * s1 + y)
          /\ Cong(t(r), a[r] * s1 + s2[r])
      BY DEF IInv, CheckW0, KeyPhase, CommitPhase, ResponsePhase
    <2>4. Cong(a[r] * z - c * t(r), w1[r] * alpha + w0'[r])
      BY <2>1, <2>2, <2>3, LowCong
    <2>5. ASSUME pc' = "ct0"
          PROVE  w0'[r] \in (1 - (Gamma2 - Beta))..(Gamma2 - Beta - 1)
      <3>1. ~chknorm(w0'[r], Gamma2 - Beta)
        BY <2>5 DEF CheckW0, chknorm_k
      <3> QED
        BY <2>2, <3>1, NormBound, MldsaAssumption
    <2> QED
      BY <2>2, <2>4, <2>5 DEF LowBits, CheckW0, key, t, Cong, alpha
  <1>2. Types'
    <2>1. w0' \in [Rows -> Int]
      BY <1>1 DEF CheckW0
    <2> QED
      BY <2>1 DEF IInv, CheckW0, key, Types, TypeOK, Steps
  <1>3. KeyPhase' /\ ResponsePhase'
    BY DEF IInv, CheckW0, key, KeyPhase, ResponsePhase, Signed, t, Cong, chknorm, Abs
  <1> QED
    BY <1>1, <1>2, <1>3
    DEF IInv, CheckW0, CommitPhase, LowPhase, HintPhase, SigPhase, VerifyPhase, Signed

\* c t0 leaves the check below Gamma2.
LEMMA CheckCt0Step ==
  ASSUME IInv, CheckCt0
  PROVE  IInv'
  <1>1. ASSUME NEW r \in Rows
        PROVE  /\ h'[r] \in Int
               /\ pc' = "hint" =>
                    /\ Cong(h[r], c * t0[r])'
                    /\ h'[r] \in (1 - Gamma2)..(Gamma2 - 1)
    <2>1. c \in Int /\ t0[r] \in Int /\ c * t0[r] \in Int
      BY MldsaAssumption DEF IInv, Types, TypeOK
    <2>2. h'[r] \in Int /\ Cong(h'[r], c * t0[r])
      BY <2>1, ReduceCong DEF CheckCt0
    <2>3. ASSUME pc' = "hint" PROVE h'[r] \in (1 - Gamma2)..(Gamma2 - 1)
      <3>1. ~chknorm(h'[r], Gamma2)
        BY <2>3 DEF CheckCt0, chknorm_k
      <3> QED
        BY <2>2, <3>1, NormBound, MldsaAssumption
    <2> QED
      BY <2>2, <2>3 DEF CheckCt0, key, Cong
  <1>2. Types'
    <2>1. h' \in [Rows -> Int]
      BY <1>1 DEF CheckCt0
    <2> QED
      BY <2>1 DEF IInv, CheckCt0, key, Types, TypeOK, Steps
  <1>3. KeyPhase' /\ ResponsePhase'
    BY DEF IInv, CheckCt0, key, KeyPhase, ResponsePhase, Signed, t, Cong, chknorm, Abs
  <1>4. LowPhase'
    BY DEF IInv, CheckCt0, key, LowPhase, LowBits, t, Cong, alpha
  <1> QED
    BY <1>1, <1>2, <1>3, <1>4
    DEF IInv, CheckCt0, CommitPhase, HintPhase, SigPhase, VerifyPhase, Signed

\* The hints are made from the low part that verify will see.
LEMMA MakeHintsStep ==
  ASSUME IInv, MakeHints
  PROVE  IInv'
  <1>1. ASSUME NEW r \in Rows
        PROVE  /\ \E low \in Int : LowBits(r, low)'
               /\ w0'[r] \in (1 - alpha)..(alpha - 1) /\ w0'[r] \in Int
               /\ Cong(a[r] * z - c * t1[r] * PowD, w1[r] * alpha + w0[r])'
               /\ h'[r] = make_hint(w0[r], w1[r])'
    <2>1. /\ a[r] \in Int /\ z \in Int /\ c \in Int /\ t1[r] \in Int /\ t0[r] \in Int
          /\ w1[r] \in Int /\ w0[r] \in Int /\ h[r] \in Int
          /\ w1[r] * alpha \in Int /\ a[r] * z \in Int
      BY MldsaAssumption, Intervals DEF IInv, Types, TypeOK
    <2>2. LowBits(r, w0[r]) /\ Cong(h[r], c * t0[r]) /\ h[r] \in (1 - Gamma2)..(Gamma2 - 1)
      BY DEF IInv, MakeHints, LowPhase, HintPhase
    <2>3. \E low \in Int : LowBits(r, low)'
      <3>1. a' = a /\ z' = z /\ c' = c /\ t1' = t1 /\ t0' = t0 /\ w1' = w1
        BY DEF MakeHints, key
      <3> QED
        BY <2>1, <2>2, <3>1 DEF LowBits, t, Cong, alpha
    <2>4. w0'[r] = w0[r] + h[r]
      BY DEF MakeHints
    <2>5. w0'[r] \in (1 - alpha)..(alpha - 1) /\ w0'[r] \in Int
      BY <2>1, <2>2, <2>4, Intervals, MldsaAssumption DEF LowBits
    <2>6. Cong(a[r] * z - c * t1[r] * PowD, w1[r] * alpha + (w0[r] + h[r]))
      BY <2>1, <2>2, NoT0Cong DEF LowBits, t
    <2>7. Cong(a[r] * z - c * t1[r] * PowD, w1[r] * alpha + w0[r])'
      BY <2>4, <2>6 DEF MakeHints, key, Cong, alpha
    <2>8. h'[r] = make_hint(w0[r], w1[r])'
      BY DEF MakeHints, make_hint
    <2> QED
      BY <2>3, <2>5, <2>7, <2>8
  <1>2. \A r \in Rows : make_hint(w0'[r], w1[r]) \in {0, 1}
    BY DEF make_hint
  <1>3. h' \in [Rows -> {0, 1}]
    BY <1>2 DEF MakeHints
  <1>4. Types'
    <2>1. w0' \in [Rows -> Int] /\ h' \in [Rows -> Int] /\ sig'.h \in [Rows -> {0, 1}]
      <3>1. w0' \in [Rows -> Int]
        BY <1>1 DEF MakeHints
      <3>2. h' \in [Rows -> Int]
        BY <1>3
      <3>3. sig'.h \in [Rows -> {0, 1}]
        BY <1>3 DEF MakeHints, IInv, Types, TypeOK
      <3> QED
        BY <3>1, <3>2, <3>3
    <2> QED
      BY <2>1 DEF IInv, MakeHints, key, Types, TypeOK, Steps
  <1>5. KeyPhase' /\ ResponsePhase'
    BY DEF IInv, MakeHints, key, KeyPhase, ResponsePhase, Signed, t, Cong, chknorm, Abs
  <1>6. SigPhase'
    <2> SUFFICES ASSUME pc' \in Signed PROVE SigPhase'
      BY DEF SigPhase
    <2>1. sig' = [c |-> c, ct |-> w1, z |-> z, h |-> h]'
      BY DEF MakeHints, Signed, key
    <2> QED
      BY <1>1, <2>1 DEF SigPhase
  <1> QED
    BY <1>4, <1>5, <1>6
    DEF IInv, MakeHints, CommitPhase, LowPhase, HintPhase, VerifyPhase, Signed

\* Steps that leave the key, the response and the signature as they are.
LEMMA SigKept ==
  ASSUME SigPhase, pc \in Signed, UNCHANGED <<key, w1, w0, c, z, h, sig>>
  PROVE  SigPhase'
  <1>1. /\ a' = a /\ t1' = t1 /\ t0' = t0 /\ w1' = w1 /\ w0' = w0 /\ c' = c /\ z' = z
        /\ h' = h /\ sig' = sig
    BY DEF key
  <1> QED
    BY <1>1 DEF SigPhase, LowBits, t, Cong, alpha, make_hint

\* verify checks the norm of z, which the signer has bounded already.
LEMMA VerifyStep ==
  ASSUME IInv, VerifyNorm
  PROVE  IInv'
  <1>1. Types'
    BY DEF IInv, VerifyNorm, key, Types, TypeOK, Steps
  <1>2. KeyPhase' /\ ResponsePhase'
    BY DEF IInv, VerifyNorm, key, KeyPhase, ResponsePhase, Signed, t, Cong, chknorm, Abs
  <1>3. SigPhase'
    BY SigKept DEF IInv, VerifyNorm, Signed
  <1>4. ~chknorm(sig.z, Gamma1 - Beta)
    BY DEF IInv, VerifyNorm, ResponsePhase, SigPhase, Signed
  <1> QED
    BY <1>1, <1>2, <1>3, <1>4
    DEF IInv, VerifyNorm, CommitPhase, LowPhase, HintPhase, VerifyPhase

\* The hints turn what verify computes back into w1.
LEMMA RebuildStep ==
  ASSUME IInv, Rebuild
  PROVE  IInv'
  <1>1. ASSUME NEW r \in Rows PROVE v1'[r] = w1[r]
    <2>1. /\ a[r] \in Int /\ z \in Int /\ c \in Int /\ t1[r] \in Int
          /\ w1[r] \in 0..(High - 1) /\ a[r] * z - c * t1[r] * PowD \in Int
      BY MldsaAssumption DEF IInv, Types, TypeOK
    <2>2. /\ sig.z = z /\ sig.c = c /\ sig.h[r] = make_hint(w0[r], w1[r])
          /\ w0[r] \in (1 - alpha)..(alpha - 1)
          /\ Cong(a[r] * z - c * t1[r] * PowD, w1[r] * alpha + w0[r])
      BY DEF IInv, Rebuild, SigPhase, Signed
    <2>3. w1[r] * alpha + w0[r] \in Int
      BY <2>1, <2>2, Intervals
    <2>4. Std(a[r] * z - c * t1[r] * PowD) = Std(w1[r] * alpha + w0[r])
      BY <2>1, <2>2, <2>3, CongStd
    <2>5. v1'[r] = use_hint(Std(w1[r] * alpha + w0[r]), make_hint(w0[r], w1[r]))
      BY <2>2, <2>4 DEF Rebuild
    <2> QED
      BY <2>1, <2>2, <2>5, HintGivesBack
  <1>2. v1' = w1
    BY <1>1 DEF IInv, Types, TypeOK, Rebuild
  <1>3. Types'
    BY <1>2 DEF IInv, Rebuild, key, Types, TypeOK, Steps
  <1>4. KeyPhase' /\ ResponsePhase'
    BY DEF IInv, Rebuild, key, KeyPhase, ResponsePhase, Signed, t, Cong, chknorm, Abs
  <1>5. SigPhase'
    BY SigKept DEF IInv, Rebuild, Signed
  <1> QED
    BY <1>2, <1>3, <1>4, <1>5
    DEF IInv, Rebuild, CommitPhase, LowPhase, HintPhase, VerifyPhase

\* verify compares the rebuilt high bits with those that were hashed.
LEMMA CompareStep ==
  ASSUME IInv, Compare
  PROVE  IInv'
  <1>1. Types'
    BY DEF IInv, Compare, key, Types, TypeOK, Steps
  <1>2. KeyPhase' /\ ResponsePhase'
    BY DEF IInv, Compare, key, KeyPhase, ResponsePhase, Signed, t, Cong, chknorm, Abs
  <1>3. SigPhase'
    BY SigKept DEF IInv, Compare, Signed
  <1>4. v1 = sig.ct
    BY DEF IInv, Compare, VerifyPhase, SigPhase, Signed
  <1> QED
    BY <1>1, <1>2, <1>3, <1>4
    DEF IInv, Compare, CommitPhase, LowPhase, HintPhase, VerifyPhase

\* The signer gives up: nothing is signed, so only the key is left to keep.
LEMMA BoundStep ==
  ASSUME IInv, OutOfTries
  PROVE  IInv'
  <1>1. Types'
    BY DEF IInv, OutOfTries, key, Types, TypeOK, Steps
  <1>2. KeyPhase'
    BY DEF IInv, OutOfTries, key, KeyPhase, t, Cong
  <1> QED
    BY <1>1, <1>2
    DEF IInv, OutOfTries, CommitPhase, ResponsePhase, LowPhase, HintPhase, SigPhase,
        VerifyPhase, Signed

\* A stuttering step keeps each part.
LEMMA StutterStep ==
  ASSUME IInv, UNCHANGED vars
  PROVE  IInv'
  <1>1. Types' /\ KeyPhase' /\ CommitPhase' /\ ResponsePhase' /\ VerifyPhase'
    BY DEF IInv, vars, Types, TypeOK, KeyPhase, CommitPhase, ResponsePhase, VerifyPhase,
           t, Cong, chknorm, Abs, alpha
  <1>2. LowPhase' /\ HintPhase'
    BY DEF IInv, vars, LowPhase, HintPhase, LowBits, t, Cong, alpha
  <1>3. SigPhase'
    BY SigKept DEF IInv, vars, key, SigPhase
  <1> QED
    BY <1>1, <1>2, <1>3 DEF IInv

\* IInv is an invariant of the rejection loop and of verify.
THEOREM Invariance == Spec => []IInv
  <1>1. IInv /\ [Next]_vars => IInv'
    BY KeygenStep, SampleMaskStep, DecomposeStep, OracleStep, CheckZStep, CheckW0Step,
       CheckCt0Step, MakeHintsStep, BoundStep, VerifyStep, RebuildStep, CompareStep,
       StutterStep DEF Next, Done
  <1> QED
    BY InitIInv, <1>1, PTL DEF Spec

\* The values are in the ranges that the packers assume, for every parameter set.
THEOREM TypeCorrect == Spec => []TypeOK
  <1>1. IInv => TypeOK
    BY DEF IInv, Types
  <1> QED
    BY Invariance, <1>1, PTL

\* Every signature that mldsa_sign_internal writes is accepted by
\* mldsa_verify_internal: for every modulus, matrix, key, mask and challenge.
THEOREM Completeness == Spec => []SignedVerifies
  <1>1. IInv => SignedVerifies
    BY DEF IInv, VerifyPhase, SignedVerifies
  <1> QED
    BY Invariance, <1>1, PTL

\* The z of a signature is one that every short s1 could have led to.
THEOREM MaskHides == Spec => []MaskHidesKey
  <1>1. IInv => MaskHidesKey
    <2> SUFFICES ASSUME IInv, pc \in Signed, NEW s \in Short
                 PROVE  sig.z - sig.c * s \in MaskSet
      BY DEF MaskHidesKey, Signed
    <2>1. sig.z = z /\ sig.c = c /\ z \in Int /\ c \in {0, 1, -1}
      BY DEF IInv, SigPhase, Types, TypeOK
    <2>2. z \in (1 - (Gamma1 - Beta))..(Gamma1 - Beta - 1)
      BY <2>1, NormBound, MldsaAssumption DEF IInv, ResponsePhase
    <2>3. c * s \in (-Beta)..Beta
      BY <2>1, ShortProduct
    <2> QED
      BY <2>1, <2>2, <2>3, MldsaAssumption DEF MaskSet
  <1> QED
    BY Invariance, <1>1, PTL

\* The w1 of a signature is one that every short s2 would have led to.
THEOREM LowBitsHide == Spec => []LowBitsHideKey
  <1>1. IInv => LowBitsHideKey
    <2> SUFFICES ASSUME IInv, pc \in Signed, NEW r \in Rows, NEW e \in Short
                 PROVE  decompose(Std(a[r] * sig.z - sig.c * t(r) + sig.c * e))[1] = sig.ct[r]
      BY DEF LowBitsHideKey, Signed, t
    <2>1. sig.z = z /\ sig.c = c /\ sig.ct = w1
      BY DEF IInv, SigPhase
    <2>2. /\ a[r] \in Int /\ z \in Int /\ c \in {0, 1, -1} /\ t(r) \in Int
          /\ w1[r] \in 0..(High - 1) /\ w1[r] * alpha \in Int /\ a[r] * z - c * t(r) \in Int
      BY MldsaAssumption, Intervals DEF IInv, Types, TypeOK, t
    <2>3. PICK low \in Int : LowBits(r, low)
      BY DEF IInv, SigPhase
    <2>4. c * e \in (-Beta)..Beta
      BY <2>2, ShortProduct
    <2>5. low + c * e \in (1 - Gamma2)..(Gamma2 - 1)
      BY <2>3, <2>4, MldsaAssumption DEF LowBits
    <2>6. PICK n \in Int : a[r] * z - c * t(r) = w1[r] * alpha + low + n * Q
      BY <2>3 DEF LowBits, Cong
    <2>7. a[r] * z - c * t(r) + c * e = w1[r] * alpha + (low + c * e) + n * Q
      BY <2>2, <2>4, <2>6, MldsaAssumption
    <2>8. Std(a[r] * z - c * t(r) + c * e) = Std(w1[r] * alpha + (low + c * e))
      BY <2>2, <2>4, <2>7, CongStd DEF Cong
    <2>9. decompose(Std(w1[r] * alpha + (low + c * e))) = <<w1[r], low + c * e>>
      BY <2>2, <2>5, HighOf, Intervals
    <2> QED
      BY <2>1, <2>8, <2>9
  <1> QED
    BY Invariance, <1>1, PTL
=============================================================================
