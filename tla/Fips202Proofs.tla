---------------------------- MODULE Fips202Proofs ----------------------------
(***************************************************************************)
(* For every rate, digest length and chunking, the loops of fips202.c      *)
(* implement the abstract sponge of module XOF; and for every state the    *)
(* permutation they call is Keccak-p[1600, 24] (module Keccak): the walk   *)
(* of rho and the register behind the round constants are unrolled, which  *)
(* turns the tables of keccak.c into those of FIPS 202, then the lanes of  *)
(* a round are compared one by one.  Last, the ranges of the arithmetic    *)
(* kernels beside it in module Kernels: how far any input of their callers *)
(* can have grown before each call and each layer.                         *)
(***************************************************************************)
EXTENDS Fips202, Kernels, WellFoundedInduction, TLAPS

\* Where the calls are, given the protocol stage.
Control ==
  /\ pc \in {"idle", "absorb"} => call = "none"
  /\ pc \in {"absorb", "once"} => stage = "absorbing"
  /\ pc \in {"squeeze", "blocks", "digest"} => stage = "squeezing"
  /\ call = "sha3" => pc \in {"once", "digest"}
  /\ pc = "digest" => call = "sha3"

\* While absorbing, perm and pos count the bytes taken.
AbsorbCount ==
  /\ PositionIsBytesTaken
  /\ pc = "once" => taken = perm * Rate
  /\ stage = "absorbing" => given = 0

\* The block that the padding closed.
LastBlock == taken \div Rate

\* While squeezing, perm and pos count the bytes given.
SqueezeCount ==
  stage = "squeezing" =>
    /\ LastBlock \in Nat /\ perm >= LastBlock
    /\ pc = "digest" => perm = LastBlock /\ given = 0
    /\ pc # "digest" => /\ given = (perm - LastBlock - 1) * Rate + pos
                        /\ perm = LastBlock => pos = Rate
    /\ pc = "blocks" => pos = Rate

\* A one-shot shake has written, or still has to write, all it was asked for.
OneShotCount ==
  call = "shake" =>
    /\ pc = "blocks"  => given + todo * Rate = (want \div Rate) * Rate
    /\ pc = "squeeze" => given + todo = want

IInv == TypeOK /\ Control /\ AbsorbCount /\ SqueezeCount /\ OneShotCount

----------------------------------------------------------------------------
\* A byte count splits in one way into whole blocks and an offset.
LEMMA DivMod ==
  ASSUME NEW q \in Nat, NEW o \in 0..(Rate - 1)
  PROVE  (q * Rate + o) \div Rate = q /\ (q * Rate + o) % Rate = o
  BY Fips202Assumption

\* Whole blocks never exceed what they are cut from.
LEMMA DivBound ==
  ASSUME NEW n \in Nat
  PROVE  n \div Rate \in Nat /\ (n \div Rate) * Rate <= n
  BY Fips202Assumption

\* k bytes XORed in from offset o of block q are k consecutive message bytes.
LEMMA XorPlaces ==
  ASSUME NEW q \in Nat, NEW o \in 0..(Rate - 1), NEW k \in 0..(Rate - o),
         NEW n, n = q * Rate + o
  PROVE  Places(n, q, o, k) = Abstract!MessageBytes(n, n + k)
  <1>1. n \in Nat
    BY Fips202Assumption
  <1>2. ASSUME NEW j \in 0..(k - 1)
        PROVE  Abstract!MessageByte(n + j) = <<n + j, q, o + j>>
    <2>1. o + j \in 0..(Rate - 1) /\ n + j = q * Rate + (o + j)
      BY <1>1, Fips202Assumption
    <2>2. (n + j) \div Rate = q /\ (n + j) % Rate = o + j
      BY <2>1, DivMod
    <2>3. QED
      BY <2>2 DEF Abstract!MessageByte
  <1>3. ASSUME NEW i \in n..(n + k - 1)
        PROVE  i - n \in 0..(k - 1) /\ i = n + (i - n)
    BY <1>1, Fips202Assumption
  <1>4. ASSUME NEW j \in 0..(k - 1)
        PROVE  n + j \in n..(n + k - 1)
    BY <1>1, Fips202Assumption
  <1> DEFINE L == {<<n + j, q, o + j>> : j \in 0..(k - 1)}
             R == {Abstract!MessageByte(i) : i \in n..(n + k - 1)}
  <1>5. ASSUME NEW x \in L PROVE x \in R
    <2>1. PICK j \in 0..(k - 1) : x = <<n + j, q, o + j>>
      BY <1>5
    <2>2. x = Abstract!MessageByte(n + j)
      BY <1>2, <2>1
    <2>3. QED
      BY <1>4, <2>2
  <1>6. ASSUME NEW x \in R PROVE x \in L
    <2>1. PICK i \in n..(n + k - 1) : x = Abstract!MessageByte(i)
      BY <1>6
    <2>2. x = <<n + (i - n), q, o + (i - n)>>
      BY <1>2, <1>3, <2>1
    <2>3. QED
      BY <1>3, <2>2
  <1>7. QED
    BY <1>5, <1>6 DEF Places, Abstract!MessageBytes

\* Output byte n of a message of t bytes is at offset o of block b.
StreamAt(t, n, b, o) ==
  /\ b \in Nat /\ o \in 0..(Rate - 1) /\ t \div Rate < b
  /\ n = (b - t \div Rate - 1) * Rate + o

\* The output bytes n..m-1 of a message of t bytes.
OutputBytes(t, n, m) == {Abstract!OutputByte(t, j) : j \in n..(m - 1)}

\* k bytes read from offset o of block b, one after the last message block, are k
\* consecutive output bytes.
LEMMA StorePlaces ==
  ASSUME NEW t \in Nat, NEW n, NEW b, NEW o, NEW k \in 0..(Rate - o), StreamAt(t, n, b, o)
  PROVE  Places(n, b, o, k) = OutputBytes(t, n, n + k)
  <1> DEFINE d == b - t \div Rate - 1
  <1>0. /\ t \div Rate \in Nat /\ d \in Nat /\ b = t \div Rate + 1 + d /\ n = d * Rate + o
        /\ b \in Nat /\ o \in 0..(Rate - 1)
    BY DivBound DEF StreamAt
  <1> HIDE DEF d
  <1>1. n \in Nat
    BY <1>0, Fips202Assumption
  <1>2. ASSUME NEW j \in 0..(k - 1)
        PROVE  Abstract!OutputByte(t, n + j) = <<n + j, b, o + j>>
    <2>1. o + j \in 0..(Rate - 1) /\ n + j = d * Rate + (o + j)
      BY <1>0, <1>1, Fips202Assumption
    <2>2. (n + j) \div Rate = d /\ (n + j) % Rate = o + j
      BY <1>0, <2>1, DivMod
    <2>3. QED
      BY <1>0, <2>2 DEF Abstract!OutputByte
  <1>3. ASSUME NEW i \in n..(n + k - 1)
        PROVE  i - n \in 0..(k - 1) /\ i = n + (i - n)
    BY <1>0, <1>1, Fips202Assumption
  <1>4. ASSUME NEW j \in 0..(k - 1)
        PROVE  n + j \in n..(n + k - 1)
    BY <1>0, <1>1, Fips202Assumption
  <1> DEFINE L == {<<n + j, b, o + j>> : j \in 0..(k - 1)}
             R == OutputBytes(t, n, n + k)
  <1>5. ASSUME NEW x \in L PROVE x \in R
    <2>1. PICK j \in 0..(k - 1) : x = <<n + j, b, o + j>>
      BY <1>5
    <2>2. x = Abstract!OutputByte(t, n + j)
      BY <1>2, <2>1
    <2>3. QED
      BY <1>0, <1>1, <1>4, <2>2 DEF OutputBytes
  <1>6. ASSUME NEW x \in R PROVE x \in L
    <2>1. PICK i \in n..(n + k - 1) : x = Abstract!OutputByte(t, i)
      BY <1>0, <1>1, <1>6 DEF OutputBytes
    <2>2. x = <<n + (i - n), b, o + (i - n)>>
      BY <1>2, <1>3, <2>1
    <2>3. QED
      BY <1>3, <2>2
  <1>7. L = R
    <2> HIDE DEF L, R
    <2>1. QED
      BY <1>5, <1>6
  <1>8. QED
    BY <1>7 DEF Places

----------------------------------------------------------------------------
\* The initial states satisfy the inductive invariant.
LEMMA InitIInv == Init => IInv
  BY Fips202Assumption
  DEF Init, IInv, TypeOK, Control, AbsorbCount, PositionIsBytesTaken, SqueezeCount,
      OneShotCount

\* Each step of each loop keeps the invariant.
LEMMA StepIInv == IInv /\ [Next]_vars => IInv'
  <1> SUFFICES ASSUME IInv, [Next]_vars PROVE IInv'
    OBVIOUS
  <1> USE Fips202Assumption
      DEF IInv, TypeOK, Control, AbsorbCount, PositionIsBytesTaken, SqueezeCount, LastBlock,
          OneShotCount
  <1>1. CASE shake_init
    BY <1>1 DEF shake_init
  <1>2. CASE shake_absorb
    BY <1>2 DEF shake_absorb, xvars
  <1>3. CASE AbsorbBlock
    BY <1>3 DEF AbsorbBlock, XorIn
  <1>4. CASE AbsorbTail
    BY <1>4 DEF AbsorbTail, XorIn
  <1>5. CASE shake_finalize
    <2>1. taken \div Rate = perm
      BY <1>5, DivMod DEF shake_finalize
    <2>2. QED
      BY <1>5, <2>1 DEF shake_finalize
  <1>6. CASE shake_squeeze
    BY <1>6 DEF shake_squeeze, xvars
  <1>7. CASE SqueezeSome
    BY <1>7 DEF SqueezeSome, StoreOut
  <1>8. CASE SqueezeEnd
    BY <1>8 DEF SqueezeEnd
  <1>9. CASE shake_squeezeblocks
    BY <1>9 DEF shake_squeezeblocks, xvars
  <1>10. CASE SqueezeBlock
    BY <1>10 DEF SqueezeBlock, StoreOut
  <1>11. CASE BlocksEnd
    <2>1. (want \div Rate) * Rate \in Nat /\ (want \div Rate) * Rate <= want
      BY DivBound
    <2>2. CASE call = "none"
      BY <1>11, <2>2 DEF BlocksEnd, xvars
    <2>3. CASE call = "shake"
      <3>1. given = (want \div Rate) * Rate
        BY <1>11, <2>3 DEF BlocksEnd
      <3>2. todo' \in Nat /\ given + todo' = want
        BY <1>11, <2>1, <2>3, <3>1 DEF BlocksEnd
      <3>3. QED
        BY <1>11, <2>3, <3>2 DEF BlocksEnd, xvars
    <2>4. QED
      BY <1>11, <2>2, <2>3 DEF BlocksEnd
  <1>12. CASE shake_absorb_once
    BY <1>12 DEF shake_absorb_once, AbsorbOnce
  <1>13. CASE shake
    BY <1>13 DEF shake, AbsorbOnce
  <1>14. CASE sha3
    BY <1>14 DEF sha3, AbsorbOnce
  <1>15. CASE OnceBlock
    BY <1>15 DEF OnceBlock, XorIn
  <1>16. CASE OnceTail
    <2>1. taken' \div Rate = perm
      BY <1>16, DivMod DEF OnceTail, XorIn
    <2>2. QED
      BY <1>16, <2>1 DEF OnceTail, XorIn
  <1>17. CASE Digest
    BY <1>17 DEF Digest, StoreOut
  <1>18. CASE UNCHANGED vars
    BY <1>18 DEF vars
  <1>19. QED
    BY <1>1, <1>2, <1>3, <1>4, <1>5, <1>6, <1>7, <1>8, <1>9, <1>10, <1>11, <1>12,
       <1>13, <1>14, <1>15, <1>16, <1>17, <1>18 DEF Next

\* Each step of each loop is a step of the abstract sponge, or invisible to it.
LEMMA StepXOF == IInv /\ [Next]_vars => [Abstract!Next]_xvars
  <1> SUFFICES ASSUME IInv, [Next]_vars PROVE [Abstract!Next]_xvars
    OBVIOUS
  <1> USE Fips202Assumption
      DEF IInv, TypeOK, Control, AbsorbCount, PositionIsBytesTaken, SqueezeCount, LastBlock
  <1>1. CASE shake_init \/ shake_absorb_once \/ shake \/ sha3
    <2>1. Abstract!Start
      BY <1>1 DEF shake_init, shake_absorb_once, shake, sha3, AbsorbOnce, Abstract!Start
    <2>2. QED
      BY <2>1 DEF Abstract!Next
  <1>2. CASE \/ shake_absorb \/ shake_squeeze \/ shake_squeezeblocks \/ BlocksEnd
             \/ UNCHANGED vars
    BY <1>2 DEF shake_absorb, shake_squeeze, shake_squeezeblocks, BlocksEnd, vars, xvars
  <1>3. CASE AbsorbBlock
    <2>1. Places(taken, perm, pos, Rate - pos) = Abstract!MessageBytes(taken, taken + (Rate - pos))
      BY <1>3, XorPlaces DEF AbsorbBlock
    <2>2. Abstract!Take
      BY <1>3, <2>1 DEF AbsorbBlock, XorIn, Abstract!Take
    <2>3. QED
      BY <2>2 DEF Abstract!Next
  <1>4. CASE AbsorbTail
    <2>1. Places(taken, perm, pos, todo) = Abstract!MessageBytes(taken, taken + todo)
      BY <1>4, XorPlaces DEF AbsorbTail
    <2>2. Abstract!Take
      BY <1>4, <2>1 DEF AbsorbTail, XorIn, Abstract!Take
    <2>3. QED
      BY <2>2 DEF Abstract!Next
  <1>5. CASE OnceBlock
    <2>1. Places(taken, perm, 0, Rate) = Abstract!MessageBytes(taken, taken + Rate)
      BY <1>5, XorPlaces DEF OnceBlock
    <2>2. Abstract!Take
      BY <1>5, <2>1 DEF OnceBlock, XorIn, Abstract!Take
    <2>3. QED
      BY <2>2 DEF Abstract!Next
  <1>6. CASE shake_finalize
    <2>1. taken \div Rate = perm /\ taken % Rate = pos
      BY <1>6, DivMod DEF shake_finalize
    <2>2. Abstract!MessageBytes(taken, taken) = {}
      BY DEF Abstract!MessageBytes
    <2>3. Abstract!Close
      BY <1>6, <2>1, <2>2 DEF shake_finalize, Abstract!Close
    <2>4. QED
      BY <2>3 DEF Abstract!Next
  <1>7. CASE OnceTail
    <2>1. Places(taken, perm, 0, todo) = Abstract!MessageBytes(taken, taken + todo)
      BY <1>7, XorPlaces DEF OnceTail
    <2>2. taken' = taken + todo /\ taken' \div Rate = perm /\ taken' % Rate = todo
      BY <1>7, DivMod DEF OnceTail, XorIn
    <2>3. Abstract!Close
      BY <1>7, <2>1, <2>2 DEF OnceTail, XorIn, Abstract!Close
    <2>4. QED
      BY <2>3 DEF Abstract!Next
  <1>8. CASE SqueezeSome
    <2>1. PICK b, p, k :
            /\ StreamAt(taken, given, b, p) /\ k \in 0..(Rate - p)
            /\ given' = given + k /\ read' = read \cup Places(given, b, p, k)
      <3>1. CASE pos = Rate
        <4>1. StreamAt(taken, given, perm + 1, 0)
          BY <1>8, <3>1 DEF SqueezeSome, StreamAt
        <4>2. \E k \in 0..(Rate - 0) :
                given' = given + k /\ read' = read \cup Places(given, perm + 1, 0, k)
          BY <1>8, <3>1 DEF SqueezeSome, StoreOut
        <4>3. QED
          BY <4>1, <4>2
      <3>2. CASE pos # Rate
        <4>1. StreamAt(taken, given, perm, pos)
          BY <1>8, <3>2 DEF SqueezeSome, StreamAt
        <4>2. \E k \in 0..(Rate - pos) :
                given' = given + k /\ read' = read \cup Places(given, perm, pos, k)
          BY <1>8, <3>2 DEF SqueezeSome, StoreOut
        <4>3. QED
          BY <4>1, <4>2
      <3>3. QED
        BY <3>1, <3>2
    <2>2. Places(given, b, p, k) = OutputBytes(taken, given, given + k)
      BY <2>1, StorePlaces
    <2>3. k \in Nat
      BY <2>1 DEF StreamAt
    <2>4. Abstract!Give
      BY <1>8, <2>1, <2>2, <2>3 DEF SqueezeSome, Abstract!Give, OutputBytes
    <2>5. QED
      BY <2>4 DEF Abstract!Next
  <1>9. CASE SqueezeBlock \/ Digest
    <2>1. PICK k \in 0..Rate : given' = given + k
                               /\ read' = read \cup Places(given, perm + 1, 0, k)
      BY <1>9 DEF SqueezeBlock, Digest, StoreOut
    <2>2. StreamAt(taken, given, perm + 1, 0)
      BY <1>9 DEF SqueezeBlock, Digest, StreamAt
    <2>3. Places(given, perm + 1, 0, k) = OutputBytes(taken, given, given + k)
      BY <2>2, StorePlaces
    <2>4. Abstract!Give
      BY <1>9, <2>1, <2>3 DEF SqueezeBlock, Digest, Abstract!Give, OutputBytes
    <2>5. QED
      BY <2>4 DEF Abstract!Next
  <1>10. CASE SqueezeEnd
    <2>1. OutputBytes(taken, given, given) = {}
      BY DEF OutputBytes
    <2>2. Abstract!Give
      BY <1>10, <2>1 DEF SqueezeEnd, Abstract!Give, OutputBytes
    <2>3. QED
      BY <2>2 DEF Abstract!Next
  <1>11. QED
    BY <1>1, <1>2, <1>3, <1>4, <1>5, <1>6, <1>7, <1>8, <1>9, <1>10 DEF Next

----------------------------------------------------------------------------
\* IInv is an invariant.
THEOREM Invariance == Spec => []IInv
  BY InitIInv, StepIInv, PTL DEF Spec

\* The position stays inside the block and counts the bytes absorbed, for every
\* rate and every chunking of the message.
THEOREM PositionCorrect == Spec => []PositionIsBytesTaken
  BY Invariance, PTL DEF IInv, AbsorbCount

\* shake128 and shake256 write exactly outlen bytes, for every outlen.
THEOREM OneShotCorrect == Spec => []OneShotComplete
  <1>1. IInv => OneShotComplete
    BY DEF IInv, TypeOK, OneShotCount, OneShotComplete
  <1>2. QED
    BY Invariance, <1>1, PTL

\* fips202.c implements the abstract sponge.
THEOREM Refinement == Spec => ImplementsXOF
  <1>1. Init => Abstract!Init
    BY DEF Init, Abstract!Init
  <1>2. QED
    BY <1>1, StepXOF, Invariance, PTL DEF Spec, ImplementsXOF, Abstract!Spec,
       Abstract!xvars, xvars

----------------------------------------------------------------------------
\* The permutation behind KeccakF1600_StatePermute: module Keccak.
\* A set of natural numbers that is not empty has a least element.
LEMMA LeastNat ==
  ASSUME NEW S \in SUBSET Nat, S # {}
  PROVE  \E m \in S : \A j \in S : m <= j
  <1>1. PICK m \in S : \A j \in S : ~(<<j, m>> \in OpToRel(<, Nat))
    BY WFMin, NatLessThanWellFounded
  <1>2. \A j \in S : ~(j < m)
    BY <1>1 DEF OpToRel
  <1> QED
    BY <1>2

\* Induction over the natural numbers, for a set instead of a predicate.
LEMMA NatSetInduction ==
  ASSUME NEW S \in SUBSET Nat, 0 \in S, \A n \in S : n + 1 \in S
  PROVE  S = Nat
  <1> SUFFICES ASSUME Nat \ S # {} PROVE FALSE
    OBVIOUS
  <1>1. PICK m \in Nat \ S : \A j \in Nat \ S : m <= j
    <2>1. Nat \ S \in SUBSET Nat
      OBVIOUS
    <2> QED
      BY <2>1, LeastNat
  <1>2. m # 0 /\ m - 1 \in Nat
    BY <1>1
  <1>3. m - 1 \in S
    BY <1>1, <1>2
  <1> QED
    BY <1>1, <1>3

\* A function on 0..N with this first value and this step from each value to the next.
Recurs(N, T, first, next) ==
  \E f \in [0..N -> T] : f[0] = first /\ \A t \in 1..N : f[t] = next[f[t - 1]]

\* There is always one.
LEMMA StepByStep ==
  ASSUME NEW N \in Nat, NEW T, NEW first \in T, NEW next \in [T -> T]
  PROVE  Recurs(N, T, first, next)
  <1> DEFINE Good(n, f) == f[0] = first /\ \A t \in 1..n : f[t] = next[f[t - 1]]
             Upto == {n \in Nat : \E f \in [0..n -> T] : Good(n, f)}
  <1>1. 0 \in Upto
    <2>1. Good(0, [t \in 0..0 |-> first]) /\ [t \in 0..0 |-> first] \in [0..0 -> T]
      OBVIOUS
    <2> QED
      BY <2>1
  <1>2. \A n \in Upto : n + 1 \in Upto
    <2> SUFFICES ASSUME NEW n \in Nat, NEW f \in [0..n -> T], Good(n, f)
                 PROVE  \E g \in [0..(n + 1) -> T] : Good(n + 1, g)
      OBVIOUS
    <2> DEFINE g == [t \in 0..(n + 1) |-> IF t = n + 1 THEN next[f[n]] ELSE f[t]]
    <2>1. g \in [0..(n + 1) -> T]
      OBVIOUS
    <2>2. g[0] = first
      OBVIOUS
    <2>3. ASSUME NEW t \in 1..(n + 1) PROVE g[t] = next[g[t - 1]]
      <3>1. t - 1 \in 0..n /\ g[t - 1] = f[t - 1]
        OBVIOUS
      <3>2. CASE t = n + 1
        BY <3>1, <3>2
      <3>3. CASE t # n + 1
        <4>1. t \in 1..n /\ g[t] = f[t]
          BY <3>3
        <4> QED
          BY <3>1, <4>1
      <3> QED
        BY <3>2, <3>3
    <2> QED
      BY <2>1, <2>2, <2>3
  <1>3. Upto = Nat
    <2>1. Upto \in SUBSET Nat
      OBVIOUS
    <2> HIDE DEF Upto
    <2> QED
      BY <1>1, <1>2, <2>1, NatSetInduction
  <1> QED
    BY <1>3 DEF Recurs

----------------------------------------------------------------------------
\* The walk of rho over the lanes, step by step.
LEMMA WalkStep ==
  /\ Hash!Walk[0] = <<1, 0>>
  /\ \A t \in 1..23 : Hash!Walk[t] = <<Hash!Walk[t - 1][2],
                          (2 * Hash!Walk[t - 1][1] + 3 * Hash!Walk[t - 1][2]) % 5>>
  <1> DEFINE T == (0..4) \X (0..4)
             next == [p \in T |-> <<p[2], (2 * p[1] + 3 * p[2]) % 5>>]
             F(f) == [t \in 0..23 |->
                        IF t = 0 THEN <<1, 0>>
                        ELSE <<f[t - 1][2], (2 * f[t - 1][1] + 3 * f[t - 1][2]) % 5>>]
             N == 23
             first == <<1, 0>>
  <1>1. next \in [T -> T] /\ first \in T /\ N \in Nat
    OBVIOUS
  <1>2. PICK g \in [0..N -> T] : g[0] = first /\ \A t \in 1..N : g[t] = next[g[t - 1]]
    <2>1. Recurs(N, T, first, next)
      <3> HIDE DEF T, next, N, first
      <3> QED
        BY <1>1, StepByStep
    <2> QED
      BY <2>1 DEF Recurs
  <1>3. ASSUME NEW t \in 0..23 PROVE g[t] = F(g)[t]
    <2>1. CASE t = 0
      BY <1>2, <2>1
    <2>2. CASE t # 0
      <3>1. t \in 1..23 /\ g[t - 1] \in T
        BY <2>2
      <3>2. g[t] = next[g[t - 1]]
        BY <1>2, <3>1
      <3>3. next[g[t - 1]] = <<g[t - 1][2], (2 * g[t - 1][1] + 3 * g[t - 1][2]) % 5>>
        BY <3>1
      <3> QED
        BY <2>2, <3>2, <3>3
    <2> QED
      BY <2>1, <2>2
  <1>4. g = F(g)
    BY <1>3
  <1>5. Hash!Walk = CHOOSE f : f = F(f)
    BY DEF Hash!Walk
  <1>6. Hash!Walk = F(Hash!Walk)
    <2> HIDE DEF F
    <2> QED
      BY <1>4, <1>5
  <1>7. \A t \in 0..23 : Hash!Walk[t] = F(Hash!Walk)[t]
    <2> HIDE DEF F
    <2> QED
      BY <1>6
  <1> HIDE DEF T, next, N, first
  <1> QED
    BY <1>7, SMT

\* The lanes it meets.
LEMMA WalkTable ==
  /\ Hash!Walk[0] = <<1, 0>>
  /\ Hash!Walk[1] = <<0, 2>>
  /\ Hash!Walk[2] = <<2, 1>>
  /\ Hash!Walk[3] = <<1, 2>>
  /\ Hash!Walk[4] = <<2, 3>>
  /\ Hash!Walk[5] = <<3, 3>>
  /\ Hash!Walk[6] = <<3, 0>>
  /\ Hash!Walk[7] = <<0, 1>>
  /\ Hash!Walk[8] = <<1, 3>>
  /\ Hash!Walk[9] = <<3, 1>>
  /\ Hash!Walk[10] = <<1, 4>>
  /\ Hash!Walk[11] = <<4, 4>>
  /\ Hash!Walk[12] = <<4, 0>>
  /\ Hash!Walk[13] = <<0, 3>>
  /\ Hash!Walk[14] = <<3, 4>>
  /\ Hash!Walk[15] = <<4, 3>>
  /\ Hash!Walk[16] = <<3, 2>>
  /\ Hash!Walk[17] = <<2, 2>>
  /\ Hash!Walk[18] = <<2, 0>>
  /\ Hash!Walk[19] = <<0, 4>>
  /\ Hash!Walk[20] = <<4, 2>>
  /\ Hash!Walk[21] = <<2, 4>>
  /\ Hash!Walk[22] = <<4, 1>>
  /\ Hash!Walk[23] = <<1, 1>>
  <1>0. Hash!Walk[0] = <<1, 0>>
    BY WalkStep
  <1>1. Hash!Walk[1] = <<0, 2>>
    BY <1>0, WalkStep
  <1>2. Hash!Walk[2] = <<2, 1>>
    BY <1>1, WalkStep
  <1>3. Hash!Walk[3] = <<1, 2>>
    BY <1>2, WalkStep
  <1>4. Hash!Walk[4] = <<2, 3>>
    BY <1>3, WalkStep
  <1>5. Hash!Walk[5] = <<3, 3>>
    BY <1>4, WalkStep
  <1>6. Hash!Walk[6] = <<3, 0>>
    BY <1>5, WalkStep
  <1>7. Hash!Walk[7] = <<0, 1>>
    BY <1>6, WalkStep
  <1>8. Hash!Walk[8] = <<1, 3>>
    BY <1>7, WalkStep
  <1>9. Hash!Walk[9] = <<3, 1>>
    BY <1>8, WalkStep
  <1>10. Hash!Walk[10] = <<1, 4>>
    BY <1>9, WalkStep
  <1>11. Hash!Walk[11] = <<4, 4>>
    BY <1>10, WalkStep
  <1>12. Hash!Walk[12] = <<4, 0>>
    BY <1>11, WalkStep
  <1>13. Hash!Walk[13] = <<0, 3>>
    BY <1>12, WalkStep
  <1>14. Hash!Walk[14] = <<3, 4>>
    BY <1>13, WalkStep
  <1>15. Hash!Walk[15] = <<4, 3>>
    BY <1>14, WalkStep
  <1>16. Hash!Walk[16] = <<3, 2>>
    BY <1>15, WalkStep
  <1>17. Hash!Walk[17] = <<2, 2>>
    BY <1>16, WalkStep
  <1>18. Hash!Walk[18] = <<2, 0>>
    BY <1>17, WalkStep
  <1>19. Hash!Walk[19] = <<0, 4>>
    BY <1>18, WalkStep
  <1>20. Hash!Walk[20] = <<4, 2>>
    BY <1>19, WalkStep
  <1>21. Hash!Walk[21] = <<2, 4>>
    BY <1>20, WalkStep
  <1>22. Hash!Walk[22] = <<4, 1>>
    BY <1>21, WalkStep
  <1>23. Hash!Walk[23] = <<1, 1>>
    BY <1>22, WalkStep
  <1> QED
    BY <1>0, <1>1, <1>2, <1>3, <1>4, <1>5, <1>6, <1>7, <1>8, <1>9, <1>10, <1>11, <1>12,
       <1>13, <1>14, <1>15, <1>16, <1>17, <1>18, <1>19, <1>20, <1>21, <1>22, <1>23

----------------------------------------------------------------------------
\* The register that the round constants come from, step by step.
LEMMA LfsrStep ==
  /\ Hash!Lfsr[0] = {0}
  /\ \A t \in 0..254 : Hash!Lfsr[t] \in SUBSET (0..7)
  /\ \A t \in 1..254 :
       Hash!Lfsr[t] = LET s == {k + 1 : k \in Hash!Lfsr[t - 1]}
                      IN  IF 8 \in s THEN Hash!Xor(s \ {8}, {0, 4, 5, 6}) ELSE s
  <1> DEFINE T == SUBSET (0..7)
             Up(a) == {k + 1 : k \in a}
             Turn(a) == IF 8 \in Up(a) THEN Hash!Xor(Up(a) \ {8}, {0, 4, 5, 6}) ELSE Up(a)
             next == [a \in T |-> Turn(a)]
             F(f) == [t \in 0..254 |-> IF t = 0 THEN {0} ELSE Turn(f[t - 1])]
             N == 254
             first == {0}
  <1>1. ASSUME NEW a \in T PROVE Turn(a) \in T
    <2>1. Up(a) \in SUBSET (1..8)
      OBVIOUS
    <2> HIDE DEF Up
    <2> QED
      BY <2>1 DEF Hash!Xor
  <1> HIDE DEF Turn
  <1>2. next \in [T -> T] /\ first \in T /\ N \in Nat
    BY <1>1
  <1>3. PICK g \in [0..N -> T] : g[0] = first /\ \A t \in 1..N : g[t] = next[g[t - 1]]
    <2>1. Recurs(N, T, first, next)
      <3> HIDE DEF T, next, N, first
      <3> QED
        BY <1>2, StepByStep
    <2> QED
      BY <2>1 DEF Recurs
  <1>4. ASSUME NEW t \in 0..254 PROVE g[t] = F(g)[t]
    <2>1. CASE t = 0
      BY <1>3, <2>1
    <2>2. CASE t # 0
      <3>1. t \in 1..254 /\ g[t - 1] \in T
        BY <2>2
      <3>2. g[t] = next[g[t - 1]]
        BY <1>3, <3>1
      <3>3. next[g[t - 1]] = Turn(g[t - 1])
        BY <3>1
      <3> QED
        BY <2>2, <3>2, <3>3
    <2> QED
      BY <2>1, <2>2
  <1>5. g = F(g)
    BY <1>4
  <1>6. Hash!Lfsr = CHOOSE f : f = F(f)
    BY DEF Hash!Lfsr, Turn
  <1>7. Hash!Lfsr = F(Hash!Lfsr)
    <2> HIDE DEF F
    <2> QED
      BY <1>5, <1>6
  <1>8. Hash!Lfsr[0] = {0} /\ \A t \in 1..254 : Hash!Lfsr[t] = Turn(Hash!Lfsr[t - 1])
    <2>1. \A t \in 0..254 : Hash!Lfsr[t] = F(Hash!Lfsr)[t]
      <3> HIDE DEF F
      <3> QED
        BY <1>7
    <2>2. ASSUME NEW f, NEW t \in 1..254 PROVE F(f)[t] = Turn(f[t - 1])
      OBVIOUS
    <2>3. ASSUME NEW f PROVE F(f)[0] = {0}
      OBVIOUS
    <2>4. 0 \in 0..254 /\ \A t \in 1..254 : t \in 0..254
      OBVIOUS
    <2> HIDE DEF F
    <2> QED
      BY <2>1, <2>2, <2>3, <2>4
  <1>9. \A t \in 0..254 : Hash!Lfsr[t] \in T
    <2> DEFINE In == {n \in Nat : n <= 254 => Hash!Lfsr[n] \in T}
    <2>1. 0 \in In
      BY <1>8
    <2>2. \A n \in In : n + 1 \in In
      <3> SUFFICES ASSUME NEW n \in In, n + 1 <= 254
                   PROVE  Hash!Lfsr[n + 1] \in T
        OBVIOUS
      <3>1. n + 1 \in 1..254 /\ Hash!Lfsr[(n + 1) - 1] \in T
        OBVIOUS
      <3>2. Hash!Lfsr[n + 1] = Turn(Hash!Lfsr[(n + 1) - 1])
        BY <1>8, <3>1
      <3> HIDE DEF T
      <3> QED
        BY <1>1, <3>1, <3>2
    <2>3. In \in SUBSET Nat
      OBVIOUS
    <2>4. In = Nat
      <3> HIDE DEF In
      <3> QED
        BY <2>1, <2>2, <2>3, NatSetInduction
    <2> QED
      BY <2>4
  <1> QED
    BY <1>8, <1>9 DEF Turn

\* One of the two, but not both.
Odd(p, q) == (p /\ ~q) \/ (~p /\ q)

\* Bit k of the register at time t.
Bit(t, k) == k \in Hash!Lfsr[t]

\* A step moves every bit up; the last one comes back at four places.
LEMMA LfsrBits ==
  ASSUME NEW t \in 0..253, NEW u, u = t + 1
  PROVE  /\ Bit(u, 0) <=> Bit(t, 7)
         /\ Bit(u, 1) <=> Bit(t, 0)
         /\ Bit(u, 2) <=> Bit(t, 1)
         /\ Bit(u, 3) <=> Bit(t, 2)
         /\ Bit(u, 4) <=> Odd(Bit(t, 3), Bit(t, 7))
         /\ Bit(u, 5) <=> Odd(Bit(t, 4), Bit(t, 7))
         /\ Bit(u, 6) <=> Odd(Bit(t, 5), Bit(t, 7))
         /\ Bit(u, 7) <=> Bit(t, 6)
  <1> DEFINE L == Hash!Lfsr[t]
             s == {k + 1 : k \in L}
  <1>1. u \in 1..254 /\ u - 1 = t
    OBVIOUS
  <1>2. L \in SUBSET (0..7)
    <2>1. \A n \in 0..254 : Hash!Lfsr[n] \in SUBSET (0..7)
      BY LfsrStep
    <2>2. t \in 0..254
      OBVIOUS
    <2> QED
      BY <2>1, <2>2
  <1>3. Hash!Lfsr[u] = IF 8 \in s THEN Hash!Xor(s \ {8}, {0, 4, 5, 6}) ELSE s
    <2>1. \A n \in 1..254 :
            Hash!Lfsr[n] = LET b == {k + 1 : k \in Hash!Lfsr[n - 1]}
                           IN  IF 8 \in b THEN Hash!Xor(b \ {8}, {0, 4, 5, 6}) ELSE b
      BY LfsrStep
    <2> QED
      BY <1>1, <2>1
  <1>4. /\ ~(0 \in s)            /\ (1 \in s <=> 0 \in L) /\ (2 \in s <=> 1 \in L)
        /\ (3 \in s <=> 2 \in L) /\ (4 \in s <=> 3 \in L) /\ (5 \in s <=> 4 \in L)
        /\ (6 \in s <=> 5 \in L) /\ (7 \in s <=> 6 \in L) /\ (8 \in s <=> 7 \in L)
    BY <1>2
  <1> HIDE DEF s
  <1> QED
    BY <1>3, <1>4 DEF Hash!Xor, Odd, Bit

\* The eight bits after seven steps, and the first bit on the way.
LEMMA SevenSteps ==
  ASSUME NEW t \in Int, t >= 0, t <= 247
  PROVE  /\ Bit(t + 1, 0) <=> Bit(t, 7)
         /\ Bit(t + 2, 0) <=> Bit(t, 6)
         /\ Bit(t + 3, 0) <=> Odd(Bit(t, 5), Bit(t, 7))
         /\ Bit(t + 4, 0) <=> Odd(Odd(Bit(t, 4), Bit(t, 6)), Bit(t, 7))
         /\ Bit(t + 5, 0) <=> Odd(Odd(Bit(t, 3), Bit(t, 5)), Bit(t, 6))
         /\ Bit(t + 6, 0) <=> Odd(Odd(Bit(t, 2), Bit(t, 4)), Bit(t, 5))
         /\ Bit(t + 7, 0) <=> Odd(Odd(Bit(t, 1), Bit(t, 3)), Bit(t, 4))
         /\ Bit(t + 7, 1) <=> Odd(Odd(Bit(t, 2), Bit(t, 4)), Bit(t, 5))
         /\ Bit(t + 7, 2) <=> Odd(Odd(Bit(t, 3), Bit(t, 5)), Bit(t, 6))
         /\ Bit(t + 7, 3) <=> Odd(Odd(Bit(t, 4), Bit(t, 6)), Bit(t, 7))
         /\ Bit(t + 7, 4) <=>
              Odd(Odd(Odd(Odd(Bit(t, 1), Bit(t, 3)), Bit(t, 4)), Bit(t, 5)), Bit(t, 7))
         /\ Bit(t + 7, 5) <=>
              Odd(Odd(Odd(Odd(Bit(t, 1), Bit(t, 2)), Bit(t, 3)), Bit(t, 5)), Bit(t, 6))
         /\ Bit(t + 7, 6) <=> Odd(Odd(Odd(Bit(t, 1), Bit(t, 2)), Bit(t, 6)), Bit(t, 7))
         /\ Bit(t + 7, 7) <=> Odd(Odd(Odd(Bit(t, 0), Bit(t, 2)), Bit(t, 3)), Bit(t, 7))
  <1>1. /\ (Bit(t + 1, 0) <=> Bit(t, 7)) /\ (Bit(t + 1, 1) <=> Bit(t, 0))
        /\ (Bit(t + 1, 2) <=> Bit(t, 1)) /\ (Bit(t + 1, 3) <=> Bit(t, 2))
        /\ (Bit(t + 1, 4) <=> Odd(Bit(t, 3), Bit(t, 7)))
        /\ (Bit(t + 1, 5) <=> Odd(Bit(t, 4), Bit(t, 7)))
        /\ (Bit(t + 1, 6) <=> Odd(Bit(t, 5), Bit(t, 7)))
        /\ (Bit(t + 1, 7) <=> Bit(t, 6))
    <2>1. t \in 0..253 /\ t + 1 = (t) + 1
      OBVIOUS
    <2> QED
      BY <2>1, LfsrBits
  <1>2. /\ (Bit(t + 2, 0) <=> Bit(t + 1, 7)) /\ (Bit(t + 2, 1) <=> Bit(t + 1, 0))
        /\ (Bit(t + 2, 2) <=> Bit(t + 1, 1)) /\ (Bit(t + 2, 3) <=> Bit(t + 1, 2))
        /\ (Bit(t + 2, 4) <=> Odd(Bit(t + 1, 3), Bit(t + 1, 7)))
        /\ (Bit(t + 2, 5) <=> Odd(Bit(t + 1, 4), Bit(t + 1, 7)))
        /\ (Bit(t + 2, 6) <=> Odd(Bit(t + 1, 5), Bit(t + 1, 7)))
        /\ (Bit(t + 2, 7) <=> Bit(t + 1, 6))
    <2>1. t + 1 \in 0..253 /\ t + 2 = (t + 1) + 1
      OBVIOUS
    <2> QED
      BY <2>1, LfsrBits
  <1>3. /\ (Bit(t + 3, 0) <=> Bit(t + 2, 7)) /\ (Bit(t + 3, 1) <=> Bit(t + 2, 0))
        /\ (Bit(t + 3, 2) <=> Bit(t + 2, 1)) /\ (Bit(t + 3, 3) <=> Bit(t + 2, 2))
        /\ (Bit(t + 3, 4) <=> Odd(Bit(t + 2, 3), Bit(t + 2, 7)))
        /\ (Bit(t + 3, 5) <=> Odd(Bit(t + 2, 4), Bit(t + 2, 7)))
        /\ (Bit(t + 3, 6) <=> Odd(Bit(t + 2, 5), Bit(t + 2, 7)))
        /\ (Bit(t + 3, 7) <=> Bit(t + 2, 6))
    <2>1. t + 2 \in 0..253 /\ t + 3 = (t + 2) + 1
      OBVIOUS
    <2> QED
      BY <2>1, LfsrBits
  <1>4. /\ (Bit(t + 4, 0) <=> Bit(t + 3, 7)) /\ (Bit(t + 4, 1) <=> Bit(t + 3, 0))
        /\ (Bit(t + 4, 2) <=> Bit(t + 3, 1)) /\ (Bit(t + 4, 3) <=> Bit(t + 3, 2))
        /\ (Bit(t + 4, 4) <=> Odd(Bit(t + 3, 3), Bit(t + 3, 7)))
        /\ (Bit(t + 4, 5) <=> Odd(Bit(t + 3, 4), Bit(t + 3, 7)))
        /\ (Bit(t + 4, 6) <=> Odd(Bit(t + 3, 5), Bit(t + 3, 7)))
        /\ (Bit(t + 4, 7) <=> Bit(t + 3, 6))
    <2>1. t + 3 \in 0..253 /\ t + 4 = (t + 3) + 1
      OBVIOUS
    <2> QED
      BY <2>1, LfsrBits
  <1>5. /\ (Bit(t + 5, 0) <=> Bit(t + 4, 7)) /\ (Bit(t + 5, 1) <=> Bit(t + 4, 0))
        /\ (Bit(t + 5, 2) <=> Bit(t + 4, 1)) /\ (Bit(t + 5, 3) <=> Bit(t + 4, 2))
        /\ (Bit(t + 5, 4) <=> Odd(Bit(t + 4, 3), Bit(t + 4, 7)))
        /\ (Bit(t + 5, 5) <=> Odd(Bit(t + 4, 4), Bit(t + 4, 7)))
        /\ (Bit(t + 5, 6) <=> Odd(Bit(t + 4, 5), Bit(t + 4, 7)))
        /\ (Bit(t + 5, 7) <=> Bit(t + 4, 6))
    <2>1. t + 4 \in 0..253 /\ t + 5 = (t + 4) + 1
      OBVIOUS
    <2> QED
      BY <2>1, LfsrBits
  <1>6. /\ (Bit(t + 6, 0) <=> Bit(t + 5, 7)) /\ (Bit(t + 6, 1) <=> Bit(t + 5, 0))
        /\ (Bit(t + 6, 2) <=> Bit(t + 5, 1)) /\ (Bit(t + 6, 3) <=> Bit(t + 5, 2))
        /\ (Bit(t + 6, 4) <=> Odd(Bit(t + 5, 3), Bit(t + 5, 7)))
        /\ (Bit(t + 6, 5) <=> Odd(Bit(t + 5, 4), Bit(t + 5, 7)))
        /\ (Bit(t + 6, 6) <=> Odd(Bit(t + 5, 5), Bit(t + 5, 7)))
        /\ (Bit(t + 6, 7) <=> Bit(t + 5, 6))
    <2>1. t + 5 \in 0..253 /\ t + 6 = (t + 5) + 1
      OBVIOUS
    <2> QED
      BY <2>1, LfsrBits
  <1>7. /\ (Bit(t + 7, 0) <=> Bit(t + 6, 7)) /\ (Bit(t + 7, 1) <=> Bit(t + 6, 0))
        /\ (Bit(t + 7, 2) <=> Bit(t + 6, 1)) /\ (Bit(t + 7, 3) <=> Bit(t + 6, 2))
        /\ (Bit(t + 7, 4) <=> Odd(Bit(t + 6, 3), Bit(t + 6, 7)))
        /\ (Bit(t + 7, 5) <=> Odd(Bit(t + 6, 4), Bit(t + 6, 7)))
        /\ (Bit(t + 7, 6) <=> Odd(Bit(t + 6, 5), Bit(t + 6, 7)))
        /\ (Bit(t + 7, 7) <=> Bit(t + 6, 6))
    <2>1. t + 6 \in 0..253 /\ t + 7 = (t + 6) + 1
      OBVIOUS
    <2> QED
      BY <2>1, LfsrBits
  <1> QED
    BY <1>1, <1>2, <1>3, <1>4, <1>5, <1>6, <1>7 DEF Odd

\* The round constants of FIPS 202, as KeccakF_RoundConstants has them.
LEMMA Constants ==
  ASSUME NEW n \in 0..23
  PROVE  {2^j - 1 : j \in {j \in 0..6 : 0 \in Hash!Lfsr[(j + 7 * n) % 255]}}
           = Hash!KeccakF_RoundConstants[n + 1]
  <1> DEFINE Sets(m) == {j \in 0..6 : 0 \in Hash!Lfsr[(j + 7 * m) % 255]}
  <1>0. /\ Bit(0, 0) /\ ~Bit(0, 1) /\ ~Bit(0, 2) /\ ~Bit(0, 3)
        /\ ~Bit(0, 4) /\ ~Bit(0, 5) /\ ~Bit(0, 6) /\ ~Bit(0, 7)
    <2>1. Hash!Lfsr[0] = {0}
      BY LfsrStep
    <2> QED
      BY <2>1 DEF Bit
  <1>1. /\ ~Bit(7, 0) /\ ~Bit(7, 1) /\ ~Bit(7, 2) /\ ~Bit(7, 3)
        /\ ~Bit(7, 4) /\ ~Bit(7, 5) /\ ~Bit(7, 6) /\ Bit(7, 7)
        /\ Sets(0) = {0}
    <2>1. /\ ~Bit(7, 0) /\ ~Bit(7, 1) /\ ~Bit(7, 2) /\ ~Bit(7, 3)
          /\ ~Bit(7, 4) /\ ~Bit(7, 5) /\ ~Bit(7, 6) /\ Bit(7, 7)
          /\ ~Bit(1, 0) /\ ~Bit(2, 0) /\ ~Bit(3, 0) /\ ~Bit(4, 0)
          /\ ~Bit(5, 0) /\ ~Bit(6, 0)
      BY <1>0, SevenSteps, SMT DEF Odd
    <2>2. \A j \in 0..6 : (j + 7 * 0) % 255 = j + 0
      OBVIOUS
    <2> QED
      BY <1>0, <2>1, <2>2, SMT DEF Bit
  <1>2. /\ ~Bit(14, 0) /\ ~Bit(14, 1) /\ ~Bit(14, 2) /\ Bit(14, 3)
        /\ Bit(14, 4) /\ ~Bit(14, 5) /\ Bit(14, 6) /\ Bit(14, 7)
        /\ Sets(1) = {1, 3, 4}
    <2>1. /\ ~Bit(14, 0) /\ ~Bit(14, 1) /\ ~Bit(14, 2) /\ Bit(14, 3)
          /\ Bit(14, 4) /\ ~Bit(14, 5) /\ Bit(14, 6) /\ Bit(14, 7)
          /\ Bit(8, 0) /\ ~Bit(9, 0) /\ Bit(10, 0) /\ Bit(11, 0)
          /\ ~Bit(12, 0) /\ ~Bit(13, 0)
      BY <1>1, SevenSteps, SMT DEF Odd
    <2>2. \A j \in 0..6 : (j + 7 * 1) % 255 = j + 7
      OBVIOUS
    <2> QED
      BY <1>1, <2>1, <2>2, SMT DEF Bit
  <1>3. /\ ~Bit(21, 0) /\ Bit(21, 1) /\ ~Bit(21, 2) /\ Bit(21, 3)
        /\ Bit(21, 4) /\ ~Bit(21, 5) /\ ~Bit(21, 6) /\ ~Bit(21, 7)
        /\ Sets(2) = {1, 2, 3, 4, 6}
    <2>1. /\ ~Bit(21, 0) /\ Bit(21, 1) /\ ~Bit(21, 2) /\ Bit(21, 3)
          /\ Bit(21, 4) /\ ~Bit(21, 5) /\ ~Bit(21, 6) /\ ~Bit(21, 7)
          /\ Bit(15, 0) /\ Bit(16, 0) /\ Bit(17, 0) /\ Bit(18, 0)
          /\ ~Bit(19, 0) /\ Bit(20, 0)
      BY <1>2, SevenSteps, SMT DEF Odd
    <2>2. \A j \in 0..6 : (j + 7 * 2) % 255 = j + 14
      OBVIOUS
    <2> QED
      BY <1>2, <2>1, <2>2, SMT DEF Bit
  <1>4. /\ Bit(28, 0) /\ Bit(28, 1) /\ Bit(28, 2) /\ Bit(28, 3)
        /\ Bit(28, 4) /\ ~Bit(28, 5) /\ Bit(28, 6) /\ Bit(28, 7)
        /\ Sets(3) = {4, 5, 6}
    <2>1. /\ Bit(28, 0) /\ Bit(28, 1) /\ Bit(28, 2) /\ Bit(28, 3)
          /\ Bit(28, 4) /\ ~Bit(28, 5) /\ Bit(28, 6) /\ Bit(28, 7)
          /\ ~Bit(22, 0) /\ ~Bit(23, 0) /\ ~Bit(24, 0) /\ Bit(25, 0)
          /\ Bit(26, 0) /\ Bit(27, 0)
      BY <1>3, SevenSteps, SMT DEF Odd
    <2>2. \A j \in 0..6 : (j + 7 * 3) % 255 = j + 21
      OBVIOUS
    <2> QED
      BY <1>3, <2>1, <2>2, SMT DEF Bit
  <1>5. /\ Bit(35, 0) /\ ~Bit(35, 1) /\ ~Bit(35, 2) /\ Bit(35, 3)
        /\ ~Bit(35, 4) /\ ~Bit(35, 5) /\ ~Bit(35, 6) /\ ~Bit(35, 7)
        /\ Sets(4) = {0, 1, 2, 3, 4}
    <2>1. /\ Bit(35, 0) /\ ~Bit(35, 1) /\ ~Bit(35, 2) /\ Bit(35, 3)
          /\ ~Bit(35, 4) /\ ~Bit(35, 5) /\ ~Bit(35, 6) /\ ~Bit(35, 7)
          /\ Bit(29, 0) /\ Bit(30, 0) /\ Bit(31, 0) /\ Bit(32, 0)
          /\ ~Bit(33, 0) /\ ~Bit(34, 0)
      BY <1>4, SevenSteps, SMT DEF Odd
    <2>2. \A j \in 0..6 : (j + 7 * 4) % 255 = j + 28
      OBVIOUS
    <2> QED
      BY <1>4, <2>1, <2>2, SMT DEF Bit
  <1>6. /\ Bit(42, 0) /\ ~Bit(42, 1) /\ Bit(42, 2) /\ ~Bit(42, 3)
        /\ Bit(42, 4) /\ Bit(42, 5) /\ ~Bit(42, 6) /\ ~Bit(42, 7)
        /\ Sets(5) = {0, 5}
    <2>1. /\ Bit(42, 0) /\ ~Bit(42, 1) /\ Bit(42, 2) /\ ~Bit(42, 3)
          /\ Bit(42, 4) /\ Bit(42, 5) /\ ~Bit(42, 6) /\ ~Bit(42, 7)
          /\ ~Bit(36, 0) /\ ~Bit(37, 0) /\ ~Bit(38, 0) /\ ~Bit(39, 0)
          /\ Bit(40, 0) /\ ~Bit(41, 0)
      BY <1>5, SevenSteps, SMT DEF Odd
    <2>2. \A j \in 0..6 : (j + 7 * 5) % 255 = j + 35
      OBVIOUS
    <2> QED
      BY <1>5, <2>1, <2>2, SMT DEF Bit
  <1>7. /\ Bit(49, 0) /\ Bit(49, 1) /\ Bit(49, 2) /\ Bit(49, 3)
        /\ ~Bit(49, 4) /\ ~Bit(49, 5) /\ Bit(49, 6) /\ ~Bit(49, 7)
        /\ Sets(6) = {0, 3, 4, 5, 6}
    <2>1. /\ Bit(49, 0) /\ Bit(49, 1) /\ Bit(49, 2) /\ Bit(49, 3)
          /\ ~Bit(49, 4) /\ ~Bit(49, 5) /\ Bit(49, 6) /\ ~Bit(49, 7)
          /\ ~Bit(43, 0) /\ ~Bit(44, 0) /\ Bit(45, 0) /\ Bit(46, 0)
          /\ Bit(47, 0) /\ Bit(48, 0)
      BY <1>6, SevenSteps, SMT DEF Odd
    <2>2. \A j \in 0..6 : (j + 7 * 6) % 255 = j + 42
      OBVIOUS
    <2> QED
      BY <1>6, <2>1, <2>2, SMT DEF Bit
  <1>8. /\ ~Bit(56, 0) /\ Bit(56, 1) /\ ~Bit(56, 2) /\ Bit(56, 3)
        /\ ~Bit(56, 4) /\ ~Bit(56, 5) /\ Bit(56, 6) /\ Bit(56, 7)
        /\ Sets(7) = {0, 2, 4, 6}
    <2>1. /\ ~Bit(56, 0) /\ Bit(56, 1) /\ ~Bit(56, 2) /\ Bit(56, 3)
          /\ ~Bit(56, 4) /\ ~Bit(56, 5) /\ Bit(56, 6) /\ Bit(56, 7)
          /\ ~Bit(50, 0) /\ Bit(51, 0) /\ ~Bit(52, 0) /\ Bit(53, 0)
          /\ ~Bit(54, 0) /\ Bit(55, 0)
      BY <1>7, SevenSteps, SMT DEF Odd
    <2>2. \A j \in 0..6 : (j + 7 * 7) % 255 = j + 49
      OBVIOUS
    <2> QED
      BY <1>7, <2>1, <2>2, SMT DEF Bit
  <1>9. /\ ~Bit(63, 0) /\ ~Bit(63, 1) /\ ~Bit(63, 2) /\ ~Bit(63, 3)
        /\ Bit(63, 4) /\ Bit(63, 5) /\ Bit(63, 6) /\ ~Bit(63, 7)
        /\ Sets(8) = {1, 2, 3}
    <2>1. /\ ~Bit(63, 0) /\ ~Bit(63, 1) /\ ~Bit(63, 2) /\ ~Bit(63, 3)
          /\ Bit(63, 4) /\ Bit(63, 5) /\ Bit(63, 6) /\ ~Bit(63, 7)
          /\ Bit(57, 0) /\ Bit(58, 0) /\ Bit(59, 0) /\ ~Bit(60, 0)
          /\ ~Bit(61, 0) /\ ~Bit(62, 0)
      BY <1>8, SevenSteps, SMT DEF Odd
    <2>2. \A j \in 0..6 : (j + 7 * 8) % 255 = j + 56
      OBVIOUS
    <2> QED
      BY <1>8, <2>1, <2>2, SMT DEF Bit
  <1>10. /\ Bit(70, 0) /\ ~Bit(70, 1) /\ ~Bit(70, 2) /\ ~Bit(70, 3)
        /\ ~Bit(70, 4) /\ ~Bit(70, 5) /\ Bit(70, 6) /\ ~Bit(70, 7)
        /\ Sets(9) = {2, 3}
    <2>1. /\ Bit(70, 0) /\ ~Bit(70, 1) /\ ~Bit(70, 2) /\ ~Bit(70, 3)
          /\ ~Bit(70, 4) /\ ~Bit(70, 5) /\ Bit(70, 6) /\ ~Bit(70, 7)
          /\ ~Bit(64, 0) /\ Bit(65, 0) /\ Bit(66, 0) /\ ~Bit(67, 0)
          /\ ~Bit(68, 0) /\ ~Bit(69, 0)
      BY <1>9, SevenSteps, SMT DEF Odd
    <2>2. \A j \in 0..6 : (j + 7 * 9) % 255 = j + 63
      OBVIOUS
    <2> QED
      BY <1>9, <2>1, <2>2, SMT DEF Bit
  <1>11. /\ ~Bit(77, 0) /\ ~Bit(77, 1) /\ Bit(77, 2) /\ Bit(77, 3)
        /\ ~Bit(77, 4) /\ Bit(77, 5) /\ Bit(77, 6) /\ Bit(77, 7)
        /\ Sets(10) = {0, 2, 4, 5}
    <2>1. /\ ~Bit(77, 0) /\ ~Bit(77, 1) /\ Bit(77, 2) /\ Bit(77, 3)
          /\ ~Bit(77, 4) /\ Bit(77, 5) /\ Bit(77, 6) /\ Bit(77, 7)
          /\ ~Bit(71, 0) /\ Bit(72, 0) /\ ~Bit(73, 0) /\ Bit(74, 0)
          /\ Bit(75, 0) /\ ~Bit(76, 0)
      BY <1>10, SevenSteps, SMT DEF Odd
    <2>2. \A j \in 0..6 : (j + 7 * 10) % 255 = j + 70
      OBVIOUS
    <2> QED
      BY <1>10, <2>1, <2>2, SMT DEF Bit
  <1>12. /\ Bit(84, 0) /\ ~Bit(84, 1) /\ Bit(84, 2) /\ ~Bit(84, 3)
        /\ Bit(84, 4) /\ ~Bit(84, 5) /\ Bit(84, 6) /\ Bit(84, 7)
        /\ Sets(11) = {1, 2, 5}
    <2>1. /\ Bit(84, 0) /\ ~Bit(84, 1) /\ Bit(84, 2) /\ ~Bit(84, 3)
          /\ Bit(84, 4) /\ ~Bit(84, 5) /\ Bit(84, 6) /\ Bit(84, 7)
          /\ Bit(78, 0) /\ Bit(79, 0) /\ ~Bit(80, 0) /\ ~Bit(81, 0)
          /\ Bit(82, 0) /\ ~Bit(83, 0)
      BY <1>11, SevenSteps, SMT DEF Odd
    <2>2. \A j \in 0..6 : (j + 7 * 11) % 255 = j + 77
      OBVIOUS
    <2> QED
      BY <1>11, <2>1, <2>2, SMT DEF Bit
  <1>13. /\ Bit(91, 0) /\ ~Bit(91, 1) /\ Bit(91, 2) /\ Bit(91, 3)
        /\ ~Bit(91, 4) /\ ~Bit(91, 5) /\ Bit(91, 6) /\ Bit(91, 7)
        /\ Sets(12) = {0, 1, 2, 3, 4, 5}
    <2>1. /\ Bit(91, 0) /\ ~Bit(91, 1) /\ Bit(91, 2) /\ Bit(91, 3)
          /\ ~Bit(91, 4) /\ ~Bit(91, 5) /\ Bit(91, 6) /\ Bit(91, 7)
          /\ Bit(85, 0) /\ Bit(86, 0) /\ Bit(87, 0) /\ Bit(88, 0)
          /\ Bit(89, 0) /\ ~Bit(90, 0)
      BY <1>12, SevenSteps, SMT DEF Odd
    <2>2. \A j \in 0..6 : (j + 7 * 12) % 255 = j + 84
      OBVIOUS
    <2> QED
      BY <1>12, <2>1, <2>2, SMT DEF Bit
  <1>14. /\ Bit(98, 0) /\ Bit(98, 1) /\ ~Bit(98, 2) /\ ~Bit(98, 3)
        /\ ~Bit(98, 4) /\ Bit(98, 5) /\ Bit(98, 6) /\ ~Bit(98, 7)
        /\ Sets(13) = {0, 1, 2, 3, 6}
    <2>1. /\ Bit(98, 0) /\ Bit(98, 1) /\ ~Bit(98, 2) /\ ~Bit(98, 3)
          /\ ~Bit(98, 4) /\ Bit(98, 5) /\ Bit(98, 6) /\ ~Bit(98, 7)
          /\ Bit(92, 0) /\ Bit(93, 0) /\ Bit(94, 0) /\ ~Bit(95, 0)
          /\ ~Bit(96, 0) /\ Bit(97, 0)
      BY <1>13, SevenSteps, SMT DEF Odd
    <2>2. \A j \in 0..6 : (j + 7 * 13) % 255 = j + 91
      OBVIOUS
    <2> QED
      BY <1>13, <2>1, <2>2, SMT DEF Bit
  <1>15. /\ Bit(105, 0) /\ Bit(105, 1) /\ ~Bit(105, 2) /\ Bit(105, 3)
        /\ ~Bit(105, 4) /\ Bit(105, 5) /\ ~Bit(105, 6) /\ Bit(105, 7)
        /\ Sets(14) = {0, 2, 3, 4, 6}
    <2>1. /\ Bit(105, 0) /\ Bit(105, 1) /\ ~Bit(105, 2) /\ Bit(105, 3)
          /\ ~Bit(105, 4) /\ Bit(105, 5) /\ ~Bit(105, 6) /\ Bit(105, 7)
          /\ ~Bit(99, 0) /\ Bit(100, 0) /\ Bit(101, 0) /\ Bit(102, 0)
          /\ ~Bit(103, 0) /\ Bit(104, 0)
      BY <1>14, SevenSteps, SMT DEF Odd
    <2>2. \A j \in 0..6 : (j + 7 * 14) % 255 = j + 98
      OBVIOUS
    <2> QED
      BY <1>14, <2>1, <2>2, SMT DEF Bit
  <1>16. /\ ~Bit(112, 0) /\ Bit(112, 1) /\ ~Bit(112, 2) /\ Bit(112, 3)
        /\ ~Bit(112, 4) /\ Bit(112, 5) /\ ~Bit(112, 6) /\ Bit(112, 7)
        /\ Sets(15) = {0, 1, 4, 6}
    <2>1. /\ ~Bit(112, 0) /\ Bit(112, 1) /\ ~Bit(112, 2) /\ Bit(112, 3)
          /\ ~Bit(112, 4) /\ Bit(112, 5) /\ ~Bit(112, 6) /\ Bit(112, 7)
          /\ Bit(106, 0) /\ ~Bit(107, 0) /\ ~Bit(108, 0) /\ Bit(109, 0)
          /\ ~Bit(110, 0) /\ Bit(111, 0)
      BY <1>15, SevenSteps, SMT DEF Odd
    <2>2. \A j \in 0..6 : (j + 7 * 15) % 255 = j + 105
      OBVIOUS
    <2> QED
      BY <1>15, <2>1, <2>2, SMT DEF Bit
  <1>17. /\ ~Bit(119, 0) /\ Bit(119, 1) /\ ~Bit(119, 2) /\ Bit(119, 3)
        /\ ~Bit(119, 4) /\ Bit(119, 5) /\ ~Bit(119, 6) /\ ~Bit(119, 7)
        /\ Sets(16) = {1, 4, 6}
    <2>1. /\ ~Bit(119, 0) /\ Bit(119, 1) /\ ~Bit(119, 2) /\ Bit(119, 3)
          /\ ~Bit(119, 4) /\ Bit(119, 5) /\ ~Bit(119, 6) /\ ~Bit(119, 7)
          /\ Bit(113, 0) /\ ~Bit(114, 0) /\ ~Bit(115, 0) /\ Bit(116, 0)
          /\ ~Bit(117, 0) /\ Bit(118, 0)
      BY <1>16, SevenSteps, SMT DEF Odd
    <2>2. \A j \in 0..6 : (j + 7 * 16) % 255 = j + 112
      OBVIOUS
    <2> QED
      BY <1>16, <2>1, <2>2, SMT DEF Bit
  <1>18. /\ ~Bit(126, 0) /\ Bit(126, 1) /\ ~Bit(126, 2) /\ ~Bit(126, 3)
        /\ Bit(126, 4) /\ Bit(126, 5) /\ Bit(126, 6) /\ Bit(126, 7)
        /\ Sets(17) = {3, 6}
    <2>1. /\ ~Bit(126, 0) /\ Bit(126, 1) /\ ~Bit(126, 2) /\ ~Bit(126, 3)
          /\ Bit(126, 4) /\ Bit(126, 5) /\ Bit(126, 6) /\ Bit(126, 7)
          /\ ~Bit(120, 0) /\ ~Bit(121, 0) /\ Bit(122, 0) /\ ~Bit(123, 0)
          /\ ~Bit(124, 0) /\ Bit(125, 0)
      BY <1>17, SevenSteps, SMT DEF Odd
    <2>2. \A j \in 0..6 : (j + 7 * 17) % 255 = j + 119
      OBVIOUS
    <2> QED
      BY <1>17, <2>1, <2>2, SMT DEF Bit
  <1>19. /\ ~Bit(133, 0) /\ ~Bit(133, 1) /\ ~Bit(133, 2) /\ Bit(133, 3)
        /\ ~Bit(133, 4) /\ Bit(133, 5) /\ Bit(133, 6) /\ Bit(133, 7)
        /\ Sets(18) = {1, 2, 4}
    <2>1. /\ ~Bit(133, 0) /\ ~Bit(133, 1) /\ ~Bit(133, 2) /\ Bit(133, 3)
          /\ ~Bit(133, 4) /\ Bit(133, 5) /\ Bit(133, 6) /\ Bit(133, 7)
          /\ Bit(127, 0) /\ Bit(128, 0) /\ ~Bit(129, 0) /\ Bit(130, 0)
          /\ ~Bit(131, 0) /\ ~Bit(132, 0)
      BY <1>18, SevenSteps, SMT DEF Odd
    <2>2. \A j \in 0..6 : (j + 7 * 18) % 255 = j + 126
      OBVIOUS
    <2> QED
      BY <1>18, <2>1, <2>2, SMT DEF Bit
  <1>20. /\ Bit(140, 0) /\ Bit(140, 1) /\ Bit(140, 2) /\ ~Bit(140, 3)
        /\ Bit(140, 4) /\ Bit(140, 5) /\ ~Bit(140, 6) /\ ~Bit(140, 7)
        /\ Sets(19) = {1, 2, 5, 6}
    <2>1. /\ Bit(140, 0) /\ Bit(140, 1) /\ Bit(140, 2) /\ ~Bit(140, 3)
          /\ Bit(140, 4) /\ Bit(140, 5) /\ ~Bit(140, 6) /\ ~Bit(140, 7)
          /\ Bit(134, 0) /\ Bit(135, 0) /\ ~Bit(136, 0) /\ ~Bit(137, 0)
          /\ Bit(138, 0) /\ Bit(139, 0)
      BY <1>19, SevenSteps, SMT DEF Odd
    <2>2. \A j \in 0..6 : (j + 7 * 19) % 255 = j + 133
      OBVIOUS
    <2> QED
      BY <1>19, <2>1, <2>2, SMT DEF Bit
  <1>21. /\ ~Bit(147, 0) /\ Bit(147, 1) /\ Bit(147, 2) /\ Bit(147, 3)
        /\ Bit(147, 4) /\ Bit(147, 5) /\ ~Bit(147, 6) /\ ~Bit(147, 7)
        /\ Sets(20) = {0, 3, 4, 5, 6}
    <2>1. /\ ~Bit(147, 0) /\ Bit(147, 1) /\ Bit(147, 2) /\ Bit(147, 3)
          /\ Bit(147, 4) /\ Bit(147, 5) /\ ~Bit(147, 6) /\ ~Bit(147, 7)
          /\ ~Bit(141, 0) /\ ~Bit(142, 0) /\ Bit(143, 0) /\ Bit(144, 0)
          /\ Bit(145, 0) /\ Bit(146, 0)
      BY <1>20, SevenSteps, SMT DEF Odd
    <2>2. \A j \in 0..6 : (j + 7 * 20) % 255 = j + 140
      OBVIOUS
    <2> QED
      BY <1>20, <2>1, <2>2, SMT DEF Bit
  <1>22. /\ Bit(154, 0) /\ Bit(154, 1) /\ ~Bit(154, 2) /\ Bit(154, 3)
        /\ ~Bit(154, 4) /\ ~Bit(154, 5) /\ ~Bit(154, 6) /\ ~Bit(154, 7)
        /\ Sets(21) = {3, 4, 6}
    <2>1. /\ Bit(154, 0) /\ Bit(154, 1) /\ ~Bit(154, 2) /\ Bit(154, 3)
          /\ ~Bit(154, 4) /\ ~Bit(154, 5) /\ ~Bit(154, 6) /\ ~Bit(154, 7)
          /\ ~Bit(148, 0) /\ ~Bit(149, 0) /\ Bit(150, 0) /\ Bit(151, 0)
          /\ ~Bit(152, 0) /\ Bit(153, 0)
      BY <1>21, SevenSteps, SMT DEF Odd
    <2>2. \A j \in 0..6 : (j + 7 * 21) % 255 = j + 147
      OBVIOUS
    <2> QED
      BY <1>21, <2>1, <2>2, SMT DEF Bit
  <1>23. /\ ~Bit(161, 0) /\ ~Bit(161, 1) /\ Bit(161, 2) /\ ~Bit(161, 3)
        /\ ~Bit(161, 4) /\ ~Bit(161, 5) /\ Bit(161, 6) /\ ~Bit(161, 7)
        /\ Sets(22) = {0, 5}
    <2>1. /\ ~Bit(161, 0) /\ ~Bit(161, 1) /\ Bit(161, 2) /\ ~Bit(161, 3)
          /\ ~Bit(161, 4) /\ ~Bit(161, 5) /\ Bit(161, 6) /\ ~Bit(161, 7)
          /\ ~Bit(155, 0) /\ ~Bit(156, 0) /\ ~Bit(157, 0) /\ ~Bit(158, 0)
          /\ Bit(159, 0) /\ ~Bit(160, 0)
      BY <1>22, SevenSteps, SMT DEF Odd
    <2>2. \A j \in 0..6 : (j + 7 * 22) % 255 = j + 154
      OBVIOUS
    <2> QED
      BY <1>22, <2>1, <2>2, SMT DEF Bit
  <1>24. /\ ~Bit(168, 0) /\ Bit(168, 1) /\ Bit(168, 2) /\ Bit(168, 3)
        /\ ~Bit(168, 4) /\ ~Bit(168, 5) /\ ~Bit(168, 6) /\ Bit(168, 7)
        /\ Sets(23) = {2, 4, 5, 6}
    <2>1. /\ ~Bit(168, 0) /\ Bit(168, 1) /\ Bit(168, 2) /\ Bit(168, 3)
          /\ ~Bit(168, 4) /\ ~Bit(168, 5) /\ ~Bit(168, 6) /\ Bit(168, 7)
          /\ ~Bit(162, 0) /\ Bit(163, 0) /\ ~Bit(164, 0) /\ Bit(165, 0)
          /\ Bit(166, 0) /\ Bit(167, 0)
      BY <1>23, SevenSteps, SMT DEF Odd
    <2>2. \A j \in 0..6 : (j + 7 * 23) % 255 = j + 161
      OBVIOUS
    <2> QED
      BY <1>23, <2>1, <2>2, SMT DEF Bit
  <1> HIDE DEF Sets
  <1>25. CASE n = 0
    <2>1. Sets(n) = {0} /\ Hash!KeccakF_RoundConstants[n + 1] = {0}
      BY <1>1, <1>25, SMT DEF Hash!KeccakF_RoundConstants
    <2>2. 2^0 = 1
      BY SMT
    <2>3. {2^j - 1 : j \in {0}} = {0}
      BY <2>2
    <2> QED
      BY <2>1, <2>3 DEF Sets
  <1>26. CASE n = 1
    <2>1. Sets(n) = {1, 3, 4} /\ Hash!KeccakF_RoundConstants[n + 1] = {1, 7, 15}
      BY <1>2, <1>26, SMT DEF Hash!KeccakF_RoundConstants
    <2>2. 2^1 = 2 /\ 2^3 = 8 /\ 2^4 = 16
      BY SMT
    <2>3. {2^j - 1 : j \in {1, 3, 4}} = {1, 7, 15}
      BY <2>2
    <2> QED
      BY <2>1, <2>3 DEF Sets
  <1>27. CASE n = 2
    <2>1. Sets(n) = {1, 2, 3, 4, 6} /\ Hash!KeccakF_RoundConstants[n + 1] = {1, 3, 7, 15, 63}
      BY <1>3, <1>27, SMT DEF Hash!KeccakF_RoundConstants
    <2>2. 2^1 = 2 /\ 2^2 = 4 /\ 2^3 = 8 /\ 2^4 = 16 /\ 2^6 = 64
      BY SMT
    <2>3. {2^j - 1 : j \in {1, 2, 3, 4, 6}} = {1, 3, 7, 15, 63}
      BY <2>2
    <2> QED
      BY <2>1, <2>3 DEF Sets
  <1>28. CASE n = 3
    <2>1. Sets(n) = {4, 5, 6} /\ Hash!KeccakF_RoundConstants[n + 1] = {15, 31, 63}
      BY <1>4, <1>28, SMT DEF Hash!KeccakF_RoundConstants
    <2>2. 2^4 = 16 /\ 2^5 = 32 /\ 2^6 = 64
      BY SMT
    <2>3. {2^j - 1 : j \in {4, 5, 6}} = {15, 31, 63}
      BY <2>2
    <2> QED
      BY <2>1, <2>3 DEF Sets
  <1>29. CASE n = 4
    <2>1. Sets(n) = {0, 1, 2, 3, 4} /\ Hash!KeccakF_RoundConstants[n + 1] = {0, 1, 3, 7, 15}
      BY <1>5, <1>29, SMT DEF Hash!KeccakF_RoundConstants
    <2>2. 2^0 = 1 /\ 2^1 = 2 /\ 2^2 = 4 /\ 2^3 = 8 /\ 2^4 = 16
      BY SMT
    <2>3. {2^j - 1 : j \in {0, 1, 2, 3, 4}} = {0, 1, 3, 7, 15}
      BY <2>2
    <2> QED
      BY <2>1, <2>3 DEF Sets
  <1>30. CASE n = 5
    <2>1. Sets(n) = {0, 5} /\ Hash!KeccakF_RoundConstants[n + 1] = {0, 31}
      BY <1>6, <1>30, SMT DEF Hash!KeccakF_RoundConstants
    <2>2. 2^0 = 1 /\ 2^5 = 32
      BY SMT
    <2>3. {2^j - 1 : j \in {0, 5}} = {0, 31}
      BY <2>2
    <2> QED
      BY <2>1, <2>3 DEF Sets
  <1>31. CASE n = 6
    <2>1. Sets(n) = {0, 3, 4, 5, 6} /\ Hash!KeccakF_RoundConstants[n + 1] = {0, 7, 15, 31, 63}
      BY <1>7, <1>31, SMT DEF Hash!KeccakF_RoundConstants
    <2>2. 2^0 = 1 /\ 2^3 = 8 /\ 2^4 = 16 /\ 2^5 = 32 /\ 2^6 = 64
      BY SMT
    <2>3. {2^j - 1 : j \in {0, 3, 4, 5, 6}} = {0, 7, 15, 31, 63}
      BY <2>2
    <2> QED
      BY <2>1, <2>3 DEF Sets
  <1>32. CASE n = 7
    <2>1. Sets(n) = {0, 2, 4, 6} /\ Hash!KeccakF_RoundConstants[n + 1] = {0, 3, 15, 63}
      BY <1>8, <1>32, SMT DEF Hash!KeccakF_RoundConstants
    <2>2. 2^0 = 1 /\ 2^2 = 4 /\ 2^4 = 16 /\ 2^6 = 64
      BY SMT
    <2>3. {2^j - 1 : j \in {0, 2, 4, 6}} = {0, 3, 15, 63}
      BY <2>2
    <2> QED
      BY <2>1, <2>3 DEF Sets
  <1>33. CASE n = 8
    <2>1. Sets(n) = {1, 2, 3} /\ Hash!KeccakF_RoundConstants[n + 1] = {1, 3, 7}
      BY <1>9, <1>33, SMT DEF Hash!KeccakF_RoundConstants
    <2>2. 2^1 = 2 /\ 2^2 = 4 /\ 2^3 = 8
      BY SMT
    <2>3. {2^j - 1 : j \in {1, 2, 3}} = {1, 3, 7}
      BY <2>2
    <2> QED
      BY <2>1, <2>3 DEF Sets
  <1>34. CASE n = 9
    <2>1. Sets(n) = {2, 3} /\ Hash!KeccakF_RoundConstants[n + 1] = {3, 7}
      BY <1>10, <1>34, SMT DEF Hash!KeccakF_RoundConstants
    <2>2. 2^2 = 4 /\ 2^3 = 8
      BY SMT
    <2>3. {2^j - 1 : j \in {2, 3}} = {3, 7}
      BY <2>2
    <2> QED
      BY <2>1, <2>3 DEF Sets
  <1>35. CASE n = 10
    <2>1. Sets(n) = {0, 2, 4, 5} /\ Hash!KeccakF_RoundConstants[n + 1] = {0, 3, 15, 31}
      BY <1>11, <1>35, SMT DEF Hash!KeccakF_RoundConstants
    <2>2. 2^0 = 1 /\ 2^2 = 4 /\ 2^4 = 16 /\ 2^5 = 32
      BY SMT
    <2>3. {2^j - 1 : j \in {0, 2, 4, 5}} = {0, 3, 15, 31}
      BY <2>2
    <2> QED
      BY <2>1, <2>3 DEF Sets
  <1>36. CASE n = 11
    <2>1. Sets(n) = {1, 2, 5} /\ Hash!KeccakF_RoundConstants[n + 1] = {1, 3, 31}
      BY <1>12, <1>36, SMT DEF Hash!KeccakF_RoundConstants
    <2>2. 2^1 = 2 /\ 2^2 = 4 /\ 2^5 = 32
      BY SMT
    <2>3. {2^j - 1 : j \in {1, 2, 5}} = {1, 3, 31}
      BY <2>2
    <2> QED
      BY <2>1, <2>3 DEF Sets
  <1>37. CASE n = 12
    <2>1. Sets(n) = {0, 1, 2, 3, 4, 5} /\ Hash!KeccakF_RoundConstants[n + 1] = {0, 1, 3, 7, 15, 31}
      BY <1>13, <1>37, SMT DEF Hash!KeccakF_RoundConstants
    <2>2. 2^0 = 1 /\ 2^1 = 2 /\ 2^2 = 4 /\ 2^3 = 8 /\ 2^4 = 16 /\ 2^5 = 32
      BY SMT
    <2>3. {2^j - 1 : j \in {0, 1, 2, 3, 4, 5}} = {0, 1, 3, 7, 15, 31}
      BY <2>2
    <2> QED
      BY <2>1, <2>3 DEF Sets
  <1>38. CASE n = 13
    <2>1. Sets(n) = {0, 1, 2, 3, 6} /\ Hash!KeccakF_RoundConstants[n + 1] = {0, 1, 3, 7, 63}
      BY <1>14, <1>38, SMT DEF Hash!KeccakF_RoundConstants
    <2>2. 2^0 = 1 /\ 2^1 = 2 /\ 2^2 = 4 /\ 2^3 = 8 /\ 2^6 = 64
      BY SMT
    <2>3. {2^j - 1 : j \in {0, 1, 2, 3, 6}} = {0, 1, 3, 7, 63}
      BY <2>2
    <2> QED
      BY <2>1, <2>3 DEF Sets
  <1>39. CASE n = 14
    <2>1. Sets(n) = {0, 2, 3, 4, 6} /\ Hash!KeccakF_RoundConstants[n + 1] = {0, 3, 7, 15, 63}
      BY <1>15, <1>39, SMT DEF Hash!KeccakF_RoundConstants
    <2>2. 2^0 = 1 /\ 2^2 = 4 /\ 2^3 = 8 /\ 2^4 = 16 /\ 2^6 = 64
      BY SMT
    <2>3. {2^j - 1 : j \in {0, 2, 3, 4, 6}} = {0, 3, 7, 15, 63}
      BY <2>2
    <2> QED
      BY <2>1, <2>3 DEF Sets
  <1>40. CASE n = 15
    <2>1. Sets(n) = {0, 1, 4, 6} /\ Hash!KeccakF_RoundConstants[n + 1] = {0, 1, 15, 63}
      BY <1>16, <1>40, SMT DEF Hash!KeccakF_RoundConstants
    <2>2. 2^0 = 1 /\ 2^1 = 2 /\ 2^4 = 16 /\ 2^6 = 64
      BY SMT
    <2>3. {2^j - 1 : j \in {0, 1, 4, 6}} = {0, 1, 15, 63}
      BY <2>2
    <2> QED
      BY <2>1, <2>3 DEF Sets
  <1>41. CASE n = 16
    <2>1. Sets(n) = {1, 4, 6} /\ Hash!KeccakF_RoundConstants[n + 1] = {1, 15, 63}
      BY <1>17, <1>41, SMT DEF Hash!KeccakF_RoundConstants
    <2>2. 2^1 = 2 /\ 2^4 = 16 /\ 2^6 = 64
      BY SMT
    <2>3. {2^j - 1 : j \in {1, 4, 6}} = {1, 15, 63}
      BY <2>2
    <2> QED
      BY <2>1, <2>3 DEF Sets
  <1>42. CASE n = 17
    <2>1. Sets(n) = {3, 6} /\ Hash!KeccakF_RoundConstants[n + 1] = {7, 63}
      BY <1>18, <1>42, SMT DEF Hash!KeccakF_RoundConstants
    <2>2. 2^3 = 8 /\ 2^6 = 64
      BY SMT
    <2>3. {2^j - 1 : j \in {3, 6}} = {7, 63}
      BY <2>2
    <2> QED
      BY <2>1, <2>3 DEF Sets
  <1>43. CASE n = 18
    <2>1. Sets(n) = {1, 2, 4} /\ Hash!KeccakF_RoundConstants[n + 1] = {1, 3, 15}
      BY <1>19, <1>43, SMT DEF Hash!KeccakF_RoundConstants
    <2>2. 2^1 = 2 /\ 2^2 = 4 /\ 2^4 = 16
      BY SMT
    <2>3. {2^j - 1 : j \in {1, 2, 4}} = {1, 3, 15}
      BY <2>2
    <2> QED
      BY <2>1, <2>3 DEF Sets
  <1>44. CASE n = 19
    <2>1. Sets(n) = {1, 2, 5, 6} /\ Hash!KeccakF_RoundConstants[n + 1] = {1, 3, 31, 63}
      BY <1>20, <1>44, SMT DEF Hash!KeccakF_RoundConstants
    <2>2. 2^1 = 2 /\ 2^2 = 4 /\ 2^5 = 32 /\ 2^6 = 64
      BY SMT
    <2>3. {2^j - 1 : j \in {1, 2, 5, 6}} = {1, 3, 31, 63}
      BY <2>2
    <2> QED
      BY <2>1, <2>3 DEF Sets
  <1>45. CASE n = 20
    <2>1. Sets(n) = {0, 3, 4, 5, 6} /\ Hash!KeccakF_RoundConstants[n + 1] = {0, 7, 15, 31, 63}
      BY <1>21, <1>45, SMT DEF Hash!KeccakF_RoundConstants
    <2>2. 2^0 = 1 /\ 2^3 = 8 /\ 2^4 = 16 /\ 2^5 = 32 /\ 2^6 = 64
      BY SMT
    <2>3. {2^j - 1 : j \in {0, 3, 4, 5, 6}} = {0, 7, 15, 31, 63}
      BY <2>2
    <2> QED
      BY <2>1, <2>3 DEF Sets
  <1>46. CASE n = 21
    <2>1. Sets(n) = {3, 4, 6} /\ Hash!KeccakF_RoundConstants[n + 1] = {7, 15, 63}
      BY <1>22, <1>46, SMT DEF Hash!KeccakF_RoundConstants
    <2>2. 2^3 = 8 /\ 2^4 = 16 /\ 2^6 = 64
      BY SMT
    <2>3. {2^j - 1 : j \in {3, 4, 6}} = {7, 15, 63}
      BY <2>2
    <2> QED
      BY <2>1, <2>3 DEF Sets
  <1>47. CASE n = 22
    <2>1. Sets(n) = {0, 5} /\ Hash!KeccakF_RoundConstants[n + 1] = {0, 31}
      BY <1>23, <1>47, SMT DEF Hash!KeccakF_RoundConstants
    <2>2. 2^0 = 1 /\ 2^5 = 32
      BY SMT
    <2>3. {2^j - 1 : j \in {0, 5}} = {0, 31}
      BY <2>2
    <2> QED
      BY <2>1, <2>3 DEF Sets
  <1>48. CASE n = 23
    <2>1. Sets(n) = {2, 4, 5, 6} /\ Hash!KeccakF_RoundConstants[n + 1] = {3, 15, 31, 63}
      BY <1>24, <1>48, SMT DEF Hash!KeccakF_RoundConstants
    <2>2. 2^2 = 4 /\ 2^4 = 16 /\ 2^5 = 32 /\ 2^6 = 64
      BY SMT
    <2>3. {2^j - 1 : j \in {2, 4, 5, 6}} = {3, 15, 31, 63}
      BY <2>2
    <2> QED
      BY <2>1, <2>3 DEF Sets
  <1> QED
    BY <1>25, <1>26, <1>27, <1>28, <1>29, <1>30, <1>31, <1>32, <1>33, <1>34, <1>35,
       <1>36, <1>37, <1>38, <1>39, <1>40, <1>41, <1>42, <1>43, <1>44, <1>45, <1>46,
       <1>47, <1>48

----------------------------------------------------------------------------
\* The rotation of a lane, from the step at which the walk meets it.
LEMMA OffsetAt ==
  ASSUME NEW l \in 1..24, NEW t \in 0..23,
         Hash!Walk[t] = <<l % 5, l \div 5>>,
         \A u \in 0..23 : Hash!Walk[u] = <<l % 5, l \div 5>> => u = t
  PROVE  Hash!Offset[l] = (((t + 1) * (t + 2)) \div 2) % 64
  <1> DEFINE c == CHOOSE u \in 0..23 : Hash!Walk[u] = <<l % 5, l \div 5>>
  <1>1. c = t
    OBVIOUS
  <1>2. Hash!Offset[l] = (((c + 1) * (c + 2)) \div 2) % 64
    BY DEF Hash!Offset, Hash!Lanes
  <1> QED
    BY <1>1, <1>2

\* Rows has for each place the lane that pi moves there and the rotation of rho.
LEMMA RowsPiRho ==
  ASSUME NEW n \in 0..24
  PROVE  LET v == n % 5
             w == n \div 5
             s == 5 * v + ((v + 3 * w) % 5)
         IN  Hash!Rows[w + 1][v + 1] = <<s, Hash!Offset[s]>>
  <1>0. Hash!Offset[0] = 0
    BY DEF Hash!Offset, Hash!Lanes
  <1>1. Hash!Offset[1] = 1
    <2>1. 1 % 5 = 1 /\ 1 \div 5 = 0
      OBVIOUS
    <2>2. \A u \in 0..23 : Hash!Walk[u] = <<1, 0>> => u = 0
      BY WalkTable, SMT
    <2> DEFINE l == 1
               t == 0
    <2>3. /\ l \in 1..24 /\ t \in 0..23 /\ Hash!Walk[t] = <<l % 5, l \div 5>>
          /\ \A u \in 0..23 : Hash!Walk[u] = <<l % 5, l \div 5>> => u = t
      BY <2>1, <2>2, WalkTable
    <2>4. (((t + 1) * (t + 2)) \div 2) % 64 = 1
      OBVIOUS
    <2>5. Hash!Offset[l] = (((t + 1) * (t + 2)) \div 2) % 64
      <3> HIDE DEF l, t
      <3> QED
        BY <2>3, OffsetAt
    <2> QED
      BY <2>4, <2>5
  <1>2. Hash!Offset[2] = 62
    <2>1. 2 % 5 = 2 /\ 2 \div 5 = 0
      OBVIOUS
    <2>2. \A u \in 0..23 : Hash!Walk[u] = <<2, 0>> => u = 18
      BY WalkTable, SMT
    <2> DEFINE l == 2
               t == 18
    <2>3. /\ l \in 1..24 /\ t \in 0..23 /\ Hash!Walk[t] = <<l % 5, l \div 5>>
          /\ \A u \in 0..23 : Hash!Walk[u] = <<l % 5, l \div 5>> => u = t
      BY <2>1, <2>2, WalkTable
    <2>4. (((t + 1) * (t + 2)) \div 2) % 64 = 62
      OBVIOUS
    <2>5. Hash!Offset[l] = (((t + 1) * (t + 2)) \div 2) % 64
      <3> HIDE DEF l, t
      <3> QED
        BY <2>3, OffsetAt
    <2> QED
      BY <2>4, <2>5
  <1>3. Hash!Offset[3] = 28
    <2>1. 3 % 5 = 3 /\ 3 \div 5 = 0
      OBVIOUS
    <2>2. \A u \in 0..23 : Hash!Walk[u] = <<3, 0>> => u = 6
      BY WalkTable, SMT
    <2> DEFINE l == 3
               t == 6
    <2>3. /\ l \in 1..24 /\ t \in 0..23 /\ Hash!Walk[t] = <<l % 5, l \div 5>>
          /\ \A u \in 0..23 : Hash!Walk[u] = <<l % 5, l \div 5>> => u = t
      BY <2>1, <2>2, WalkTable
    <2>4. (((t + 1) * (t + 2)) \div 2) % 64 = 28
      OBVIOUS
    <2>5. Hash!Offset[l] = (((t + 1) * (t + 2)) \div 2) % 64
      <3> HIDE DEF l, t
      <3> QED
        BY <2>3, OffsetAt
    <2> QED
      BY <2>4, <2>5
  <1>4. Hash!Offset[4] = 27
    <2>1. 4 % 5 = 4 /\ 4 \div 5 = 0
      OBVIOUS
    <2>2. \A u \in 0..23 : Hash!Walk[u] = <<4, 0>> => u = 12
      BY WalkTable, SMT
    <2> DEFINE l == 4
               t == 12
    <2>3. /\ l \in 1..24 /\ t \in 0..23 /\ Hash!Walk[t] = <<l % 5, l \div 5>>
          /\ \A u \in 0..23 : Hash!Walk[u] = <<l % 5, l \div 5>> => u = t
      BY <2>1, <2>2, WalkTable
    <2>4. (((t + 1) * (t + 2)) \div 2) % 64 = 27
      OBVIOUS
    <2>5. Hash!Offset[l] = (((t + 1) * (t + 2)) \div 2) % 64
      <3> HIDE DEF l, t
      <3> QED
        BY <2>3, OffsetAt
    <2> QED
      BY <2>4, <2>5
  <1>5. Hash!Offset[5] = 36
    <2>1. 5 % 5 = 0 /\ 5 \div 5 = 1
      OBVIOUS
    <2>2. \A u \in 0..23 : Hash!Walk[u] = <<0, 1>> => u = 7
      BY WalkTable, SMT
    <2> DEFINE l == 5
               t == 7
    <2>3. /\ l \in 1..24 /\ t \in 0..23 /\ Hash!Walk[t] = <<l % 5, l \div 5>>
          /\ \A u \in 0..23 : Hash!Walk[u] = <<l % 5, l \div 5>> => u = t
      BY <2>1, <2>2, WalkTable
    <2>4. (((t + 1) * (t + 2)) \div 2) % 64 = 36
      OBVIOUS
    <2>5. Hash!Offset[l] = (((t + 1) * (t + 2)) \div 2) % 64
      <3> HIDE DEF l, t
      <3> QED
        BY <2>3, OffsetAt
    <2> QED
      BY <2>4, <2>5
  <1>6. Hash!Offset[6] = 44
    <2>1. 6 % 5 = 1 /\ 6 \div 5 = 1
      OBVIOUS
    <2>2. \A u \in 0..23 : Hash!Walk[u] = <<1, 1>> => u = 23
      BY WalkTable, SMT
    <2> DEFINE l == 6
               t == 23
    <2>3. /\ l \in 1..24 /\ t \in 0..23 /\ Hash!Walk[t] = <<l % 5, l \div 5>>
          /\ \A u \in 0..23 : Hash!Walk[u] = <<l % 5, l \div 5>> => u = t
      BY <2>1, <2>2, WalkTable
    <2>4. (((t + 1) * (t + 2)) \div 2) % 64 = 44
      OBVIOUS
    <2>5. Hash!Offset[l] = (((t + 1) * (t + 2)) \div 2) % 64
      <3> HIDE DEF l, t
      <3> QED
        BY <2>3, OffsetAt
    <2> QED
      BY <2>4, <2>5
  <1>7. Hash!Offset[7] = 6
    <2>1. 7 % 5 = 2 /\ 7 \div 5 = 1
      OBVIOUS
    <2>2. \A u \in 0..23 : Hash!Walk[u] = <<2, 1>> => u = 2
      BY WalkTable, SMT
    <2> DEFINE l == 7
               t == 2
    <2>3. /\ l \in 1..24 /\ t \in 0..23 /\ Hash!Walk[t] = <<l % 5, l \div 5>>
          /\ \A u \in 0..23 : Hash!Walk[u] = <<l % 5, l \div 5>> => u = t
      BY <2>1, <2>2, WalkTable
    <2>4. (((t + 1) * (t + 2)) \div 2) % 64 = 6
      OBVIOUS
    <2>5. Hash!Offset[l] = (((t + 1) * (t + 2)) \div 2) % 64
      <3> HIDE DEF l, t
      <3> QED
        BY <2>3, OffsetAt
    <2> QED
      BY <2>4, <2>5
  <1>8. Hash!Offset[8] = 55
    <2>1. 8 % 5 = 3 /\ 8 \div 5 = 1
      OBVIOUS
    <2>2. \A u \in 0..23 : Hash!Walk[u] = <<3, 1>> => u = 9
      BY WalkTable, SMT
    <2> DEFINE l == 8
               t == 9
    <2>3. /\ l \in 1..24 /\ t \in 0..23 /\ Hash!Walk[t] = <<l % 5, l \div 5>>
          /\ \A u \in 0..23 : Hash!Walk[u] = <<l % 5, l \div 5>> => u = t
      BY <2>1, <2>2, WalkTable
    <2>4. (((t + 1) * (t + 2)) \div 2) % 64 = 55
      OBVIOUS
    <2>5. Hash!Offset[l] = (((t + 1) * (t + 2)) \div 2) % 64
      <3> HIDE DEF l, t
      <3> QED
        BY <2>3, OffsetAt
    <2> QED
      BY <2>4, <2>5
  <1>9. Hash!Offset[9] = 20
    <2>1. 9 % 5 = 4 /\ 9 \div 5 = 1
      OBVIOUS
    <2>2. \A u \in 0..23 : Hash!Walk[u] = <<4, 1>> => u = 22
      BY WalkTable, SMT
    <2> DEFINE l == 9
               t == 22
    <2>3. /\ l \in 1..24 /\ t \in 0..23 /\ Hash!Walk[t] = <<l % 5, l \div 5>>
          /\ \A u \in 0..23 : Hash!Walk[u] = <<l % 5, l \div 5>> => u = t
      BY <2>1, <2>2, WalkTable
    <2>4. (((t + 1) * (t + 2)) \div 2) % 64 = 20
      OBVIOUS
    <2>5. Hash!Offset[l] = (((t + 1) * (t + 2)) \div 2) % 64
      <3> HIDE DEF l, t
      <3> QED
        BY <2>3, OffsetAt
    <2> QED
      BY <2>4, <2>5
  <1>10. Hash!Offset[10] = 3
    <2>1. 10 % 5 = 0 /\ 10 \div 5 = 2
      OBVIOUS
    <2>2. \A u \in 0..23 : Hash!Walk[u] = <<0, 2>> => u = 1
      BY WalkTable, SMT
    <2> DEFINE l == 10
               t == 1
    <2>3. /\ l \in 1..24 /\ t \in 0..23 /\ Hash!Walk[t] = <<l % 5, l \div 5>>
          /\ \A u \in 0..23 : Hash!Walk[u] = <<l % 5, l \div 5>> => u = t
      BY <2>1, <2>2, WalkTable
    <2>4. (((t + 1) * (t + 2)) \div 2) % 64 = 3
      OBVIOUS
    <2>5. Hash!Offset[l] = (((t + 1) * (t + 2)) \div 2) % 64
      <3> HIDE DEF l, t
      <3> QED
        BY <2>3, OffsetAt
    <2> QED
      BY <2>4, <2>5
  <1>11. Hash!Offset[11] = 10
    <2>1. 11 % 5 = 1 /\ 11 \div 5 = 2
      OBVIOUS
    <2>2. \A u \in 0..23 : Hash!Walk[u] = <<1, 2>> => u = 3
      BY WalkTable, SMT
    <2> DEFINE l == 11
               t == 3
    <2>3. /\ l \in 1..24 /\ t \in 0..23 /\ Hash!Walk[t] = <<l % 5, l \div 5>>
          /\ \A u \in 0..23 : Hash!Walk[u] = <<l % 5, l \div 5>> => u = t
      BY <2>1, <2>2, WalkTable
    <2>4. (((t + 1) * (t + 2)) \div 2) % 64 = 10
      OBVIOUS
    <2>5. Hash!Offset[l] = (((t + 1) * (t + 2)) \div 2) % 64
      <3> HIDE DEF l, t
      <3> QED
        BY <2>3, OffsetAt
    <2> QED
      BY <2>4, <2>5
  <1>12. Hash!Offset[12] = 43
    <2>1. 12 % 5 = 2 /\ 12 \div 5 = 2
      OBVIOUS
    <2>2. \A u \in 0..23 : Hash!Walk[u] = <<2, 2>> => u = 17
      BY WalkTable, SMT
    <2> DEFINE l == 12
               t == 17
    <2>3. /\ l \in 1..24 /\ t \in 0..23 /\ Hash!Walk[t] = <<l % 5, l \div 5>>
          /\ \A u \in 0..23 : Hash!Walk[u] = <<l % 5, l \div 5>> => u = t
      BY <2>1, <2>2, WalkTable
    <2>4. (((t + 1) * (t + 2)) \div 2) % 64 = 43
      OBVIOUS
    <2>5. Hash!Offset[l] = (((t + 1) * (t + 2)) \div 2) % 64
      <3> HIDE DEF l, t
      <3> QED
        BY <2>3, OffsetAt
    <2> QED
      BY <2>4, <2>5
  <1>13. Hash!Offset[13] = 25
    <2>1. 13 % 5 = 3 /\ 13 \div 5 = 2
      OBVIOUS
    <2>2. \A u \in 0..23 : Hash!Walk[u] = <<3, 2>> => u = 16
      BY WalkTable, SMT
    <2> DEFINE l == 13
               t == 16
    <2>3. /\ l \in 1..24 /\ t \in 0..23 /\ Hash!Walk[t] = <<l % 5, l \div 5>>
          /\ \A u \in 0..23 : Hash!Walk[u] = <<l % 5, l \div 5>> => u = t
      BY <2>1, <2>2, WalkTable
    <2>4. (((t + 1) * (t + 2)) \div 2) % 64 = 25
      OBVIOUS
    <2>5. Hash!Offset[l] = (((t + 1) * (t + 2)) \div 2) % 64
      <3> HIDE DEF l, t
      <3> QED
        BY <2>3, OffsetAt
    <2> QED
      BY <2>4, <2>5
  <1>14. Hash!Offset[14] = 39
    <2>1. 14 % 5 = 4 /\ 14 \div 5 = 2
      OBVIOUS
    <2>2. \A u \in 0..23 : Hash!Walk[u] = <<4, 2>> => u = 20
      BY WalkTable, SMT
    <2> DEFINE l == 14
               t == 20
    <2>3. /\ l \in 1..24 /\ t \in 0..23 /\ Hash!Walk[t] = <<l % 5, l \div 5>>
          /\ \A u \in 0..23 : Hash!Walk[u] = <<l % 5, l \div 5>> => u = t
      BY <2>1, <2>2, WalkTable
    <2>4. (((t + 1) * (t + 2)) \div 2) % 64 = 39
      OBVIOUS
    <2>5. Hash!Offset[l] = (((t + 1) * (t + 2)) \div 2) % 64
      <3> HIDE DEF l, t
      <3> QED
        BY <2>3, OffsetAt
    <2> QED
      BY <2>4, <2>5
  <1>15. Hash!Offset[15] = 41
    <2>1. 15 % 5 = 0 /\ 15 \div 5 = 3
      OBVIOUS
    <2>2. \A u \in 0..23 : Hash!Walk[u] = <<0, 3>> => u = 13
      BY WalkTable, SMT
    <2> DEFINE l == 15
               t == 13
    <2>3. /\ l \in 1..24 /\ t \in 0..23 /\ Hash!Walk[t] = <<l % 5, l \div 5>>
          /\ \A u \in 0..23 : Hash!Walk[u] = <<l % 5, l \div 5>> => u = t
      BY <2>1, <2>2, WalkTable
    <2>4. (((t + 1) * (t + 2)) \div 2) % 64 = 41
      OBVIOUS
    <2>5. Hash!Offset[l] = (((t + 1) * (t + 2)) \div 2) % 64
      <3> HIDE DEF l, t
      <3> QED
        BY <2>3, OffsetAt
    <2> QED
      BY <2>4, <2>5
  <1>16. Hash!Offset[16] = 45
    <2>1. 16 % 5 = 1 /\ 16 \div 5 = 3
      OBVIOUS
    <2>2. \A u \in 0..23 : Hash!Walk[u] = <<1, 3>> => u = 8
      BY WalkTable, SMT
    <2> DEFINE l == 16
               t == 8
    <2>3. /\ l \in 1..24 /\ t \in 0..23 /\ Hash!Walk[t] = <<l % 5, l \div 5>>
          /\ \A u \in 0..23 : Hash!Walk[u] = <<l % 5, l \div 5>> => u = t
      BY <2>1, <2>2, WalkTable
    <2>4. (((t + 1) * (t + 2)) \div 2) % 64 = 45
      OBVIOUS
    <2>5. Hash!Offset[l] = (((t + 1) * (t + 2)) \div 2) % 64
      <3> HIDE DEF l, t
      <3> QED
        BY <2>3, OffsetAt
    <2> QED
      BY <2>4, <2>5
  <1>17. Hash!Offset[17] = 15
    <2>1. 17 % 5 = 2 /\ 17 \div 5 = 3
      OBVIOUS
    <2>2. \A u \in 0..23 : Hash!Walk[u] = <<2, 3>> => u = 4
      BY WalkTable, SMT
    <2> DEFINE l == 17
               t == 4
    <2>3. /\ l \in 1..24 /\ t \in 0..23 /\ Hash!Walk[t] = <<l % 5, l \div 5>>
          /\ \A u \in 0..23 : Hash!Walk[u] = <<l % 5, l \div 5>> => u = t
      BY <2>1, <2>2, WalkTable
    <2>4. (((t + 1) * (t + 2)) \div 2) % 64 = 15
      OBVIOUS
    <2>5. Hash!Offset[l] = (((t + 1) * (t + 2)) \div 2) % 64
      <3> HIDE DEF l, t
      <3> QED
        BY <2>3, OffsetAt
    <2> QED
      BY <2>4, <2>5
  <1>18. Hash!Offset[18] = 21
    <2>1. 18 % 5 = 3 /\ 18 \div 5 = 3
      OBVIOUS
    <2>2. \A u \in 0..23 : Hash!Walk[u] = <<3, 3>> => u = 5
      BY WalkTable, SMT
    <2> DEFINE l == 18
               t == 5
    <2>3. /\ l \in 1..24 /\ t \in 0..23 /\ Hash!Walk[t] = <<l % 5, l \div 5>>
          /\ \A u \in 0..23 : Hash!Walk[u] = <<l % 5, l \div 5>> => u = t
      BY <2>1, <2>2, WalkTable
    <2>4. (((t + 1) * (t + 2)) \div 2) % 64 = 21
      OBVIOUS
    <2>5. Hash!Offset[l] = (((t + 1) * (t + 2)) \div 2) % 64
      <3> HIDE DEF l, t
      <3> QED
        BY <2>3, OffsetAt
    <2> QED
      BY <2>4, <2>5
  <1>19. Hash!Offset[19] = 8
    <2>1. 19 % 5 = 4 /\ 19 \div 5 = 3
      OBVIOUS
    <2>2. \A u \in 0..23 : Hash!Walk[u] = <<4, 3>> => u = 15
      BY WalkTable, SMT
    <2> DEFINE l == 19
               t == 15
    <2>3. /\ l \in 1..24 /\ t \in 0..23 /\ Hash!Walk[t] = <<l % 5, l \div 5>>
          /\ \A u \in 0..23 : Hash!Walk[u] = <<l % 5, l \div 5>> => u = t
      BY <2>1, <2>2, WalkTable
    <2>4. (((t + 1) * (t + 2)) \div 2) % 64 = 8
      OBVIOUS
    <2>5. Hash!Offset[l] = (((t + 1) * (t + 2)) \div 2) % 64
      <3> HIDE DEF l, t
      <3> QED
        BY <2>3, OffsetAt
    <2> QED
      BY <2>4, <2>5
  <1>20. Hash!Offset[20] = 18
    <2>1. 20 % 5 = 0 /\ 20 \div 5 = 4
      OBVIOUS
    <2>2. \A u \in 0..23 : Hash!Walk[u] = <<0, 4>> => u = 19
      BY WalkTable, SMT
    <2> DEFINE l == 20
               t == 19
    <2>3. /\ l \in 1..24 /\ t \in 0..23 /\ Hash!Walk[t] = <<l % 5, l \div 5>>
          /\ \A u \in 0..23 : Hash!Walk[u] = <<l % 5, l \div 5>> => u = t
      BY <2>1, <2>2, WalkTable
    <2>4. (((t + 1) * (t + 2)) \div 2) % 64 = 18
      OBVIOUS
    <2>5. Hash!Offset[l] = (((t + 1) * (t + 2)) \div 2) % 64
      <3> HIDE DEF l, t
      <3> QED
        BY <2>3, OffsetAt
    <2> QED
      BY <2>4, <2>5
  <1>21. Hash!Offset[21] = 2
    <2>1. 21 % 5 = 1 /\ 21 \div 5 = 4
      OBVIOUS
    <2>2. \A u \in 0..23 : Hash!Walk[u] = <<1, 4>> => u = 10
      BY WalkTable, SMT
    <2> DEFINE l == 21
               t == 10
    <2>3. /\ l \in 1..24 /\ t \in 0..23 /\ Hash!Walk[t] = <<l % 5, l \div 5>>
          /\ \A u \in 0..23 : Hash!Walk[u] = <<l % 5, l \div 5>> => u = t
      BY <2>1, <2>2, WalkTable
    <2>4. (((t + 1) * (t + 2)) \div 2) % 64 = 2
      OBVIOUS
    <2>5. Hash!Offset[l] = (((t + 1) * (t + 2)) \div 2) % 64
      <3> HIDE DEF l, t
      <3> QED
        BY <2>3, OffsetAt
    <2> QED
      BY <2>4, <2>5
  <1>22. Hash!Offset[22] = 61
    <2>1. 22 % 5 = 2 /\ 22 \div 5 = 4
      OBVIOUS
    <2>2. \A u \in 0..23 : Hash!Walk[u] = <<2, 4>> => u = 21
      BY WalkTable, SMT
    <2> DEFINE l == 22
               t == 21
    <2>3. /\ l \in 1..24 /\ t \in 0..23 /\ Hash!Walk[t] = <<l % 5, l \div 5>>
          /\ \A u \in 0..23 : Hash!Walk[u] = <<l % 5, l \div 5>> => u = t
      BY <2>1, <2>2, WalkTable
    <2>4. (((t + 1) * (t + 2)) \div 2) % 64 = 61
      OBVIOUS
    <2>5. Hash!Offset[l] = (((t + 1) * (t + 2)) \div 2) % 64
      <3> HIDE DEF l, t
      <3> QED
        BY <2>3, OffsetAt
    <2> QED
      BY <2>4, <2>5
  <1>23. Hash!Offset[23] = 56
    <2>1. 23 % 5 = 3 /\ 23 \div 5 = 4
      OBVIOUS
    <2>2. \A u \in 0..23 : Hash!Walk[u] = <<3, 4>> => u = 14
      BY WalkTable, SMT
    <2> DEFINE l == 23
               t == 14
    <2>3. /\ l \in 1..24 /\ t \in 0..23 /\ Hash!Walk[t] = <<l % 5, l \div 5>>
          /\ \A u \in 0..23 : Hash!Walk[u] = <<l % 5, l \div 5>> => u = t
      BY <2>1, <2>2, WalkTable
    <2>4. (((t + 1) * (t + 2)) \div 2) % 64 = 56
      OBVIOUS
    <2>5. Hash!Offset[l] = (((t + 1) * (t + 2)) \div 2) % 64
      <3> HIDE DEF l, t
      <3> QED
        BY <2>3, OffsetAt
    <2> QED
      BY <2>4, <2>5
  <1>24. Hash!Offset[24] = 14
    <2>1. 24 % 5 = 4 /\ 24 \div 5 = 4
      OBVIOUS
    <2>2. \A u \in 0..23 : Hash!Walk[u] = <<4, 4>> => u = 11
      BY WalkTable, SMT
    <2> DEFINE l == 24
               t == 11
    <2>3. /\ l \in 1..24 /\ t \in 0..23 /\ Hash!Walk[t] = <<l % 5, l \div 5>>
          /\ \A u \in 0..23 : Hash!Walk[u] = <<l % 5, l \div 5>> => u = t
      BY <2>1, <2>2, WalkTable
    <2>4. (((t + 1) * (t + 2)) \div 2) % 64 = 14
      OBVIOUS
    <2>5. Hash!Offset[l] = (((t + 1) * (t + 2)) \div 2) % 64
      <3> HIDE DEF l, t
      <3> QED
        BY <2>3, OffsetAt
    <2> QED
      BY <2>4, <2>5
  <1>25. CASE n = 0
    <2>1. n % 5 = 0 /\ n \div 5 = 0 /\ 5 * 0 + ((0 + 3 * 0) % 5) = 0
      BY <1>25
    <2>2. Hash!Rows[0 + 1][0 + 1] = <<0, 0>>
      BY DEF Hash!Rows
    <2> QED
      BY <1>0, <2>1, <2>2
  <1>26. CASE n = 1
    <2>1. n % 5 = 1 /\ n \div 5 = 0 /\ 5 * 1 + ((1 + 3 * 0) % 5) = 6
      BY <1>26
    <2>2. Hash!Rows[0 + 1][1 + 1] = <<6, 44>>
      BY DEF Hash!Rows
    <2> QED
      BY <1>6, <2>1, <2>2
  <1>27. CASE n = 2
    <2>1. n % 5 = 2 /\ n \div 5 = 0 /\ 5 * 2 + ((2 + 3 * 0) % 5) = 12
      BY <1>27
    <2>2. Hash!Rows[0 + 1][2 + 1] = <<12, 43>>
      BY DEF Hash!Rows
    <2> QED
      BY <1>12, <2>1, <2>2
  <1>28. CASE n = 3
    <2>1. n % 5 = 3 /\ n \div 5 = 0 /\ 5 * 3 + ((3 + 3 * 0) % 5) = 18
      BY <1>28
    <2>2. Hash!Rows[0 + 1][3 + 1] = <<18, 21>>
      BY DEF Hash!Rows
    <2> QED
      BY <1>18, <2>1, <2>2
  <1>29. CASE n = 4
    <2>1. n % 5 = 4 /\ n \div 5 = 0 /\ 5 * 4 + ((4 + 3 * 0) % 5) = 24
      BY <1>29
    <2>2. Hash!Rows[0 + 1][4 + 1] = <<24, 14>>
      BY DEF Hash!Rows
    <2> QED
      BY <1>24, <2>1, <2>2
  <1>30. CASE n = 5
    <2>1. n % 5 = 0 /\ n \div 5 = 1 /\ 5 * 0 + ((0 + 3 * 1) % 5) = 3
      BY <1>30
    <2>2. Hash!Rows[1 + 1][0 + 1] = <<3, 28>>
      BY DEF Hash!Rows
    <2> QED
      BY <1>3, <2>1, <2>2
  <1>31. CASE n = 6
    <2>1. n % 5 = 1 /\ n \div 5 = 1 /\ 5 * 1 + ((1 + 3 * 1) % 5) = 9
      BY <1>31
    <2>2. Hash!Rows[1 + 1][1 + 1] = <<9, 20>>
      BY DEF Hash!Rows
    <2> QED
      BY <1>9, <2>1, <2>2
  <1>32. CASE n = 7
    <2>1. n % 5 = 2 /\ n \div 5 = 1 /\ 5 * 2 + ((2 + 3 * 1) % 5) = 10
      BY <1>32
    <2>2. Hash!Rows[1 + 1][2 + 1] = <<10, 3>>
      BY DEF Hash!Rows
    <2> QED
      BY <1>10, <2>1, <2>2
  <1>33. CASE n = 8
    <2>1. n % 5 = 3 /\ n \div 5 = 1 /\ 5 * 3 + ((3 + 3 * 1) % 5) = 16
      BY <1>33
    <2>2. Hash!Rows[1 + 1][3 + 1] = <<16, 45>>
      BY DEF Hash!Rows
    <2> QED
      BY <1>16, <2>1, <2>2
  <1>34. CASE n = 9
    <2>1. n % 5 = 4 /\ n \div 5 = 1 /\ 5 * 4 + ((4 + 3 * 1) % 5) = 22
      BY <1>34
    <2>2. Hash!Rows[1 + 1][4 + 1] = <<22, 61>>
      BY DEF Hash!Rows
    <2> QED
      BY <1>22, <2>1, <2>2
  <1>35. CASE n = 10
    <2>1. n % 5 = 0 /\ n \div 5 = 2 /\ 5 * 0 + ((0 + 3 * 2) % 5) = 1
      BY <1>35
    <2>2. Hash!Rows[2 + 1][0 + 1] = <<1, 1>>
      BY DEF Hash!Rows
    <2> QED
      BY <1>1, <2>1, <2>2
  <1>36. CASE n = 11
    <2>1. n % 5 = 1 /\ n \div 5 = 2 /\ 5 * 1 + ((1 + 3 * 2) % 5) = 7
      BY <1>36
    <2>2. Hash!Rows[2 + 1][1 + 1] = <<7, 6>>
      BY DEF Hash!Rows
    <2> QED
      BY <1>7, <2>1, <2>2
  <1>37. CASE n = 12
    <2>1. n % 5 = 2 /\ n \div 5 = 2 /\ 5 * 2 + ((2 + 3 * 2) % 5) = 13
      BY <1>37
    <2>2. Hash!Rows[2 + 1][2 + 1] = <<13, 25>>
      BY DEF Hash!Rows
    <2> QED
      BY <1>13, <2>1, <2>2
  <1>38. CASE n = 13
    <2>1. n % 5 = 3 /\ n \div 5 = 2 /\ 5 * 3 + ((3 + 3 * 2) % 5) = 19
      BY <1>38
    <2>2. Hash!Rows[2 + 1][3 + 1] = <<19, 8>>
      BY DEF Hash!Rows
    <2> QED
      BY <1>19, <2>1, <2>2
  <1>39. CASE n = 14
    <2>1. n % 5 = 4 /\ n \div 5 = 2 /\ 5 * 4 + ((4 + 3 * 2) % 5) = 20
      BY <1>39
    <2>2. Hash!Rows[2 + 1][4 + 1] = <<20, 18>>
      BY DEF Hash!Rows
    <2> QED
      BY <1>20, <2>1, <2>2
  <1>40. CASE n = 15
    <2>1. n % 5 = 0 /\ n \div 5 = 3 /\ 5 * 0 + ((0 + 3 * 3) % 5) = 4
      BY <1>40
    <2>2. Hash!Rows[3 + 1][0 + 1] = <<4, 27>>
      BY DEF Hash!Rows
    <2> QED
      BY <1>4, <2>1, <2>2
  <1>41. CASE n = 16
    <2>1. n % 5 = 1 /\ n \div 5 = 3 /\ 5 * 1 + ((1 + 3 * 3) % 5) = 5
      BY <1>41
    <2>2. Hash!Rows[3 + 1][1 + 1] = <<5, 36>>
      BY DEF Hash!Rows
    <2> QED
      BY <1>5, <2>1, <2>2
  <1>42. CASE n = 17
    <2>1. n % 5 = 2 /\ n \div 5 = 3 /\ 5 * 2 + ((2 + 3 * 3) % 5) = 11
      BY <1>42
    <2>2. Hash!Rows[3 + 1][2 + 1] = <<11, 10>>
      BY DEF Hash!Rows
    <2> QED
      BY <1>11, <2>1, <2>2
  <1>43. CASE n = 18
    <2>1. n % 5 = 3 /\ n \div 5 = 3 /\ 5 * 3 + ((3 + 3 * 3) % 5) = 17
      BY <1>43
    <2>2. Hash!Rows[3 + 1][3 + 1] = <<17, 15>>
      BY DEF Hash!Rows
    <2> QED
      BY <1>17, <2>1, <2>2
  <1>44. CASE n = 19
    <2>1. n % 5 = 4 /\ n \div 5 = 3 /\ 5 * 4 + ((4 + 3 * 3) % 5) = 23
      BY <1>44
    <2>2. Hash!Rows[3 + 1][4 + 1] = <<23, 56>>
      BY DEF Hash!Rows
    <2> QED
      BY <1>23, <2>1, <2>2
  <1>45. CASE n = 20
    <2>1. n % 5 = 0 /\ n \div 5 = 4 /\ 5 * 0 + ((0 + 3 * 4) % 5) = 2
      BY <1>45
    <2>2. Hash!Rows[4 + 1][0 + 1] = <<2, 62>>
      BY DEF Hash!Rows
    <2> QED
      BY <1>2, <2>1, <2>2
  <1>46. CASE n = 21
    <2>1. n % 5 = 1 /\ n \div 5 = 4 /\ 5 * 1 + ((1 + 3 * 4) % 5) = 8
      BY <1>46
    <2>2. Hash!Rows[4 + 1][1 + 1] = <<8, 55>>
      BY DEF Hash!Rows
    <2> QED
      BY <1>8, <2>1, <2>2
  <1>47. CASE n = 22
    <2>1. n % 5 = 2 /\ n \div 5 = 4 /\ 5 * 2 + ((2 + 3 * 4) % 5) = 14
      BY <1>47
    <2>2. Hash!Rows[4 + 1][2 + 1] = <<14, 39>>
      BY DEF Hash!Rows
    <2> QED
      BY <1>14, <2>1, <2>2
  <1>48. CASE n = 23
    <2>1. n % 5 = 3 /\ n \div 5 = 4 /\ 5 * 3 + ((3 + 3 * 4) % 5) = 15
      BY <1>48
    <2>2. Hash!Rows[4 + 1][3 + 1] = <<15, 41>>
      BY DEF Hash!Rows
    <2> QED
      BY <1>15, <2>1, <2>2
  <1>49. CASE n = 24
    <2>1. n % 5 = 4 /\ n \div 5 = 4 /\ 5 * 4 + ((4 + 3 * 4) % 5) = 21
      BY <1>49
    <2>2. Hash!Rows[4 + 1][4 + 1] = <<21, 2>>
      BY DEF Hash!Rows
    <2> QED
      BY <1>21, <2>1, <2>2
  <1> QED
    BY <1>25, <1>26, <1>27, <1>28, <1>29, <1>30, <1>31, <1>32, <1>33, <1>34, <1>35,
       <1>36, <1>37, <1>38, <1>39, <1>40, <1>41, <1>42, <1>43, <1>44, <1>45, <1>46,
       <1>47, <1>48, <1>49

----------------------------------------------------------------------------
\* One round, lane by lane.

\* The row-by-row order of the lanes.
LEMMA LaneIndex ==
  ASSUME NEW v \in Nat, NEW w \in Nat
  PROVE  5 * (w % 5) + (v % 5) \in 0..24
  OBVIOUS

\* The coordinates of a lane.
LEMMA Coordinates ==
  ASSUME NEW n \in 0..24
  PROVE  /\ (n % 5) \in 0..4 /\ n \div 5 \in 0..4
         /\ (n % 5) % 5 = (n % 5) /\ (n \div 5) % 5 = n \div 5
         /\ 5 * (n \div 5) + (n % 5) = n
  OBVIOUS

\* A lane after theta: the lane and two column parities.
LEMMA ThetaLane ==
  ASSUME NEW A, NEW n \in 0..24
  PROVE  Hash!Theta(A)[n] =
           Hash!Xor(A[n], Hash!Xor(Hash!Column(A, (n % 5) + 4),
                                   Hash!ROL(Hash!Column(A, (n % 5) + 1), 1)))
  <1>1. Hash!At(A, (n % 5), n \div 5) = A[n]
    BY Coordinates DEF Hash!At
  <1> QED
    BY <1>1 DEF Hash!Theta, Hash!Map, Hash!Lanes

\* A lane after rho and pi: the lane pi takes it from, rotated.
LEMMA PiRhoLane ==
  ASSUME NEW A, NEW n \in 0..24
  PROVE  LET s == 5 * (n % 5) + (((n % 5) + 3 * (n \div 5)) % 5)
         IN  s \in 0..24 /\ Hash!Pi(Hash!Rho(A))[n] = Hash!ROL(A[s], Hash!Offset[s])
  <1> DEFINE s == 5 * (n % 5) + (((n % 5) + 3 * (n \div 5)) % 5)
  <1>1. s \in 0..24
    OBVIOUS
  <1>2. Hash!Pi(Hash!Rho(A))[n] = Hash!At(Hash!Rho(A), (n % 5) + 3 * (n \div 5), (n % 5))
    BY DEF Hash!Pi, Hash!Map, Hash!Lanes
  <1>3. Hash!At(Hash!Rho(A), (n % 5) + 3 * (n \div 5), (n % 5)) = Hash!Rho(A)[s]
    BY Coordinates DEF Hash!At
  <1>4. Hash!Rho(A)[s] = Hash!ROL(A[s], Hash!Offset[s])
    BY <1>1 DEF Hash!Rho, Hash!Lanes
  <1> QED
    BY <1>1, <1>2, <1>3, <1>4

\* A lane after chi: what the C code computes from the same row.
LEMMA ChiLane ==
  ASSUME NEW B, NEW n \in 0..24
  PROVE  Hash!Chi(B)[n] = Hash!ChiRow(B, n)
  <1> DEFINE v == (n % 5)
             w == n \div 5
  <1>1. 5 * (w % 5) + (v % 5) = n /\ (w % 5) = w
    BY Coordinates
  <1>2. (v + 2) % 5 = (n + 2) % 5 /\ (v + 1) % 5 = (n + 1) % 5
    OBVIOUS
  <1>3. Hash!Chi(B)[n] = Hash!Xor(Hash!At(B, v, w), Hash!At(B, v + 2, w) \ Hash!At(B, v + 1, w))
    BY DEF Hash!Chi, Hash!Map, Hash!Lanes
  <1>4. /\ Hash!At(B, v, w) = B[n]
        /\ Hash!At(B, v + 2, w) = B[5 * w + ((n + 2) % 5)]
        /\ Hash!At(B, v + 1, w) = B[5 * w + ((n + 1) % 5)]
    BY <1>1, <1>2 DEF Hash!At
  <1> QED
    BY <1>3, <1>4 DEF Hash!ChiRow

\* A column is the same however its coordinate is written.
LEMMA ColumnParity ==
  ASSUME NEW A, NEW v \in Nat
  PROVE  Hash!Column(A, v) =
           Hash!Xor(Hash!Xor(Hash!Xor(Hash!Xor(A[v % 5], A[(v % 5) + 5]), A[(v % 5) + 10]),
                                      A[(v % 5) + 15]), A[(v % 5) + 20])
  <1>1. (v % 5) \in 0..4
    OBVIOUS
  <1>2. /\ 5 * (0 % 5) + (v % 5) = (v % 5)      /\ 5 * (1 % 5) + (v % 5) = (v % 5) + 5
        /\ 5 * (2 % 5) + (v % 5) = (v % 5) + 10 /\ 5 * (3 % 5) + (v % 5) = (v % 5) + 15
        /\ 5 * (4 % 5) + (v % 5) = (v % 5) + 20
    BY <1>1
  <1>3. /\ Hash!At(A, v, 0) = A[v % 5]      /\ Hash!At(A, v, 1) = A[(v % 5) + 5]
        /\ Hash!At(A, v, 2) = A[(v % 5) + 10] /\ Hash!At(A, v, 3) = A[(v % 5) + 15]
        /\ Hash!At(A, v, 4) = A[(v % 5) + 20]
    BY <1>2 DEF Hash!At
  <1> QED
    BY <1>3 DEF Hash!Column

\* The unrolled round is the round of FIPS 202, whatever the lanes.
LEMMA RoundIsRefRound ==
  ASSUME NEW A, NEW n \in 0..23
  PROVE  Hash!Round(A, Hash!KeccakF_RoundConstants[n + 1]) = Hash!RefRound(A, n)
  <1> DEFINE rc == Hash!KeccakF_RoundConstants[n + 1]
             C == [v \in 0..4 |->
                     Hash!Xor(Hash!Xor(Hash!Xor(Hash!Xor(A[v], A[v + 5]), A[v + 10]),
                                       A[v + 15]), A[v + 20])]
             D == [v \in 0..4 |-> Hash!Xor(C[(v + 4) % 5], Hash!ROL(C[(v + 1) % 5], 1))]
             B == [m \in 0..24 |-> LET s == Hash!Rows[m \div 5 + 1][(m % 5) + 1]
                                   IN  Hash!ROL(Hash!Xor(A[s[1]], D[s[1] % 5]), s[2])]
             P == Hash!Pi(Hash!Rho(Hash!Theta(A)))
             X == Hash!Chi(P)
  <1>1. ASSUME NEW v \in Nat PROVE C[v % 5] = Hash!Column(A, v)
    <2>1. (v % 5) \in 0..4
      OBVIOUS
    <2> QED
      BY <2>1, ColumnParity
  <1>2. ASSUME NEW s \in 0..24 PROVE Hash!Theta(A)[s] = Hash!Xor(A[s], D[s % 5])
    <2>1. (s % 5) \in 0..4 /\ (s % 5) + 4 \in Nat /\ (s % 5) + 1 \in Nat
      OBVIOUS
    <2>2. D[s % 5] = Hash!Xor(C[((s % 5) + 4) % 5], Hash!ROL(C[((s % 5) + 1) % 5], 1))
      <3> HIDE DEF C
      <3> QED
        BY <2>1
    <2> HIDE DEF C, D
    <2> QED
      BY <1>1, <2>1, <2>2, ThetaLane
  <1>3. ASSUME NEW m \in 0..24 PROVE B[m] = P[m]
    <2> DEFINE s == 5 * (m % 5) + (((m % 5) + 3 * (m \div 5)) % 5)
               e == Hash!Rows[m \div 5 + 1][(m % 5) + 1]
    <2>1. e = <<s, Hash!Offset[s]>>
      BY RowsPiRho
    <2>2. s \in 0..24 /\ P[m] = Hash!ROL(Hash!Theta(A)[s], Hash!Offset[s])
      BY PiRhoLane
    <2>3. B[m] = Hash!ROL(Hash!Xor(A[e[1]], D[e[1] % 5]), e[2])
      <3> HIDE DEF D
      <3> QED
        OBVIOUS
    <2>4. e[1] = s /\ e[2] = Hash!Offset[s]
      BY <2>1
    <2> HIDE DEF s, e, D, P, B
    <2> QED
      BY <1>2, <2>2, <2>3, <2>4
  <1>4. ASSUME NEW m \in 0..24 PROVE Hash!ChiRow(B, m) = X[m]
    <2>1. X[m] = Hash!ChiRow(P, m)
      BY ChiLane
    <2>2. /\ 5 * (m \div 5) + ((m + 2) % 5) \in 0..24
          /\ 5 * (m \div 5) + ((m + 1) % 5) \in 0..24
      OBVIOUS
    <2> HIDE DEF B, P, X
    <2> QED
      BY <1>3, <2>1, <2>2 DEF Hash!ChiRow
  <1>5. Hash!Round(A, rc) =
          [m \in 0..24 |-> IF m = 0 THEN Hash!Xor(Hash!ChiRow(B, 0), rc) ELSE Hash!ChiRow(B, m)]
    BY DEF Hash!Round, Hash!Lanes
  <1>6. Hash!RefRound(A, n) = [X EXCEPT ![0] = Hash!Xor(X[0], rc)]
    BY Constants DEF Hash!RefRound, Hash!Iota
  <1>7. X = [m \in 0..24 |-> X[m]]
    BY DEF Hash!Chi, Hash!Map, Hash!Lanes
  <1> HIDE DEF B, P, X, rc
  <1>8. Hash!RefRound(A, n) =
          [m \in 0..24 |-> IF m = 0 THEN Hash!Xor(X[0], rc) ELSE X[m]]
    BY <1>6, <1>7
  <1>9. \A m \in 0..24 :
          (IF m = 0 THEN Hash!Xor(Hash!ChiRow(B, 0), rc) ELSE Hash!ChiRow(B, m))
            = (IF m = 0 THEN Hash!Xor(X[0], rc) ELSE X[m])
    BY <1>4
  <1>10. Hash!Round(A, rc) = Hash!RefRound(A, n)
    BY <1>5, <1>8, <1>9
  <1> QED
    BY <1>10 DEF rc

\* A round reads the 25 lanes and nothing else.
LEMMA RefRoundLanes ==
  ASSUME NEW A, NEW B, \A m \in 0..24 : A[m] = B[m], NEW n
  PROVE  Hash!RefRound(A, n) = Hash!RefRound(B, n)
  <1>1. ASSUME NEW v \in Nat, NEW w \in Nat PROVE Hash!At(A, v, w) = Hash!At(B, v, w)
    BY LaneIndex DEF Hash!At
  <1>2. ASSUME NEW v \in Nat PROVE Hash!Column(A, v) = Hash!Column(B, v)
    BY <1>1 DEF Hash!Column
  <1>3. ASSUME NEW m \in 0..24 PROVE Hash!Theta(A)[m] = Hash!Theta(B)[m]
    <2>1. (m % 5) + 4 \in Nat /\ (m % 5) + 1 \in Nat
      OBVIOUS
    <2>2. /\ Hash!Column(A, (m % 5) + 4) = Hash!Column(B, (m % 5) + 4)
          /\ Hash!Column(A, (m % 5) + 1) = Hash!Column(B, (m % 5) + 1)
      BY <1>2, <2>1
    <2> QED
      BY <2>2, ThetaLane
  <1>4. /\ Hash!Theta(A) = [m \in 0..24 |-> Hash!Theta(A)[m]]
        /\ Hash!Theta(B) = [m \in 0..24 |-> Hash!Theta(B)[m]]
    BY DEF Hash!Theta, Hash!Map, Hash!Lanes
  <1>5. Hash!Theta(A) = Hash!Theta(B)
    BY <1>3, <1>4
  <1> QED
    BY <1>5 DEF Hash!RefRound

\* What a round gives is 25 lanes.
LEMMA RefRoundFunction ==
  ASSUME NEW A, NEW n
  PROVE  Hash!RefRound(A, n) = [m \in 0..24 |-> Hash!RefRound(A, n)[m]]
  BY DEF Hash!RefRound, Hash!Iota, Hash!Chi, Hash!Map, Hash!Lanes

----------------------------------------------------------------------------
\* The transfers of the vector form put lane n into element n.
LEMMA ElementIsLane ==
  ASSUME build \in {"vk128", "vk256"}, NEW n \in 0..24
  PROVE  Hash!Element(n) = n
  <1>1. CASE build = "vk256"
    <2>1. Hash!Transfers[build] = {<<0, 0, 25>>} /\ Hash!PerRegister[build] = 4
      BY <1>1 DEF Hash!Transfers, Hash!PerRegister
    <2>2. (CHOOSE t \in {<<0, 0, 25>>} : n \in t[2]..(t[2] + t[3] - 1)) = <<0, 0, 25>>
      OBVIOUS
    <2> QED
      BY <2>1, <2>2 DEF Hash!Element
  <1>2. CASE build = "vk128"
    <2> DEFINE S == {<<0, 0, 16>>, <<8, 16, 9>>}
               t == CHOOSE t \in S : n \in t[2]..(t[2] + t[3] - 1)
    <2>1. Hash!Transfers[build] = S /\ Hash!PerRegister[build] = 2
      BY <1>2 DEF Hash!Transfers, Hash!PerRegister
    <2>2. t \in S /\ n \in t[2]..(t[2] + t[3] - 1)
      <3>1. \E u \in S : n \in u[2]..(u[2] + u[3] - 1)
        <4>1. CASE n < 16
          <5> WITNESS <<0, 0, 16>> \in S
          <5> QED
            BY <4>1
        <4>2. CASE n >= 16
          <5> WITNESS <<8, 16, 9>> \in S
          <5> QED
            BY <4>2
        <4> QED
          BY <4>1, <4>2
      <3> HIDE DEF S
      <3> QED
        BY <3>1
    <2>3. Hash!Element(n) = t[1] * 2 + (n - t[2])
      <3> HIDE DEF S
      <3> QED
        BY <2>1 DEF Hash!Element
    <2>4. t = <<0, 0, 16>> \/ t = <<8, 16, 9>>
      <3> HIDE DEF t
      <3> QED
        BY <2>2
    <2> HIDE DEF t
    <2> QED
      BY <2>3, <2>4
  <1> QED
    BY <1>1, <1>2

\* While the vector registers hold the lanes they hold those of the reference, lane n
\* in element n; otherwise memory does.
KeccakInv ==
  /\ round \in 0..24
  /\ group = << >> => lanes = ref
  /\ group # << >> => /\ build \in {"vk128", "vk256"}
                      /\ \A m \in 0..24 : group[m] = ref[m]
  /\ round > 0 => ref = [m \in 0..24 |-> ref[m]]

\* Every round of KeccakF1600_StatePermute, unrolled in C or behind the vkeccak
\* instruction, is a round of Keccak-p[1600, 24], whatever the lanes at the start.
THEOREM PermutationCorrect == KernelsSpec => []IsKeccakP
  <1> DEFINE Inv == alg = "keccak" => KeccakInv
  <1>1. Hash!Init => KeccakInv
    BY DEF Hash!Init, KeccakInv
  <1>2. KeccakInv /\ Hash!Next => KeccakInv'
    <2> SUFFICES ASSUME KeccakInv, Hash!Next PROVE KeccakInv'
      OBVIOUS
    <2>1. ASSUME build = "c", round \in 0..23,
                 lanes' = Hash!Round(lanes, Hash!KeccakF_RoundConstants[round + 1]),
                 ref' = Hash!RefRound(ref, round), round' = round + 1,
                 UNCHANGED <<build, group>>
          PROVE  KeccakInv'
      <3>1. group = << >> /\ lanes = ref
        BY <2>1 DEF KeccakInv
      <3>2. lanes' = ref'
        BY <2>1, <3>1, RoundIsRefRound
      <3>3. ref' = [m \in 0..24 |-> ref'[m]]
        BY <2>1, RefRoundFunction
      <3>4. round' \in 0..24 /\ group' = << >>
        BY <2>1, <3>1
      <3> QED
        BY <3>2, <3>3, <3>4 DEF KeccakInv
    <2>2. CASE Hash!EvenRound
      <3>1. round \in 0..23
        BY <2>2 DEF Hash!EvenRound, Hash!NROUNDS, KeccakInv
      <3> QED
        BY <2>1, <2>2, <3>1 DEF Hash!EvenRound
    <2>3. CASE Hash!OddRound
      <3>1. round \in 0..23
        BY <2>3 DEF Hash!OddRound, KeccakInv
      <3> QED
        BY <2>1, <2>3, <3>1 DEF Hash!OddRound
    <2>4. CASE Hash!Load
      <3>1. /\ group = << >> /\ lanes = ref /\ build \in {"vk128", "vk256"}
            /\ UNCHANGED <<build, round, lanes, ref>>
        BY <2>4 DEF Hash!Load, Hash!Transfers, KeccakInv
      <3>2. ASSUME NEW m \in 0..24 PROVE group'[m] = ref[m]
        <4>1. {n \in 0..24 : Hash!Element(n) = m} = {m}
          BY <3>1, ElementIsLane
        <4>2. group'[m] = UNION {lanes[n] : n \in {k \in 0..24 : Hash!Element(k) = m}}
          BY <2>4 DEF Hash!Load, Hash!Lanes
        <4> QED
          BY <3>1, <4>1, <4>2
      <3> QED
        BY <3>1, <3>2 DEF KeccakInv
    <2>5. CASE Hash!Vkeccak
      <3>1. /\ group # << >> /\ round \in 0..23 /\ build \in {"vk128", "vk256"}
            /\ \A m \in 0..24 : group[m] = ref[m]
            /\ ref' = Hash!RefRound(ref, round) /\ round' = round + 1
            /\ UNCHANGED <<build, lanes>>
        BY <2>5 DEF Hash!Vkeccak, Hash!NROUNDS, KeccakInv
      <3> DEFINE after == Hash!RefRound(group, round)
      <3>2. group' = [e \in 0..31 |-> IF e \in 0..24 THEN after[e] ELSE group[e]]
        BY <2>5 DEF Hash!Vkeccak, Hash!Lanes
      <3>3. after = ref'
        BY <3>1, RefRoundLanes
      <3> HIDE DEF after
      <3>4. \A m \in 0..24 : group'[m] = ref'[m]
        BY <3>2, <3>3
      <3>5. DOMAIN group' = 0..31
        BY <3>2
      <3>6. group' # << >>
        <4>1. DOMAIN << >> = {} /\ 0 \in 0..31
          OBVIOUS
        <4> QED
          BY <3>5, <4>1
      <3>7. ref' = [m \in 0..24 |-> ref'[m]]
        BY <3>1, RefRoundFunction
      <3> QED
        BY <3>1, <3>4, <3>6, <3>7 DEF KeccakInv
    <2>6. CASE Hash!Store
      <3>1. /\ round = 24 /\ build \in {"vk128", "vk256"}
            /\ \A m \in 0..24 : group[m] = ref[m]
            /\ ref = [m \in 0..24 |-> ref[m]]
            /\ group' = << >> /\ UNCHANGED <<build, round, ref>>
        BY <2>6 DEF Hash!Store, Hash!NROUNDS, KeccakInv
      <3>2. lanes' = [m \in 0..24 |-> group[Hash!Element(m)]]
        BY <2>6 DEF Hash!Store, Hash!Lanes
      <3>3. \A m \in 0..24 : group[Hash!Element(m)] = ref[m]
        BY <3>1, ElementIsLane
      <3>4. lanes' = ref
        BY <3>1, <3>2, <3>3
      <3> QED
        BY <3>1, <3>4 DEF KeccakInv
    <2>7. CASE Hash!Done
      BY <2>7 DEF Hash!Done, Hash!vars, KeccakInv
    <2> QED
      BY <2>2, <2>3, <2>4, <2>5, <2>6, <2>7 DEF Hash!Next
  <1>3. KernelsInit => Inv
    BY <1>1 DEF KernelsInit
  <1>4. Inv /\ [KernelsNext]_kernelVars => Inv'
    <2> SUFFICES ASSUME Inv, alg' = "keccak", [KernelsNext]_kernelVars PROVE KeccakInv'
      OBVIOUS
    <2>1. CASE KernelsNext
      <3>1. alg = "keccak" /\ Hash!Next
        BY <2>1 DEF KernelsNext
      <3> QED
        BY <1>2, <3>1
    <2>2. CASE UNCHANGED kernelVars
      BY <2>2 DEF kernelVars, keccakVars, KeccakInv
    <2> QED
      BY <2>1, <2>2
  <1>5. Inv => IsKeccakP
    BY DEF KeccakInv, IsKeccakP, Hash!IsKeccakP
  <1> QED
    BY <1>3, <1>4, <1>5, PTL DEF KernelsSpec

----------------------------------------------------------------------------
\* The ranges of ML-DSA.  A call sequence is abstracted to what may follow what.

\* Call n of caller c.
DsaOp(c, n) == IF n <= Len(Dsa!Calls[c].ops) THEN Dsa!Calls[c].ops[n] ELSE "done"

DsaCallers == {"keygen_t", "sign_w", "sign_z", "sign_w0", "sign_h", "verify"}

\* Which calls may come after call op.
DsaAfter ==
  [shiftl |-> {"ntt"}, ntt |-> {"acc", "mul"}, acc |-> {"reduce"},
   mul |-> {"invntt", "sub"}, reduce |-> {"invntt", "done"},
   invntt |-> {"add", "sub", "reduce", "caddq"}, add |-> {"caddq", "reduce"},
   sub |-> {"reduce"}, caddq |-> {"done"}, done |-> {"done"}]

\* The sequences of mldsa.c begin and go on like that.
LEMMA DsaFollows ==
  ASSUME NEW c \in DOMAIN Dsa!Calls, NEW n \in Nat, n >= 1
  PROVE  /\ DsaOp(c, 1) \in {"shiftl", "ntt"}
         /\ DsaOp(c, n) \in DOMAIN DsaAfter
         /\ DsaOp(c, n + 1) \in DsaAfter[DsaOp(c, n)]
         /\ DsaOp(c, n) = "done" <=> n > Len(Dsa!Calls[c].ops)
  <1>0. c \in DsaCallers
    BY SMT DEF Dsa!Calls, DsaCallers
  <1>1. CASE c = "keygen_t"
    <2>1. Dsa!Calls[c].ops = <<"ntt", "acc", "reduce", "invntt", "add", "caddq">>
      BY <1>1, SMT DEF Dsa!Calls
    <2> QED
      BY <2>1, SMT DEF DsaOp, DsaAfter
  <1>2. CASE c = "sign_w"
    <2>1. Dsa!Calls[c].ops = <<"ntt", "acc", "reduce", "invntt", "caddq">>
      BY <1>2, SMT DEF Dsa!Calls, Dsa!SignW
    <2> QED
      BY <2>1, SMT DEF DsaOp, DsaAfter
  <1>3. CASE c = "sign_z"
    <2>1. Dsa!Calls[c].ops = <<"ntt", "mul", "invntt", "add", "reduce">>
      BY <1>3, SMT DEF Dsa!Calls
    <2> QED
      BY <2>1, SMT DEF DsaOp, DsaAfter
  <1>4. CASE c = "sign_w0"
    <2>1. Dsa!Calls[c].ops = <<"ntt", "mul", "invntt", "sub", "reduce">>
      BY <1>4, SMT DEF Dsa!Calls
    <2> QED
      BY <2>1, SMT DEF DsaOp, DsaAfter
  <1>5. CASE c = "sign_h"
    <2>1. Dsa!Calls[c].ops = <<"ntt", "mul", "invntt", "reduce">>
      BY <1>5, SMT DEF Dsa!Calls
    <2> QED
      BY <2>1, SMT DEF DsaOp, DsaAfter
  <1>6. CASE c = "verify"
    <2>1. Dsa!Calls[c].ops = <<"shiftl", "ntt", "mul", "sub", "reduce", "invntt", "caddq">>
      BY <1>6, SMT DEF Dsa!Calls
    <2> QED
      BY <2>1, SMT DEF DsaOp, DsaAfter
  <1> QED
    BY <1>0, <1>1, <1>2, <1>3, <1>4, <1>5, <1>6, SMT DEF DsaCallers

\* Products are monotone.
LEMMA ProductBound ==
  ASSUME NEW a \in Nat, NEW b \in Nat, NEW A \in Nat, NEW B \in Nat, a <= A, b <= B
  PROVE  a * b \in Nat /\ a * b <= A * B
  <1>1. a * b \in Nat
    BY SMT
  <1>2. (A - a) * b >= 0 /\ A * (B - b) >= 0
    BY SMT
  <1>3. A * B = a * b + (A - a) * b + A * (B - b)
    BY SMT
  <1> QED
    BY <1>1, <1>2, <1>3, SMT

\* x is below X units of 2^16.
Below(x, X) == x \div 65536 < X

\* High is monotone.
LEMMA HighBound ==
  ASSUME NEW x \in Nat, NEW y \in Nat, NEW X \in Nat, NEW Y \in Nat,
         Below(x, X), Below(y, Y)
  PROVE  Dsa!High(x, y) \in Nat /\ Dsa!High(x, y) <= X * Y
  <1> DEFINE a == x \div 65536 + 1
             b == y \div 65536 + 1
  <1>1. a \in Nat /\ b \in Nat /\ a <= X /\ b <= Y
    BY SMT DEF Below
  <1>2. Dsa!High(x, y) = a * b
    BY SMT DEF Dsa!High
  <1> HIDE DEF a, b
  <1> QED
    BY <1>1, <1>2, ProductBound, SMT

\* One layer of the transform.
LEMMA GrowBound ==
  ASSUME NEW m \in Nat, m <= 50000000
  PROVE  /\ Dsa!Grow(m) \in Nat /\ Dsa!Grow(m) <= m + 4238278
         /\ Dsa!High(m, Dsa!MaxZeta) \in Nat /\ Dsa!High(m, Dsa!MaxZeta) <= 48069
  <1> DEFINE w == Dsa!High(m, Dsa!MaxZeta)
  <1>1. w \in Nat /\ w <= 48069
    <2>1. Dsa!MaxZeta = 4108315
      BY SMT DEF Dsa!MaxZeta
    <2> DEFINE X == 763
               Y == 63
               z == 4108315
    <2>2. X \in Nat /\ Y \in Nat /\ z \in Nat /\ Below(m, X) /\ Below(z, Y)
      BY SMT DEF Below
    <2>3. X * Y = 48069
      BY SMT
    <2> HIDE DEF X, Y, z
    <2>4. Dsa!High(m, z) \in Nat /\ Dsa!High(m, z) <= X * Y
      BY <2>2, HighBound, SMT
    <2> QED
      BY <2>1, <2>3, <2>4, SMT DEF z
  <1>2. Dsa!Grow(m) = Dsa!Plus(m, Dsa!Redc(w))
    BY SMT DEF Dsa!Grow
  <1>3. Dsa!Q \div 2 = 4190208
    BY SMT DEF Dsa!Q
  <1>4. Dsa!Redc(w) = w + 4190208 + 1
    BY <1>3, SMT DEF Dsa!Redc
  <1> HIDE DEF w
  <1>5. Dsa!Plus(m, Dsa!Redc(w)) = m + Dsa!Redc(w)
    BY <1>1, <1>4, SMT DEF Dsa!Plus, Dsa!IntMax
  <1> QED
    BY <1>1, <1>2, <1>4, <1>5, SMT DEF w

\* A whole transform.
LEMMA NttMagBound ==
  ASSUME NEW m \in Nat, m <= 524288
  PROVE  Dsa!NttMag(m) \in Nat /\ Dsa!NttMag(m) <= m + 33906224
  <1> DEFINE g1 == Dsa!Grow(m)
             g2 == Dsa!Grow(g1)
             g3 == Dsa!Grow(g2)
             g4 == Dsa!Grow(g3)
             g5 == Dsa!Grow(g4)
             g6 == Dsa!Grow(g5)
             g7 == Dsa!Grow(g6)
             g8 == Dsa!Grow(g7)
  <1>1. g1 \in Nat /\ g1 <= m + 4238278
    BY GrowBound, SMT
  <1> HIDE DEF g1
  <1>2. g2 \in Nat /\ g2 <= m + 2 * 4238278
    BY <1>1, GrowBound, SMT
  <1> HIDE DEF g2
  <1>3. g3 \in Nat /\ g3 <= m + 3 * 4238278
    BY <1>2, GrowBound, SMT
  <1> HIDE DEF g3
  <1>4. g4 \in Nat /\ g4 <= m + 4 * 4238278
    BY <1>3, GrowBound, SMT
  <1> HIDE DEF g4
  <1>5. g5 \in Nat /\ g5 <= m + 5 * 4238278
    BY <1>4, GrowBound, SMT
  <1> HIDE DEF g5
  <1>6. g6 \in Nat /\ g6 <= m + 6 * 4238278
    BY <1>5, GrowBound, SMT
  <1> HIDE DEF g6
  <1>7. g7 \in Nat /\ g7 <= m + 7 * 4238278
    BY <1>6, GrowBound, SMT
  <1> HIDE DEF g7
  <1>8. g8 \in Nat /\ g8 <= m + 8 * 4238278
    BY <1>7, GrowBound, SMT
  <1>9. Dsa!NttMag(m) = g8
    BY SMT DEF Dsa!NttMag, g1, g2, g3, g4, g5, g6, g7
  <1> HIDE DEF g8
  <1> QED
    BY <1>8, <1>9, SMT

\* The other factors and addends of the callers.
LEMMA DsaSizes ==
  ASSUME NEW c \in DOMAIN Dsa!Calls
  PROVE  /\ Dsa!Calls[c].mag \in Nat /\ Dsa!Calls[c].mag <= 524288
         /\ DsaOp(c, 1) = "shiftl" => Dsa!Calls[c].mag <= 1023
         /\ Dsa!Calls[c].by \in Nat /\ Dsa!Calls[c].by <= 33906225
         /\ Dsa!Calls[c].add \in Nat /\ Dsa!Calls[c].add <= 29802759
         /\ \A n \in Nat : n >= 1 /\ DsaOp(c, n) = "add" => Dsa!Calls[c].add <= 524288
  <1>0. c \in DsaCallers
    BY SMT DEF Dsa!Calls, DsaCallers
  <1>1. Dsa!NttMag(1) \in Nat /\ Dsa!NttMag(1) <= 33906225
    <2>1. 1 \in Nat /\ 1 <= 524288
      BY SMT
    <2> QED
      BY <2>1, NttMagBound, SMT
  <1>2. Dsa!Q - 1 = 8380416
    BY SMT DEF Dsa!Q
  <1> DEFINE far == 7 * Dsa!MulMag(8380416, Dsa!NttMag(524288))
  <1>3. far \in Nat /\ far <= 29802759
    <2> DEFINE y == Dsa!NttMag(524288)
               x == 8380416
               X == 128
               Y == 526
    <2>1. y \in Nat /\ y <= 34430512
      <3>1. 524288 \in Nat /\ 524288 <= 524288
        BY SMT
      <3> QED
        BY <3>1, NttMagBound, SMT
    <2>2. x \in Nat /\ X \in Nat /\ Y \in Nat /\ Below(x, X) /\ X * Y = 67328
      BY SMT DEF Below
    <2> HIDE DEF y
    <2>3. Below(y, Y)
      BY <2>1, SMT DEF Below
    <2> HIDE DEF x, X, Y
    <2>4. Dsa!High(x, y) \in Nat /\ Dsa!High(x, y) <= X * Y
      BY <2>1, <2>2, <2>3, HighBound, SMT
    <2>5. Dsa!MulMag(x, y) = Dsa!High(x, y) + 4190209
      BY <2>4, SMT DEF Dsa!MulMag, Dsa!Redc, Dsa!Q
    <2>6. far = 7 * Dsa!MulMag(x, y)
      BY SMT DEF x, y
    <2> QED
      BY <2>2, <2>4, <2>5, <2>6, SMT
  <1>4. CASE c = "keygen_t"
    <2>1. Dsa!Calls[c] = [ops |-> <<"ntt", "acc", "reduce", "invntt", "add", "caddq">>,
                          mag |-> 4, by |-> 8380416, add |-> 4]
      BY <1>2, <1>4, SMT DEF Dsa!Calls
    <2> QED
      BY <2>1, SMT DEF DsaOp
  <1>5. CASE c = "sign_w"
    <2>1. Dsa!Calls[c] = [ops |-> <<"ntt", "acc", "reduce", "invntt", "caddq">>,
                          mag |-> 524288, by |-> 8380416, add |-> 0]
      BY <1>2, <1>5, SMT DEF Dsa!Calls, Dsa!SignW
    <2> QED
      BY <2>1, SMT DEF DsaOp
  <1>6. CASE c = "sign_z"
    <2>1. Dsa!Calls[c] = [ops |-> <<"ntt", "mul", "invntt", "add", "reduce">>,
                          mag |-> 4, by |-> Dsa!NttMag(1), add |-> 524288]
      BY <1>6, SMT DEF Dsa!Calls
    <2> QED
      BY <1>1, <2>1, SMT DEF DsaOp
  <1>7. CASE c = "sign_w0"
    <2>1. Dsa!Calls[c] = [ops |-> <<"ntt", "mul", "invntt", "sub", "reduce">>,
                          mag |-> 4, by |-> Dsa!NttMag(1), add |-> 261888]
      BY <1>7, SMT DEF Dsa!Calls
    <2> QED
      BY <1>1, <2>1, SMT DEF DsaOp
  <1>8. CASE c = "sign_h"
    <2>1. Dsa!Calls[c] = [ops |-> <<"ntt", "mul", "invntt", "reduce">>,
                          mag |-> 4096, by |-> Dsa!NttMag(1), add |-> 0]
      BY <1>8, SMT DEF Dsa!Calls
    <2> QED
      BY <1>1, <2>1, SMT DEF DsaOp
  <1>9. CASE c = "verify"
    <2>1. Dsa!Calls[c] =
            [ops |-> <<"shiftl", "ntt", "mul", "sub", "reduce", "invntt", "caddq">>,
             mag |-> 1023, by |-> Dsa!NttMag(1), add |-> far]
      BY <1>2, <1>9, SMT DEF Dsa!Calls
    <2> HIDE DEF far
    <2> QED
      BY <1>1, <1>3, <2>1, SMT DEF DsaOp
  <1> QED
    BY <1>0, <1>4, <1>5, <1>6, <1>7, <1>8, <1>9, SMT DEF DsaCallers

\* The largest magnitude before each call, and before layer l of a transform.
Doubled == <<4524837, 9049674, 18099348, 36198696, 72397392, 144794784, 289589568,
             579179136, 1158358272>>
DsaMost(op, l) ==
  CASE op = "shiftl"          -> 1023
    [] op = "ntt"             -> 8380416 + l * 4238278
    [] op \in {"acc", "mul"}  -> 42286640
    [] op = "reduce"          -> 34327596
    [] op = "invntt"          -> Doubled[l + 1]
    [] op \in {"add", "sub"}  -> 4524837
    [] op = "caddq"           -> 8380416
    [] OTHER                  -> 1158358272

\* The ranges of ML-DSA, call by call and layer by layer.
DsaInv ==
  /\ caller \in DOMAIN Dsa!Calls
  /\ ip \in Nat /\ ip >= 1
  /\ lay \in 0..8
  /\ DsaOp(caller, ip) = "ntt" => lay <= 7
  /\ DsaOp(caller, ip) \notin {"ntt", "invntt"} => lay = 0
  /\ hi \in Nat /\ hi <= DsaMost(DsaOp(caller, ip), lay)
  /\ wide \in Nat /\ wide <= 4190208

\* It says what is wanted.
LEMMA DsaInvInRange == DsaInv => Dsa!InRange /\ Dsa!StandardBefore
  <1> SUFFICES ASSUME DsaInv PROVE Dsa!InRange /\ Dsa!StandardBefore
    BY SMT
  <1>1. hi \in Nat /\ wide <= 4190208 /\ lay \in 0..8 /\ hi <= DsaMost(DsaOp(caller, ip), lay)
        /\ (DsaOp(caller, ip) = "ntt" => lay <= 7)
    BY SMT DEF DsaInv
  <1>2. Dsa!Q = 8380417 /\ Dsa!Q \div 2 = 4190208 /\ Dsa!IntMax = 2147483647
    BY SMT DEF Dsa!Q, Dsa!IntMax
  <1>3. hi <= 1158358272
    BY <1>1, SMT DEF DsaMost, Doubled
  <1>4. ASSUME NEW op, op # "done", Dsa!At(op) PROVE DsaOp(caller, ip) = op
    BY <1>4, SMT DEF Dsa!At, DsaOp
  <1>5. Dsa!At("reduce") => hi <= 34327596
    BY <1>1, <1>4, SMT DEF DsaMost
  <1>6. Dsa!At("caddq") => hi <= 8380416
    BY <1>1, <1>4, SMT DEF DsaMost
  <1> QED
    BY <1>1, <1>2, <1>3, <1>5, <1>6, SMT DEF Dsa!InRange, Dsa!StandardBefore

\* Every step keeps the ranges.
LEMMA DsaStep == DsaInv /\ Dsa!Next => DsaInv'
  <1> SUFFICES ASSUME DsaInv, Dsa!Next PROVE DsaInv'
    BY SMT
  <1> DEFINE op  == DsaOp(caller, ip)
             new == DsaOp(caller, ip + 1)
  <1>1. /\ caller \in DOMAIN Dsa!Calls /\ ip \in Nat /\ ip >= 1 /\ lay \in 0..8
        /\ (op = "ntt" => lay <= 7) /\ (op \notin {"ntt", "invntt"} => lay = 0)
        /\ hi \in Nat /\ hi <= DsaMost(op, lay) /\ wide \in Nat /\ wide <= 4190208
    BY SMT DEF DsaInv
  <1>2. ASSUME NEW o, o # "done", Dsa!At(o) PROVE op = o
    BY <1>2, SMT DEF Dsa!At, DsaOp
  <1>3. op \in DOMAIN DsaAfter /\ new \in DsaAfter[op]
    BY <1>1, DsaFollows, SMT
  <1> HIDE DEF op, new
  \* A call that ends, and a layer that is not the last one.
  <1>4. ASSUME caller' = caller, ip' = ip + 1, lay' = 0,
               hi' \in Nat, hi' <= DsaMost(new, 0), wide' \in Nat, wide' <= 4190208
        PROVE  DsaInv'
    BY <1>1, <1>4, SMT DEF DsaInv, new
  <1>5. ASSUME caller' = caller, ip' = ip, lay' = lay + 1, lay' \in 0..8,
               op = "invntt" \/ (op = "ntt" /\ lay' <= 7),
               hi' \in Nat, hi' <= DsaMost(op, lay'), wide' \in Nat, wide' <= 4190208
        PROVE  DsaInv'
    BY <1>1, <1>5, SMT DEF DsaInv, op
  <1>6. ASSUME op \notin {"ntt", "invntt"}, Dsa!Advance(0)
        PROVE  caller' = caller /\ ip' = ip + 1 /\ lay' = 0
    BY <1>1, <1>6, SMT DEF Dsa!Advance
  <1>7. ASSUME op = "ntt", hi' = Dsa!Grow(hi), wide' = Dsa!High(hi, Dsa!MaxZeta),
               Dsa!Advance(7)
        PROVE  DsaInv'
    <2>1. hi <= 8380416 + lay * 4238278 /\ lay \in 0..7
      BY <1>1, <1>7, SMT DEF DsaMost
    <2>2. hi <= 50000000
      BY <1>1, <2>1, SMT
    <2>3. /\ hi' \in Nat /\ hi' <= 8380416 + (lay + 1) * 4238278
          /\ wide' \in Nat /\ wide' <= 4190208
      BY <1>1, <1>7, <2>1, <2>2, GrowBound, SMT
    <2>4. CASE lay = 7
      <3>1. caller' = caller /\ ip' = ip + 1 /\ lay' = 0
        BY <1>7, <2>4, SMT DEF Dsa!Advance
      <3>2. new \in {"acc", "mul"}
        BY <1>3, <1>7, SMT DEF DsaAfter
      <3>3. hi' <= DsaMost(new, 0)
        BY <2>3, <2>4, <3>2, SMT DEF DsaMost
      <3> QED
        BY <1>4, <2>3, <3>1, <3>3, SMT
    <2>5. CASE lay # 7
      <3>1. caller' = caller /\ ip' = ip /\ lay' = lay + 1 /\ lay' \in 0..7
        BY <1>7, <2>1, <2>5, SMT DEF Dsa!Advance
      <3>2. hi' <= DsaMost(op, lay')
        BY <1>7, <2>3, <3>1, SMT DEF DsaMost
      <3> QED
        BY <1>5, <1>7, <2>3, <3>1, <3>2, SMT
    <2> QED
      BY <2>4, <2>5, SMT
  \* The products: by any factor of the callers.
  <1>8. ASSUME op \in {"acc", "mul"}
        PROVE  LET w == Dsa!High(hi, Dsa!Calls[caller].by)
                   m == Dsa!MulMag(hi, Dsa!Calls[caller].by)
               IN  /\ w \in Nat /\ w <= 334628
                   /\ m = w + 4190209
    <2> DEFINE x == hi
               y == Dsa!Calls[caller].by
               X == 646
               Y == 518
    <2>1. x \in Nat /\ x <= 42286640
      BY <1>1, <1>8, SMT DEF DsaMost
    <2>2. y \in Nat /\ y <= 33906225
      BY <1>1, DsaSizes, SMT
    <2>3. X \in Nat /\ Y \in Nat /\ X * Y = 334628
      BY SMT
    <2> HIDE DEF x, y
    <2>4. Below(x, X) /\ Below(y, Y)
      BY <2>1, <2>2, SMT DEF Below
    <2> HIDE DEF X, Y
    <2>5. Dsa!High(x, y) \in Nat /\ Dsa!High(x, y) <= X * Y
      BY <2>1, <2>2, <2>3, <2>4, HighBound, SMT
    <2>6. Dsa!MulMag(x, y) = Dsa!High(x, y) + 4190209
      BY <2>5, SMT DEF Dsa!MulMag, Dsa!Redc, Dsa!Q
    <2> QED
      BY <2>3, <2>5, <2>6, SMT DEF x, y
  \* One layer of the inverse transform.
  <1>9. ASSUME op = "invntt", lay < 8, Dsa!InverseMag, Dsa!Advance(8)
        PROVE  DsaInv'
    <2> DEFINE d == Dsa!Plus(hi, hi)
               w == Dsa!High(d, Dsa!MaxZeta)
               t == Dsa!Redc(w)
    <2>1. hi <= Doubled[lay + 1] /\ lay \in 0..7
      BY <1>1, <1>9, SMT DEF DsaMost
    <2>2. Doubled[lay + 2] = 2 * Doubled[lay + 1] /\ Doubled[lay + 1] \in Nat
          /\ Doubled[lay + 2] <= 1158358272 /\ Doubled[lay + 2] >= 9049674
      BY <2>1, SMT DEF Doubled
    <2>3. d = 2 * hi
      BY <1>1, <2>1, <2>2, SMT DEF Dsa!Plus, Dsa!IntMax
    <2> HIDE DEF d
    <2>4. d \in Nat /\ d <= Doubled[lay + 2] /\ d <= 1158358272
      BY <1>1, <2>1, <2>2, <2>3, SMT
    <2>5. w \in Nat /\ w <= 1113588
      <3> DEFINE X == 17676
                 Y == 63
                 z == 4108315
      <3>1. X \in Nat /\ Y \in Nat /\ z \in Nat /\ Below(d, X) /\ Below(z, Y)
        BY <2>4, SMT DEF Below
      <3>2. X * Y = 1113588
        BY SMT
      <3>3. Dsa!MaxZeta = z
        BY SMT DEF Dsa!MaxZeta
      <3> HIDE DEF X, Y, z
      <3>4. Dsa!High(d, z) \in Nat /\ Dsa!High(d, z) <= X * Y
        BY <2>4, <3>1, HighBound, SMT
      <3> QED
        BY <3>2, <3>3, <3>4, SMT
    <2>6. t = w + 4190209
      BY <2>5, SMT DEF Dsa!Redc, Dsa!Q
    <2>7. hi' = (IF t > d THEN t ELSE d) /\ wide' = w
      BY <1>9, SMT DEF Dsa!InverseMag, d
    <2> HIDE DEF w, t
    <2>8. hi' \in Nat /\ hi' <= Doubled[lay + 2] /\ wide' \in Nat /\ wide' <= 4190208
      BY <2>2, <2>4, <2>5, <2>6, <2>7, SMT
    <2>9. caller' = caller /\ ip' = ip /\ lay' = lay + 1 /\ lay' \in 0..8
      BY <1>9, <2>1, SMT DEF Dsa!Advance
    <2>10. DsaMost(op, lay') = Doubled[lay + 2]
      BY <1>9, <2>1, <2>9, SMT DEF DsaMost
    <2> QED
      BY <1>5, <1>9, <2>8, <2>9, <2>10, SMT
  \* Its last step.
  <1>10. ASSUME op = "invntt", lay = 8, hi' = Dsa!MulMag(hi, 41978),
                wide' = Dsa!High(hi, 41978), Dsa!Advance(8)
         PROVE  DsaInv'
    <2>1. hi <= 1158358272
      BY <1>1, <1>10, SMT DEF DsaMost, Doubled
    <2>2. Dsa!High(hi, 41978) = hi \div 65536 + 1
      BY <1>1, SMT DEF Dsa!High
    <2>3. wide' \in Nat /\ wide' <= 17676
      BY <1>1, <1>10, <2>1, <2>2, SMT
    <2>4. hi' = wide' + 4190209
      BY <1>10, <2>3, SMT DEF Dsa!MulMag, Dsa!Redc, Dsa!Q
    <2>5. new \in {"add", "sub", "reduce", "caddq"}
      BY <1>3, <1>10, SMT DEF DsaAfter
    <2>6. hi' \in Nat /\ hi' <= DsaMost(new, 0) /\ wide' <= 4190208
      BY <2>3, <2>4, <2>5, SMT DEF DsaMost
    <2>7. caller' = caller /\ ip' = ip + 1 /\ lay' = 0
      BY <1>10, SMT DEF Dsa!Advance
    <2> QED
      BY <1>4, <2>3, <2>6, <2>7, SMT
  <1>11. CASE Dsa!NttC \/ Dsa!NttRegisters \/ Dsa!NttVector
    <2>1. /\ Dsa!At("ntt") /\ hi' = Dsa!Grow(hi) /\ wide' = Dsa!High(hi, Dsa!MaxZeta)
          /\ Dsa!Advance(7)
      BY <1>11, SMT DEF Dsa!NttC, Dsa!NttRegisters, Dsa!NttVector
    <2> QED
      BY <1>2, <1>7, <2>1, SMT
  <1>12. CASE Dsa!Acc
    <2>1. op = "acc"
      BY <1>2, <1>12, SMT DEF Dsa!Acc
    <2>2. /\ wide' = Dsa!High(hi, Dsa!Calls[caller].by)
          /\ hi' = 7 * Dsa!MulMag(hi, Dsa!Calls[caller].by) /\ Dsa!Advance(0)
      BY <1>12, SMT DEF Dsa!Acc, Dsa!Ell
    <2>3. new = "reduce"
      BY <1>3, <2>1, SMT DEF DsaAfter
    <2>4. hi' \in Nat /\ hi' <= DsaMost(new, 0) /\ wide' \in Nat /\ wide' <= 4190208
      BY <1>8, <2>1, <2>2, <2>3, SMT DEF DsaMost
    <2> QED
      BY <1>4, <1>6, <2>1, <2>2, <2>4, SMT
  <1>13. CASE Dsa!Mul
    <2>1. op = "mul"
      BY <1>2, <1>13, SMT DEF Dsa!Mul
    <2>2. /\ wide' = Dsa!High(hi, Dsa!Calls[caller].by)
          /\ hi' = Dsa!MulMag(hi, Dsa!Calls[caller].by) /\ Dsa!Advance(0)
      BY <1>13, SMT DEF Dsa!Mul
    <2>3. new \in {"invntt", "sub"}
      BY <1>3, <2>1, SMT DEF DsaAfter
    <2>4. hi' \in Nat /\ hi' <= DsaMost(new, 0) /\ wide' \in Nat /\ wide' <= 4190208
      BY <1>8, <2>1, <2>2, <2>3, SMT DEF DsaMost, Doubled
    <2> QED
      BY <1>4, <1>6, <2>1, <2>2, <2>4, SMT
  <1>14. CASE Dsa!poly_shiftl
    <2>1. op = "shiftl" /\ hi' = hi * 8192 /\ wide' = 0 /\ Dsa!Advance(0)
      BY <1>2, <1>14, SMT DEF Dsa!poly_shiftl
    <2>2. new = "ntt"
      BY <1>3, <2>1, SMT DEF DsaAfter
    <2>3. hi' \in Nat /\ hi' <= DsaMost(new, 0) /\ wide' \in Nat /\ wide' <= 4190208
      BY <1>1, <2>1, <2>2, SMT DEF DsaMost
    <2> QED
      BY <1>4, <1>6, <2>1, <2>3, SMT
  <1>15. CASE Dsa!mldsa_poly_reduce
    <2>1. op = "reduce" /\ hi' = Dsa!Reduce32Mag(hi) /\ wide' = 0 /\ Dsa!Advance(0)
      BY <1>2, <1>15, SMT DEF Dsa!mldsa_poly_reduce
    <2>2. new \in {"invntt", "done"}
      BY <1>3, <2>1, SMT DEF DsaAfter
    <2>3. hi <= 34327596
      BY <1>1, <2>1, SMT DEF DsaMost
    <2>4. Dsa!Plus(hi, 4194304) = hi + 4194304
      BY <1>1, <2>3, SMT DEF Dsa!Plus, Dsa!IntMax
    <2>5. hi' \in Nat /\ hi' <= 4227068
      BY <1>1, <2>1, <2>3, <2>4, SMT DEF Dsa!Reduce32Mag
    <2>6. hi' <= DsaMost(new, 0) /\ wide' \in Nat /\ wide' <= 4190208
      BY <2>1, <2>2, <2>5, SMT DEF DsaMost, Doubled
    <2> QED
      BY <1>4, <1>6, <2>1, <2>5, <2>6, SMT
  <1>16. CASE Dsa!InvNttC \/ Dsa!InvNttVector \/ Dsa!InvNttRegisters
    <2>1. Dsa!At("invntt") /\ Dsa!Advance(8)
      BY <1>16, SMT DEF Dsa!InvNttC, Dsa!InvNttVector, Dsa!InvNttRegisters
    <2>2. op = "invntt"
      BY <1>2, <2>1, SMT
    <2>3. \/ lay < 8 /\ Dsa!InverseMag
          \/ lay = 8 /\ hi' = Dsa!MulMag(hi, 41978) /\ wide' = Dsa!High(hi, 41978)
      BY <1>1, <1>16, SMT DEF Dsa!InvNttC, Dsa!InvNttVector, Dsa!InvNttRegisters, Dsa!Scale
    <2> QED
      BY <1>9, <1>10, <2>1, <2>2, <2>3, SMT
  <1>17. CASE Dsa!AddSub
    <2>1. /\ op \in {"add", "sub"} /\ hi' = Dsa!Plus(hi, Dsa!Calls[caller].add)
          /\ wide' = 0 /\ Dsa!Advance(0)
      BY <1>2, <1>17, SMT DEF Dsa!AddSub
    <2> DEFINE a == Dsa!Calls[caller].add
    <2>2. a \in Nat /\ a <= 29802759 /\ (op = "add" => a <= 524288)
      BY <1>1, DsaSizes, SMT DEF op
    <2>3. hi <= 4524837
      BY <1>1, <2>1, SMT DEF DsaMost
    <2> HIDE DEF a
    <2>4. Dsa!Plus(hi, a) = hi + a
      BY <1>1, <2>2, <2>3, SMT DEF Dsa!Plus, Dsa!IntMax
    <2>5. hi' = hi + a
      BY <2>1, <2>4, SMT DEF a
    <2>6. (op = "add" /\ new \in {"caddq", "reduce"}) \/ (op = "sub" /\ new = "reduce")
      BY <1>3, <2>1, SMT DEF DsaAfter
    <2>7. hi' \in Nat /\ hi' <= DsaMost(new, 0) /\ wide' \in Nat /\ wide' <= 4190208
      BY <1>1, <2>1, <2>2, <2>3, <2>5, <2>6, SMT DEF DsaMost
    <2> QED
      BY <1>4, <1>6, <2>1, <2>7, SMT
  <1>18. CASE Dsa!poly_caddq
    <2>1. /\ op = "caddq" /\ hi' = (IF hi < Dsa!Q THEN Dsa!Q - 1 ELSE hi)
          /\ wide' = 0 /\ Dsa!Advance(0)
      BY <1>2, <1>18, SMT DEF Dsa!poly_caddq
    <2>2. new = "done"
      BY <1>3, <2>1, SMT DEF DsaAfter
    <2>3. hi <= 8380416
      BY <1>1, <2>1, SMT DEF DsaMost
    <2>4. hi' \in Nat /\ hi' <= DsaMost(new, 0) /\ wide' \in Nat /\ wide' <= 4190208
      BY <1>1, <2>1, <2>2, <2>3, SMT DEF DsaMost, Dsa!Q
    <2> QED
      BY <1>4, <1>6, <2>1, <2>4, SMT
  <1>19. CASE UNCHANGED Dsa!vars
    BY <1>19, SMT DEF Dsa!vars, DsaInv
  <1> QED
    BY <1>11, <1>12, <1>13, <1>14, <1>15, <1>16, <1>17, <1>18, <1>19 DEF Dsa!Next
----------------------------------------------------------------------------
\* The ranges of ML-KEM, in the same way.

\* Call n of caller c.
KemOp(c, n) == IF n <= Len(Kem!Calls[c]) THEN Kem!Calls[c][n] ELSE "done"

\* Which calls may come after call op.
KemAfter ==
  [ntt |-> {"mul"}, mul |-> {"tomont", "invntt"}, tomont |-> {"add"},
   invntt |-> {"add", "sub"}, add |-> {"add", "reduce"}, sub |-> {"reduce"},
   reduce |-> {"done"}, done |-> {"done"}]

\* The sequences of mlkem_kpke.c begin and go on like that; what is added is added by
\* the fourth and the fifth call.
LEMMA KemFollows ==
  ASSUME NEW c \in DOMAIN Kem!Calls, NEW n \in Nat, n >= 1
  PROVE  /\ KemOp(c, 1) = "ntt"
         /\ KemOp(c, n) \in DOMAIN KemAfter
         /\ KemOp(c, n + 1) \in KemAfter[KemOp(c, n)]
         /\ KemOp(c, n) = "add" => n \in 4..5
         /\ KemOp(c, n) \in {"tomont", "invntt"} => n = 3
  <1>0. c \in {"kpke_keygen", "kpke_encrypt", "kpke_decrypt"}
    BY SMT DEF Kem!Calls
  <1>1. CASE c = "kpke_keygen"
    <2>1. Kem!Calls[c] = <<"ntt", "mul", "tomont", "add", "reduce">>
      BY <1>1, SMT DEF Kem!Calls
    <2> QED
      BY <2>1, SMT DEF KemOp, KemAfter
  <1>2. CASE c = "kpke_encrypt"
    <2>1. Kem!Calls[c] = <<"ntt", "mul", "invntt", "add", "add", "reduce">>
      BY <1>2, SMT DEF Kem!Calls
    <2> QED
      BY <2>1, SMT DEF KemOp, KemAfter
  <1>3. CASE c = "kpke_decrypt"
    <2>1. Kem!Calls[c] = <<"ntt", "mul", "invntt", "sub", "reduce">>
      BY <1>3, SMT DEF Kem!Calls
    <2> QED
      BY <2>1, SMT DEF KemOp, KemAfter
  <1> QED
    BY <1>0, <1>1, <1>2, <1>3, SMT

\* How far below zero and above zero a coefficient may be before each call, and before
\* layer l of a transform.
LowRVV == <<1664, 3328, 6656, 13312, 0, 1760, 3520, 7040, 14080>>
KemLow(b, op, n, l) ==
  CASE op = "ntt"                 -> 3328 + l * 2200
    [] op = "invntt" /\ b = "c"   -> 1760
    [] op = "invntt" /\ b = "rvv" -> LowRVV[l + 1]
    [] op = "tomont"              -> 1664
    [] op \in {"mul", "sub"}      -> 3328
    [] op = "add"                 -> 3328 * (n - 3)
    [] OTHER                      -> 9984
KemHigh(b, op, n, l) ==
  CASE op = "ntt"                 -> 3328 + l * 2200
    [] op = "invntt" /\ b = "c"   -> 1760
    [] op = "invntt" /\ b = "rvv" -> 3328
    [] op = "tomont"              -> 1664
    [] op \in {"mul", "sub"}      -> 3328
    [] op = "add"                 -> 3328 * (n - 3)
    [] OTHER                      -> 9984

\* The ranges of ML-KEM, call by call and layer by layer.
KemInv ==
  /\ build \in {"c", "rvv"} /\ caller \in DOMAIN Kem!Calls
  /\ ip \in Nat /\ ip >= 1
  /\ lay \in 0..8
  /\ build = "c" \/ KemOp(caller, ip) = "ntt" => lay <= 7
  /\ KemOp(caller, ip) \notin {"ntt", "invntt"} => lay = 0
  /\ lo \in Int /\ -lo <= KemLow(build, KemOp(caller, ip), ip, lay)
  /\ hi \in Int /\ hi <= KemHigh(build, KemOp(caller, ip), ip, lay)
  /\ hi >= lo
  /\ peak \in Int /\ peak <= 32767
  /\ wide \in Int /\ wide <= 2038402304

\* It says what is wanted.
LEMMA KemInvInRange == KemInv => Kem!InRange
  <1> SUFFICES ASSUME KemInv PROVE Kem!InRange
    BY SMT
  <1> DEFINE op == KemOp(caller, ip)
  <1>1. /\ op \in DOMAIN KemAfter /\ (op = "add" => ip \in 4..5)
        /\ build \in {"c", "rvv"} /\ lay \in 0..8 /\ (op = "ntt" => lay <= 7)
        /\ lo \in Int /\ -lo <= KemLow(build, op, ip, lay)
        /\ hi \in Int /\ hi <= KemHigh(build, op, ip, lay)
        /\ peak <= 32767 /\ wide <= 2038402304
    BY KemFollows, SMT DEF KemInv
  <1> HIDE DEF op
  <1>2. -lo <= 20000
    BY <1>1, SMT DEF KemLow, LowRVV
  <1>3. hi <= 20000
    BY <1>1, SMT DEF KemHigh
  <1> QED
    BY <1>1, <1>2, <1>3, SMT DEF Kem!InRange

\* The magnitude of a range.
LEMMA MagBound ==
  ASSUME lo \in Int, hi \in Int, lo <= hi, NEW B \in Int, -lo <= B, hi <= B
  PROVE  Kem!Mag \in Nat /\ Kem!Mag <= B
  BY SMT DEF Kem!Mag

\* fq_mulq by a constant leaves standard representatives.
LEMMA MulqBound ==
  ASSUME lo \in Int, hi \in Int, lo <= hi, -lo <= 20000, hi <= 20000,
         NEW c \in Nat, c <= 2285, Kem!MulqRange(c)
  PROVE  lo' = 0 /\ hi' = 3328 /\ peak' \in Int /\ peak' <= 32767
         /\ wide' \in Int /\ wide' <= 2038402304
  <1> DEFINE m == Kem!Mag
             t == Kem!Redc(m * c)
             B == 20000
             M == 45700000
  <1>1. m \in Nat /\ m <= 20000
    <2>1. B \in Int /\ -lo <= B /\ hi <= B
      BY SMT
    <2> HIDE DEF B
    <2>2. m \in Nat /\ m <= B
      BY <2>1, MagBound, SMT
    <2> QED
      BY <2>2, SMT DEF B
  <1> HIDE DEF m
  <1>2. m * c \in Nat /\ m * c <= 45700000
    <2>1. m * c \in Nat /\ (20000 - m) * c >= 0 /\ (20000 - m) * c = 20000 * c - m * c
      BY <1>1, SMT
    <2> QED
      BY <2>1, SMT
  <1>3. t \in Nat /\ t <= 2363
    BY <1>2, SMT DEF Kem!Redc, Kem!Q
  <1>4. /\ lo' = (IF t > Kem!Q THEN Kem!Q - t ELSE 0)
        /\ hi' = (IF t > Kem!Q - 1 THEN t ELSE Kem!Q - 1)
        /\ peak' = t + Kem!Q /\ wide' = m * c
    BY SMT DEF Kem!MulqRange, Kem!Range, m
  <1> HIDE DEF t
  <1> QED
    BY <1>2, <1>3, <1>4, SMT DEF Kem!Q

\* Every step keeps the ranges.
LEMMA KemStep == KemInv /\ Kem!Next => KemInv'
  <1> SUFFICES ASSUME KemInv, Kem!Next PROVE KemInv'
    BY SMT
  <1> DEFINE op  == KemOp(caller, ip)
             new == KemOp(caller, ip + 1)
             m   == Kem!Mag
             Fine == peak' \in Int /\ peak' <= 32767 /\ wide' \in Int /\ wide' <= 2038402304
  <1>1. /\ build \in {"c", "rvv"} /\ caller \in DOMAIN Kem!Calls
        /\ ip \in Nat /\ ip >= 1 /\ lay \in 0..8
        /\ (build = "c" \/ op = "ntt" => lay <= 7) /\ (op \notin {"ntt", "invntt"} => lay = 0)
        /\ lo \in Int /\ -lo <= KemLow(build, op, ip, lay)
        /\ hi \in Int /\ hi <= KemHigh(build, op, ip, lay) /\ hi >= lo
        /\ peak \in Int /\ peak <= 32767 /\ wide \in Int /\ wide <= 2038402304
    BY SMT DEF KemInv
  <1>2. ASSUME NEW o, o # "done", Kem!At(o) PROVE op = o
    BY <1>2, SMT DEF Kem!At, KemOp
  <1>3. /\ op \in DOMAIN KemAfter /\ new \in KemAfter[op]
        /\ (op = "add" => ip \in 4..5) /\ (op \in {"tomont", "invntt"} => ip = 3)
    BY <1>1, KemFollows, SMT
  <1>4. new = "add" => ip + 1 \in 4..5
    BY <1>1, KemFollows, SMT
  <1> HIDE DEF op, new
  \* A call that ends, and a layer that is not the last one.
  <1>5. ASSUME build' = build, caller' = caller, ip' = ip + 1, lay' = 0, Fine,
               lo' \in Int, hi' \in Int, hi' >= lo',
               -lo' <= KemLow(build, new, ip + 1, 0), hi' <= KemHigh(build, new, ip + 1, 0)
        PROVE  KemInv'
    BY <1>1, <1>5, SMT DEF KemInv, new
  <1>6. ASSUME build' = build, caller' = caller, ip' = ip, lay' = lay + 1, Fine,
               lay' \in 0..8, op \in {"ntt", "invntt"}, build = "c" \/ op = "ntt" => lay' <= 7,
               lo' \in Int, hi' \in Int, hi' >= lo',
               -lo' <= KemLow(build, op, ip, lay'), hi' <= KemHigh(build, op, ip, lay')
        PROVE  KemInv'
    BY <1>1, <1>6, SMT DEF KemInv, op
  <1>7. ASSUME op \notin {"ntt", "invntt"}, Kem!Advance(0)
        PROVE  build' = build /\ caller' = caller /\ ip' = ip + 1 /\ lay' = 0
    BY <1>1, <1>7, SMT DEF Kem!Advance
  <1>8. ASSUME NEW B \in Int, -lo <= B, hi <= B PROVE m \in Nat /\ m <= B
    BY <1>1, <1>8, MagBound, SMT
  <1>9. Kem!Q = 3329 /\ Kem!MaxZeta = 1659 /\ Kem!Q \div 2 = 1664
    BY SMT DEF Kem!Q, Kem!MaxZeta
  \* One layer of the transform.
  <1>10. ASSUME op = "ntt", lay < 7, Kem!ForwardRange, Kem!Advance(7)
         PROVE  KemInv'
    <2> DEFINE t == Kem!Redc(m * 1659)
    <2>1. -lo <= 3328 + lay * 2200 /\ hi <= 3328 + lay * 2200 /\ lay \in 0..6
      BY <1>1, <1>10, SMT DEF KemLow, KemHigh
    <2>2. m \in Nat /\ m <= 3328 + lay * 2200
      BY <1>8, <2>1, SMT
    <2>3. /\ lo' = lo - t /\ hi' = hi + t /\ peak' = m + t /\ wide' = m * 1659
      BY <1>9, <1>10, SMT DEF Kem!ForwardRange, Kem!Range
    <2> HIDE DEF m
    <2>4. t \in Nat /\ t <= 2200
      BY <2>1, <2>2, SMT DEF Kem!Redc, Kem!Q
    <2> HIDE DEF t
    <2>5. build' = build /\ caller' = caller /\ ip' = ip /\ lay' = lay + 1
      BY <1>10, SMT DEF Kem!Advance
    <2>6. Fine /\ lo' \in Int /\ hi' \in Int /\ hi' >= lo'
      BY <1>1, <2>1, <2>2, <2>3, <2>4, SMT
    <2>7. -lo' <= KemLow(build, op, ip, lay') /\ hi' <= KemHigh(build, op, ip, lay')
      BY <1>1, <1>10, <2>1, <2>3, <2>4, <2>5, SMT DEF KemLow, KemHigh
    <2> HIDE DEF Fine
    <2> QED
      BY <1>6, <1>10, <2>1, <2>5, <2>6, <2>7, SMT
  \* The reduction that ends it.
  <1>11. ASSUME op = "ntt", lay = 7, Kem!Advance(7), Fine,
                lo' \in Int, hi' \in Int, hi' >= lo', -lo' <= 3328, hi' <= 3328
         PROVE  KemInv'
    <2>1. build' = build /\ caller' = caller /\ ip' = ip + 1 /\ lay' = 0
      BY <1>11, SMT DEF Kem!Advance
    <2>2. new = "mul"
      BY <1>3, <1>11, SMT DEF KemAfter
    <2>3. -lo' <= KemLow(build, new, ip + 1, 0) /\ hi' <= KemHigh(build, new, ip + 1, 0)
      BY <1>11, <2>2, SMT DEF KemLow, KemHigh
    <2> HIDE DEF Fine
    <2> QED
      BY <1>5, <1>11, <2>1, <2>3, SMT
  <1>12. ASSUME Kem!BarrettRange, -lo <= 20000, hi <= 20000
         PROVE  Fine /\ lo' = -1664 /\ hi' = 1664
    <2>1. m \in Nat /\ m <= 20000
      BY <1>8, <1>12, SMT
    <2> QED
      BY <1>9, <1>12, <2>1, SMT DEF Kem!BarrettRange, Kem!Range
  <1>13. op = "ntt" => -lo <= 20000 /\ hi <= 20000
    BY <1>1, SMT DEF KemLow, KemHigh
  <1>14. CASE Kem!NttC \/ Kem!NttRegisters \/ Kem!NttVector
    <2>1. Kem!At("ntt") /\ Kem!Advance(7)
      BY <1>14, SMT DEF Kem!NttC, Kem!NttRegisters, Kem!NttVector
    <2>2. op = "ntt"
      BY <1>2, <2>1, SMT
    <2>3. \/ lay < 7 /\ Kem!ForwardRange
          \/ lay = 7 /\ Kem!BarrettRange
          \/ lay = 7 /\ Kem!MulqRange(2285)
      <3>1. CASE Kem!NttC
        <4>1. (lay < 7 /\ Kem!ForwardRange) \/ (lay = 7 /\ Kem!BarrettRange)
          BY <3>1, SMT DEF Kem!NttC
        <4> QED
          BY <4>1, SMT
      <3>2. CASE Kem!NttRegisters
        <4>1. lay < 4 /\ Kem!ForwardRange
          BY <3>2, Zenon DEF Kem!NttRegisters
        <4> QED
          BY <1>1, <4>1, SMT
      <3>3. CASE Kem!NttVector
        <4>1. lay \in 4..7 /\ IF lay = 7 THEN Kem!MulqRange(2285) ELSE Kem!ForwardRange
          BY <3>3, Zenon DEF Kem!NttVector
        <4> QED
          BY <4>1, SMT
      <3> QED
        BY <1>14, <3>1, <3>2, <3>3, SMT
    <2>4. CASE lay < 7 /\ Kem!ForwardRange
      BY <1>10, <2>1, <2>2, <2>4, SMT
    <2>5. CASE lay = 7 /\ Kem!BarrettRange
      <3>1. Fine /\ lo' = -1664 /\ hi' = 1664
        BY <1>12, <1>13, <2>2, <2>5, SMT
      <3> QED
        BY <1>11, <2>1, <2>2, <2>5, <3>1, SMT
    <2>6. CASE lay = 7 /\ Kem!MulqRange(2285)
      <3>1. Fine /\ lo' = 0 /\ hi' = 3328
        BY <1>1, <1>13, <2>2, <2>6, MulqBound, SMT
      <3> QED
        BY <1>11, <2>1, <2>2, <2>6, <3>1, SMT
    <2> QED
      BY <2>3, <2>4, <2>5, <2>6, SMT
  <1>15. CASE Kem!MulC \/ Kem!MulRVV
    <2>1. Kem!At("mul") /\ Kem!Advance(0)
      BY <1>15, SMT DEF Kem!MulC, Kem!MulRVV
    <2>2. op = "mul"
      BY <1>2, <2>1, SMT
    <2>3. m \in Nat /\ m <= 3328
      BY <1>1, <1>8, <2>2, SMT DEF KemLow, KemHigh
    <2>4. \/ Kem!Range(-1664, 1664, 8 * Kem!Redc(4095 * m), 4095 * m)
          \/ Kem!Range(-1664, 1664, 4 * Kem!Redc(2 * 4095 * m), 2 * 4095 * m)
      BY <1>9, <1>15, SMT DEF Kem!MulC, Kem!MulRVV, Kem!Terms, Kem!KeyMax
    <2> HIDE DEF m
    <2>5. Fine /\ lo' = -1664 /\ hi' = 1664
      BY <2>3, <2>4, SMT DEF Kem!Range, Kem!Redc, Kem!Q
    <2>6. new \in {"tomont", "invntt"}
      BY <1>3, <2>2, SMT DEF KemAfter
    <2>7. -lo' <= KemLow(build, new, ip + 1, 0) /\ hi' <= KemHigh(build, new, ip + 1, 0)
      BY <1>1, <2>5, <2>6, SMT DEF KemLow, KemHigh, LowRVV
    <2>8. build' = build /\ caller' = caller /\ ip' = ip + 1 /\ lay' = 0
      BY <1>7, <2>1, <2>2, SMT
    <2> QED
      BY <1>5, <2>5, <2>7, <2>8, SMT
  <1>16. CASE Kem!poly_tomont
    <2>1. op = "tomont" /\ Kem!Advance(0)
      BY <1>2, <1>16, SMT DEF Kem!poly_tomont
    <2>2. m \in Nat /\ m <= 1664
      BY <1>1, <1>8, <2>1, SMT DEF KemLow, KemHigh
    <2> DEFINE t == Kem!Redc(m * 1353)
    <2>3. Kem!Range(-t, t, t, m * 1353)
      BY <1>16, SMT DEF Kem!poly_tomont
    <2> HIDE DEF m
    <2>4. t \in Nat /\ t <= 1760
      BY <2>2, SMT DEF Kem!Redc, Kem!Q
    <2> HIDE DEF t
    <2>5. Fine /\ lo' = -t /\ hi' = t
      BY <2>2, <2>3, <2>4, SMT DEF Kem!Range
    <2>6. new = "add" /\ ip = 3
      BY <1>3, <2>1, SMT DEF KemAfter
    <2>7. -lo' <= KemLow(build, new, ip + 1, 0) /\ hi' <= KemHigh(build, new, ip + 1, 0)
      BY <2>4, <2>5, <2>6, SMT DEF KemLow, KemHigh
    <2>8. build' = build /\ caller' = caller /\ ip' = ip + 1 /\ lay' = 0
      BY <1>7, <2>1, SMT
    <2>9. lo' \in Int /\ hi' \in Int /\ hi' >= lo'
      BY <2>4, <2>5, SMT
    <2> HIDE DEF Fine
    <2> QED
      BY <1>5, <2>5, <2>7, <2>8, <2>9, SMT
  \* The inverse transform: its result is small in both builds.
  <1>17. ASSUME op = "invntt", build' = build, caller' = caller, ip' = ip + 1, lay' = 0, Fine,
                lo' \in Int, hi' \in Int, hi' >= lo', -lo' <= 1760, hi' <= 3328
         PROVE  KemInv'
    <2>1. new \in {"add", "sub"} /\ ip = 3
      BY <1>3, <1>17, SMT DEF KemAfter
    <2>2. -lo' <= KemLow(build, new, ip + 1, 0) /\ hi' <= KemHigh(build, new, ip + 1, 0)
      BY <1>17, <2>1, SMT DEF KemLow, KemHigh
    <2> HIDE DEF Fine
    <2> QED
      BY <1>5, <1>17, <2>2, SMT
  <1>18. CASE Kem!InvNttC
    <2>1. op = "invntt" /\ build = "c" /\ Kem!Advance(7)
      BY <1>2, <1>18, SMT DEF Kem!InvNttC
    <2>2. lay \in 0..7 /\ m \in Nat /\ m <= 1760
      BY <1>1, <1>8, <2>1, SMT DEF KemLow, KemHigh
    <2> DEFINE t == Kem!Redc(2 * m * 1659)
               u == Kem!Redc(m * 1441)
               n == IF t > 1664 THEN t ELSE 1664
    <2>3. \/ lay < 7 /\ Kem!Range(-n, n, 2 * m, 2 * m * 1659)
          \/ lay = 7 /\ Kem!Range(-u, u, u, m * 1441)
      BY <1>9, <1>18, SMT DEF Kem!InvNttC, Kem!InverseRangeC
    <2> HIDE DEF m
    <2>4. t \in Nat /\ t <= 1760 /\ u \in Nat /\ u <= 1760
      BY <2>2, SMT DEF Kem!Redc, Kem!Q
    <2> HIDE DEF t, u
    <2>5. CASE lay < 7 /\ Kem!Range(-n, n, 2 * m, 2 * m * 1659)
      <3>1. Fine /\ lo' = -n /\ hi' = n /\ n \in Nat /\ n <= 1760
        BY <2>2, <2>4, <2>5, SMT DEF Kem!Range
      <3>2. build' = build /\ caller' = caller /\ ip' = ip /\ lay' = lay + 1 /\ lay' \in 0..7
        BY <2>1, <2>2, <2>5, SMT DEF Kem!Advance
      <3> HIDE DEF n
      <3>3. -lo' <= KemLow(build, op, ip, lay') /\ hi' <= KemHigh(build, op, ip, lay')
        BY <2>1, <3>1, SMT DEF KemLow, KemHigh
      <3>4. lo' \in Int /\ hi' \in Int /\ hi' >= lo'
        BY <3>1, SMT
      <3> HIDE DEF Fine
      <3> QED
        BY <1>6, <2>1, <3>1, <3>2, <3>3, <3>4, SMT
    <2>6. CASE lay = 7 /\ Kem!Range(-u, u, u, m * 1441)
      <3>1. Fine /\ lo' = -u /\ hi' = u
        BY <2>2, <2>4, <2>6, SMT DEF Kem!Range
      <3>2. build' = build /\ caller' = caller /\ ip' = ip + 1 /\ lay' = 0
        BY <2>1, <2>6, SMT DEF Kem!Advance
      <3>3. lo' \in Int /\ hi' \in Int /\ hi' >= lo' /\ -lo' <= 1760 /\ hi' <= 3328
        BY <2>4, <3>1, SMT
      <3> HIDE DEF Fine
      <3> QED
        BY <1>17, <2>1, <3>1, <3>2, <3>3, SMT
    <2> QED
      BY <2>3, <2>5, <2>6, SMT
  \* The vector build normalizes after three layers and at the end.
  <1>19. ASSUME op = "invntt", build = "rvv", Kem!Advance(8),
                lay \in {0, 1, 2, 4, 5, 6, 7}, Kem!InverseRangeRVV
         PROVE  KemInv'
    <2> DEFINE d == hi - lo
               t == Kem!Redc(d * 1659)
               l == IF 2 * lo < -t THEN 2 * lo ELSE -t
               h == IF 2 * hi - 3329 > 3328 THEN 2 * hi - 3329 ELSE 3328
    <2>1. -lo <= LowRVV[lay + 1] /\ hi <= 3328
      BY <1>1, <1>19, SMT DEF KemLow, KemHigh
    <2>2. Kem!Range(l, IF t > h THEN t ELSE h, 2 * m, d * 1659)
      BY <1>9, <1>19, SMT DEF Kem!InverseRangeRVV
    <2>3. m \in Nat /\ m <= 14080
      BY <1>1, <1>8, <1>19, <2>1, SMT DEF LowRVV
    <2> HIDE DEF m
    <2>4. d \in Nat /\ d <= 3328 + LowRVV[lay + 1] /\ LowRVV[lay + 1] \in Nat
      BY <1>1, <1>19, <2>1, SMT DEF LowRVV
    <2>5. t \in Nat /\ t <= 1666 + (d * 1659) \div 65536
      BY <2>4, SMT DEF Kem!Redc, Kem!Q
    <2>6. 2 * LowRVV[lay + 1] <= LowRVV[lay + 2] /\ t <= LowRVV[lay + 2] /\ t <= 3328
          /\ LowRVV[lay + 2] \in Nat
      <3> HIDE DEF d, t
      <3> QED
        BY <1>19, <2>4, <2>5, SMT DEF LowRVV
    <2>7. h = 3328
      BY <1>1, <2>1, SMT
    <2> HIDE DEF h, t
    <2>8. /\ l \in Int /\ -l <= LowRVV[lay + 2] /\ l <= 0
          /\ lo' = l /\ hi' = 3328 /\ peak' = 2 * m /\ wide' = d * 1659
      BY <1>1, <2>1, <2>2, <2>4, <2>5, <2>6, <2>7, SMT DEF Kem!Range
    <2>9. Fine
      BY <1>19, <2>3, <2>4, <2>8, SMT DEF LowRVV
    <2> HIDE DEF l
    <2>10. build' = build /\ caller' = caller /\ ip' = ip /\ lay' = lay + 1 /\ lay' \in 0..8
      BY <1>19, SMT DEF Kem!Advance
    <2>11. -lo' <= KemLow(build, op, ip, lay') /\ hi' <= KemHigh(build, op, ip, lay')
      BY <1>19, <2>8, <2>10, SMT DEF KemLow, KemHigh
    <2>12. lo' \in Int /\ hi' \in Int /\ hi' >= lo'
      BY <2>8, SMT
    <2> HIDE DEF Fine
    <2> QED
      BY <1>6, <1>19, <2>9, <2>10, <2>11, <2>12, SMT
  <1>20. ASSUME op = "invntt", build = "rvv", Kem!Advance(8), lay \in {3, 8},
                NEW c \in Nat, c <= 2285, Kem!MulqRange(c)
         PROVE  KemInv'
    <2>1. -lo <= 20000 /\ hi <= 20000
      BY <1>1, <1>20, SMT DEF KemLow, KemHigh, LowRVV
    <2>2. Fine /\ lo' = 0 /\ hi' = 3328
      BY <1>1, <1>20, <2>1, MulqBound, SMT
    <2>3. CASE lay = 8
      <3>1. build' = build /\ caller' = caller /\ ip' = ip + 1 /\ lay' = 0
        BY <1>20, <2>3, SMT DEF Kem!Advance
      <3>2. lo' \in Int /\ hi' \in Int /\ hi' >= lo' /\ -lo' <= 1760 /\ hi' <= 3328
        BY <2>2, SMT
      <3> HIDE DEF Fine
      <3> QED
        BY <1>17, <1>20, <2>2, <3>1, <3>2, SMT
    <2>4. CASE lay = 3
      <3>1. build' = build /\ caller' = caller /\ ip' = ip /\ lay' = 4
        BY <1>20, <2>4, SMT DEF Kem!Advance
      <3>2. lo' \in Int /\ hi' \in Int /\ hi' >= lo'
        BY <2>2, SMT
      <3>3. -lo' <= KemLow(build, op, ip, lay') /\ hi' <= KemHigh(build, op, ip, lay')
        BY <1>20, <2>2, <3>1, SMT DEF KemLow, KemHigh, LowRVV
      <3> HIDE DEF Fine
      <3> QED
        BY <1>6, <1>20, <2>2, <2>4, <3>1, <3>2, <3>3, SMT
    <2> QED
      BY <1>20, <2>3, <2>4, SMT
  <1>21. CASE Kem!InvNttVector \/ Kem!InvNttRegisters
    <2>1. op = "invntt" /\ build = "rvv" /\ Kem!Advance(8)
      BY <1>2, <1>21, SMT DEF Kem!InvNttVector, Kem!InvNttRegisters
    <2>2. \/ lay \in {0, 1, 2, 4, 5, 6, 7} /\ Kem!InverseRangeRVV
          \/ lay = 3 /\ Kem!MulqRange(2285)
          \/ lay = 8 /\ Kem!MulqRange(1441)
      BY <1>1, <1>21, SMT DEF Kem!InvNttVector, Kem!InvNttRegisters
    <2> QED
      BY <1>19, <1>20, <2>1, <2>2, SMT
  <1>22. CASE Kem!mlkem_poly_add
    <2>1. op = "add" /\ Kem!Advance(0)
      BY <1>2, <1>22, SMT DEF Kem!mlkem_poly_add
    <2>2. ip \in 4..5 /\ -lo <= 3328 * (ip - 3) /\ hi <= 3328 * (ip - 3)
      BY <1>1, <1>3, <2>1, SMT DEF KemLow, KemHigh
    <2>3. m \in Nat /\ m <= 6656
      BY <1>8, <2>2, SMT
    <2>4. Kem!AddRange.lo = -1664 /\ Kem!AddRange.hi = 3328
      BY <1>9, SMT DEF Kem!AddRange
    <2>5. Fine /\ lo' = lo - 1664 /\ hi' = hi + 3328
      <3>1. /\ lo' = lo + Kem!AddRange.lo /\ hi' = hi + Kem!AddRange.hi
            /\ peak' = m + Kem!AddRange.hi /\ wide' = 0
        BY <1>22, SMT DEF Kem!mlkem_poly_add, Kem!Range
      <3> HIDE DEF m
      <3> QED
        BY <1>1, <2>3, <2>4, <3>1, SMT
    <2>6. new \in {"add", "reduce"}
      BY <1>3, <2>1, SMT DEF KemAfter
    <2>7. -lo' <= KemLow(build, new, ip + 1, 0) /\ hi' <= KemHigh(build, new, ip + 1, 0)
      BY <1>1, <2>2, <2>5, <2>6, SMT DEF KemLow, KemHigh
    <2>8. build' = build /\ caller' = caller /\ ip' = ip + 1 /\ lay' = 0
      BY <1>7, <2>1, SMT
    <2>9. lo' \in Int /\ hi' \in Int /\ hi' >= lo'
      BY <1>1, <2>5, SMT
    <2> HIDE DEF Fine
    <2> QED
      BY <1>5, <2>5, <2>7, <2>8, <2>9, SMT
  <1>23. CASE Kem!mlkem_poly_sub
    <2>1. op = "sub" /\ Kem!Advance(0)
      BY <1>2, <1>23, SMT DEF Kem!mlkem_poly_sub
    <2>2. -lo <= 3328 /\ hi <= 3328
      BY <1>1, <2>1, SMT DEF KemLow, KemHigh
    <2>3. m \in Nat /\ m <= 3328
      BY <1>8, <2>2, SMT
    <2>4. Kem!Range(-1664 - hi, 3328 - lo, m + 3328, 0)
      BY <1>9, <1>23, SMT DEF Kem!mlkem_poly_sub, Kem!AddRange
    <2> HIDE DEF m
    <2>5. Fine /\ lo' = -1664 - hi /\ hi' = 3328 - lo
      BY <2>3, <2>4, SMT DEF Kem!Range
    <2>6. new = "reduce"
      BY <1>3, <2>1, SMT DEF KemAfter
    <2>7. -lo' <= KemLow(build, new, ip + 1, 0) /\ hi' <= KemHigh(build, new, ip + 1, 0)
      BY <1>1, <2>2, <2>5, <2>6, SMT DEF KemLow, KemHigh
    <2>8. build' = build /\ caller' = caller /\ ip' = ip + 1 /\ lay' = 0
      BY <1>7, <2>1, SMT
    <2>9. lo' \in Int /\ hi' \in Int /\ hi' >= lo'
      BY <1>1, <2>5, SMT
    <2> HIDE DEF Fine
    <2> QED
      BY <1>5, <2>5, <2>7, <2>8, <2>9, SMT
  <1>24. CASE Kem!mlkem_poly_reduce
    <2>1. op = "reduce" /\ Kem!Advance(0) /\ Kem!BarrettRange
      BY <1>2, <1>24, SMT DEF Kem!mlkem_poly_reduce
    <2>2. -lo <= 20000 /\ hi <= 20000
      BY <1>1, <2>1, SMT DEF KemLow, KemHigh
    <2>3. Fine /\ lo' = -1664 /\ hi' = 1664
      BY <1>12, <2>1, <2>2, SMT
    <2>4. new = "done"
      BY <1>3, <2>1, SMT DEF KemAfter
    <2>5. -lo' <= KemLow(build, new, ip + 1, 0) /\ hi' <= KemHigh(build, new, ip + 1, 0)
      BY <2>3, <2>4, SMT DEF KemLow, KemHigh
    <2>6. build' = build /\ caller' = caller /\ ip' = ip + 1 /\ lay' = 0
      BY <1>7, <2>1, SMT
    <2> QED
      BY <1>5, <2>3, <2>5, <2>6, SMT
  <1>25. CASE UNCHANGED Kem!vars
    BY <1>25, SMT DEF Kem!vars, KemInv
  <1> QED
    BY <1>14, <1>15, <1>16, <1>18, <1>21, <1>22, <1>23, <1>24, <1>25 DEF Kem!Next
----------------------------------------------------------------------------
\* The ranges of both schemes.
RangesInv == (alg = "mlkem" => KemInv) /\ (alg = "mldsa" => DsaInv)

\* They hold of the callers' inputs.
LEMMA RangesInit == KernelsInit => RangesInv
  <1> SUFFICES ASSUME KernelsInit PROVE RangesInv
    BY SMT
  <1>1. ASSUME alg = "mlkem" PROVE KemInv
    <2>1. Kem!Init
      BY <1>1, SMT DEF KernelsInit
    <2>2. build \in {"c", "rvv"} /\ caller \in DOMAIN Kem!Calls
      <3>1. PICK in \in KemInputs : build = in[1] /\ caller = in[2]
        BY <2>1, Zenon DEF Kem!Init
      <3> QED
        BY <3>1, KernelsAssumption, Zenon
    <2>3. ip = 1 /\ lay = 0 /\ peak = 0 /\ wide = 0 /\ lo = -3 /\ hi = 3328
      <3>1. ip = 1 /\ lay = 0 /\ peak = 0 /\ wide = 0
            /\ lo = Kem!FirstRange.lo /\ hi = Kem!FirstRange.hi
        BY <2>1, Zenon DEF Kem!Init
      <3>2. Kem!FirstRange.lo = -3 /\ Kem!FirstRange.hi = 3328
        BY SMT DEF Kem!FirstRange, Kem!Q
      <3> QED
        BY <3>1, <3>2, SMT
    <2>4. KemOp(caller, 1) = "ntt"
      <3>1. 1 \in Nat /\ 1 >= 1
        BY SMT
      <3> QED
        BY <2>2, <3>1, KemFollows, SMT
    <2> QED
      BY <2>2, <2>3, <2>4, SMT DEF KemInv, KemLow, KemHigh
  <1>2. ASSUME alg = "mldsa" PROVE DsaInv
    <2>1. Dsa!Init
      BY <1>2, SMT DEF KernelsInit
    <2>2. caller \in DOMAIN Dsa!Calls
      <3>1. PICK in \in DsaInputs : caller = in[2]
        BY <2>1, Zenon DEF Dsa!Init
      <3> QED
        BY <3>1, KernelsAssumption, Zenon
    <2>3. ip = 1 /\ lay = 0 /\ wide = 0 /\ hi = Dsa!Calls[caller].mag
      BY <2>1, Zenon DEF Dsa!Init
    <2>4. DsaOp(caller, 1) \in {"shiftl", "ntt"}
      <3>1. 1 \in Nat /\ 1 >= 1
        BY SMT
      <3> QED
        BY <2>2, <3>1, DsaFollows, SMT
    <2>5. /\ hi \in Nat /\ hi <= 524288
          /\ DsaOp(caller, 1) = "shiftl" => hi <= 1023
      BY <2>2, <2>3, DsaSizes, SMT
    <2> QED
      BY <2>2, <2>3, <2>4, <2>5, SMT DEF DsaInv, DsaMost
  <1> QED
    BY <1>1, <1>2, SMT DEF RangesInv

\* Every step of either scheme keeps them, and a permutation concerns neither.
LEMMA RangesStep == RangesInv /\ [KernelsNext]_kernelVars => RangesInv'
  <1> SUFFICES ASSUME RangesInv, [KernelsNext]_kernelVars PROVE RangesInv'
    BY SMT
  <1>1. CASE alg = "mlkem" /\ alg' = alg /\ Kem!Next
    BY <1>1, KemStep, SMT DEF RangesInv
  <1>2. CASE alg = "mldsa" /\ alg' = alg /\ Dsa!Next
    BY <1>2, DsaStep, SMT DEF RangesInv
  <1>3. CASE alg = "keccak" /\ alg' = alg
    BY <1>3, SMT DEF RangesInv
  <1>4. CASE UNCHANGED kernelVars
    <2>1. alg' = alg /\ build' = build /\ UNCHANGED ringVars
      BY <1>4, SMT DEF kernelVars
    <2>2. KemInv => KemInv'
      BY <2>1, SMT DEF KemInv, ringVars
    <2>3. DsaInv => DsaInv'
      BY <2>1, SMT DEF DsaInv, ringVars
    <2> QED
      BY <2>1, <2>2, <2>3, SMT DEF RangesInv
  <1> QED
    BY <1>1, <1>2, <1>3, <1>4, Zenon DEF KernelsNext

\* Whatever the coefficients the callers of mlkem_kpke.c and mldsa.c may be given and
\* whichever of their calls and layers is reached, no lazy sum leaves its 16- or 32-bit
\* word, every reduction is given what its comment allows, and polyveck_caddq is given
\* values within (-q, q).
THEOREM RangesCorrect == KernelsSpec => []InRange
  <1>1. RangesInv => InRange
    BY KemInvInRange, DsaInvInRange, SMT DEF RangesInv, InRange
  <1> QED
    BY RangesInit, RangesStep, <1>1, PTL DEF KernelsSpec

=============================================================================
