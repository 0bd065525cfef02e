------------------------------- MODULE Keccak -------------------------------
(***************************************************************************)
(* KeccakF1600_StatePermute of tools/pqc/mlkem/keccak.c (the file of ML-DSA *)
(* is the same): the unrolled C rounds, and the wrapper around the         *)
(* vkeccak.vi instruction, whose permutation is the one of FIPS 202.       *)
(* KeccakF1600_count, a counter for the benchmarks, is left out.           *)
(*                                                                         *)
(* A lane is the set of its one bits.  ref is the same state taken through *)
(* the step mappings of FIPS 202, defined on coordinates.                  *)
(***************************************************************************)
EXTENDS Integers, Sequences

CONSTANTS
  Starts     \* <<build, the 25 lanes>>

VARIABLES
  build,     \* "c", "vk256" or "vk128"
  round,     \* rounds done
  lanes,     \* the 25 lanes
  group,     \* the vector registers from v0 on, while they hold the lanes
  ref        \* what FIPS 202 makes of the same input

vars == <<build, round, lanes, group, ref>>

NROUNDS == 24
Lanes == 0..24

Xor(a, b) == (a \ b) \cup (b \ a)
ROL(a, n) == {(k + n) % 64 : k \in a}

KeccakF_RoundConstants == <<
      {0}, {1, 7, 15}, {1, 3, 7, 15, 63}, {15, 31, 63},
      {0, 1, 3, 7, 15}, {0, 31}, {0, 7, 15, 31, 63}, {0, 3, 15, 63},
      {1, 3, 7}, {3, 7}, {0, 3, 15, 31}, {1, 3, 31},
      {0, 1, 3, 7, 15, 31}, {0, 1, 3, 7, 63}, {0, 3, 7, 15, 63}, {0, 1, 15, 63},
      {1, 15, 63}, {7, 63}, {1, 3, 15}, {1, 3, 31, 63},
      {0, 7, 15, 31, 63}, {7, 15, 63}, {0, 31}, {3, 15, 31, 63}>>

\* Which lane, rotated by how much, goes into BCa..BCu of each row.
Rows ==
  <<  <<<<0, 0>>, <<6, 44>>, <<12, 43>>, <<18, 21>>, <<24, 14>>>>,
      <<<<3, 28>>, <<9, 20>>, <<10, 3>>, <<16, 45>>, <<22, 61>>>>,
      <<<<1, 1>>, <<7, 6>>, <<13, 25>>, <<19, 8>>, <<20, 18>>>>,
      <<<<4, 27>>, <<5, 36>>, <<11, 10>>, <<17, 15>>, <<23, 56>>>>,
      <<<<2, 62>>, <<8, 55>>, <<14, 39>>, <<15, 41>>, <<21, 2>>>> >>

\* Mutant: the complement is taken of the wrong lane.
ChiRowSwapped(B, n) == LET y == 5 * (n \div 5) IN Xor(B[n], B[y + ((n + 1) % 5)] \ B[y + ((n + 2) % 5)])

ChiRow(B, n) == LET y == 5 * (n \div 5) IN Xor(B[n], B[y + ((n + 2) % 5)] \ B[y + ((n + 1) % 5)])

\* One half of the loop body: BC and D are the column parities and their mix, B the
\* rotated lanes row by row, then chi and the round constant.
Round(A, rc) ==
  LET C == [v \in 0..4 |-> Xor(Xor(Xor(Xor(A[v], A[v + 5]), A[v + 10]), A[v + 15]), A[v + 20])]
      D == [v \in 0..4 |-> Xor(C[(v + 4) % 5], ROL(C[(v + 1) % 5], 1))]
      B == [n \in Lanes |-> LET s == Rows[n \div 5 + 1][(n % 5) + 1]
                            IN  ROL(Xor(A[s[1]], D[s[1] % 5]), s[2])]
  IN  [n \in Lanes |-> IF n = 0 THEN Xor(ChiRow(B, 0), rc) ELSE ChiRow(B, n)]

----------------------------------------------------------------------------
\* FIPS 202: lane (x, y) is lane 5 y + x.
At(A, v, w) == A[5 * (w % 5) + (v % 5)]

Map(f(_, _)) == [n \in Lanes |-> f(n % 5, n \div 5)]

Column(A, v) == Xor(Xor(Xor(Xor(At(A, v, 0), At(A, v, 1)), At(A, v, 2)), At(A, v, 3)), At(A, v, 4))
Theta(A) == Map(LAMBDA v, w : Xor(At(A, v, w), Xor(Column(A, v + 4), ROL(Column(A, v + 1), 1))))

Walk[t \in 0..23] ==
  IF t = 0 THEN <<1, 0>>
  ELSE LET p == Walk[t - 1] IN <<p[2], (2 * p[1] + 3 * p[2]) % 5>>
Offset == [n \in Lanes |->
             IF n = 0 THEN 0
             ELSE LET t == CHOOSE t \in 0..23 : Walk[t] = <<n % 5, n \div 5>>
                  IN  (((t + 1) * (t + 2)) \div 2) % 64]
Rho(A) == [n \in Lanes |-> ROL(A[n], Offset[n])]

Pi(A)  == Map(LAMBDA v, w : At(A, v + 3 * w, v))
Chi(A) == Map(LAMBDA v, w : Xor(At(A, v, w), At(A, v + 2, w) \ At(A, v + 1, w)))

Lfsr[t \in 0..254] ==
  IF t = 0 THEN {0}
  ELSE LET s == {k + 1 : k \in Lfsr[t - 1]}
       IN  IF 8 \in s THEN Xor(s \ {8}, {0, 4, 5, 6}) ELSE s
Iota(A, n) ==
  [A EXCEPT ![0] = Xor(@, {2^j - 1 : j \in {j \in 0..6 : 0 \in Lfsr[(j + 7 * n) % 255]}})]

RefRound(A, n) == Iota(Chi(Pi(Rho(Theta(A)))), n)

----------------------------------------------------------------------------
Init ==
  \E s \in Starts :
    /\ build = s[1] /\ round = 0
    /\ lanes = s[2] /\ ref = s[2] /\ group = << >>

\* The loop does two rounds at a time, from A to E ...
EvenRound ==
  /\ build = "c" /\ round < NROUNDS /\ round % 2 = 0
  /\ lanes' = Round(lanes, KeccakF_RoundConstants[round + 1])
  /\ ref' = RefRound(ref, round)
  /\ round' = round + 1
  /\ UNCHANGED <<build, group>>

\* ... and from E to A.
OddRound ==
  /\ build = "c" /\ round % 2 = 1
  /\ lanes' = Round(lanes, KeccakF_RoundConstants[round + 1])
  /\ ref' = RefRound(ref, round)
  /\ round' = round + 1
  /\ UNCHANGED <<build, group>>

\* The loads and stores of the wrapper: <<first register, first lane, lanes>>, and
\* how many 64-bit elements a register has.
Transfers   == [vk256 |-> {<<0, 0, 25>>}, vk128 |-> {<<0, 0, 16>>, <<8, 16, 9>>}]
PerRegister == [vk256 |-> 4, vk128 |-> 2]

\* The element of the group v0 that holds lane n.
Element(n) ==
  LET t == CHOOSE t \in Transfers[build] : n \in t[2]..(t[2] + t[3] - 1)
  IN  t[1] * PerRegister[build] + (n - t[2])

Load ==
  /\ build \in DOMAIN Transfers /\ round = 0 /\ group = << >>
  /\ group' = [e \in 0..31 |-> UNION {lanes[n] : n \in {m \in Lanes : Element(m) = e}}]
  /\ UNCHANGED <<build, round, lanes, ref>>

\* vkeccak.vi permutes the first 25 elements of the group, here round by round.
Vkeccak ==
  /\ group # << >> /\ round < NROUNDS
  /\ LET after == RefRound(group, round)
     IN  group' = [e \in 0..31 |-> IF e \in Lanes THEN after[e] ELSE group[e]]
  /\ ref' = RefRound(ref, round)
  /\ round' = round + 1
  /\ UNCHANGED <<build, lanes>>

Store ==
  /\ group # << >> /\ round = NROUNDS
  /\ lanes' = [n \in Lanes |-> group[Element(n)]]
  /\ group' = << >>
  /\ UNCHANGED <<build, round, ref>>

Done == round = NROUNDS /\ group = << >> /\ UNCHANGED vars

Next == EvenRound \/ OddRound \/ Load \/ Vkeccak \/ Store \/ Done

Spec == Init /\ [][Next]_vars

----------------------------------------------------------------------------
\* Every round of the unrolled code, and the whole permutation behind the vector
\* instruction, is the one of FIPS 202.
IsKeccakP == group = << >> => lanes = ref
=============================================================================
