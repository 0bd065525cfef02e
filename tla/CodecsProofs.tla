---------------------------- MODULE CodecsProofs -----------------------------
(***************************************************************************)
(* What becomes bytes comes back, for every input and every size.          *)
(*                                                                         *)
(* Hints: the hint part of a signature has one encoding, which decoding    *)
(* returns and which keeps decoding within its buffers, for every number   *)
(* of polynomials, of coefficients and every omega.  First how the ones of *)
(* a hint vector are counted row by row, then that a finite set of numbers *)
(* has exactly one ascending list.  The inductive invariant says of the    *)
(* loop of pack_sig that the bytes written so far list the rows before i,  *)
(* of the loop of unpack_sig that the rows before i are what the bytes     *)
(* before k list.                                                          *)
(*                                                                         *)
(* Coefficients: a recipe is Aligned when each shift it makes leaves a bit *)
(* at its place in the bit string.  Every recipe is, so what is gathered   *)
(* by it is the same bit string cut into words of another length, and      *)
(* unpacking undoes packing.  The multiplications that stand for divisions *)
(* by q are exact where they are used.                                     *)
(*                                                                         *)
(* Noise: a field of a loaded word has as many ones as the bits at its     *)
(* place in the stream, by a shift that is one to one.                     *)
(***************************************************************************)
EXTENDS Codecs, FiniteSetTheorems, FunctionTheorems, WellFoundedInduction, TLAPS

----------------------------------------------------------------------------
\* A set of natural numbers that is not empty has a least element.
LEMMA LeastNat ==
  ASSUME NEW S \in SUBSET Nat, S # {}
  PROVE  \E m \in S : \A j \in S : m <= j
  <1>1. PICK m \in S : \A j \in S : ~(<<j, m>> \in OpToRel(<, Nat))
    BY WFMin, NatLessThanWellFounded
  <1>2. \A j \in S : ~(j < m)
    BY <1>1 DEF OpToRel
  <1> QED
    BY <1>2

\* Induction over the natural numbers, for a set instead of a predicate.
LEMMA NatSetInduction ==
  ASSUME NEW S \in SUBSET Nat, 0 \in S, \A n \in S : n + 1 \in S
  PROVE  S = Nat
  <1> SUFFICES ASSUME Nat \ S # {} PROVE FALSE
    OBVIOUS
  <1>1. PICK m \in Nat \ S : \A j \in Nat \ S : m <= j
    <2>1. Nat \ S \in SUBSET Nat
      OBVIOUS
    <2> QED
      BY <2>1, LeastNat
  <1>2. m # 0 /\ m - 1 \in Nat
    BY <1>1
  <1>3. m - 1 \in S
    BY <1>1, <1>2
  <1> QED
    BY <1>1, <1>3

----------------------------------------------------------------------------
\* Counting the ones of a hint vector.

\* The ones of the polynomials before p, and their number.
Before(v, p) == {e \in Ones(v) : e[1] < p}
Count(v, p) == Cardinality(Before(v, p))

\* There are finitely many ones.
LEMMA OnesFinite ==
  ASSUME NEW v
  PROVE  IsFiniteSet(Ones(v))
  <1>1. IsFiniteSet(Polys) /\ IsFiniteSet(Byte)
    BY HintAssumption, FS_Interval DEF Polys, Byte
  <1>2. IsFiniteSet(Polys \X Byte)
    BY <1>1, FS_Product
  <1>3. Ones(v) \in SUBSET (Polys \X Byte)
    BY DEF Ones
  <1> QED
    BY <1>2, <1>3, FS_Subset

\* The places of the ones of one polynomial are finitely many.
LEMMA RowFinite ==
  ASSUME NEW T \in SUBSET Byte
  PROVE  IsFiniteSet(T) /\ Cardinality(T) \in Nat
  <1>1. IsFiniteSet(Byte)
    BY HintAssumption, FS_Interval DEF Byte
  <1>2. IsFiniteSet(T)
    BY <1>1, FS_Subset
  <1> QED
    BY <1>2, FS_CardinalityType

\* The ones before p, and some places of p itself.
LEMMA CountPlus ==
  ASSUME NEW v \in Hints, NEW p \in Polys, NEW T \in SUBSET Byte
  PROVE  Cardinality(Before(v, p) \cup {<<p, u>> : u \in T}) = Count(v, p) + Cardinality(T)
  <1> DEFINE row == {<<p, u>> : u \in T}
             f == [u \in T |-> <<p, u>>]
  <1>1. IsFiniteSet(T) /\ Cardinality(T) \in Nat
    BY RowFinite
  <1>2. f \in Bijection(T, row)
    <2>1. f \in [T -> row]
      OBVIOUS
    <2>2. \A u, z \in T : f[u] = f[z] => u = z
      OBVIOUS
    <2>3. \A r \in row : \E u \in T : f[u] = r
      OBVIOUS
    <2> QED
      BY <2>1, <2>2, <2>3, Fun_IsBij
  <1>3. IsFiniteSet(row) /\ Cardinality(row) = Cardinality(T)
    BY <1>1, <1>2, FS_Bijection DEF ExistsBijection
  <1>4. IsFiniteSet(Before(v, p)) /\ Count(v, p) \in Nat
    <2>1. Before(v, p) \in SUBSET Ones(v)
      BY DEF Before
    <2>2. IsFiniteSet(Before(v, p))
      BY <2>1, OnesFinite, FS_Subset
    <2> QED
      BY <2>2, FS_CardinalityType DEF Count
  <1>5. Before(v, p) \cap row = {}
    <2> SUFFICES ASSUME NEW e \in Before(v, p), e \in row PROVE FALSE
      OBVIOUS
    <2>1. e[1] < p /\ e[1] = p
      BY DEF Before
    <2>2. p \in Int
      BY HintAssumption DEF Polys
    <2> QED
      BY <2>1, <2>2
  <1>6. Cardinality(Before(v, p) \cap row) = 0
    BY <1>5, FS_EmptySet
  <1> HIDE DEF row
  <1>7. Cardinality(Before(v, p) \cup row) =
          Cardinality(Before(v, p)) + Cardinality(row) - Cardinality(Before(v, p) \cap row)
    BY <1>3, <1>4, FS_Union
  <1> QED
    BY <1>1, <1>3, <1>4, <1>6, <1>7 DEF Count, row

\* The running counts that pack_sig writes.
LEMMA CountStep ==
  ASSUME NEW v \in Hints
  PROVE  /\ Count(v, 0) = 0
         /\ \A p \in Polys : Count(v, p + 1) = Count(v, p) + Cardinality(v[p])
         /\ Count(v, K) = Weight(v)
         /\ \A p \in Polys : Cardinality({e \in Ones(v) : e[1] <= p}) = Count(v, p + 1)
  <1>1. Count(v, 0) = 0
    <2>1. Before(v, 0) = {}
      BY HintAssumption DEF Before, Ones, Polys
    <2> QED
      BY <2>1, FS_EmptySet DEF Count
  <1>2. ASSUME NEW p \in Polys PROVE Count(v, p + 1) = Count(v, p) + Cardinality(v[p])
    <2>1. v[p] \in SUBSET Byte
      BY DEF Hints
    <2>2. Before(v, p + 1) = Before(v, p) \cup {<<p, u>> : u \in v[p]}
      <3>1. ASSUME NEW e \in Before(v, p + 1)
            PROVE  e \in Before(v, p) \cup {<<p, u>> : u \in v[p]}
        <4>1. e \in Polys \X Byte /\ e[2] \in v[e[1]] /\ e[1] < p + 1 /\ e \in Ones(v)
          BY DEF Before, Ones
        <4>2. e[1] \in Int /\ p \in Int
          BY <4>1, HintAssumption DEF Polys
        <4>3. CASE e[1] < p
          BY <4>1, <4>3 DEF Before
        <4>4. CASE e[1] = p
          <5>1. e = <<p, e[2]>> /\ e[2] \in v[p]
            BY <4>1, <4>4
          <5> QED
            BY <5>1
        <4> QED
          BY <4>1, <4>2, <4>3, <4>4
      <3>2. ASSUME NEW e \in Before(v, p) PROVE e \in Before(v, p + 1)
        BY HintAssumption DEF Before, Ones, Polys
      <3>3. ASSUME NEW u \in v[p] PROVE <<p, u>> \in Before(v, p + 1)
        BY <2>1, HintAssumption DEF Before, Ones, Polys
      <3> QED
        BY <3>1, <3>2, <3>3
    <2> QED
      BY <2>1, <2>2, CountPlus DEF Count
  <1>3. Count(v, K) = Weight(v)
    <2>1. Before(v, K) = Ones(v)
      BY HintAssumption DEF Before, Ones, Polys
    <2> QED
      BY <2>1 DEF Count, Weight
  <1>4. ASSUME NEW p \in Polys PROVE Cardinality({e \in Ones(v) : e[1] <= p}) = Count(v, p + 1)
    <2>1. {e \in Ones(v) : e[1] <= p} = Before(v, p + 1)
      BY HintAssumption DEF Before, Ones, Polys
    <2> QED
      BY <2>1 DEF Count
  <1> QED
    BY <1>1, <1>2, <1>3, <1>4

\* The counts do not decrease and end at the weight.
LEMMA CountMonotone ==
  ASSUME NEW v, NEW p \in 0..K, NEW q \in 0..K, p <= q
  PROVE  Count(v, p) \in Nat /\ Count(v, p) <= Count(v, q) /\ Count(v, q) <= Weight(v)
  <1>1. /\ Before(v, p) \in SUBSET Before(v, q)
        /\ Before(v, q) \in SUBSET Ones(v)
    BY HintAssumption DEF Before, Ones, Polys
  <1>2. IsFiniteSet(Ones(v)) /\ IsFiniteSet(Before(v, q)) /\ IsFiniteSet(Before(v, p))
    BY <1>1, OnesFinite, FS_Subset
  <1> QED
    BY <1>1, <1>2, FS_Subset, FS_CardinalityType DEF Count, Weight

\* The count before p looks at the polynomials before p only.
LEMMA CountAgrees ==
  ASSUME NEW v, NEW w, NEW p \in 0..K, \A q \in Polys : q < p => v[q] = w[q]
  PROVE  \A q \in 0..p : Count(v, q) = Count(w, q)
  <1> SUFFICES ASSUME NEW q \in 0..p PROVE Before(v, q) = Before(w, q)
    BY DEF Count
  <1> QED
    BY HintAssumption DEF Before, Ones, Polys

----------------------------------------------------------------------------
\* Bytes that list the places of one polynomial in ascending order.

\* f[lo], ..., f[hi-1] are the elements of S, each once and in order.
Lists(f, lo, hi, S) ==
  /\ \A u, z \in lo..(hi - 1) : u < z => f[u] < f[z]
  /\ {f[u] : u \in lo..(hi - 1)} = S

\* The number of listed places, and of those before one of them.
LEMMA ListsCount ==
  ASSUME NEW f, NEW lo \in Nat, NEW hi \in Nat, lo <= hi, NEW S \in SUBSET Nat,
         Lists(f, lo, hi, S)
  PROVE  Cardinality(S) = hi - lo
  <1> DEFINE D == lo..(hi - 1)
             g == [u \in D |-> f[u]]
  <1>1. \A u \in D : f[u] \in S
    BY DEF Lists
  <1>2. g \in [D -> S]
    BY <1>1
  <1>3. ASSUME NEW u \in D, NEW z \in D, g[u] = g[z] PROVE u = z
    <2>1. f[u] \in Nat /\ f[z] \in Nat /\ f[u] = f[z]
      BY <1>1, <1>3
    <2>2. ~(u < z) /\ ~(z < u)
      <3>1. (u < z => f[u] < f[z]) /\ (z < u => f[z] < f[u])
        BY DEF Lists
      <3> QED
        BY <2>1, <3>1
    <2> QED
      BY <2>2
  <1>4. ASSUME NEW w \in S PROVE \E u \in D : g[u] = w
    BY DEF Lists
  <1> HIDE DEF g
  <1>5. g \in Bijection(D, S)
    BY <1>2, <1>3, <1>4, Fun_IsBij
  <1>6. IsFiniteSet(D) /\ Cardinality(D) = hi - lo
    <2>1. hi - 1 \in Int /\ lo \in Int
      OBVIOUS
    <2>2. IsFiniteSet(D) /\ Cardinality(D) = IF lo > hi - 1 THEN 0 ELSE (hi - 1) - lo + 1
      BY <2>1, FS_Interval
    <2> QED
      BY <2>2
  <1> HIDE DEF D
  <1>7. Cardinality(S) = Cardinality(D)
    BY <1>5, <1>6, FS_Bijection DEF ExistsBijection
  <1> QED
    BY <1>6, <1>7

\* Place m of an ascending list is the number of elements below its entry.
LEMMA ListsBefore ==
  ASSUME NEW f, NEW lo \in Nat, NEW hi \in Nat, NEW S \in SUBSET Nat,
         Lists(f, lo, hi, S), NEW m \in lo..(hi - 1)
  PROVE  Cardinality({u \in S : u < f[m]}) = m - lo
  <1> DEFINE T == {u \in S : u < f[m]}
  <1>1. \A u \in lo..(hi - 1) : f[u] \in S /\ f[u] \in Nat
    BY DEF Lists
  <1>2. ASSUME NEW u \in lo..(m - 1) PROVE f[u] \in T
    BY <1>1 DEF Lists
  <1>3. ASSUME NEW w \in T PROVE \E u \in lo..(m - 1) : f[u] = w
    <2>1. PICK u \in lo..(hi - 1) : f[u] = w
      BY DEF Lists
    <2>2. f[u] < f[m] /\ f[u] \in Nat /\ f[m] \in Nat
      BY <1>1, <2>1
    <2>3. ~(m < u) /\ m # u
      <3>1. m < u => f[m] < f[u]
        BY DEF Lists
      <3> QED
        BY <2>2, <3>1
    <2> QED
      BY <2>1, <2>3
  <1>4. {f[u] : u \in lo..(m - 1)} = T
    BY <1>2, <1>3
  <1>5. Lists(f, lo, m, T)
    BY <1>4 DEF Lists
  <1> HIDE DEF T
  <1>6. T \in SUBSET Nat
    BY DEF T
  <1>7. m \in Nat /\ lo <= m
    OBVIOUS
  <1>8. Cardinality(T) = m - lo
    BY <1>5, <1>6, <1>7, ListsCount
  <1> QED
    BY <1>8 DEF T

\* Comparing neighbours, as unpack_sig does, is enough for the order.
LEMMA Neighbours ==
  ASSUME NEW f, NEW lo \in Nat, NEW hi \in Nat,
         \A u \in lo..(hi - 1) : f[u] \in Nat,
         \A u \in lo..(hi - 1) : u > lo => f[u - 1] < f[u]
  PROVE  \A u, z \in lo..(hi - 1) : u < z => f[u] < f[z]
  <1> DEFINE Good == {d \in Nat : \A u \in lo..(hi - 1) :
                        u + d + 1 \in lo..(hi - 1) => f[u] < f[u + d + 1]}
  <1>1. 0 \in Good
    <2> SUFFICES ASSUME NEW u \in lo..(hi - 1), u + 0 + 1 \in lo..(hi - 1)
                 PROVE  f[u] < f[u + 0 + 1]
      OBVIOUS
    <2>1. u + 0 + 1 > lo /\ (u + 0 + 1) - 1 = u
      OBVIOUS
    <2> QED
      BY <2>1
  <1>2. ASSUME NEW d \in Good PROVE d + 1 \in Good
    <2> SUFFICES ASSUME NEW u \in lo..(hi - 1), u + (d + 1) + 1 \in lo..(hi - 1)
                 PROVE  f[u] < f[u + (d + 1) + 1]
      OBVIOUS
    <2>1. d \in Nat /\ u + d + 1 \in lo..(hi - 1)
      OBVIOUS
    <2>2. f[u] < f[u + d + 1]
      BY <2>1
    <2> DEFINE w == u + (d + 1) + 1
    <2>3. w \in lo..(hi - 1) /\ w > lo /\ w - 1 = u + d + 1
      BY <2>1
    <2> HIDE DEF w, Good
    <2>4. f[w - 1] < f[w]
      BY <2>3
    <2>5. f[u] \in Nat /\ f[u + d + 1] \in Nat /\ f[w] \in Nat
      BY <2>1, <2>3
    <2>6. f[u + d + 1] < f[w]
      BY <2>3, <2>4
    <2>7. f[u] < f[w]
      BY <2>2, <2>5, <2>6
    <2> QED
      BY <2>7 DEF w
  <1> HIDE DEF Good
  <1>3. Good = Nat
    <2>1. Good \in SUBSET Nat
      BY DEF Good
    <2> QED
      BY <1>1, <1>2, <2>1, NatSetInduction
  <1> SUFFICES ASSUME NEW u \in lo..(hi - 1), NEW z \in lo..(hi - 1), u < z
               PROVE  f[u] < f[z]
    OBVIOUS
  <1>4. z - u - 1 \in Good /\ u + (z - u - 1) + 1 = z
    BY <1>3
  <1> QED
    BY <1>4 DEF Good

\* Every set of bytes can be listed.
LEMMA ListExists ==
  ASSUME NEW S \in SUBSET Byte
  PROVE  \E f \in [1..Cardinality(S) -> S] :
           \A u, z \in 1..Cardinality(S) : u < z => f[u] < f[z]
  <1> DEFINE Listed(T) == \E f \in [1..Cardinality(T) -> T] :
                            \A u, z \in 1..Cardinality(T) : u < z => f[u] < f[z]
             Good == {n \in Nat : n <= N => \A T \in SUBSET (0..(n - 1)) : Listed(T)}
  <1>1. 0 \in Good
    <2> SUFFICES ASSUME NEW T \in SUBSET (0..(0 - 1)) PROVE Listed(T)
      OBVIOUS
    <2>1. T = {} /\ Cardinality(T) = 0
      <3>1. T = {}
        OBVIOUS
      <3> QED
        BY <3>1, FS_EmptySet
    <2> DEFINE f == [u \in 1..0 |-> 0]
    <2>2. f \in [1..Cardinality(T) -> T] /\ 1..Cardinality(T) = {}
      BY <2>1
    <2> QED
      BY <2>2
  <1>2. ASSUME NEW n \in Good PROVE n + 1 \in Good
    <2> SUFFICES ASSUME n + 1 <= N, NEW T \in SUBSET (0..((n + 1) - 1)) PROVE Listed(T)
      OBVIOUS
    <2>1. n \in Nat /\ n <= N /\ N \in Nat
      BY HintAssumption
    <2> DEFINE R == T \ {n}
               c == Cardinality(R)
    <2>2. R \in SUBSET (0..(n - 1)) /\ R \in SUBSET Byte
      BY <2>1 DEF Byte
    <2>3. PICK g \in [1..c -> R] : \A u, z \in 1..c : u < z => g[u] < g[z]
      BY <2>1, <2>2
    <2>4. IsFiniteSet(R) /\ c \in Nat
      BY <2>2, RowFinite
    <2>5. CASE n \notin T
      <3>1. T = R
        BY <2>5
      <3> QED
        BY <2>3, <3>1
    <2>6. CASE n \in T
      <3>1. T = R \cup {n} /\ n \notin R
        BY <2>6
      <3> HIDE DEF R
      <3>2. Cardinality(T) = c + 1
        BY <2>4, <3>1, FS_AddElement
      <3> HIDE DEF c
      <3> DEFINE f == [u \in 1..(c + 1) |-> IF u = c + 1 THEN n ELSE g[u]]
      <3>3. f \in [1..(c + 1) -> T]
        <4>1. ASSUME NEW u \in 1..(c + 1) PROVE (IF u = c + 1 THEN n ELSE g[u]) \in T
          <5>1. u # c + 1 => u \in 1..c
            BY <2>4
          <5> QED
            BY <2>3, <3>1, <5>1
        <4> QED
          BY <4>1
      <3>4. ASSUME NEW u \in 1..(c + 1), NEW z \in 1..(c + 1), u < z PROVE f[u] < f[z]
        <4>1. u \in 1..c /\ f[u] = g[u] /\ g[u] \in R
          BY <2>3, <2>4, <3>4
        <4>2. CASE z = c + 1
          <5>1. f[z] = n /\ g[u] \in 0..(n - 1)
            BY <2>2, <4>1, <4>2
          <5> QED
            BY <2>1, <4>1, <5>1
        <4>3. CASE z # c + 1
          <5>1. z \in 1..c /\ f[z] = g[z]
            BY <2>4, <4>3
          <5> QED
            BY <2>3, <3>4, <4>1, <5>1
        <4> QED
          BY <4>2, <4>3
      <3> HIDE DEF f
      <3> QED
        BY <3>2, <3>3, <3>4
    <2> QED
      BY <2>5, <2>6
  <1> HIDE DEF Good
  <1>3. Good = Nat
    <2>1. Good \in SUBSET Nat
      BY DEF Good
    <2> QED
      BY <1>1, <1>2, <2>1, NatSetInduction
  <1>4. N \in Good /\ S \in SUBSET (0..(N - 1))
    BY <1>3, HintAssumption DEF Byte
  <1> QED
    BY <1>4, HintAssumption DEF Good

\* Ascending, which stands for the loop over j of pack_sig, lists its set.
LEMMA AscendingLists ==
  ASSUME NEW S \in SUBSET Byte
  PROVE  /\ Ascending(S) \in [1..Cardinality(S) -> S]
         /\ Len(Ascending(S)) = Cardinality(S)
         /\ Cardinality(S) \in Nat
         /\ Lists(Ascending(S), 1, Cardinality(S) + 1, S)
  <1> DEFINE n == Cardinality(S)
             f == Ascending(S)
  <1>1. IsFiniteSet(S) /\ n \in Nat
    BY RowFinite
  <1>2. f \in [1..n -> S] /\ \A u, z \in 1..n : u < z => f[u] < f[z]
    BY ListExists DEF Ascending
  <1> HIDE DEF n, f
  <1>3. Len(f) = n
    BY <1>1, <1>2
  <1>4. S \in SUBSET Nat
    BY HintAssumption DEF Byte
  <1>5. f \in Injection(1..n, S)
    <2>1. ASSUME NEW u \in 1..n, NEW z \in 1..n, f[u] = f[z] PROVE u = z
      <3>1. f[u] \in Nat /\ f[z] \in Nat
        BY <1>2, <1>4
      <3>2. ~(u < z) /\ ~(z < u)
        BY <1>2, <2>1, <3>1
      <3> QED
        BY <1>1, <3>2
    <2> QED
      BY <1>2, <2>1, Fun_IsInj
  <1>6. Cardinality(1..n) = n
    <2>1. Cardinality(1..n) = IF 1 > n THEN 0 ELSE n - 1 + 1
      BY <1>1, FS_Interval
    <2> QED
      BY <1>1, <2>1
  <1>7. f \in Surjection(1..n, S)
    BY <1>1, <1>5, <1>6, FS_Injection DEF n
  <1>8. \A w \in S : \E u \in 1..n : f[u] = w
    BY <1>7 DEF Surjection
  <1>9. (n + 1) - 1 = n
    BY <1>1
  <1>10. Lists(f, 1, n + 1, S)
    BY <1>2, <1>8, <1>9 DEF Lists
  <1> QED
    BY <1>1, <1>2, <1>3, <1>10 DEF n, f

----------------------------------------------------------------------------
\* The inductive invariant.

\* The bytes hold the first m polynomials of v.
Coded(v, m) ==
  \A p \in 0..(m - 1) : /\ sig[Omega + p] = Count(v, p + 1)
                        /\ Lists(sig, Count(v, p), Count(v, p + 1), v[p])

\* The index bytes from n on are zero.
ZeroFrom(n) == \A j \in n..(Omega - 1) : sig[j] = 0

\* A vector that is packed has at most Omega ones.
Given == given = << >> \/ \E v \in Hints : given = <<v>> /\ Weight(v) <= Omega

Packing ==
  pc = "pack" => /\ given # << >> /\ h = NoHints
                 /\ k = Count(given[1], i)
                 /\ Coded(given[1], i) /\ ZeroFrom(k)

\* What was decoded so far is what the bytes hold.
Unpacking ==
  pc \in {"unpack", "ok", "bad"} =>
    /\ k = Count(h, i) /\ Coded(h, i)
    /\ \A p \in Polys : p >= i => h[p] = {}

\* The bytes come from pack_sig: they hold the whole vector, and what was
\* decoded so far is its first part.
Sent ==
  pc \in {"unpack", "ok", "bad"} /\ given # << >> =>
    /\ pc # "bad"
    /\ Coded(given[1], K) /\ ZeroFrom(Weight(given[1]))
    /\ \A p \in Polys : p < i => h[p] = given[1][p]

Accepted == pc = "ok" => i = K /\ ZeroFrom(k)

HintInv ==
  /\ pc = "none" => given = << >>
  /\ pc # "none" => TypeOK /\ Given /\ Packing /\ Unpacking /\ Sent /\ Accepted

----------------------------------------------------------------------------
\* The steps of pack_sig.

\* Lists looks at the bytes from lo to hi only.
LEMMA ListsSame ==
  ASSUME NEW f, NEW g, NEW lo, NEW hi, NEW S, Lists(f, lo, hi, S),
         \A u \in lo..(hi - 1) : g[u] = f[u]
  PROVE  Lists(g, lo, hi, S)
  <1>1. \A u, z \in lo..(hi - 1) : u < z => g[u] < g[z]
    BY DEF Lists
  <1>2. {g[u] : u \in lo..(hi - 1)} = {f[u] : u \in lo..(hi - 1)}
    OBVIOUS
  <1> QED
    BY <1>1, <1>2 DEF Lists

\* A list copied to place lo.
LEMMA ListsMoved ==
  ASSUME NEW f, NEW g, NEW lo \in Nat, NEW n \in Nat, NEW S, Lists(f, 1, n + 1, S),
         \A u \in lo..(lo + n - 1) : g[u] = f[u - lo + 1]
  PROVE  Lists(g, lo, lo + n, S)
  <1>1. (n + 1) - 1 = n /\ (lo + n) - 1 = lo + n - 1
    OBVIOUS
  <1>2. ASSUME NEW u \in lo..(lo + n - 1), NEW z \in lo..(lo + n - 1), u < z
        PROVE  g[u] < g[z]
    <2>1. u - lo + 1 \in 1..n /\ z - lo + 1 \in 1..n /\ u - lo + 1 < z - lo + 1
      BY <1>2
    <2>2. f[u - lo + 1] < f[z - lo + 1]
      BY <1>1, <2>1 DEF Lists
    <2> QED
      BY <2>2
  <1>3. ASSUME NEW u \in lo..(lo + n - 1) PROVE g[u] \in S
    <2>1. u - lo + 1 \in 1..n
      OBVIOUS
    <2>2. f[u - lo + 1] \in S
      BY <1>1, <2>1 DEF Lists
    <2> QED
      BY <2>2
  <1>4. ASSUME NEW w \in S PROVE \E u \in lo..(lo + n - 1) : g[u] = w
    <2>1. PICK u \in 1..n : f[u] = w
      BY <1>1 DEF Lists
    <2>2. lo + u - 1 \in lo..(lo + n - 1) /\ (lo + u - 1) - lo + 1 = u
      OBVIOUS
    <2>3. g[lo + u - 1] = w
      BY <2>1, <2>2
    <2> QED
      BY <2>2, <2>3
  <1>5. {g[u] : u \in lo..(lo + n - 1)} = S
    BY <1>3, <1>4
  <1> QED
    BY <1>1, <1>2, <1>5 DEF Lists

\* pack_sig appends the places of a polynomial and its running count.
LEMMA PackStep ==
  ASSUME pc # "none", HintInv, PackPoly
  PROVE  HintInv'
  <1>1. /\ TypeOK /\ Given /\ given # << >> /\ h = NoHints /\ pc = "pack" /\ i < K
        /\ k = Count(given[1], i) /\ Coded(given[1], i) /\ ZeroFrom(k)
    BY DEF HintInv, Packing, PackPoly
  <1>2. PICK v \in Hints : given = <<v>> /\ Weight(v) <= Omega
    BY <1>1 DEF Given
  <1>3. /\ N \in Nat /\ K \in Nat /\ Omega \in Nat /\ Omega < N
        /\ i \in 0..K /\ i \in Polys /\ i + 1 \in 0..K /\ sig \in Sig
    BY <1>1, HintAssumption DEF TypeOK, Polys
  <1> DEFINE S == v[i]
             f == Ascending(S)
             n == Cardinality(S)
             D == 0..(Omega + K - 1)
  <1>4. S \in SUBSET Byte
    BY <1>3 DEF Hints
  <1>5. f \in [1..n -> S] /\ Len(f) = n /\ n \in Nat /\ Lists(f, 1, n + 1, S)
    BY <1>4, AscendingLists
  <1>6. /\ k = Count(v, i) /\ k + n = Count(v, i + 1) /\ k \in Nat /\ k + n <= Omega
        /\ \A p \in 0..i : Count(v, p) \in Nat /\ Count(v, p) <= k
    <2>1. k = Count(v, i)
      BY <1>1, <1>2
    <2>2. Count(v, i + 1) = Count(v, i) + n
      BY <1>3, CountStep
    <2>3. \A p \in 0..i : Count(v, p) \in Nat /\ Count(v, p) <= Count(v, i)
      BY <1>3, CountMonotone
    <2>4. Count(v, i + 1) \in Nat /\ Count(v, i + 1) <= Weight(v) /\ Weight(v) \in Nat
      <3>1. Count(v, i + 1) \in Nat /\ Count(v, i + 1) <= Weight(v)
        BY <1>3, CountMonotone
      <3>2. Weight(v) \in Nat
        BY OnesFinite, FS_CardinalityType DEF Weight
      <3> QED
        BY <3>1, <3>2
    <2> QED
      BY <1>2, <1>3, <1>5, <2>1, <2>2, <2>3, <2>4
  <1>7. /\ pc' = pc /\ given' = given /\ h' = h /\ i' = i + 1 /\ k' = k + n
        /\ sig' = [u \in D |-> IF u = Omega + i THEN k + n
                               ELSE IF u \in k..(k + n - 1) THEN f[u - k + 1]
                               ELSE sig[u]]
    BY <1>2, <1>3, <1>5 DEF PackPoly, Sig
  <1> HIDE DEF S, f, n
  <1>8. ASSUME NEW u \in D
        PROVE  sig'[u] = IF u = Omega + i THEN k + n
                         ELSE IF u \in k..(k + n - 1) THEN f[u - k + 1] ELSE sig[u]
    BY <1>7
  <1>9. sig' \in Sig
    <2>1. ASSUME NEW u \in D PROVE sig'[u] \in Byte
      <3>1. CASE u = Omega + i
        BY <1>3, <1>5, <1>6, <1>8, <3>1 DEF Byte
      <3>2. CASE u # Omega + i /\ u \in k..(k + n - 1)
        <4>1. u - k + 1 \in 1..n
          BY <1>5, <1>6, <3>2
        <4> QED
          BY <1>4, <1>5, <1>8, <3>2, <4>1
      <3>3. CASE u # Omega + i /\ u \notin k..(k + n - 1)
        BY <1>3, <1>8, <3>3 DEF Sig
      <3> QED
        BY <3>1, <3>2, <3>3
    <2> QED
      BY <1>7, <2>1 DEF Sig
  <1>10. TypeOK'
    <2>1. k' \in 0..Omega /\ i' \in 0..K /\ pc' = "pack" /\ h' \in Hints
      BY <1>1, <1>3, <1>5, <1>6, <1>7 DEF TypeOK
    <2> QED
      BY <1>9, <2>1 DEF TypeOK
  <1>11. ASSUME NEW p \in 0..i
         PROVE  sig'[Omega + p] = Count(v, p + 1) /\ Lists(sig', Count(v, p), Count(v, p + 1), v[p])
    <2>1. Omega + p \in D /\ p \in Nat
      BY <1>3
    <2>2. CASE p = i
      <3>1. sig'[Omega + p] = Count(v, p + 1)
        BY <1>6, <1>8, <2>1, <2>2
      <3>2. ASSUME NEW u \in k..(k + n - 1) PROVE sig'[u] = f[u - k + 1]
        <4>1. u \in D /\ u # Omega + i
          BY <1>3, <1>5, <1>6
        <4> QED
          BY <1>8, <4>1
      <3>3. Lists(sig', k, k + n, S)
        BY <1>5, <1>6, <3>2, ListsMoved
      <3> QED
        BY <1>6, <2>2, <3>1, <3>3 DEF S
    <2>3. CASE p < i
      <3>1. sig[Omega + p] = Count(v, p + 1) /\ Lists(sig, Count(v, p), Count(v, p + 1), v[p])
        BY <1>1, <1>2, <1>3, <2>1, <2>3 DEF Coded
      <3>2. Omega + p \notin k..(k + n - 1) /\ Omega + p # Omega + i
        BY <1>3, <1>5, <1>6, <2>1, <2>3
      <3>3. sig'[Omega + p] = sig[Omega + p]
        BY <1>8, <2>1, <3>2
      <3>4. Count(v, p) \in Nat /\ Count(v, p + 1) \in Nat /\ Count(v, p + 1) <= k
        <4>1. p + 1 \in 0..i
          BY <1>3, <2>1, <2>3
        <4> QED
          BY <1>6, <4>1
      <3>5. ASSUME NEW u \in Count(v, p)..(Count(v, p + 1) - 1) PROVE sig'[u] = sig[u]
        <4>1. u \in D /\ u # Omega + i /\ u \notin k..(k + n - 1)
          BY <1>3, <1>5, <1>6, <3>4
        <4> QED
          BY <1>8, <4>1
      <3>6. Lists(sig', Count(v, p), Count(v, p + 1), v[p])
        BY <3>1, <3>5, ListsSame
      <3> QED
        BY <3>1, <3>3, <3>6
    <2> QED
      BY <1>3, <2>2, <2>3
  <1>12. \A u \in (k + n)..(Omega - 1) : sig'[u] = 0
    <2> SUFFICES ASSUME NEW u \in (k + n)..(Omega - 1) PROVE sig'[u] = 0
      OBVIOUS
    <2>1. u \in D /\ u # Omega + i /\ u \notin k..(k + n - 1) /\ u \in k..(Omega - 1)
      BY <1>3, <1>5, <1>6
    <2> QED
      BY <1>1, <1>8, <2>1 DEF ZeroFrom
  <1>13. Packing'
    <2>1. i' - 1 = i /\ given'[1] = v /\ given' # << >>
      BY <1>2, <1>3, <1>7
    <2>2. Coded(given[1], i)'
      BY <1>11, <2>1 DEF Coded
    <2>3. k' = Count(given'[1], i')
      BY <1>6, <1>7, <2>1
    <2>4. ZeroFrom(k)'
      BY <1>7, <1>12 DEF ZeroFrom
    <2> QED
      BY <1>1, <1>7, <2>1, <2>2, <2>3, <2>4 DEF Packing, NoHints
  <1>14. Given' /\ Unpacking' /\ Sent' /\ Accepted'
    BY <1>1, <1>7 DEF Given, Unpacking, Sent, Accepted
  <1> QED
    BY <1>1, <1>7, <1>10, <1>13, <1>14 DEF HintInv

\* The packed bytes are handed over: they hold the whole vector.
LEMMA SendStep ==
  ASSUME pc # "none", HintInv, Send
  PROVE  HintInv'
  <1>1. /\ TypeOK /\ Given /\ given # << >> /\ h = NoHints /\ pc = "pack" /\ i = K
        /\ k = Count(given[1], i) /\ Coded(given[1], i) /\ ZeroFrom(k)
    BY DEF HintInv, Packing, Send
  <1>2. PICK v \in Hints : given = <<v>> /\ Weight(v) <= Omega
    BY <1>1 DEF Given
  <1>3. /\ pc' = "unpack" /\ given' = given /\ sig' = sig /\ h' = h /\ i' = 0 /\ k' = 0
    BY DEF Send
  <1>4. TypeOK'
    BY <1>1, <1>3, HintAssumption DEF TypeOK
  <1>5. NoHints \in Hints
    BY DEF NoHints, Hints
  <1>6. Unpacking'
    <2>1. Count(h', i') = 0
      BY <1>1, <1>3, <1>5, CountStep
    <2>2. 0..(i' - 1) = {}
      BY <1>3
    <2>3. Coded(h, i)'
      BY <2>2 DEF Coded
    <2>4. \A p \in Polys : h'[p] = {}
      BY <1>1, <1>3 DEF NoHints
    <2> QED
      BY <1>3, <2>1, <2>3, <2>4 DEF Unpacking
  <1>7. Sent'
    <2>1. ~\E p \in Polys : p < 0
      BY HintAssumption DEF Polys
    <2>2. k = Weight(v) /\ given[1] = v
      BY <1>1, <1>2, CountStep
    <2>3. Coded(given[1], K)'
      BY <1>1, <1>3 DEF Coded
    <2>4. ZeroFrom(Weight(given[1]))'
      BY <1>1, <1>3, <2>2 DEF ZeroFrom
    <2> QED
      BY <1>3, <2>1, <2>3, <2>4 DEF Sent
  <1>8. Given' /\ Packing' /\ Accepted'
    BY <1>1, <1>3 DEF Given, Packing, Accepted
  <1> QED
    BY <1>3, <1>4, <1>6, <1>7, <1>8 DEF HintInv

\* What unpack_sig finds when pack_sig wrote the bytes: the count and the
\* places of the next polynomial, in order.
LEMMA SentPoly ==
  ASSUME HintInv, pc = "unpack", given # << >>, i < K
  PROVE  /\ sig[Omega + i] \in k..Omega
         /\ Lists(sig, k, sig[Omega + i], given[1][i])
  <1>1. TypeOK /\ Given /\ Unpacking /\ Sent
    BY DEF HintInv
  <1>2. PICK v \in Hints : given = <<v>> /\ Weight(v) <= Omega
    BY <1>1 DEF Given
  <1>3. /\ k = Count(h, i) /\ Coded(v, K) /\ \A p \in Polys : p < i => h[p] = v[p]
    BY <1>1, <1>2 DEF Unpacking, Sent
  <1>4. i \in 0..K /\ i + 1 \in 0..K /\ i \in 0..(K - 1) /\ i \in 0..i /\ k \in Nat
    BY <1>1, HintAssumption DEF TypeOK
  <1>5. k = Count(v, i)
    BY <1>3, <1>4, CountAgrees
  <1>6. sig[Omega + i] = Count(v, i + 1) /\ Lists(sig, Count(v, i), Count(v, i + 1), v[i])
    BY <1>3, <1>4 DEF Coded
  <1>7. Count(v, i) <= Count(v, i + 1) /\ Count(v, i + 1) <= Weight(v) /\ Count(v, i + 1) \in Nat
    BY <1>4, CountMonotone
  <1>8. Weight(v) \in Nat
    BY OnesFinite, FS_CardinalityType DEF Weight
  <1> QED
    BY <1>2, <1>4, <1>5, <1>6, <1>7, <1>8, HintAssumption

\* unpack_sig decodes a polynomial or refuses the bytes.
LEMMA UnpackStep ==
  ASSUME pc # "none", HintInv, UnpackPoly
  PROVE  HintInv'
  <1> DEFINE n == sig[Omega + i]
  <1>1. TypeOK /\ Given /\ Unpacking /\ Sent /\ pc = "unpack" /\ i < K
    BY DEF HintInv, UnpackPoly
  <1>2. /\ N \in Nat /\ K \in Nat /\ Omega \in Nat /\ i \in 0..K /\ i \in Polys /\ i + 1 \in 0..K
        /\ k \in 0..Omega /\ sig \in Sig /\ h \in Hints
    BY <1>1, HintAssumption DEF TypeOK, Polys
  <1>3. n \in Nat
    BY <1>2, HintAssumption DEF Sig, Byte
  <1>4. given' = given /\ sig' = sig
    BY DEF UnpackPoly
  <1>5. CASE BadCount(n) \/ BadOrder(k, n)
    <2>1. pc' = "bad" /\ i' = i /\ k' = k /\ h' = h
      BY <1>5 DEF UnpackPoly
    <2>2. given = << >>
      <3> SUFFICES ASSUME given # << >> PROVE FALSE
        OBVIOUS
      <3>1. n \in k..Omega /\ Lists(sig, k, n, given[1][i])
        BY <1>1, SentPoly
      <3>2. ~BadCount(n)
        BY <1>2, <1>3, <3>1 DEF BadCount
      <3>3. PICK j \in k..(n - 1) : j > k /\ sig[j] <= sig[j - 1]
        BY <1>5, <3>2 DEF BadOrder
      <3>4. j - 1 \in k..(n - 1) /\ j - 1 < j /\ j \in 0..(Omega + K - 1) /\ j - 1 \in 0..(Omega + K - 1)
        BY <1>2, <1>3, <3>1, <3>3
      <3>5. sig[j - 1] < sig[j]
        BY <3>1, <3>3, <3>4 DEF Lists
      <3>6. sig[j] \in Int /\ sig[j - 1] \in Int
        BY <1>2, <3>4, HintAssumption DEF Sig, Byte
      <3> QED
        BY <3>3, <3>5, <3>6
    <2>3. TypeOK'
      BY <1>1, <1>4, <2>1 DEF TypeOK
    <2>4. Coded(h, i)'
      BY <1>1, <1>4, <2>1 DEF Unpacking, Coded
    <2>5. Unpacking'
      BY <1>1, <1>4, <2>1, <2>4 DEF Unpacking
    <2> QED
      BY <1>1, <1>4, <2>1, <2>2, <2>3, <2>5 DEF HintInv, Given, Packing, Sent, Accepted
  <1>6. CASE ~(BadCount(n) \/ BadOrder(k, n))
    <2> DEFINE T == {sig[j] : j \in k..(n - 1)}
    <2>1. pc' = pc /\ h' = [h EXCEPT ![i] = T] /\ k' = n /\ i' = i + 1
      BY <1>6 DEF UnpackPoly
    <2>2. n \in k..Omega
      BY <1>2, <1>3, <1>6 DEF BadCount
    <2>3. ASSUME NEW j \in k..(n - 1) PROVE sig[j] \in Byte
      <3>1. j \in 0..(Omega + K - 1)
        BY <1>2, <2>2
      <3> QED
        BY <1>2, <3>1 DEF Sig
    <2>4. T \in SUBSET Byte /\ T \in SUBSET Nat
      BY <2>3, HintAssumption DEF Byte
    <2>5. Lists(sig, k, n, T)
      <3>1. \A j \in k..(n - 1) : sig[j] \in Nat
        BY <2>3, HintAssumption DEF Byte
      <3>2. ASSUME NEW j \in k..(n - 1), j > k PROVE sig[j - 1] < sig[j]
        <4>1. j - 1 \in k..(n - 1)
          BY <1>2, <1>3, <3>2
        <4>2. ~(sig[j] <= sig[j - 1])
          BY <1>6, <3>2 DEF BadOrder
        <4> QED
          BY <3>1, <4>1, <4>2
      <3>3. \A u, z \in k..(n - 1) : u < z => sig[u] < sig[z]
        <4>1. k \in Nat
          BY <1>2
        <4> HIDE DEF n
        <4> QED
          BY <1>3, <3>1, <3>2, <4>1, Neighbours
      <3> QED
        BY <3>3 DEF Lists
    <2> HIDE DEF T, n
    <2>6. h' \in Hints /\ h'[i] = T /\ \A p \in Polys : p # i => h'[p] = h[p]
      BY <1>2, <2>1, <2>4 DEF Hints
    <2> DEFINE g == h'
    <2>7. \A q \in 0..i : Count(g, q) = Count(h, q)
      <3>1. \A p \in Polys : p < i => g[p] = h[p]
        BY <1>2, <2>6
      <3> HIDE DEF g
      <3> QED
        BY <1>2, <3>1, CountAgrees
    <2>8. Count(g, i) = k /\ Count(g, i + 1) = n
      <3>1. k \in Nat /\ k <= n
        BY <1>2, <1>3, <2>2
      <3>2. Cardinality(T) = n - k
        BY <1>3, <2>4, <2>5, <3>1, ListsCount
      <3>3. Count(g, i) = k
        BY <1>1, <1>2, <2>7 DEF Unpacking
      <3>4. Count(g, i + 1) = Count(g, i) + Cardinality(g[i])
        BY <1>2, <2>6, CountStep
      <3> QED
        BY <1>3, <2>6, <3>1, <3>2, <3>3, <3>4
    <2>9. TypeOK'
      BY <1>1, <1>2, <1>4, <2>1, <2>2, <2>6 DEF TypeOK
    <2>10. ASSUME NEW p \in 0..i
           PROVE  sig[Omega + p] = Count(g, p + 1) /\ Lists(sig, Count(g, p), Count(g, p + 1), g[p])
      <3>1. CASE p = i
        BY <2>5, <2>6, <2>8, <3>1 DEF n
      <3>2. CASE p # i
        <4>1. p \in 0..(i - 1) /\ p + 1 \in 0..i /\ p \in Polys
          BY <1>2, <3>2 DEF Polys
        <4>2. sig[Omega + p] = Count(h, p + 1) /\ Lists(sig, Count(h, p), Count(h, p + 1), h[p])
          BY <1>1, <4>1 DEF Unpacking, Coded
        <4>3. Count(g, p) = Count(h, p) /\ Count(g, p + 1) = Count(h, p + 1) /\ g[p] = h[p]
          BY <2>6, <2>7, <3>2, <4>1
        <4> QED
          BY <4>2, <4>3
      <3> QED
        BY <3>1, <3>2
    <2>11. Unpacking'
      <3>1. i' - 1 = i
        BY <1>2, <2>1
      <3>2. Coded(h, i)'
        BY <1>4, <2>10, <3>1 DEF Coded
      <3>3. k' = Count(h', i')
        BY <2>1, <2>8
      <3>4. ASSUME NEW p \in Polys, p >= i + 1 PROVE h'[p] = {}
        <4>1. p # i /\ p >= i
          BY <1>2, <3>4 DEF Polys
        <4> QED
          BY <1>1, <2>6, <4>1 DEF Unpacking
      <3> QED
        BY <1>1, <2>1, <3>2, <3>3, <3>4 DEF Unpacking
    <2>12. Sent'
      <3> SUFFICES ASSUME given # << >> PROVE Sent'
        BY <1>4 DEF Sent
      <3>1. Coded(given[1], K) /\ ZeroFrom(Weight(given[1])) /\ \A p \in Polys : p < i => h[p] = given[1][p]
        BY <1>1 DEF Sent
      <3>2. Lists(sig, k, n, given[1][i])
        BY <1>1, SentPoly DEF n
      <3>3. T = given[1][i]
        BY <2>5, <3>2 DEF Lists
      <3>4. ASSUME NEW p \in Polys, p < i + 1 PROVE h'[p] = given[1][p]
        <4>1. p = i \/ p < i
          BY <1>2, <3>4 DEF Polys
        <4>2. p < i => p # i
          BY <1>2
        <4> QED
          BY <2>6, <3>1, <3>3, <4>1, <4>2
      <3>5. Coded(given[1], K)' /\ ZeroFrom(Weight(given[1]))'
        BY <1>4, <3>1 DEF Coded, ZeroFrom
      <3> QED
        BY <1>1, <1>4, <2>1, <3>4, <3>5 DEF Sent
    <2> QED
      BY <1>1, <1>4, <2>1, <2>9, <2>11, <2>12 DEF HintInv, Given, Packing, Accepted
  <1> QED
    BY <1>5, <1>6

\* The end of unpack_sig: the index bytes that no polynomial used.
LEMMA EndStep ==
  ASSUME pc # "none", HintInv, UnpackEnd
  PROVE  HintInv'
  <1>1. TypeOK /\ Given /\ Unpacking /\ Sent /\ pc = "unpack" /\ i = K
    BY DEF HintInv, UnpackEnd
  <1>2. UNCHANGED <<given, sig, i, k, h>> /\ pc' = IF Extra THEN "bad" ELSE "ok"
    BY DEF UnpackEnd
  <1>3. ~Extra => ZeroFrom(k)
    BY DEF Extra, ZeroFrom
  <1>4. given # << >> => ~Extra
    <2> SUFFICES ASSUME given # << >> PROVE ~Extra
      OBVIOUS
    <2>1. PICK v \in Hints : given = <<v>> /\ Weight(v) <= Omega
      BY <1>1 DEF Given
    <2>2. /\ k = Count(h, K) /\ ZeroFrom(Weight(v)) /\ \A p \in Polys : p < K => h[p] = v[p]
      BY <1>1, <2>1 DEF Unpacking, Sent
    <2>3. K \in 0..K /\ K \in Nat
      BY HintAssumption
    <2>4. Count(h, K) = Count(v, K)
      BY <2>2, <2>3, CountAgrees
    <2>5. k = Weight(v)
      BY <2>2, <2>4, CountStep
    <2> QED
      BY <2>2, <2>5 DEF Extra, ZeroFrom
  <1>5. TypeOK' /\ Given' /\ Packing'
    BY <1>1, <1>2 DEF TypeOK, Given, Packing
  <1>6. Unpacking'
    <2>1. Coded(h, i)'
      BY <1>1, <1>2 DEF Unpacking, Coded
    <2> QED
      BY <1>1, <1>2, <2>1 DEF Unpacking
  <1>7. Sent'
    <2> SUFFICES ASSUME given # << >> PROVE Sent'
      BY <1>2 DEF Sent
    <2>1. Coded(given[1], K)' /\ ZeroFrom(Weight(given[1]))'
      BY <1>1, <1>2 DEF Sent, Coded, ZeroFrom
    <2> QED
      BY <1>1, <1>2, <1>4, <2>1 DEF Sent
  <1>8. Accepted'
    BY <1>1, <1>2, <1>3 DEF Accepted, ZeroFrom
  <1> QED
    BY <1>2, <1>5, <1>6, <1>7, <1>8 DEF HintInv

\* A step that leaves the hint codec alone.
LEMMA HintStutter ==
  ASSUME HintInv, UNCHANGED vars
  PROVE  HintInv'
  <1>1. UNCHANGED <<pc, given, sig, i, k, h>>
    BY DEF vars
  <1>2. \A v, m : Coded(v, m) => (\A p \in 0..(m - 1) :
                                   /\ sig'[Omega + p] = Count(v, p + 1)
                                   /\ Lists(sig', Count(v, p), Count(v, p + 1), v[p]))
    BY <1>1 DEF Coded
  <1>3. ASSUME pc # "none" PROVE (TypeOK /\ Given /\ Accepted)'
    BY <1>1, <1>3 DEF HintInv, TypeOK, Given, Accepted, ZeroFrom
  <1>4. ASSUME pc # "none" PROVE Packing'
    BY <1>1, <1>2, <1>4 DEF HintInv, Packing, Coded, ZeroFrom, NoHints
  <1>5. ASSUME pc # "none" PROVE Unpacking'
    BY <1>1, <1>2, <1>5 DEF HintInv, Unpacking, Coded
  <1>6. ASSUME pc # "none" PROVE Sent'
    BY <1>1, <1>2, <1>6 DEF HintInv, Sent, Coded, ZeroFrom
  <1> QED
    BY <1>1, <1>3, <1>4, <1>5, <1>6 DEF HintInv

\* Before the first step nothing is packed or decoded.
LEMMA InitHint == CodecsInit => HintInv
  <1> SUFFICES ASSUME CodecsInit PROVE HintInv
    OBVIOUS
  <1>1. CASE pc = "none" /\ given = << >>
    BY <1>1 DEF HintInv
  <1>2. CASE Init
    <2> USE HintAssumption
    <2>1. i = 0 /\ k = 0 /\ h = NoHints /\ pc \in {"pack", "unpack"}
      BY <1>2 DEF Init
    <2>2. NoHints \in Hints
      BY DEF NoHints, Hints
    <2>3. sig \in Sig
      <3>1. 0 \in Byte
        BY DEF Byte
      <3> QED
        BY <1>2, <3>1 DEF Init, Sig
    <2>4. TypeOK
      BY <2>1, <2>2, <2>3 DEF TypeOK
    <2>5. Given
      BY <1>2 DEF Init, Given
    <2>6. \A v : Coded(v, 0)
      BY DEF Coded
    <2>7. CASE pc = "pack"
      <3>1. PICK v \in Hints : given = <<v>>
        BY <1>2, <2>7 DEF Init
      <3>2. k = Count(v, i)
        BY <2>1, CountStep
      <3>3. ZeroFrom(k)
        BY <1>2, <2>1, <2>7 DEF Init, ZeroFrom
      <3> QED
        BY <2>1, <2>4, <2>5, <2>6, <2>7, <3>1, <3>2, <3>3
           DEF HintInv, Packing, Unpacking, Sent, Accepted
    <2>8. CASE pc = "unpack"
      <3>1. given = << >>
        BY <1>2, <2>8 DEF Init
      <3>2. k = Count(h, i)
        BY <2>1, <2>2, CountStep
      <3>3. \A p \in Polys : h[p] = {}
        BY <2>1 DEF NoHints
      <3> QED
        BY <2>1, <2>4, <2>5, <2>6, <2>8, <3>1, <3>2, <3>3
           DEF HintInv, Packing, Unpacking, Sent, Accepted
    <2> QED
      BY <2>1, <2>7, <2>8
  <1> QED
    BY <1>1, <1>2 DEF CodecsInit

\* The bytes that unpack_sig accepts are those that pack_sig writes.
LEMMA AcceptedIsCanonical ==
  ASSUME HintInv, pc = "ok"
  PROVE  Canonical(h)
  <1>1. TypeOK /\ k = Count(h, K) /\ Coded(h, K) /\ ZeroFrom(k)
    BY DEF HintInv, Unpacking, Accepted
  <1>2. h \in Hints /\ Count(h, K) = Weight(h) /\ K \in Nat
    BY <1>1, CountStep, HintAssumption DEF TypeOK
  <1>3. ASSUME NEW p \in Polys PROVE sig[Omega + p] = Cardinality({e \in Ones(h) : e[1] <= p})
    <2>1. sig[Omega + p] = Count(h, p + 1)
      BY <1>1, <1>2 DEF Coded, Polys
    <2> QED
      BY <1>2, <2>1, CountStep
  <1>4. ASSUME NEW p \in Polys, NEW j \in h[p]
        PROVE  sig[Cardinality({e \in Ones(h) : e[1] < p \/ (e[1] = p /\ e[2] < j)})] = j
    <2> DEFINE lo == Count(h, p)
               hi == Count(h, p + 1)
               T == {u \in h[p] : u < j}
    <2>1. h[p] \in SUBSET Byte /\ h[p] \in SUBSET Nat /\ T \in SUBSET Byte
      BY <1>2, HintAssumption DEF Hints, Byte
    <2>2. p \in 0..K /\ p + 1 \in 0..K /\ p \in Int
      BY <1>2 DEF Polys
    <2>3. Lists(sig, lo, hi, h[p]) /\ lo \in Nat /\ hi \in Nat
      BY <1>1, <1>2, <2>2, CountMonotone DEF Coded, Polys
    <2>4. PICK m \in lo..(hi - 1) : sig[m] = j
      BY <2>3 DEF Lists
    <2>5. {e \in Ones(h) : e[1] < p \/ (e[1] = p /\ e[2] < j)}
            = Before(h, p) \cup {<<p, u>> : u \in T}
      <3>1. ASSUME NEW e \in Ones(h), e[1] = p, e[2] < j
            PROVE  e \in {<<p, u>> : u \in T}
        <4>1. e = <<p, e[2]>> /\ e[2] \in T
          BY <3>1 DEF Ones
        <4> QED
          BY <4>1
      <3>2. ASSUME NEW u \in T
            PROVE  <<p, u>> \in Ones(h) /\ u < j
        BY <2>1 DEF Ones
      <3> QED
        BY <3>1, <3>2 DEF Before
    <2>6. Cardinality(T) = m - lo
      <3> HIDE DEF lo, hi
      <3>1. Cardinality({u \in h[p] : u < sig[m]}) = m - lo
        BY <2>1, <2>3, ListsBefore
      <3> QED
        BY <2>4, <3>1
    <2> HIDE DEF T
    <2>7. Cardinality(Before(h, p) \cup {<<p, u>> : u \in T}) = lo + Cardinality(T)
      BY <1>2, <2>1, CountPlus
    <2> HIDE DEF lo, hi
    <2>8. lo + Cardinality(T) = m
      BY <2>3, <2>6
    <2> QED
      BY <2>4, <2>5, <2>7, <2>8
  <1> QED
    BY <1>1, <1>2, <1>3, <1>4 DEF Canonical, ZeroFrom

----------------------------------------------------------------------------
\* The invariant holds in every reachable state.
THEOREM Invariance == CodecsSpec => []HintInv
  <1>1. HintInv /\ [CodecsNext]_codecVars => HintInv'
    <2> SUFFICES ASSUME HintInv, [CodecsNext]_codecVars PROVE HintInv'
      OBVIOUS
    <2>1. CASE pc # "none" /\ Next
      BY <2>1, PackStep, SendStep, UnpackStep, EndStep, HintStutter DEF Next, Done
    <2>2. CASE UNCHANGED vars
      BY <2>2, HintStutter
    <2> QED
      BY <2>1, <2>2 DEF CodecsNext, codecVars
  <1> QED
    BY <1>1, InitHint, PTL DEF CodecsSpec

\* Index bytes are written and read below Omega only, whatever bytes
\* unpack_sig is given, for every N, K and Omega.
THEOREM AlwaysInBounds == CodecsSpec => []HintsInBounds
  <1>1. HintInv => HintsInBounds
    BY DEF HintInv, HintsInBounds
  <1> QED
    BY <1>1, Invariance, PTL

\* unpack_sig accepts every hint vector that pack_sig wrote and gives it back.
THEOREM HintsReturn == CodecsSpec => []RoundTrip
  <1>1. ASSUME HintInv, given # << >> PROVE pc # "bad" /\ (pc = "ok" => h = given[1])
    <2>1. pc # "none" /\ TypeOK /\ Given /\ Sent /\ Accepted
      BY <1>1 DEF HintInv
    <2>2. PICK v \in Hints : given = <<v>>
      BY <1>1, <2>1 DEF Given
    <2>3. ASSUME pc = "ok" PROVE h = v
      <3>1. h \in Hints /\ i = K /\ \A p \in Polys : p < K => h[p] = v[p]
        BY <1>1, <2>1, <2>2, <2>3 DEF TypeOK, Sent, Accepted
      <3>2. \A p \in Polys : p < K
        BY HintAssumption DEF Polys
      <3> QED
        BY <3>1, <3>2 DEF Hints
    <2> QED
      BY <1>1, <2>1, <2>2, <2>3 DEF Sent
  <1>2. HintInv => RoundTrip
    BY <1>1 DEF RoundTrip
  <1> QED
    BY <1>2, Invariance, PTL

\* One hint vector has one encoding: bytes that unpack_sig accepts are the
\* bytes that pack_sig writes for the vector it decoded.
THEOREM EncodingIsUnique == CodecsSpec => []OneEncoding
  <1>1. HintInv => OneEncoding
    BY AcceptedIsCanonical DEF OneEncoding
  <1> QED
    BY <1>1, Invariance, PTL

----------------------------------------------------------------------------
\* Quotient and remainder are determined by the equation.
LEMMA DivModIs ==
  ASSUME NEW a \in Nat, NEW b \in Nat, b > 0, NEW q \in Nat, NEW m \in Nat, m < b, a = b * q + m
  PROVE  a \div b = q /\ a % b = m
  <1> DEFINE d == a \div b
             e == a % b
  <1>1. d \in Int /\ e \in Int /\ e >= 0 /\ e < b /\ a = b * d + e
    OBVIOUS
  <1> HIDE DEF d, e
  <1>2. b * (d - q) = m - e
    BY <1>1
  <1>3. ASSUME d - q >= 1 PROVE FALSE
    <2>1. b * (d - q) >= b
      BY <1>1, <1>3
    <2> QED
      BY <1>1, <1>2, <2>1
  <1>4. ASSUME d - q <= -1 PROVE FALSE
    <2>1. b * (d - q) <= -b
      BY <1>1, <1>4
    <2> QED
      BY <1>1, <1>2, <2>1
  <1>5. d = q
    BY <1>1, <1>3, <1>4
  <1> QED
    BY <1>1, <1>5 DEF d, e

\* What the division of natural numbers leaves.
LEMMA DivModOf ==
  ASSUME NEW a \in Nat, NEW b \in Nat, b > 0
  PROVE  a \div b \in Nat /\ a % b \in 0..(b - 1) /\ a = b * (a \div b) + (a % b)
  <1>1. a \div b \in Int /\ a % b \in 0..(b - 1) /\ a = b * (a \div b) + (a % b)
    OBVIOUS
  <1>2. ASSUME a \div b < 0 PROVE FALSE
    <2>1. b * (a \div b) <= -b
      BY <1>1, <1>2
    <2> QED
      BY <1>1, <2>1
  <1> QED
    BY <1>1, <1>2

\* Bit a of word n among words of "to" bits is bit a + s of word u + v among words of
\* "from" bits.
LEMMA PlaceIs ==
  ASSUME NEW from \in Nat, NEW to \in Nat, from > 0, NEW n \in Nat, NEW m \in Nat,
         NEW u \in Nat, NEW v \in Nat, NEW s \in Int, NEW a \in Nat,
         to * n = from * u + to * m, from * v + s = to * m, a + s >= 0, a + s < from
  PROVE  (to * n + a) \div from = u + v /\ (to * n + a) % from = a + s
  <1>1. from * (u + v) = from * u + from * v
    OBVIOUS
  <1> DEFINE p == from * u
             q == from * v
             w == to * m
             z == to * n
  <1>2. p \in Int /\ q \in Int /\ w \in Int /\ z \in Nat
    OBVIOUS
  <1>3. z = p + w /\ q + s = w
    OBVIOUS
  <1>4. z + a = (p + q) + (a + s)
    <2> HIDE DEF p, q, w, z
    <2> QED
      BY <1>2, <1>3
  <1>5. to * n + a = from * (u + v) + (a + s)
    BY <1>1, <1>4
  <1>6. to * n + a \in Nat /\ u + v \in Nat /\ a + s \in Nat
    BY <1>2
  <1> QED
    BY <1>5, <1>6, DivModIs

\* The word such a bit is taken from is one of those there are.
LEMMA PlaceBelow ==
  ASSUME NEW from \in Nat, NEW to \in Nat, from > 0, NEW n \in Nat, NEW a \in Nat, a < to,
         NEW size \in Nat, to * (n + 1) <= from * size
  PROVE  (to * n + a) \div from \in 0..(size - 1)
  <1> DEFINE p == to * n + a
             d == p \div from
             e == p % from
  <1>1. p \in Nat /\ p < to * n + to
    OBVIOUS
  <1>2. to * n + to = to * (n + 1)
    OBVIOUS
  <1>3. d \in Nat /\ e \in Nat /\ p = from * d + e
    <2> HIDE DEF p
    <2> QED
      BY <1>1
  <1>4. from * d < from * size
    <2> DEFINE f == from * d
               g == from * size
               w == to * (n + 1)
    <2>1. f \in Int /\ g \in Int /\ w \in Int /\ p < w /\ w <= g /\ p = f + e
      BY <1>1, <1>2, <1>3
    <2> HIDE DEF f, g, w, p, e, d
    <2>2. f < g
      BY <1>1, <1>3, <2>1
    <2> QED
      BY <2>2 DEF f, g
  <1> HIDE DEF d
  <1>5. ASSUME d >= size PROVE FALSE
    <2>1. from * d >= from * size
      BY <1>3, <1>5
    <2> QED
      BY <1>3, <1>4, <2>1
  <1> QED
    BY <1>3, <1>5 DEF d

\* Entry m of a recipe fills a word of "to" bits from words of "from" bits: what it takes
\* stands at the same place of the bit string, something is taken of each, and
\* every bit of the new word is in one of them.
Entry(s, m, from, to) ==
  /\ \A t \in s : /\ t[1] \in Nat /\ t[2] \in Int /\ from * t[1] + t[2] = to * m
                  /\ \E a \in 0..(to - 1) : a + t[2] \in 0..(from - 1)
  /\ \A a \in 0..(to - 1) : \E t \in s : a + t[2] \in 0..(from - 1)

Aligned(recipe, from, to) ==
  /\ Len(recipe) \in Nat /\ Len(recipe) > 0
  /\ \A m \in 0..(Len(recipe) - 1) : Entry(recipe[m + 1], m, from, to)

\* Where a bit of word n comes from.
LEMMA GatherIs ==
  ASSUME NEW recipe, NEW from \in Nat, NEW to \in Nat, from > 0, to > 0, Aligned(recipe, from, to),
         NEW per \in Nat, from * per = to * Len(recipe),
         NEW size \in Nat, NEW words, \A c \in 0..(size - 1) : words[c] \subseteq 0..(from - 1),
         NEW n \in Nat, to * (n + 1) <= from * size,
         NEW a \in 0..(to - 1)
  PROVE  a \in Poly!Gather(recipe, per, words, n)
           <=> (to * n + a) % from \in words[(to * n + a) \div from]
  <1> DEFINE len == Len(recipe)
             g == n \div len
             m == n % len
             first == g * per
  <1>1. len \in Nat /\ len > 0
    BY DEF Aligned
  <1>2. g \in Nat /\ m \in 0..(len - 1) /\ n = len * g + m
    <2> HIDE DEF len
    <2> QED
      BY <1>1, DivModOf
  <1>3. Entry(recipe[m + 1], m, from, to)
    <2> HIDE DEF m
    <2> QED
      BY <1>2 DEF Aligned
  <1>4. Poly!Gather(recipe, per, words, n) =
          UNION {Poly!Shift(words[first + t[1]], t[2]) : t \in recipe[m + 1]}
    BY DEF Poly!Gather
  <1>5. first \in Nat
    <2> HIDE DEF g
    <2> QED
      BY <1>2
  <1>6. to * n = from * first + to * m
    <2> HIDE DEF g, m, len
    <2>1. to * n = (to * len) * g + to * m
      BY <1>1, <1>2
    <2>2. (from * per) * g = from * first
      BY <1>2
    <2>3. from * per = to * len
      BY DEF len
    <2> QED
      BY <2>1, <2>2, <2>3
  <1> HIDE DEF len, g, m, first
  <1>7. m \in Nat
    BY <1>1, <1>2
  <1>8. \A t \in recipe[m + 1] : t[1] \in Nat /\ t[2] \in Int /\ from * t[1] + t[2] = to * m
    BY <1>3 DEF Entry
  <1>9. ASSUME NEW t \in recipe[m + 1], NEW b \in 0..(to - 1), b + t[2] \in 0..(from - 1)
        PROVE  (to * n + b) \div from = first + t[1] /\ (to * n + b) % from = b + t[2]
    <2>1. b \in Nat /\ b + t[2] >= 0 /\ b + t[2] < from /\ t[1] \in Nat /\ t[2] \in Int
      BY <1>8, <1>9
    <2>2. from * t[1] + t[2] = to * m
      BY <1>8
    <2> DEFINE v == t[1]
               s == t[2]
    <2>3. b \in Nat /\ b + s >= 0 /\ b + s < from /\ v \in Nat /\ s \in Int /\ from * v + s = to * m
      BY <2>1, <2>2
    <2> HIDE DEF v, s
    <2>4. (to * n + b) \div from = first + v /\ (to * n + b) % from = b + s
      BY <1>5, <1>6, <1>7, <2>3, PlaceIs
    <2> QED
      BY <2>4 DEF v, s
  <1>10. ASSUME NEW t \in recipe[m + 1] PROVE words[first + t[1]] \subseteq 0..(from - 1)
    <2>1. PICK b \in 0..(to - 1) : b + t[2] \in 0..(from - 1)
      BY <1>3 DEF Entry
    <2>2. (to * n + b) \div from = first + t[1]
      BY <1>9, <2>1
    <2>3. (to * n + b) \div from \in 0..(size - 1)
      BY PlaceBelow
    <2> QED
      BY <2>2, <2>3
  <1>11. ASSUME a \in Poly!Gather(recipe, per, words, n)
        PROVE  (to * n + a) % from \in words[(to * n + a) \div from]
    <2>1. PICK t \in recipe[m + 1] : a \in Poly!Shift(words[first + t[1]], t[2])
      BY <1>4, <1>11
    <2>2. PICK j \in words[first + t[1]] : j >= t[2] /\ a = j - t[2]
      BY <2>1 DEF Poly!Shift
    <2>3. j \in 0..(from - 1)
      BY <1>10, <2>2
    <2>4. a + t[2] = j
      BY <1>8, <2>2, <2>3
    <2>5. a + t[2] \in 0..(from - 1)
      BY <2>3, <2>4
    <2> QED
      BY <1>9, <2>2, <2>4, <2>5
  <1>12. ASSUME (to * n + a) % from \in words[(to * n + a) \div from]
        PROVE  a \in Poly!Gather(recipe, per, words, n)
    <2>1. PICK t \in recipe[m + 1] : a + t[2] \in 0..(from - 1)
      BY <1>3 DEF Entry
    <2>2. a + t[2] \in words[first + t[1]]
      BY <1>9, <1>12, <2>1
    <2>3. a = (a + t[2]) - t[2] /\ a + t[2] >= t[2]
      BY <1>8
    <2>4. a \in Poly!Shift(words[first + t[1]], t[2])
      BY <2>2, <2>3 DEF Poly!Shift
    <2> QED
      BY <1>4, <2>4
  <1> QED
    BY <1>11, <1>12

----------------------------------------------------------------------------
One(u, s, m, from, to) ==
  /\ u \in Nat /\ s \in Int /\ m \in Nat
  /\ from \in Nat /\ from > 0 /\ to \in Nat /\ to > 0
  /\ from * u + s = to * m
  /\ s >= 0 /\ s < from /\ s + to > 0 /\ s + to <= from

\* A word that is filled from a single word.
LEMMA EntryOne ==
  ASSUME NEW u, NEW s, NEW m, NEW from, NEW to,
         One(u, s, m, from, to)
  PROVE  Entry({<<u, s>>}, m, from, to)
  <1> DEFINE e == {<<u, s>>}
  <1> USE DEF One
  <1>1. \A a \in 0..(to - 1) : a + s \in 0..(from - 1)
    OBVIOUS
  <1>2. /\ 0 \in 0..(to - 1) /\ (0) + s \in 0..(from - 1)
    OBVIOUS
  <1>3. <<u, s>>[1] = u /\ <<u, s>>[2] = s
    OBVIOUS
  <1>4. \A t \in e : (t[1] = u /\ t[2] = s)
    BY <1>3
  <1>5. (\E t \in e : t[2] = s)
    BY <1>3
  <1> HIDE DEF e
  <1>6. ASSUME NEW t \in e
        PROVE  /\ t[1] \in Nat /\ t[2] \in Int /\ from * t[1] + t[2] = to * m
               /\ \E a \in 0..(to - 1) : a + t[2] \in 0..(from - 1)
    BY <1>2, <1>4
  <1>7. ASSUME NEW a \in 0..(to - 1) PROVE \E t \in e : a + t[2] \in 0..(from - 1)
    BY <1>1, <1>5
  <1> QED
    BY <1>6, <1>7 DEF Entry, e

Two(u, s, v, z, m, from, to) ==
  /\ u \in Nat /\ s \in Int /\ v \in Nat /\ z \in Int /\ m \in Nat
  /\ from \in Nat /\ from > 0 /\ to \in Nat /\ to > 0
  /\ from * u + s = to * m /\ from * v + z = to * m
  /\ s >= 0 /\ s < from /\ z = s - from /\ z + to > 0 /\ z + to <= from

\* A word that is filled from two words, the lower bits from the first.
LEMMA EntryTwo ==
  ASSUME NEW u, NEW s, NEW v, NEW z, NEW m, NEW from, NEW to,
         Two(u, s, v, z, m, from, to)
  PROVE  Entry({<<u, s>>, <<v, z>>}, m, from, to)
  <1> DEFINE e == {<<u, s>>, <<v, z>>}
  <1> USE DEF Two
  <1>1. \A a \in 0..(to - 1) : a + s \in 0..(from - 1) \/ a + z \in 0..(from - 1)
    OBVIOUS
  <1>2. /\ 0 \in 0..(to - 1) /\ (0) + s \in 0..(from - 1)
        /\ to - 1 \in 0..(to - 1) /\ (to - 1) + z \in 0..(from - 1)
    OBVIOUS
  <1>3. <<u, s>>[1] = u /\ <<u, s>>[2] = s /\ <<v, z>>[1] = v /\ <<v, z>>[2] = z
    OBVIOUS
  <1>4. \A t \in e : (t[1] = u /\ t[2] = s) \/ (t[1] = v /\ t[2] = z)
    BY <1>3
  <1>5. (\E t \in e : t[2] = s) /\ (\E t \in e : t[2] = z)
    BY <1>3
  <1> HIDE DEF e
  <1>6. ASSUME NEW t \in e
        PROVE  /\ t[1] \in Nat /\ t[2] \in Int /\ from * t[1] + t[2] = to * m
               /\ \E a \in 0..(to - 1) : a + t[2] \in 0..(from - 1)
    BY <1>2, <1>4
  <1>7. ASSUME NEW a \in 0..(to - 1) PROVE \E t \in e : a + t[2] \in 0..(from - 1)
    BY <1>1, <1>5
  <1> QED
    BY <1>6, <1>7 DEF Entry, e

Three(u, s, v, z, w, q, m, from, to) ==
  /\ u \in Nat /\ s \in Int /\ v \in Nat /\ z \in Int /\ w \in Nat /\ q \in Int /\ m \in Nat
  /\ from \in Nat /\ from > 0 /\ to \in Nat /\ to > 0
  /\ from * u + s = to * m /\ from * v + z = to * m /\ from * w + q = to * m
  /\ s >= 0 /\ s < from /\ z = s - from /\ q = z - from /\ q + to > 0 /\ q + to <= from

\* A word that is filled from three words.
LEMMA EntryThree ==
  ASSUME NEW u, NEW s, NEW v, NEW z, NEW w, NEW q, NEW m, NEW from, NEW to,
         Three(u, s, v, z, w, q, m, from, to)
  PROVE  Entry({<<u, s>>, <<v, z>>, <<w, q>>}, m, from, to)
  <1> DEFINE e == {<<u, s>>, <<v, z>>, <<w, q>>}
  <1> USE DEF Three
  <1>1. \A a \in 0..(to - 1) : a + s \in 0..(from - 1) \/ a + z \in 0..(from - 1) \/ a + q \in 0..(from - 1)
    OBVIOUS
  <1>2. /\ 0 \in 0..(to - 1) /\ (0) + s \in 0..(from - 1)
        /\ -z \in 0..(to - 1) /\ (-z) + z \in 0..(from - 1)
        /\ to - 1 \in 0..(to - 1) /\ (to - 1) + q \in 0..(from - 1)
    OBVIOUS
  <1>3. <<u, s>>[1] = u /\ <<u, s>>[2] = s /\ <<v, z>>[1] = v /\ <<v, z>>[2] = z /\ <<w, q>>[1] = w
            /\ <<w, q>>[2] = q
    OBVIOUS
  <1>4. \A t \in e : (t[1] = u /\ t[2] = s) \/ (t[1] = v /\ t[2] = z) \/ (t[1] = w /\ t[2] = q)
    BY <1>3
  <1>5. (\E t \in e : t[2] = s) /\ (\E t \in e : t[2] = z) /\ (\E t \in e : t[2] = q)
    BY <1>3
  <1> HIDE DEF e
  <1>6. ASSUME NEW t \in e
        PROVE  /\ t[1] \in Nat /\ t[2] \in Int /\ from * t[1] + t[2] = to * m
               /\ \E a \in 0..(to - 1) : a + t[2] \in 0..(from - 1)
    BY <1>2, <1>4
  <1>7. ASSUME NEW a \in 0..(to - 1) PROVE \E t \in e : a + t[2] \in 0..(from - 1)
    BY <1>1, <1>5
  <1> QED
    BY <1>6, <1>7 DEF Entry, e

Four(u, s, v, z, w, q, p, r, m, from, to) ==
  /\ u \in Nat /\ s \in Int /\ v \in Nat /\ z \in Int /\ w \in Nat /\ q \in Int /\ p \in Nat
            /\ r \in Int /\ m \in Nat
  /\ from \in Nat /\ from > 0 /\ to \in Nat /\ to > 0
  /\ from * u + s = to * m /\ from * v + z = to * m /\ from * w + q = to * m /\ from * p + r = to * m
  /\ s >= 0 /\ s < from /\ z = s - from /\ q = z - from /\ r = q - from /\ r + to > 0 /\ r + to <= from

\* A byte that is filled from four words.
LEMMA EntryFour ==
  ASSUME NEW u, NEW s, NEW v, NEW z, NEW w, NEW q, NEW p, NEW r, NEW m, NEW from, NEW to,
         Four(u, s, v, z, w, q, p, r, m, from, to)
  PROVE  Entry({<<u, s>>, <<v, z>>, <<w, q>>, <<p, r>>}, m, from, to)
  <1> DEFINE e == {<<u, s>>, <<v, z>>, <<w, q>>, <<p, r>>}
  <1> USE DEF Four
  <1>1. \A a \in 0..(to - 1) : \/ a + s \in 0..(from - 1) \/ a + z \in 0..(from - 1)
                                \/ a + q \in 0..(from - 1) \/ a + r \in 0..(from - 1)
    OBVIOUS
  <1>2. /\ 0 \in 0..(to - 1) /\ (0) + s \in 0..(from - 1)
        /\ -z \in 0..(to - 1) /\ (-z) + z \in 0..(from - 1)
        /\ -q \in 0..(to - 1) /\ (-q) + q \in 0..(from - 1)
        /\ to - 1 \in 0..(to - 1) /\ (to - 1) + r \in 0..(from - 1)
    OBVIOUS
  <1>3. <<u, s>>[1] = u /\ <<u, s>>[2] = s /\ <<v, z>>[1] = v /\ <<v, z>>[2] = z /\ <<w, q>>[1] = w
            /\ <<w, q>>[2] = q /\ <<p, r>>[1] = p /\ <<p, r>>[2] = r
    OBVIOUS
  <1>4. \A t \in e : (t[1] = u /\ t[2] = s) \/ (t[1] = v /\ t[2] = z) \/ (t[1] = w
            /\ t[2] = q) \/ (t[1] = p /\ t[2] = r)
    BY <1>3
  <1>5. (\E t \in e : t[2] = s) /\ (\E t \in e : t[2] = z) /\ (\E t \in e : t[2] = q)
            /\ (\E t \in e : t[2] = r)
    BY <1>3
  <1> HIDE DEF e
  <1>6. ASSUME NEW t \in e
        PROVE  /\ t[1] \in Nat /\ t[2] \in Int /\ from * t[1] + t[2] = to * m
               /\ \E a \in 0..(to - 1) : a + t[2] \in 0..(from - 1)
    BY <1>2, <1>4
  <1>7. ASSUME NEW a \in 0..(to - 1) PROVE \E t \in e : a + t[2] \in 0..(from - 1)
    BY <1>1, <1>5
  <1> QED
    BY <1>6, <1>7 DEF Entry, e

\* poly_compress_4: words of 8 bits from words of 4 bits.
LEMMA PolyCompress4 == Aligned(Poly!poly_compress_4, 4, 8) /\ Len(Poly!poly_compress_4) = 4
  <1> DEFINE r == Poly!poly_compress_4
  <1>1. /\ Two(0, 0, 1, -4, 0, 4, 8) /\ Two(2, 0, 3, -4, 1, 4, 8) /\ Two(4, 0, 5, -4, 2, 4, 8)
        /\ Two(6, 0, 7, -4, 3, 4, 8)
    BY DEF Two
  <1>2. /\ Entry({<<0, 0>>, <<1, -4>>}, 0, 4, 8) /\ Entry({<<2, 0>>, <<3, -4>>}, 1, 4, 8)
        /\ Entry({<<4, 0>>, <<5, -4>>}, 2, 4, 8) /\ Entry({<<6, 0>>, <<7, -4>>}, 3, 4, 8)
    BY <1>1, EntryTwo
  <1>3. /\ Len(r) = 4 /\ Entry(r[1], 0, 4, 8) /\ Entry(r[2], 1, 4, 8) /\ Entry(r[3], 2, 4, 8)
        /\ Entry(r[4], 3, 4, 8)
    BY <1>2 DEF Poly!poly_compress_4
  <1> HIDE DEF r
  <1>4. Aligned(r, 4, 8)
    BY <1>3 DEF Aligned
  <1> QED
    BY <1>3, <1>4 DEF r

\* poly_decompress_4: words of 4 bits from words of 8 bits.
LEMMA PolyDecompress4 == Aligned(Poly!poly_decompress_4, 8, 4) /\ Len(Poly!poly_decompress_4) = 2
  <1> DEFINE r == Poly!poly_decompress_4
  <1>1. One(0, 0, 0, 8, 4) /\ One(0, 4, 1, 8, 4)
    BY DEF One
  <1>2. Entry({<<0, 0>>}, 0, 8, 4) /\ Entry({<<0, 4>>}, 1, 8, 4)
    BY <1>1, EntryOne
  <1>3. Len(r) = 2 /\ Entry(r[1], 0, 8, 4) /\ Entry(r[2], 1, 8, 4)
    BY <1>2 DEF Poly!poly_decompress_4
  <1> HIDE DEF r
  <1>4. Aligned(r, 8, 4)
    BY <1>3 DEF Aligned
  <1> QED
    BY <1>3, <1>4 DEF r

\* poly_compress_5: words of 8 bits from words of 5 bits.
LEMMA PolyCompress5 == Aligned(Poly!poly_compress_5, 5, 8) /\ Len(Poly!poly_compress_5) = 5
  <1> DEFINE r == Poly!poly_compress_5
  <1>1. /\ Two(0, 0, 1, -5, 0, 5, 8) /\ Three(1, 3, 2, -2, 3, -7, 1, 5, 8)
        /\ Two(3, 1, 4, -4, 2, 5, 8) /\ Three(4, 4, 5, -1, 6, -6, 3, 5, 8)
        /\ Two(6, 2, 7, -3, 4, 5, 8)
    BY DEF Two, Three
  <1>2. /\ Entry({<<0, 0>>, <<1, -5>>}, 0, 5, 8)
        /\ Entry({<<1, 3>>, <<2, -2>>, <<3, -7>>}, 1, 5, 8)
        /\ Entry({<<3, 1>>, <<4, -4>>}, 2, 5, 8)
        /\ Entry({<<4, 4>>, <<5, -1>>, <<6, -6>>}, 3, 5, 8)
        /\ Entry({<<6, 2>>, <<7, -3>>}, 4, 5, 8)
    BY <1>1, EntryTwo, EntryThree
  <1>3. /\ Len(r) = 5 /\ Entry(r[1], 0, 5, 8) /\ Entry(r[2], 1, 5, 8) /\ Entry(r[3], 2, 5, 8)
        /\ Entry(r[4], 3, 5, 8) /\ Entry(r[5], 4, 5, 8)
    BY <1>2 DEF Poly!poly_compress_5
  <1> HIDE DEF r
  <1>4. Aligned(r, 5, 8)
    BY <1>3 DEF Aligned
  <1> QED
    BY <1>3, <1>4 DEF r

\* poly_decompress_5: words of 5 bits from words of 8 bits.
LEMMA PolyDecompress5 == Aligned(Poly!poly_decompress_5, 8, 5) /\ Len(Poly!poly_decompress_5) = 8
  <1> DEFINE r == Poly!poly_decompress_5
  <1>1. /\ One(0, 0, 0, 8, 5) /\ Two(0, 5, 1, -3, 1, 8, 5) /\ One(1, 2, 2, 8, 5)
        /\ Two(1, 7, 2, -1, 3, 8, 5) /\ Two(2, 4, 3, -4, 4, 8, 5) /\ One(3, 1, 5, 8, 5)
        /\ Two(3, 6, 4, -2, 6, 8, 5) /\ One(4, 3, 7, 8, 5)
    BY DEF One, Two
  <1>2. /\ Entry({<<0, 0>>}, 0, 8, 5) /\ Entry({<<0, 5>>, <<1, -3>>}, 1, 8, 5)
        /\ Entry({<<1, 2>>}, 2, 8, 5) /\ Entry({<<1, 7>>, <<2, -1>>}, 3, 8, 5)
        /\ Entry({<<2, 4>>, <<3, -4>>}, 4, 8, 5) /\ Entry({<<3, 1>>}, 5, 8, 5)
        /\ Entry({<<3, 6>>, <<4, -2>>}, 6, 8, 5) /\ Entry({<<4, 3>>}, 7, 8, 5)
    BY <1>1, EntryOne, EntryTwo
  <1>3. /\ Len(r) = 8 /\ Entry(r[1], 0, 8, 5) /\ Entry(r[2], 1, 8, 5) /\ Entry(r[3], 2, 8, 5)
        /\ Entry(r[4], 3, 8, 5) /\ Entry(r[5], 4, 8, 5) /\ Entry(r[6], 5, 8, 5)
        /\ Entry(r[7], 6, 8, 5) /\ Entry(r[8], 7, 8, 5)
    BY <1>2 DEF Poly!poly_decompress_5
  <1> HIDE DEF r
  <1>4. Aligned(r, 8, 5)
    BY <1>3 DEF Aligned
  <1> QED
    BY <1>3, <1>4 DEF r

\* polyvec_compress_10: words of 8 bits from words of 10 bits.
LEMMA PolyvecCompress10 == Aligned(Poly!polyvec_compress_10, 10, 8) /\ Len(Poly!polyvec_compress_10) = 5
  <1> DEFINE r == Poly!polyvec_compress_10
  <1>1. /\ One(0, 0, 0, 10, 8) /\ Two(0, 8, 1, -2, 1, 10, 8) /\ Two(1, 6, 2, -4, 2, 10, 8)
        /\ Two(2, 4, 3, -6, 3, 10, 8) /\ One(3, 2, 4, 10, 8)
    BY DEF One, Two
  <1>2. /\ Entry({<<0, 0>>}, 0, 10, 8) /\ Entry({<<0, 8>>, <<1, -2>>}, 1, 10, 8)
        /\ Entry({<<1, 6>>, <<2, -4>>}, 2, 10, 8) /\ Entry({<<2, 4>>, <<3, -6>>}, 3, 10, 8)
        /\ Entry({<<3, 2>>}, 4, 10, 8)
    BY <1>1, EntryOne, EntryTwo
  <1>3. /\ Len(r) = 5 /\ Entry(r[1], 0, 10, 8) /\ Entry(r[2], 1, 10, 8) /\ Entry(r[3], 2, 10, 8)
        /\ Entry(r[4], 3, 10, 8) /\ Entry(r[5], 4, 10, 8)
    BY <1>2 DEF Poly!polyvec_compress_10
  <1> HIDE DEF r
  <1>4. Aligned(r, 10, 8)
    BY <1>3 DEF Aligned
  <1> QED
    BY <1>3, <1>4 DEF r

\* polyvec_decompress_10: words of 10 bits from words of 8 bits.
LEMMA PolyvecDecompress10 == Aligned(Poly!polyvec_decompress_10, 8, 10)
          /\ Len(Poly!polyvec_decompress_10) = 4
  <1> DEFINE r == Poly!polyvec_decompress_10
  <1>1. /\ Two(0, 0, 1, -8, 0, 8, 10) /\ Two(1, 2, 2, -6, 1, 8, 10) /\ Two(2, 4, 3, -4, 2, 8, 10)
        /\ Two(3, 6, 4, -2, 3, 8, 10)
    BY DEF Two
  <1>2. /\ Entry({<<0, 0>>, <<1, -8>>}, 0, 8, 10) /\ Entry({<<1, 2>>, <<2, -6>>}, 1, 8, 10)
        /\ Entry({<<2, 4>>, <<3, -4>>}, 2, 8, 10) /\ Entry({<<3, 6>>, <<4, -2>>}, 3, 8, 10)
    BY <1>1, EntryTwo
  <1>3. /\ Len(r) = 4 /\ Entry(r[1], 0, 8, 10) /\ Entry(r[2], 1, 8, 10) /\ Entry(r[3], 2, 8, 10)
        /\ Entry(r[4], 3, 8, 10)
    BY <1>2 DEF Poly!polyvec_decompress_10
  <1> HIDE DEF r
  <1>4. Aligned(r, 8, 10)
    BY <1>3 DEF Aligned
  <1> QED
    BY <1>3, <1>4 DEF r

\* polyvec_compress_11: words of 8 bits from words of 11 bits.
LEMMA PolyvecCompress11 == Aligned(Poly!polyvec_compress_11, 11, 8) /\ Len(Poly!polyvec_compress_11) = 11
  <1> DEFINE r == Poly!polyvec_compress_11
  <1>1. /\ One(0, 0, 0, 11, 8) /\ Two(0, 8, 1, -3, 1, 11, 8) /\ Two(1, 5, 2, -6, 2, 11, 8)
        /\ One(2, 2, 3, 11, 8) /\ Two(2, 10, 3, -1, 4, 11, 8) /\ Two(3, 7, 4, -4, 5, 11, 8)
        /\ Two(4, 4, 5, -7, 6, 11, 8) /\ One(5, 1, 7, 11, 8) /\ Two(5, 9, 6, -2, 8, 11, 8)
        /\ Two(6, 6, 7, -5, 9, 11, 8) /\ One(7, 3, 10, 11, 8)
    BY DEF One, Two
  <1>2. /\ Entry({<<0, 0>>}, 0, 11, 8) /\ Entry({<<0, 8>>, <<1, -3>>}, 1, 11, 8)
        /\ Entry({<<1, 5>>, <<2, -6>>}, 2, 11, 8) /\ Entry({<<2, 2>>}, 3, 11, 8)
        /\ Entry({<<2, 10>>, <<3, -1>>}, 4, 11, 8) /\ Entry({<<3, 7>>, <<4, -4>>}, 5, 11, 8)
        /\ Entry({<<4, 4>>, <<5, -7>>}, 6, 11, 8) /\ Entry({<<5, 1>>}, 7, 11, 8)
        /\ Entry({<<5, 9>>, <<6, -2>>}, 8, 11, 8) /\ Entry({<<6, 6>>, <<7, -5>>}, 9, 11, 8)
        /\ Entry({<<7, 3>>}, 10, 11, 8)
    BY <1>1, EntryOne, EntryTwo
  <1>3. /\ Len(r) = 11 /\ Entry(r[1], 0, 11, 8) /\ Entry(r[2], 1, 11, 8) /\ Entry(r[3], 2, 11, 8)
        /\ Entry(r[4], 3, 11, 8) /\ Entry(r[5], 4, 11, 8) /\ Entry(r[6], 5, 11, 8)
        /\ Entry(r[7], 6, 11, 8) /\ Entry(r[8], 7, 11, 8) /\ Entry(r[9], 8, 11, 8)
        /\ Entry(r[10], 9, 11, 8) /\ Entry(r[11], 10, 11, 8)
    BY <1>2 DEF Poly!polyvec_compress_11
  <1> HIDE DEF r
  <1>4. Aligned(r, 11, 8)
    BY <1>3 DEF Aligned
  <1> QED
    BY <1>3, <1>4 DEF r

\* polyvec_decompress_11: words of 11 bits from words of 8 bits.
LEMMA PolyvecDecompress11 == Aligned(Poly!polyvec_decompress_11, 8, 11)
          /\ Len(Poly!polyvec_decompress_11) = 8
  <1> DEFINE r == Poly!polyvec_decompress_11
  <1>1. /\ Two(0, 0, 1, -8, 0, 8, 11) /\ Two(1, 3, 2, -5, 1, 8, 11)
        /\ Three(2, 6, 3, -2, 4, -10, 2, 8, 11) /\ Two(4, 1, 5, -7, 3, 8, 11)
        /\ Two(5, 4, 6, -4, 4, 8, 11) /\ Three(6, 7, 7, -1, 8, -9, 5, 8, 11)
        /\ Two(8, 2, 9, -6, 6, 8, 11) /\ Two(9, 5, 10, -3, 7, 8, 11)
    BY DEF Two, Three
  <1>2. /\ Entry({<<0, 0>>, <<1, -8>>}, 0, 8, 11) /\ Entry({<<1, 3>>, <<2, -5>>}, 1, 8, 11)
        /\ Entry({<<2, 6>>, <<3, -2>>, <<4, -10>>}, 2, 8, 11)
        /\ Entry({<<4, 1>>, <<5, -7>>}, 3, 8, 11) /\ Entry({<<5, 4>>, <<6, -4>>}, 4, 8, 11)
        /\ Entry({<<6, 7>>, <<7, -1>>, <<8, -9>>}, 5, 8, 11)
        /\ Entry({<<8, 2>>, <<9, -6>>}, 6, 8, 11) /\ Entry({<<9, 5>>, <<10, -3>>}, 7, 8, 11)
    BY <1>1, EntryTwo, EntryThree
  <1>3. /\ Len(r) = 8 /\ Entry(r[1], 0, 8, 11) /\ Entry(r[2], 1, 8, 11) /\ Entry(r[3], 2, 8, 11)
        /\ Entry(r[4], 3, 8, 11) /\ Entry(r[5], 4, 8, 11) /\ Entry(r[6], 5, 8, 11)
        /\ Entry(r[7], 6, 8, 11) /\ Entry(r[8], 7, 8, 11)
    BY <1>2 DEF Poly!polyvec_decompress_11
  <1> HIDE DEF r
  <1>4. Aligned(r, 8, 11)
    BY <1>3 DEF Aligned
  <1> QED
    BY <1>3, <1>4 DEF r

\* poly_tobytes: words of 8 bits from words of 12 bits.
LEMMA PolyTobytes == Aligned(Poly!poly_tobytes, 12, 8) /\ Len(Poly!poly_tobytes) = 3
  <1> DEFINE r == Poly!poly_tobytes
  <1>1. One(0, 0, 0, 12, 8) /\ Two(0, 8, 1, -4, 1, 12, 8) /\ One(1, 4, 2, 12, 8)
    BY DEF One, Two
  <1>2. /\ Entry({<<0, 0>>}, 0, 12, 8) /\ Entry({<<0, 8>>, <<1, -4>>}, 1, 12, 8)
        /\ Entry({<<1, 4>>}, 2, 12, 8)
    BY <1>1, EntryOne, EntryTwo
  <1>3. Len(r) = 3 /\ Entry(r[1], 0, 12, 8) /\ Entry(r[2], 1, 12, 8) /\ Entry(r[3], 2, 12, 8)
    BY <1>2 DEF Poly!poly_tobytes
  <1> HIDE DEF r
  <1>4. Aligned(r, 12, 8)
    BY <1>3 DEF Aligned
  <1> QED
    BY <1>3, <1>4 DEF r

\* poly_frombytes: words of 12 bits from words of 8 bits.
LEMMA PolyFrombytes == Aligned(Poly!poly_frombytes, 8, 12) /\ Len(Poly!poly_frombytes) = 2
  <1> DEFINE r == Poly!poly_frombytes
  <1>1. Two(0, 0, 1, -8, 0, 8, 12) /\ Two(1, 4, 2, -4, 1, 8, 12)
    BY DEF Two
  <1>2. Entry({<<0, 0>>, <<1, -8>>}, 0, 8, 12) /\ Entry({<<1, 4>>, <<2, -4>>}, 1, 8, 12)
    BY <1>1, EntryTwo
  <1>3. Len(r) = 2 /\ Entry(r[1], 0, 8, 12) /\ Entry(r[2], 1, 8, 12)
    BY <1>2 DEF Poly!poly_frombytes
  <1> HIDE DEF r
  <1>4. Aligned(r, 8, 12)
    BY <1>3 DEF Aligned
  <1> QED
    BY <1>3, <1>4 DEF r

\* polyeta_pack_2: words of 8 bits from words of 3 bits.
LEMMA PolyetaPack2 == Aligned(Poly!polyeta_pack_2, 3, 8) /\ Len(Poly!polyeta_pack_2) = 3
  <1> DEFINE r == Poly!polyeta_pack_2
  <1>1. /\ Three(0, 0, 1, -3, 2, -6, 0, 3, 8) /\ Four(2, 2, 3, -1, 4, -4, 5, -7, 1, 3, 8)
        /\ Three(5, 1, 6, -2, 7, -5, 2, 3, 8)
    BY DEF Three, Four
  <1>2. /\ Entry({<<0, 0>>, <<1, -3>>, <<2, -6>>}, 0, 3, 8)
        /\ Entry({<<2, 2>>, <<3, -1>>, <<4, -4>>, <<5, -7>>}, 1, 3, 8)
        /\ Entry({<<5, 1>>, <<6, -2>>, <<7, -5>>}, 2, 3, 8)
    BY <1>1, EntryThree, EntryFour
  <1>3. Len(r) = 3 /\ Entry(r[1], 0, 3, 8) /\ Entry(r[2], 1, 3, 8) /\ Entry(r[3], 2, 3, 8)
    BY <1>2 DEF Poly!polyeta_pack_2
  <1> HIDE DEF r
  <1>4. Aligned(r, 3, 8)
    BY <1>3 DEF Aligned
  <1> QED
    BY <1>3, <1>4 DEF r

\* polyeta_unpack_2: words of 3 bits from words of 8 bits.
LEMMA PolyetaUnpack2 == Aligned(Poly!polyeta_unpack_2, 8, 3) /\ Len(Poly!polyeta_unpack_2) = 8
  <1> DEFINE r == Poly!polyeta_unpack_2
  <1>1. /\ One(0, 0, 0, 8, 3) /\ One(0, 3, 1, 8, 3) /\ Two(0, 6, 1, -2, 2, 8, 3)
        /\ One(1, 1, 3, 8, 3) /\ One(1, 4, 4, 8, 3) /\ Two(1, 7, 2, -1, 5, 8, 3)
        /\ One(2, 2, 6, 8, 3) /\ One(2, 5, 7, 8, 3)
    BY DEF One, Two
  <1>2. /\ Entry({<<0, 0>>}, 0, 8, 3) /\ Entry({<<0, 3>>}, 1, 8, 3)
        /\ Entry({<<0, 6>>, <<1, -2>>}, 2, 8, 3) /\ Entry({<<1, 1>>}, 3, 8, 3)
        /\ Entry({<<1, 4>>}, 4, 8, 3) /\ Entry({<<1, 7>>, <<2, -1>>}, 5, 8, 3)
        /\ Entry({<<2, 2>>}, 6, 8, 3) /\ Entry({<<2, 5>>}, 7, 8, 3)
    BY <1>1, EntryOne, EntryTwo
  <1>3. /\ Len(r) = 8 /\ Entry(r[1], 0, 8, 3) /\ Entry(r[2], 1, 8, 3) /\ Entry(r[3], 2, 8, 3)
        /\ Entry(r[4], 3, 8, 3) /\ Entry(r[5], 4, 8, 3) /\ Entry(r[6], 5, 8, 3)
        /\ Entry(r[7], 6, 8, 3) /\ Entry(r[8], 7, 8, 3)
    BY <1>2 DEF Poly!polyeta_unpack_2
  <1> HIDE DEF r
  <1>4. Aligned(r, 8, 3)
    BY <1>3 DEF Aligned
  <1> QED
    BY <1>3, <1>4 DEF r

\* polyeta_pack_4: words of 8 bits from words of 4 bits.
LEMMA PolyetaPack4 == Aligned(Poly!polyeta_pack_4, 4, 8) /\ Len(Poly!polyeta_pack_4) = 1
  <1> DEFINE r == Poly!polyeta_pack_4
  <1>1. Two(0, 0, 1, -4, 0, 4, 8)
    BY DEF Two
  <1>2. Entry({<<0, 0>>, <<1, -4>>}, 0, 4, 8)
    BY <1>1, EntryTwo
  <1>3. Len(r) = 1 /\ Entry(r[1], 0, 4, 8)
    BY <1>2 DEF Poly!polyeta_pack_4
  <1> HIDE DEF r
  <1>4. Aligned(r, 4, 8)
    BY <1>3 DEF Aligned
  <1> QED
    BY <1>3, <1>4 DEF r

\* polyeta_unpack_4: words of 4 bits from words of 8 bits.
LEMMA PolyetaUnpack4 == Aligned(Poly!polyeta_unpack_4, 8, 4) /\ Len(Poly!polyeta_unpack_4) = 2
  <1> DEFINE r == Poly!polyeta_unpack_4
  <1>1. One(0, 0, 0, 8, 4) /\ One(0, 4, 1, 8, 4)
    BY DEF One
  <1>2. Entry({<<0, 0>>}, 0, 8, 4) /\ Entry({<<0, 4>>}, 1, 8, 4)
    BY <1>1, EntryOne
  <1>3. Len(r) = 2 /\ Entry(r[1], 0, 8, 4) /\ Entry(r[2], 1, 8, 4)
    BY <1>2 DEF Poly!polyeta_unpack_4
  <1> HIDE DEF r
  <1>4. Aligned(r, 8, 4)
    BY <1>3 DEF Aligned
  <1> QED
    BY <1>3, <1>4 DEF r

\* polyt1_pack: words of 8 bits from words of 10 bits.
LEMMA Polyt1Pack == Aligned(Poly!polyt1_pack, 10, 8) /\ Len(Poly!polyt1_pack) = 5
  <1> DEFINE r == Poly!polyt1_pack
  <1>1. /\ One(0, 0, 0, 10, 8) /\ Two(0, 8, 1, -2, 1, 10, 8) /\ Two(1, 6, 2, -4, 2, 10, 8)
        /\ Two(2, 4, 3, -6, 3, 10, 8) /\ One(3, 2, 4, 10, 8)
    BY DEF One, Two
  <1>2. /\ Entry({<<0, 0>>}, 0, 10, 8) /\ Entry({<<0, 8>>, <<1, -2>>}, 1, 10, 8)
        /\ Entry({<<1, 6>>, <<2, -4>>}, 2, 10, 8) /\ Entry({<<2, 4>>, <<3, -6>>}, 3, 10, 8)
        /\ Entry({<<3, 2>>}, 4, 10, 8)
    BY <1>1, EntryOne, EntryTwo
  <1>3. /\ Len(r) = 5 /\ Entry(r[1], 0, 10, 8) /\ Entry(r[2], 1, 10, 8) /\ Entry(r[3], 2, 10, 8)
        /\ Entry(r[4], 3, 10, 8) /\ Entry(r[5], 4, 10, 8)
    BY <1>2 DEF Poly!polyt1_pack
  <1> HIDE DEF r
  <1>4. Aligned(r, 10, 8)
    BY <1>3 DEF Aligned
  <1> QED
    BY <1>3, <1>4 DEF r

\* polyt1_unpack: words of 10 bits from words of 8 bits.
LEMMA Polyt1Unpack == Aligned(Poly!polyt1_unpack, 8, 10) /\ Len(Poly!polyt1_unpack) = 4
  <1> DEFINE r == Poly!polyt1_unpack
  <1>1. /\ Two(0, 0, 1, -8, 0, 8, 10) /\ Two(1, 2, 2, -6, 1, 8, 10) /\ Two(2, 4, 3, -4, 2, 8, 10)
        /\ Two(3, 6, 4, -2, 3, 8, 10)
    BY DEF Two
  <1>2. /\ Entry({<<0, 0>>, <<1, -8>>}, 0, 8, 10) /\ Entry({<<1, 2>>, <<2, -6>>}, 1, 8, 10)
        /\ Entry({<<2, 4>>, <<3, -4>>}, 2, 8, 10) /\ Entry({<<3, 6>>, <<4, -2>>}, 3, 8, 10)
    BY <1>1, EntryTwo
  <1>3. /\ Len(r) = 4 /\ Entry(r[1], 0, 8, 10) /\ Entry(r[2], 1, 8, 10) /\ Entry(r[3], 2, 8, 10)
        /\ Entry(r[4], 3, 8, 10)
    BY <1>2 DEF Poly!polyt1_unpack
  <1> HIDE DEF r
  <1>4. Aligned(r, 8, 10)
    BY <1>3 DEF Aligned
  <1> QED
    BY <1>3, <1>4 DEF r

\* polyt0_pack: words of 8 bits from words of 13 bits.
LEMMA Polyt0Pack == Aligned(Poly!polyt0_pack, 13, 8) /\ Len(Poly!polyt0_pack) = 13
  <1> DEFINE r == Poly!polyt0_pack
  <1>1. /\ One(0, 0, 0, 13, 8) /\ Two(0, 8, 1, -5, 1, 13, 8) /\ One(1, 3, 2, 13, 8)
        /\ Two(1, 11, 2, -2, 3, 13, 8) /\ Two(2, 6, 3, -7, 4, 13, 8) /\ One(3, 1, 5, 13, 8)
        /\ Two(3, 9, 4, -4, 6, 13, 8) /\ One(4, 4, 7, 13, 8) /\ Two(4, 12, 5, -1, 8, 13, 8)
        /\ Two(5, 7, 6, -6, 9, 13, 8) /\ One(6, 2, 10, 13, 8) /\ Two(6, 10, 7, -3, 11, 13, 8)
        /\ One(7, 5, 12, 13, 8)
    BY DEF One, Two
  <1>2. /\ Entry({<<0, 0>>}, 0, 13, 8) /\ Entry({<<0, 8>>, <<1, -5>>}, 1, 13, 8)
        /\ Entry({<<1, 3>>}, 2, 13, 8) /\ Entry({<<1, 11>>, <<2, -2>>}, 3, 13, 8)
        /\ Entry({<<2, 6>>, <<3, -7>>}, 4, 13, 8) /\ Entry({<<3, 1>>}, 5, 13, 8)
        /\ Entry({<<3, 9>>, <<4, -4>>}, 6, 13, 8) /\ Entry({<<4, 4>>}, 7, 13, 8)
        /\ Entry({<<4, 12>>, <<5, -1>>}, 8, 13, 8) /\ Entry({<<5, 7>>, <<6, -6>>}, 9, 13, 8)
        /\ Entry({<<6, 2>>}, 10, 13, 8) /\ Entry({<<6, 10>>, <<7, -3>>}, 11, 13, 8)
        /\ Entry({<<7, 5>>}, 12, 13, 8)
    BY <1>1, EntryOne, EntryTwo
  <1>3. /\ Len(r) = 13 /\ Entry(r[1], 0, 13, 8) /\ Entry(r[2], 1, 13, 8) /\ Entry(r[3], 2, 13, 8)
        /\ Entry(r[4], 3, 13, 8) /\ Entry(r[5], 4, 13, 8) /\ Entry(r[6], 5, 13, 8)
        /\ Entry(r[7], 6, 13, 8) /\ Entry(r[8], 7, 13, 8) /\ Entry(r[9], 8, 13, 8)
        /\ Entry(r[10], 9, 13, 8) /\ Entry(r[11], 10, 13, 8) /\ Entry(r[12], 11, 13, 8)
        /\ Entry(r[13], 12, 13, 8)
    BY <1>2 DEF Poly!polyt0_pack
  <1> HIDE DEF r
  <1>4. Aligned(r, 13, 8)
    BY <1>3 DEF Aligned
  <1> QED
    BY <1>3, <1>4 DEF r

\* polyt0_unpack: words of 13 bits from words of 8 bits.
LEMMA Polyt0Unpack == Aligned(Poly!polyt0_unpack, 8, 13) /\ Len(Poly!polyt0_unpack) = 8
  <1> DEFINE r == Poly!polyt0_unpack
  <1>1. /\ Two(0, 0, 1, -8, 0, 8, 13) /\ Three(1, 5, 2, -3, 3, -11, 1, 8, 13)
        /\ Two(3, 2, 4, -6, 2, 8, 13) /\ Three(4, 7, 5, -1, 6, -9, 3, 8, 13)
        /\ Three(6, 4, 7, -4, 8, -12, 4, 8, 13) /\ Two(8, 1, 9, -7, 5, 8, 13)
        /\ Three(9, 6, 10, -2, 11, -10, 6, 8, 13) /\ Two(11, 3, 12, -5, 7, 8, 13)
    BY DEF Two, Three
  <1>2. /\ Entry({<<0, 0>>, <<1, -8>>}, 0, 8, 13)
        /\ Entry({<<1, 5>>, <<2, -3>>, <<3, -11>>}, 1, 8, 13)
        /\ Entry({<<3, 2>>, <<4, -6>>}, 2, 8, 13)
        /\ Entry({<<4, 7>>, <<5, -1>>, <<6, -9>>}, 3, 8, 13)
        /\ Entry({<<6, 4>>, <<7, -4>>, <<8, -12>>}, 4, 8, 13)
        /\ Entry({<<8, 1>>, <<9, -7>>}, 5, 8, 13)
        /\ Entry({<<9, 6>>, <<10, -2>>, <<11, -10>>}, 6, 8, 13)
        /\ Entry({<<11, 3>>, <<12, -5>>}, 7, 8, 13)
    BY <1>1, EntryTwo, EntryThree
  <1>3. /\ Len(r) = 8 /\ Entry(r[1], 0, 8, 13) /\ Entry(r[2], 1, 8, 13) /\ Entry(r[3], 2, 8, 13)
        /\ Entry(r[4], 3, 8, 13) /\ Entry(r[5], 4, 8, 13) /\ Entry(r[6], 5, 8, 13)
        /\ Entry(r[7], 6, 8, 13) /\ Entry(r[8], 7, 8, 13)
    BY <1>2 DEF Poly!polyt0_unpack
  <1> HIDE DEF r
  <1>4. Aligned(r, 8, 13)
    BY <1>3 DEF Aligned
  <1> QED
    BY <1>3, <1>4 DEF r

\* polyz_pack_17: words of 8 bits from words of 18 bits.
LEMMA PolyzPack17 == Aligned(Poly!polyz_pack_17, 18, 8) /\ Len(Poly!polyz_pack_17) = 9
  <1> DEFINE r == Poly!polyz_pack_17
  <1>1. /\ One(0, 0, 0, 18, 8) /\ One(0, 8, 1, 18, 8) /\ Two(0, 16, 1, -2, 2, 18, 8)
        /\ One(1, 6, 3, 18, 8) /\ Two(1, 14, 2, -4, 4, 18, 8) /\ One(2, 4, 5, 18, 8)
        /\ Two(2, 12, 3, -6, 6, 18, 8) /\ One(3, 2, 7, 18, 8) /\ One(3, 10, 8, 18, 8)
    BY DEF One, Two
  <1>2. /\ Entry({<<0, 0>>}, 0, 18, 8) /\ Entry({<<0, 8>>}, 1, 18, 8)
        /\ Entry({<<0, 16>>, <<1, -2>>}, 2, 18, 8) /\ Entry({<<1, 6>>}, 3, 18, 8)
        /\ Entry({<<1, 14>>, <<2, -4>>}, 4, 18, 8) /\ Entry({<<2, 4>>}, 5, 18, 8)
        /\ Entry({<<2, 12>>, <<3, -6>>}, 6, 18, 8) /\ Entry({<<3, 2>>}, 7, 18, 8)
        /\ Entry({<<3, 10>>}, 8, 18, 8)
    BY <1>1, EntryOne, EntryTwo
  <1>3. /\ Len(r) = 9 /\ Entry(r[1], 0, 18, 8) /\ Entry(r[2], 1, 18, 8) /\ Entry(r[3], 2, 18, 8)
        /\ Entry(r[4], 3, 18, 8) /\ Entry(r[5], 4, 18, 8) /\ Entry(r[6], 5, 18, 8)
        /\ Entry(r[7], 6, 18, 8) /\ Entry(r[8], 7, 18, 8) /\ Entry(r[9], 8, 18, 8)
    BY <1>2 DEF Poly!polyz_pack_17
  <1> HIDE DEF r
  <1>4. Aligned(r, 18, 8)
    BY <1>3 DEF Aligned
  <1> QED
    BY <1>3, <1>4 DEF r

\* polyz_unpack_17: words of 18 bits from words of 8 bits.
LEMMA PolyzUnpack17 == Aligned(Poly!polyz_unpack_17, 8, 18) /\ Len(Poly!polyz_unpack_17) = 4
  <1> DEFINE r == Poly!polyz_unpack_17
  <1>1. /\ Three(0, 0, 1, -8, 2, -16, 0, 8, 18) /\ Three(2, 2, 3, -6, 4, -14, 1, 8, 18)
        /\ Three(4, 4, 5, -4, 6, -12, 2, 8, 18) /\ Three(6, 6, 7, -2, 8, -10, 3, 8, 18)
    BY DEF Three
  <1>2. /\ Entry({<<0, 0>>, <<1, -8>>, <<2, -16>>}, 0, 8, 18)
        /\ Entry({<<2, 2>>, <<3, -6>>, <<4, -14>>}, 1, 8, 18)
        /\ Entry({<<4, 4>>, <<5, -4>>, <<6, -12>>}, 2, 8, 18)
        /\ Entry({<<6, 6>>, <<7, -2>>, <<8, -10>>}, 3, 8, 18)
    BY <1>1, EntryThree
  <1>3. /\ Len(r) = 4 /\ Entry(r[1], 0, 8, 18) /\ Entry(r[2], 1, 8, 18) /\ Entry(r[3], 2, 8, 18)
        /\ Entry(r[4], 3, 8, 18)
    BY <1>2 DEF Poly!polyz_unpack_17
  <1> HIDE DEF r
  <1>4. Aligned(r, 8, 18)
    BY <1>3 DEF Aligned
  <1> QED
    BY <1>3, <1>4 DEF r

\* polyz_pack_19: words of 8 bits from words of 20 bits.
LEMMA PolyzPack19 == Aligned(Poly!polyz_pack_19, 20, 8) /\ Len(Poly!polyz_pack_19) = 5
  <1> DEFINE r == Poly!polyz_pack_19
  <1>1. /\ One(0, 0, 0, 20, 8) /\ One(0, 8, 1, 20, 8) /\ Two(0, 16, 1, -4, 2, 20, 8)
        /\ One(1, 4, 3, 20, 8) /\ One(1, 12, 4, 20, 8)
    BY DEF One, Two
  <1>2. /\ Entry({<<0, 0>>}, 0, 20, 8) /\ Entry({<<0, 8>>}, 1, 20, 8)
        /\ Entry({<<0, 16>>, <<1, -4>>}, 2, 20, 8) /\ Entry({<<1, 4>>}, 3, 20, 8)
        /\ Entry({<<1, 12>>}, 4, 20, 8)
    BY <1>1, EntryOne, EntryTwo
  <1>3. /\ Len(r) = 5 /\ Entry(r[1], 0, 20, 8) /\ Entry(r[2], 1, 20, 8) /\ Entry(r[3], 2, 20, 8)
        /\ Entry(r[4], 3, 20, 8) /\ Entry(r[5], 4, 20, 8)
    BY <1>2 DEF Poly!polyz_pack_19
  <1> HIDE DEF r
  <1>4. Aligned(r, 20, 8)
    BY <1>3 DEF Aligned
  <1> QED
    BY <1>3, <1>4 DEF r

\* polyz_unpack_19: words of 20 bits from words of 8 bits.
LEMMA PolyzUnpack19 == Aligned(Poly!polyz_unpack_19, 8, 20) /\ Len(Poly!polyz_unpack_19) = 2
  <1> DEFINE r == Poly!polyz_unpack_19
  <1>1. Three(0, 0, 1, -8, 2, -16, 0, 8, 20) /\ Three(2, 4, 3, -4, 4, -12, 1, 8, 20)
    BY DEF Three
  <1>2. /\ Entry({<<0, 0>>, <<1, -8>>, <<2, -16>>}, 0, 8, 20)
        /\ Entry({<<2, 4>>, <<3, -4>>, <<4, -12>>}, 1, 8, 20)
    BY <1>1, EntryThree
  <1>3. Len(r) = 2 /\ Entry(r[1], 0, 8, 20) /\ Entry(r[2], 1, 8, 20)
    BY <1>2 DEF Poly!polyz_unpack_19
  <1> HIDE DEF r
  <1>4. Aligned(r, 8, 20)
    BY <1>3 DEF Aligned
  <1> QED
    BY <1>3, <1>4 DEF r

\* polyw1_pack_88: words of 8 bits from words of 6 bits.
LEMMA Polyw1Pack88 == Aligned(Poly!polyw1_pack_88, 6, 8) /\ Len(Poly!polyw1_pack_88) = 3
  <1> DEFINE r == Poly!polyw1_pack_88
  <1>1. Two(0, 0, 1, -6, 0, 6, 8) /\ Two(1, 2, 2, -4, 1, 6, 8) /\ Two(2, 4, 3, -2, 2, 6, 8)
    BY DEF Two
  <1>2. /\ Entry({<<0, 0>>, <<1, -6>>}, 0, 6, 8) /\ Entry({<<1, 2>>, <<2, -4>>}, 1, 6, 8)
        /\ Entry({<<2, 4>>, <<3, -2>>}, 2, 6, 8)
    BY <1>1, EntryTwo
  <1>3. Len(r) = 3 /\ Entry(r[1], 0, 6, 8) /\ Entry(r[2], 1, 6, 8) /\ Entry(r[3], 2, 6, 8)
    BY <1>2 DEF Poly!polyw1_pack_88
  <1> HIDE DEF r
  <1>4. Aligned(r, 6, 8)
    BY <1>3 DEF Aligned
  <1> QED
    BY <1>3, <1>4 DEF r

\* polyw1_pack_32: words of 8 bits from words of 4 bits.
LEMMA Polyw1Pack32 == Aligned(Poly!polyw1_pack_32, 4, 8) /\ Len(Poly!polyw1_pack_32) = 1
  <1> DEFINE r == Poly!polyw1_pack_32
  <1>1. Two(0, 0, 1, -4, 0, 4, 8)
    BY DEF Two
  <1>2. Entry({<<0, 0>>, <<1, -4>>}, 0, 4, 8)
    BY <1>1, EntryTwo
  <1>3. Len(r) = 1 /\ Entry(r[1], 0, 4, 8)
    BY <1>2 DEF Poly!polyw1_pack_32
  <1> HIDE DEF r
  <1>4. Aligned(r, 4, 8)
    BY <1>3 DEF Aligned
  <1> QED
    BY <1>3, <1>4 DEF r

\* poly_tomsg: words of 8 bits from words of 1 bits.
LEMMA PolyTomsg == Aligned(Poly!poly_tomsg, 1, 8) /\ Len(Poly!poly_tomsg) = 1
  <1> DEFINE e == {<<c, -c>> : c \in 0..7}
  <1>1. \A t \in e : t[1] \in 0..7 /\ t[2] = -t[1]
    OBVIOUS
  <1>2. ASSUME NEW a \in 0..7 PROVE \E t \in e : t[2] = -a
    <2>1. <<a, -a>> \in e /\ <<a, -a>>[2] = -a
      OBVIOUS
    <2> QED
      BY <2>1
  <1> HIDE DEF e
  <1>3. ASSUME NEW t \in e PROVE t[1] \in Nat /\ t[2] \in Int /\ 1 * t[1] + t[2] = 8 * 0
    <2>1. t[1] \in 0..7 /\ t[2] = -t[1]
      BY <1>1
    <2> QED
      BY <2>1
  <1>4. \A t \in e : \E a \in 0..7 : a + t[2] \in 0..0
    BY <1>1
  <1>5. \A a \in 0..7 : \E t \in e : a + t[2] \in 0..0
    BY <1>2
  <1>6. Entry(e, 0, 1, 8)
    BY <1>3, <1>4, <1>5 DEF Entry
  <1> QED
    BY <1>6 DEF Aligned, Poly!poly_tomsg, e

\* poly_frommsg: words of 1 bits from words of 8 bits.
LEMMA PolyFrommsg == Aligned(Poly!poly_frommsg, 8, 1) /\ Len(Poly!poly_frommsg) = 8
  <1> DEFINE r == Poly!poly_frommsg
  <1>1. Len(r) = 8 /\ \A m \in 0..7 : r[m + 1] = {<<0, m>>}
    BY DEF Poly!poly_frommsg
  <1>2. \A m \in 0..7 : One(0, m, m, 8, 1)
    BY DEF One
  <1>3. \A m \in 0..7 : Entry({<<0, m>>}, m, 8, 1)
    BY <1>2, EntryOne
  <1> HIDE DEF r
  <1>4. ASSUME NEW m \in 0..(Len(r) - 1) PROVE Entry(r[m + 1], m, 8, 1)
    <2>1. m \in 0..7
      BY <1>1
    <2>2. Entry({<<0, m>>}, m, 8, 1) /\ r[m + 1] = {<<0, m>>}
      BY <1>1, <1>3, <2>1
    <2> QED
      BY <2>2
  <1>5. Aligned(r, 8, 1)
    BY <1>1, <1>4 DEF Aligned
  <1> QED
    BY <1>1, <1>5 DEF r

----------------------------------------------------------------------------
\* The powers of two there are.
Bin(a) == 2^a

\* Their values.
LEMMA Powers ==
  /\ Bin(0) = 1 /\ Bin(1) = 2 /\ Bin(2) = 4 /\ Bin(3) = 8 /\ Bin(4) = 16
  /\ Bin(5) = 32 /\ Bin(6) = 64 /\ Bin(7) = 128 /\ Bin(8) = 256 /\ Bin(9) = 512
  /\ Bin(10) = 1024 /\ Bin(11) = 2048 /\ Bin(12) = 4096 /\ Bin(13) = 8192 /\ Bin(14) = 16384
  /\ Bin(15) = 32768 /\ Bin(16) = 65536 /\ Bin(17) = 131072 /\ Bin(18) = 262144 /\ Bin(19) = 524288
  /\ Bin(20) = 1048576 /\ Bin(21) = 2097152 /\ Bin(22) = 4194304 /\ Bin(23) = 8388608 /\ Bin(24) = 16777216
  BY DEF Bin

\* Each is twice the one before.
LEMMA PowersDouble == \A a \in 0..23 : Bin(a + 1) = 2 * Bin(a) /\ Bin(a) \in Nat /\ Bin(a) > 0
  <1> SUFFICES ASSUME NEW a \in 0..23 PROVE Bin(a + 1) = 2 * Bin(a) /\ Bin(a) \in Nat /\ Bin(a) > 0
    OBVIOUS
  <1>1. \/ a = 0 \/ a = 1 \/ a = 2 \/ a = 3 \/ a = 4 \/ a = 5 \/ a = 6 \/ a = 7
        \/ a = 8 \/ a = 9 \/ a = 10 \/ a = 11 \/ a = 12 \/ a = 13 \/ a = 14 \/ a = 15
        \/ a = 16 \/ a = 17 \/ a = 18 \/ a = 19 \/ a = 20 \/ a = 21 \/ a = 22 \/ a = 23
    OBVIOUS
  <1> QED
    BY <1>1, Powers

\* They grow.
LEMMA PowersGrow ==
  ASSUME NEW a \in 0..24, NEW b \in 0..24, a <= b
  PROVE  Bin(a) <= Bin(b) /\ Bin(a) \in Nat /\ Bin(b) \in Nat /\ Bin(a) > 0
  <1>0. \A c \in 0..24 : Bin(c) \in Nat /\ Bin(c) > 0
    <2> SUFFICES ASSUME NEW c \in 0..24 PROVE Bin(c) \in Nat /\ Bin(c) > 0
      OBVIOUS
    <2>1. c \in 0..23 \/ c = 24
      OBVIOUS
    <2> QED
      BY <2>1, PowersDouble, Powers
  <1> DEFINE S == {d \in Nat : \A c \in 0..24 : c + d <= 24 => Bin(c) <= Bin(c + d)}
  <1>1. 0 \in S
    BY <1>0
  <1>2. ASSUME NEW d \in S PROVE d + 1 \in S
    <2>1. ASSUME NEW c \in 0..24, c + (d + 1) <= 24 PROVE Bin(c) <= Bin(c + (d + 1))
      <3>1. c + d \in 0..23 /\ Bin(c) <= Bin(c + d)
        BY <1>2, <2>1
      <3>2. Bin((c + d) + 1) = 2 * Bin(c + d) /\ Bin(c + d) \in Nat
        BY <3>1, PowersDouble
      <3>3. (c + d) + 1 = c + (d + 1)
        BY <1>2
      <3> QED
        BY <1>0, <3>1, <3>2, <3>3
    <2> QED
      BY <1>2, <2>1
  <1>3. S = Nat
    <2>1. S \in SUBSET Nat
      OBVIOUS
    <2> HIDE DEF S
    <2> QED
      BY <1>1, <1>2, <2>1, NatSetInduction
  <1>4. b - a \in S
    <2>1. b - a \in Nat
      OBVIOUS
    <2> HIDE DEF S
    <2> QED
      BY <1>3, <2>1
  <1>5. a + (b - a) = b
    OBVIOUS
  <1> QED
    BY <1>0, <1>4, <1>5

\* A number below Bin(w) has w bits.
LEMMA BitsBelow ==
  ASSUME NEW w \in 0..24, NEW n \in Nat, n < Bin(w)
  PROVE  Poly!Bits(n) \subseteq 0..(w - 1)
  <1>0. Poly!Bits(n) = {c \in 0..23 : (n \div Bin(c)) % 2 = 1}
    BY DEF Poly!Bits, Bin
  <1> SUFFICES ASSUME NEW a \in 0..23, (n \div Bin(a)) % 2 = 1, a >= w PROVE FALSE
    BY <1>0
  <1> DEFINE p == Bin(a)
  <1>1. p \in Nat /\ p > 0 /\ n < p
    BY PowersGrow
  <1> HIDE DEF p
  <1>2. n \div p = 0
    BY <1>1, DivModIs
  <1> QED
    BY <1>2 DEF p

\* Halving the place of a digit.
LEMMA Digits ==
  ASSUME NEW n \in Nat, NEW p \in Nat, p > 0
  PROVE  n % (2 * p) = (n % p) + (IF (n \div p) % 2 = 1 THEN p ELSE 0)
  <1> DEFINE d == n \div p
             m == n % p
             e == d \div 2
             a == d % 2
  <1>1. d \in Nat /\ m \in 0..(p - 1) /\ n = p * d + m
    BY DivModOf
  <1>2. e \in Nat /\ a \in 0..1 /\ d = 2 * e + a
    <2> HIDE DEF d
    <2> QED
      BY <1>1
  <1> HIDE DEF d, m, e, a
  <1>3. p * d = (2 * p) * e + p * a
    BY <1>1, <1>2
  <1>4. CASE a = 0
    <2>1. n = (2 * p) * e + m /\ 2 * p \in Nat /\ 2 * p > 0 /\ m \in Nat /\ m < 2 * p
      BY <1>1, <1>2, <1>3, <1>4
    <2>2. n % (2 * p) = m
      BY <1>2, <2>1, DivModIs
    <2> QED
      BY <1>1, <1>4, <2>2 DEF a, m, d
  <1>5. CASE a = 1
    <2>1. n = (2 * p) * e + (m + p) /\ 2 * p \in Nat /\ 2 * p > 0 /\ m + p \in Nat /\ m + p < 2 * p
      BY <1>1, <1>2, <1>3, <1>5
    <2>2. n % (2 * p) = m + p
      BY <1>2, <2>1, DivModIs
    <2> QED
      BY <1>1, <1>5, <2>2 DEF a, m, d
  <1> QED
    BY <1>2, <1>4, <1>5

\* The bits of a number are worth the number.
LEMMA ValueOfBits ==
  ASSUME NEW n \in Nat, n < Bin(24)
  PROVE  Poly!Value(Poly!Bits(n)) = n
  <1> DEFINE s == Poly!Bits(n)
             F(f) == [a \in 0..24 |-> IF a
                       = 0 THEN 0 ELSE f[a - 1] + (IF a - 1 \in s THEN Bin(a - 1) ELSE 0)]
             g == [a \in 0..24 |-> n % Bin(a)]
             below == CHOOSE f : f = F(f)
  <1>1. \A a \in 0..23 : a \in s <=> (n \div Bin(a)) % 2 = 1
    BY DEF Poly!Bits, Bin
  <1> HIDE DEF s
  <1>2. \A a \in 0..23 : n % Bin(a + 1) = (n % Bin(a)) + (IF a \in s THEN Bin(a) ELSE 0)
    <2> SUFFICES ASSUME NEW a \in 0..23 PROVE n % Bin(a + 1)
              = (n % Bin(a)) + (IF a \in s THEN Bin(a) ELSE 0)
      OBVIOUS
    <2> DEFINE p == Bin(a)
    <2>1. p \in Nat /\ p > 0 /\ Bin(a + 1) = 2 * p
      BY PowersDouble
    <2>2. a \in s <=> (n \div p) % 2 = 1
      BY <1>1
    <2> HIDE DEF p
    <2>3. n % (2 * p) = (n % p) + (IF (n \div p) % 2 = 1 THEN p ELSE 0)
      BY <2>1, Digits
    <2> QED
      BY <2>1, <2>2, <2>3 DEF p
  <1>3. n % Bin(0) = 0 /\ n % Bin(24) = n
    <2>1. Bin(0) = 1 /\ Bin(24) = 16777216
      BY Powers
    <2> QED
      BY <2>1
  <1>4. g = F(g)
    <2>1. ASSUME NEW a \in 0..24
          PROVE  g[a] = IF a = 0 THEN 0 ELSE g[a - 1] + (IF a - 1 \in s THEN Bin(a - 1) ELSE 0)
      <3>1. CASE a = 0
        BY <1>3, <3>1
      <3>2. CASE a # 0
        <4>1. a - 1 \in 0..23 /\ (a - 1) + 1 = a /\ a - 1 \in 0..24
          BY <3>2
        <4>2. n % Bin(a) = (n % Bin(a - 1)) + (IF a - 1 \in s THEN Bin(a - 1) ELSE 0)
          BY <1>2, <4>1
        <4>3. g[a] = n % Bin(a) /\ g[a - 1] = n % Bin(a - 1)
          BY <4>1
        <4> QED
          BY <3>2, <4>2, <4>3
      <3> QED
        BY <3>1, <3>2
    <2> QED
      BY <2>1
  <1>5. below = F(below)
    <2>1. \E f : f = F(f)
      BY <1>4
    <2> HIDE DEF F
    <2> QED
      BY <2>1
  <1> HIDE DEF below
  <1>6. below[0] = 0 /\ \A a \in 0..23 : below[a + 1] = below[a] + (IF a \in s THEN Bin(a) ELSE 0)
    <2>1. \A a \in 0..24 : below[a] = IF a
              = 0 THEN 0 ELSE below[a - 1] + (IF a - 1 \in s THEN Bin(a - 1) ELSE 0)
      BY <1>5
    <2>2. ASSUME NEW a \in 0..23 PROVE below[a + 1] = below[a] + (IF a \in s THEN Bin(a) ELSE 0)
      <3>1. a + 1 \in 0..24 /\ a + 1 # 0 /\ (a + 1) - 1 = a
        OBVIOUS
      <3> QED
        BY <2>1, <3>1
    <2> QED
      BY <2>1, <2>2
  <1> DEFINE S == {a \in Nat : a <= 24 => below[a] = n % Bin(a)}
  <1>7. 0 \in S
    BY <1>3, <1>6
  <1>8. ASSUME NEW a \in S PROVE a + 1 \in S
    <2>1. CASE a <= 23
      <3>1. a \in 0..23 /\ below[a] = n % Bin(a)
        BY <1>8, <2>1
      <3>2. below[a + 1] = n % Bin(a + 1)
        BY <1>2, <1>6, <3>1
      <3> QED
        BY <3>1, <3>2
    <2>2. CASE a > 23
      BY <1>8, <2>2
    <2> QED
      BY <1>8, <2>1, <2>2
  <1>9. S = Nat
    <2>1. S \in SUBSET Nat
      OBVIOUS
    <2> HIDE DEF S
    <2> QED
      BY <1>7, <1>8, <2>1, NatSetInduction
  <1>10. below[24] = n
    BY <1>3, <1>9
  <1>11. Poly!Value(s) = below[24]
    BY DEF Poly!Value, below, F, Bin
  <1> QED
    BY <1>10, <1>11 DEF s

----------------------------------------------------------------------------
\* A recipe that comes out even: "per" words are read as often as it is repeated.
Moves(recipe, from, to) ==
  /\ Aligned(recipe, from, to)
  /\ (to * Len(recipe)) \div from \in Nat /\ from * ((to * Len(recipe)) \div from) = to * Len(recipe)

\* The formats there are.
LEMMA Names ==
  DOMAIN Poly!Format = {"msg", "dv4", "dv5", "du10", "du11", "poly", "eta2", "eta4", "t1", "t0",
                        "z17", "z19", "w88", "w32"}
  BY DEF Poly!Format

\* Each packer of mlkem_poly.c, polyvec.c and mldsa_poly.c makes bytes of words of w bits.
LEMMA Packs ==
  ASSUME NEW f \in DOMAIN Poly!Format
  PROVE  Poly!Format[f].w \in 1..20 /\ Moves(Poly!Format[f].pack, Poly!Format[f].w, 8)
  <1>1. CASE f = "msg"
    <2>1. Poly!Format[f].w = 1 /\ Poly!Format[f].pack = Poly!poly_tomsg
      BY <1>1 DEF Poly!Format
    <2> QED
      BY <2>1, PolyTomsg DEF Moves
  <1>2. CASE f = "dv4"
    <2>1. Poly!Format[f].w = 4 /\ Poly!Format[f].pack = Poly!poly_compress_4
      BY <1>2 DEF Poly!Format
    <2> QED
      BY <2>1, PolyCompress4 DEF Moves
  <1>3. CASE f = "dv5"
    <2>1. Poly!Format[f].w = 5 /\ Poly!Format[f].pack = Poly!poly_compress_5
      BY <1>3 DEF Poly!Format
    <2> QED
      BY <2>1, PolyCompress5 DEF Moves
  <1>4. CASE f = "du10"
    <2>1. Poly!Format[f].w = 10 /\ Poly!Format[f].pack = Poly!polyvec_compress_10
      BY <1>4 DEF Poly!Format
    <2> QED
      BY <2>1, PolyvecCompress10 DEF Moves
  <1>5. CASE f = "du11"
    <2>1. Poly!Format[f].w = 11 /\ Poly!Format[f].pack = Poly!polyvec_compress_11
      BY <1>5 DEF Poly!Format
    <2> QED
      BY <2>1, PolyvecCompress11 DEF Moves
  <1>6. CASE f = "poly"
    <2>1. Poly!Format[f].w = 12 /\ Poly!Format[f].pack = Poly!poly_tobytes
      BY <1>6 DEF Poly!Format
    <2> QED
      BY <2>1, PolyTobytes DEF Moves
  <1>7. CASE f = "eta2"
    <2>1. Poly!Format[f].w = 3 /\ Poly!Format[f].pack = Poly!polyeta_pack_2
      BY <1>7 DEF Poly!Format
    <2> QED
      BY <2>1, PolyetaPack2 DEF Moves
  <1>8. CASE f = "eta4"
    <2>1. Poly!Format[f].w = 4 /\ Poly!Format[f].pack = Poly!polyeta_pack_4
      BY <1>8 DEF Poly!Format
    <2> QED
      BY <2>1, PolyetaPack4 DEF Moves
  <1>9. CASE f = "t1"
    <2>1. Poly!Format[f].w = 10 /\ Poly!Format[f].pack = Poly!polyt1_pack
      BY <1>9 DEF Poly!Format
    <2> QED
      BY <2>1, Polyt1Pack DEF Moves
  <1>10. CASE f = "t0"
    <2>1. Poly!Format[f].w = 13 /\ Poly!Format[f].pack = Poly!polyt0_pack
      BY <1>10 DEF Poly!Format
    <2> QED
      BY <2>1, Polyt0Pack DEF Moves
  <1>11. CASE f = "z17"
    <2>1. Poly!Format[f].w = 18 /\ Poly!Format[f].pack = Poly!polyz_pack_17
      BY <1>11 DEF Poly!Format
    <2> QED
      BY <2>1, PolyzPack17 DEF Moves
  <1>12. CASE f = "z19"
    <2>1. Poly!Format[f].w = 20 /\ Poly!Format[f].pack = Poly!polyz_pack_19
      BY <1>12 DEF Poly!Format
    <2> QED
      BY <2>1, PolyzPack19 DEF Moves
  <1>13. CASE f = "w88"
    <2>1. Poly!Format[f].w = 6 /\ Poly!Format[f].pack = Poly!polyw1_pack_88
      BY <1>13 DEF Poly!Format
    <2> QED
      BY <2>1, Polyw1Pack88 DEF Moves
  <1>14. CASE f = "w32"
    <2>1. Poly!Format[f].w = 4 /\ Poly!Format[f].pack = Poly!polyw1_pack_32
      BY <1>14 DEF Poly!Format
    <2> QED
      BY <2>1, Polyw1Pack32 DEF Moves
  <1> QED
    BY Names, <1>1, <1>2, <1>3, <1>4, <1>5, <1>6, <1>7, <1>8, <1>9, <1>10, <1>11, <1>12, <1>13, <1>14

\* Each unpacker makes words of w bits of bytes.
LEMMA Unpacks ==
  ASSUME NEW f \in DOMAIN Poly!Format, Poly!Format[f].unpack # << >>
  PROVE  Moves(Poly!Format[f].unpack, 8, Poly!Format[f].w)
  <1>1. CASE f = "msg"
    <2>1. Poly!Format[f].w = 1 /\ Poly!Format[f].unpack = Poly!poly_frommsg
      BY <1>1 DEF Poly!Format
    <2> QED
      BY <2>1, PolyFrommsg DEF Moves
  <1>2. CASE f = "dv4"
    <2>1. Poly!Format[f].w = 4 /\ Poly!Format[f].unpack = Poly!poly_decompress_4
      BY <1>2 DEF Poly!Format
    <2> QED
      BY <2>1, PolyDecompress4 DEF Moves
  <1>3. CASE f = "dv5"
    <2>1. Poly!Format[f].w = 5 /\ Poly!Format[f].unpack = Poly!poly_decompress_5
      BY <1>3 DEF Poly!Format
    <2> QED
      BY <2>1, PolyDecompress5 DEF Moves
  <1>4. CASE f = "du10"
    <2>1. Poly!Format[f].w = 10 /\ Poly!Format[f].unpack = Poly!polyvec_decompress_10
      BY <1>4 DEF Poly!Format
    <2> QED
      BY <2>1, PolyvecDecompress10 DEF Moves
  <1>5. CASE f = "du11"
    <2>1. Poly!Format[f].w = 11 /\ Poly!Format[f].unpack = Poly!polyvec_decompress_11
      BY <1>5 DEF Poly!Format
    <2> QED
      BY <2>1, PolyvecDecompress11 DEF Moves
  <1>6. CASE f = "poly"
    <2>1. Poly!Format[f].w = 12 /\ Poly!Format[f].unpack = Poly!poly_frombytes
      BY <1>6 DEF Poly!Format
    <2> QED
      BY <2>1, PolyFrombytes DEF Moves
  <1>7. CASE f = "eta2"
    <2>1. Poly!Format[f].w = 3 /\ Poly!Format[f].unpack = Poly!polyeta_unpack_2
      BY <1>7 DEF Poly!Format
    <2> QED
      BY <2>1, PolyetaUnpack2 DEF Moves
  <1>8. CASE f = "eta4"
    <2>1. Poly!Format[f].w = 4 /\ Poly!Format[f].unpack = Poly!polyeta_unpack_4
      BY <1>8 DEF Poly!Format
    <2> QED
      BY <2>1, PolyetaUnpack4 DEF Moves
  <1>9. CASE f = "t1"
    <2>1. Poly!Format[f].w = 10 /\ Poly!Format[f].unpack = Poly!polyt1_unpack
      BY <1>9 DEF Poly!Format
    <2> QED
      BY <2>1, Polyt1Unpack DEF Moves
  <1>10. CASE f = "t0"
    <2>1. Poly!Format[f].w = 13 /\ Poly!Format[f].unpack = Poly!polyt0_unpack
      BY <1>10 DEF Poly!Format
    <2> QED
      BY <2>1, Polyt0Unpack DEF Moves
  <1>11. CASE f = "z17"
    <2>1. Poly!Format[f].w = 18 /\ Poly!Format[f].unpack = Poly!polyz_unpack_17
      BY <1>11 DEF Poly!Format
    <2> QED
      BY <2>1, PolyzUnpack17 DEF Moves
  <1>12. CASE f = "z19"
    <2>1. Poly!Format[f].w = 20 /\ Poly!Format[f].unpack = Poly!polyz_unpack_19
      BY <1>12 DEF Poly!Format
    <2> QED
      BY <2>1, PolyzUnpack19 DEF Moves
  <1>13. f # "w88" /\ f # "w32"
    BY DEF Poly!Format
  <1> QED
    BY Names, <1>1, <1>2, <1>3, <1>4, <1>5, <1>6, <1>7, <1>8, <1>9, <1>10, <1>11, <1>12, <1>13

----------------------------------------------------------------------------
\* The divisions by q of poly_compress, polyvec_compress and poly_tomsg, a byte of the
\* multiplier at a time.
LEMMA DivideBy80635 ==
  ASSUME NEW n \in Int, n >= -1663, n <= 54913, n # 0
  PROVE  (((n * 251) \div 256 + n * 58) \div 256 + n) \div 4096 = (n - 1) \div 3329
  <1> DEFINE a == (n * 251) \div 256
             b == (a + n * 58) \div 256
             c == (b + n) \div 4096
             d == (n - 1) \div 3329
  <1>1. a \in Int /\ 256 * a <= n * 251 /\ n * 251 < 256 * a + 256
    BY SMT
  <1>2. b \in Int /\ 256 * b <= a + n * 58 /\ a + n * 58 < 256 * b + 256
    <2> HIDE DEF a
    <2> QED
      BY SMT, <1>1
  <1>3. c \in Int /\ 4096 * c <= b + n /\ b + n < 4096 * c + 4096
    <2> HIDE DEF b
    <2> QED
      BY SMT, <1>2
  <1>4. d \in Int /\ 3329 * d <= n - 1 /\ n - 1 < 3329 * d + 3329
    BY SMT
  <1> HIDE DEF a, b, c, d
  <1>5. d >= -1 /\ d <= 16
    BY SMT, <1>4
  <1>6. c = d
    BY SMT, <1>1, <1>2, <1>3, <1>4, <1>5
  <1> QED
    BY SMT, <1>6 DEF a, b, c, d

\* poly_compress with d = 5: multiplying by 40318 and shifting by 27 divides by q.
LEMMA DivideBy40318 ==
  ASSUME NEW n \in Nat, n <= 108160
  PROVE  (((n * 126) \div 256 + n * 157) \div 256 + n * 0) \div 2048 = n \div 3329
  <1> DEFINE a == (n * 126) \div 256
             b == (a + n * 157) \div 256
             c == (b + n * 0) \div 2048
             d == n \div 3329
  <1>1. a \in Int /\ 256 * a <= n * 126 /\ n * 126 < 256 * a + 256
    BY SMT
  <1>2. b \in Int /\ 256 * b <= a + n * 157 /\ a + n * 157 < 256 * b + 256
    <2> HIDE DEF a
    <2> QED
      BY SMT, <1>1
  <1>3. c \in Int /\ 2048 * c <= b /\ b < 2048 * c + 2048
    <2> HIDE DEF b
    <2> QED
      BY SMT, <1>2
  <1>4. d \in Int /\ 3329 * d <= n /\ n < 3329 * d + 3329
    BY SMT
  <1> HIDE DEF a, b, c, d
  <1>5. d >= 0 /\ d <= 32
    BY SMT, <1>4
  <1>6. c = d
    BY SMT, <1>1, <1>2, <1>3, <1>4, <1>5
  <1> QED
    BY SMT, <1>6 DEF a, b, c, d

Residues == 0..3328

By1290167(n) == (((n * 183) \div 256 + n * 175) \div 256 + n * 19) \div 65536

\* polyvec_compress with d = 10: multiplying by 1290167 and shifting by 32 divides by q.
LEMMA DivideBy1290167 ==
  ASSUME NEW u \in Residues
  PROVE  By1290167(u * 1024 + 1665) = (u * 1024 + 1664) \div 3329
  <1> DEFINE n == u * 1024 + 1665
  <1>n. n \in Int /\ n = u * 1024 + 1665 /\ n - 1 = u * 1024 + 1664
    BY SMT DEF Residues
  <1> HIDE DEF n
  <1> SUFFICES (((n * 183) \div 256 + n * 175) \div 256 + n * 19) \div 65536 = (n - 1) \div 3329
    <2>1. By1290167(n) = (n - 1) \div 3329
      BY SMT DEF By1290167
    <2> QED
      BY SMT, <1>n, <2>1
  <1> DEFINE a == (n * 183) \div 256
             b == (a + n * 175) \div 256
             c == (b + n * 19) \div 65536
             d == (n - 1) \div 3329
  <1>1. a \in Int /\ 256 * a <= n * 183 /\ n * 183 < 256 * a + 256
    BY SMT, <1>n
  <1>2. b \in Int /\ 256 * b <= a + n * 175 /\ a + n * 175 < 256 * b + 256
    <2> HIDE DEF a
    <2> QED
      BY SMT, <1>n, <1>1
  <1>3. c \in Int /\ 65536 * c <= b + n * 19 /\ b + n * 19 < 65536 * c + 65536
    <2> HIDE DEF b
    <2> QED
      BY SMT, <1>n, <1>2
  <1>4. d \in Int /\ 3329 * d <= n - 1 /\ n - 1 < 3329 * d + 3329
    BY SMT, <1>n
  <1> HIDE DEF a, b, c, d
  <1>0. u \in Int /\ u >= 0 /\ u <= 3328
    BY SMT, <1>n DEF Residues
  <1>5. d >= 0 /\ d <= 1024
    BY SMT, <1>n, <1>0, <1>4
  <1>6. ASSUME n - 1 = 3329 * d PROVE d = 640
    <2> DEFINE t == 769 * u - 2500 * d + 1249
    <2>1. t \in Int /\ d = 1024 * t + 640
      BY SMT, <1>n, <1>0, <1>4, <1>6
    <2> HIDE DEF t
    <2> QED
      BY SMT, <1>n, <1>5, <2>1
  <1>7. c >= d
    BY SMT, <1>n, <1>1, <1>2, <1>3, <1>4, <1>5, <1>6
  <1>8. c <= d
    BY SMT, <1>n, <1>1, <1>2, <1>3, <1>4, <1>5
  <1>13. c = d
    BY SMT, <1>3, <1>4, <1>7, <1>8
  <1> QED
    BY SMT, <1>13 DEF a, b, c, d

By645084(n) == (((n * 220) \div 256 + n * 215) \div 256 + n * 9) \div 32768

\* polyvec_compress with d = 11: multiplying by 645084 and shifting by 31 divides by q.
LEMMA DivideBy645084 ==
  ASSUME NEW u \in Residues
  PROVE  By645084(u * 2048 + 1664) = (u * 2048 + 1664) \div 3329
  <1> DEFINE n == u * 2048 + 1664
  <1>n. n \in Int /\ n = u * 2048 + 1664
    BY SMT DEF Residues
  <1> HIDE DEF n
  <1> SUFFICES (((n * 220) \div 256 + n * 215) \div 256 + n * 9) \div 32768 = n \div 3329
    <2>1. By645084(n) = n \div 3329
      BY SMT DEF By645084
    <2> QED
      BY SMT, <1>n, <2>1
  <1> DEFINE a == (n * 220) \div 256
             b == (a + n * 215) \div 256
             c == (b + n * 9) \div 32768
             d == n \div 3329
  <1>1. a \in Int /\ 256 * a <= n * 220 /\ n * 220 < 256 * a + 256
    BY SMT, <1>n
  <1>2. b \in Int /\ 256 * b <= a + n * 215 /\ a + n * 215 < 256 * b + 256
    <2> HIDE DEF a
    <2> QED
      BY SMT, <1>n, <1>1
  <1>3. c \in Int /\ 32768 * c <= b + n * 9 /\ b + n * 9 < 32768 * c + 32768
    <2> HIDE DEF b
    <2> QED
      BY SMT, <1>n, <1>2
  <1>4. d \in Int /\ 3329 * d <= n /\ n < 3329 * d + 3329
    BY SMT, <1>n
  <1> HIDE DEF a, b, c, d
  <1>0. u \in Int /\ u >= 0 /\ u <= 3328
    BY SMT, <1>n DEF Residues
  <1>5. d >= 0 /\ d <= 2048
    BY SMT, <1>n, <1>0, <1>4
  <1> DEFINE m == 3329 * (d + 1) - n
  <1>6. m \in Int /\ m >= 1 /\ n = 3329 * (d + 1) - m
    BY SMT, <1>n, <1>4
  <1> HIDE DEF m
  <1>7. c >= d
    BY SMT, <1>n, <1>1, <1>2, <1>3, <1>4, <1>5
  <1> DEFINE t == 769 * u - 1250 * (d + 1)
  <1>8. t \in Int /\ d + 1 = 2048 * t + 769 * (1664 + m)
    BY SMT, <1>n, <1>0, <1>4, <1>6
  <1> HIDE DEF t
  <1>9. (m = 1 => d + 1 = 385) /\ (m = 2 => d + 1 = 1154) /\ (m = 3 => d + 1 = 1923)
    <2> DEFINE e == t + 625
    <2>1. e \in Int /\ t = e - 625
      BY SMT, <1>n, <1>8
    <2> HIDE DEF e
    <2>2. ASSUME m = 1 PROVE d + 1 = 385
      <3>1. d + 1 = 2048 * e + 385
        BY SMT, <1>n, <1>8, <2>1, <2>2
      <3>2. e >= 0
        BY SMT, <1>n, <1>4, <1>5, <2>1, <3>1
      <3>3. e <= 0
        BY SMT, <1>n, <1>4, <1>5, <2>1, <3>1
      <3> QED
        BY SMT, <1>n, <2>1, <3>1, <3>2, <3>3
    <2>3. ASSUME m = 2 PROVE d + 1 = 1154
      <3>1. d + 1 = 2048 * e + 1154
        BY SMT, <1>n, <1>8, <2>1, <2>3
      <3>2. e >= 0
        BY SMT, <1>n, <1>4, <1>5, <2>1, <3>1
      <3>3. e <= 0
        BY SMT, <1>n, <1>4, <1>5, <2>1, <3>1
      <3> QED
        BY SMT, <1>n, <2>1, <3>1, <3>2, <3>3
    <2>4. ASSUME m = 3 PROVE d + 1 = 1923
      <3>1. d + 1 = 2048 * e + 1923
        BY SMT, <1>n, <1>8, <2>1, <2>4
      <3>2. e >= 0
        BY SMT, <1>n, <1>4, <1>5, <2>1, <3>1
      <3>3. e <= 0
        BY SMT, <1>n, <1>4, <1>5, <2>1, <3>1
      <3> QED
        BY SMT, <1>n, <2>1, <3>1, <3>2, <3>3
    <2> QED
      BY SMT, <1>n, <2>2, <2>3, <2>4
  <1>10. 988 * (d + 1) < m * 645084
    BY SMT, <1>n, <1>4, <1>5, <1>6, <1>9
  <1>11. n * 645084 < 2147483648 * (d + 1)
    BY SMT, <1>n, <1>4, <1>6, <1>10
  <1>12. c <= d
    BY SMT, <1>n, <1>1, <1>2, <1>3, <1>4, <1>11
  <1>13. c = d
    BY SMT, <1>3, <1>4, <1>7, <1>12
  <1> QED
    BY SMT, <1>13 DEF a, b, c, d

----------------------------------------------------------------------------
\* The formats that compress.
LEMMA ScaleNames == DOMAIN Poly!Scale = {"msg", "dv4", "dv5", "du10", "du11"}
  BY SMT DEF Poly!Scale

\* Multiplying and shifting rounds as the comments of poly_compress say.
LEMMA CompressIs ==
  ASSUME NEW f \in DOMAIN Poly!Scale, NEW c \in Int, c >= -1664, c <= 1664
  PROVE  Poly!Compress(f, c) = Poly!Rounded(f, c)
  <1> DEFINE s == Poly!Standard(c)
  <1>0. s \in 0..3328 /\ (s = c \/ s = c + 3329) /\ c \in Int /\ c >= -1664 /\ c <= 1664 /\ (c >= 0
            <=> s = c)
    BY SMT DEF Poly!Standard, Poly!Q
  <1> HIDE DEF s
  <1>1. CASE f = "dv4"
    <2> DEFINE n == s * 16 + 1665
    <2>1. Poly!Scale[f] = <<4, 1665, 80635, 28>> /\ 2^4 = 16 /\ 2^(28 - 16) = 4096
      BY SMT, <1>1 DEF Poly!Scale
    <2>2. Poly!Compress(f, c) = Poly!MulShr(n, 80635, 28) % 16
      BY SMT, <1>1, <2>1 DEF Poly!Compress, s
    <2>3. Poly!Rounded(f, c) = ((s * 16 + 1664) \div 3329) % 16
      BY SMT, <2>1 DEF Poly!Rounded, Poly!Q, s
    <2>4. n \in Int /\ n >= 1665 /\ n <= 54913
      BY SMT, <1>0
    <2>5. Poly!MulShr(n, 80635, 28) = (((n * 251) \div 256 + n * 58) \div 256 + n * 1) \div 4096
      <3> HIDE DEF n
      <3>1. 80635 % 256 = 251 /\ (80635 \div 256) % 256 = 58 /\ 80635 \div 65536 = 1
        BY SMT
      <3> QED
        BY SMT, <2>1, <3>1 DEF Poly!MulShr
    <2>6. Poly!MulShr(n, 80635, 28) = (n - 1) \div 3329
      <3> HIDE DEF n
      <3>1. n * 1 = n /\ n # 0
        BY SMT, <2>4
      <3> QED
        BY SMT, <2>4, <2>5, <3>1, DivideBy80635
    <2>7. (n - 1) = s * 16 + 1664
      BY SMT, <1>0
    <2> HIDE DEF n
    <2> QED
      BY SMT, <2>2, <2>3, <2>6, <2>7
  <1>2. CASE f = "dv5"
    <2> DEFINE n == s * 32 + 1664
    <2>1. Poly!Scale[f] = <<5, 1664, 40318, 27>> /\ 2^5 = 32 /\ 2^(27 - 16) = 2048
      BY SMT, <1>2 DEF Poly!Scale
    <2>2. Poly!Compress(f, c) = Poly!MulShr(n, 40318, 27) % 32
      BY SMT, <1>2, <2>1 DEF Poly!Compress, s
    <2>3. Poly!Rounded(f, c) = ((s * 32 + 1664) \div 3329) % 32
      BY SMT, <2>1 DEF Poly!Rounded, Poly!Q, s
    <2>4. n \in Int /\ n >= 1664 /\ n <= 108160
      BY SMT, <1>0
    <2>5. Poly!MulShr(n, 40318, 27) = (((n * 126) \div 256 + n * 157) \div 256 + n * 0) \div 2048
      <3> HIDE DEF n
      <3>1. 40318 % 256 = 126 /\ (40318 \div 256) % 256 = 157 /\ 40318 \div 65536 = 0
        BY SMT
      <3> QED
        BY SMT, <2>1, <3>1 DEF Poly!MulShr
    <2>6. Poly!MulShr(n, 40318, 27) = n \div 3329
      <3>1. n \in Nat
        BY SMT, <2>4
      <3> HIDE DEF n
      <3> QED
        BY SMT, <2>4, <2>5, <3>1, DivideBy40318
    <2>7. n = s * 32 + 1664
      BY SMT, <1>0
    <2> HIDE DEF n
    <2> QED
      BY SMT, <2>2, <2>3, <2>6, <2>7
  <1>3. CASE f = "du10"
    <2> DEFINE n == s * 1024 + 1665
    <2>1. Poly!Scale[f] = <<10, 1665, 1290167, 32>> /\ 2^10 = 1024 /\ 2^(32 - 16) = 65536
      BY SMT, <1>3 DEF Poly!Scale
    <2>2. Poly!Compress(f, c) = Poly!MulShr(n, 1290167, 32) % 1024
      BY SMT, <1>3, <2>1 DEF Poly!Compress, s
    <2>3. Poly!Rounded(f, c) = ((s * 1024 + 1664) \div 3329) % 1024
      BY SMT, <2>1 DEF Poly!Rounded, Poly!Q, s
    <2>4. n \in Int /\ n >= 1665 /\ n <= 3409537
      BY SMT, <1>0
    <2>5. Poly!MulShr(n, 1290167, 32) = (((n * 183) \div 256 + n * 175) \div 256 + n * 19) \div 65536
      <3> HIDE DEF n
      <3>1. 1290167 % 256 = 183 /\ (1290167 \div 256) % 256 = 175 /\ 1290167 \div 65536 = 19
        BY SMT
      <3> QED
        BY SMT, <2>1, <3>1 DEF Poly!MulShr
    <2>6. Poly!MulShr(n, 1290167, 32) = (n - 1) \div 3329
      <3>1. s \in Residues
        BY SMT, <1>0 DEF Residues
      <3>2. By1290167(s * 1024 + 1665) = (s * 1024 + 1664) \div 3329
        BY SMT, <3>1, DivideBy1290167
      <3>3. (n - 1) = s * 1024 + 1664
        BY SMT, <1>0
      <3>4. Poly!MulShr(n, 1290167, 32) = By1290167(s * 1024 + 1665)
        BY SMT, <2>5 DEF By1290167
      <3> HIDE DEF n
      <3> QED
        BY SMT, <3>2, <3>3, <3>4
    <2>7. (n - 1) = s * 1024 + 1664
      BY SMT, <1>0
    <2> HIDE DEF n
    <2> QED
      BY SMT, <2>2, <2>3, <2>6, <2>7
  <1>4. CASE f = "du11"
    <2> DEFINE n == s * 2048 + 1664
    <2>1. Poly!Scale[f] = <<11, 1664, 645084, 31>> /\ 2^11 = 2048 /\ 2^(31 - 16) = 32768
      BY SMT, <1>4 DEF Poly!Scale
    <2>2. Poly!Compress(f, c) = Poly!MulShr(n, 645084, 31) % 2048
      BY SMT, <1>4, <2>1 DEF Poly!Compress, s
    <2>3. Poly!Rounded(f, c) = ((s * 2048 + 1664) \div 3329) % 2048
      BY SMT, <2>1 DEF Poly!Rounded, Poly!Q, s
    <2>4. n \in Int /\ n >= 1664 /\ n <= 6817408
      BY SMT, <1>0
    <2>5. Poly!MulShr(n, 645084, 31) = (((n * 220) \div 256 + n * 215) \div 256 + n * 9) \div 32768
      <3> HIDE DEF n
      <3>1. 645084 % 256 = 220 /\ (645084 \div 256) % 256 = 215 /\ 645084 \div 65536 = 9
        BY SMT
      <3> QED
        BY SMT, <2>1, <3>1 DEF Poly!MulShr
    <2>6. Poly!MulShr(n, 645084, 31) = n \div 3329
      <3>1. s \in Residues
        BY SMT, <1>0 DEF Residues
      <3>2. By645084(s * 2048 + 1664) = (s * 2048 + 1664) \div 3329
        BY SMT, <3>1, DivideBy645084
      <3>3. n = s * 2048 + 1664
        BY SMT, <1>0
      <3>4. Poly!MulShr(n, 645084, 31) = By645084(s * 2048 + 1664)
        BY SMT, <2>5 DEF By645084
      <3> HIDE DEF n
      <3> QED
        BY SMT, <3>2, <3>3, <3>4
    <2>7. n = s * 2048 + 1664
      BY SMT, <1>0
    <2> HIDE DEF n
    <2> QED
      BY SMT, <2>2, <2>3, <2>6, <2>7
  <1>5. CASE f = "msg"
    <2> DEFINE n == c * 2 + 1665
    <2>1. Poly!Scale[f] = <<1, 1665, 80635, 28>> /\ 2^1 = 2 /\ 2^(28 - 16) = 4096
      BY SMT, <1>5 DEF Poly!Scale
    <2>2. Poly!Compress(f, c) = Poly!MulShr(n, 80635, 28) % 2
      BY SMT, <1>5, <2>1 DEF Poly!Compress
    <2>3. Poly!Rounded(f, c) = ((s * 2 + 1664) \div 3329) % 2
      BY SMT, <2>1 DEF Poly!Rounded, Poly!Q, s
    <2>4. n \in Int /\ n >= -1663 /\ n <= 4993 /\ n # 0 /\ n - 1 = c * 2 + 1664
      BY SMT, <1>0
    <2>5. Poly!MulShr(n, 80635, 28) = (((n * 251) \div 256 + n * 58) \div 256 + n * 1) \div 4096
      <3> HIDE DEF n
      <3>1. 80635 % 256 = 251 /\ (80635 \div 256) % 256 = 58 /\ 80635 \div 65536 = 1
        BY SMT
      <3> QED
        BY SMT, <2>1, <3>1 DEF Poly!MulShr
    <2>6. Poly!MulShr(n, 80635, 28) = (n - 1) \div 3329
      <3> HIDE DEF n
      <3>1. n * 1 = n /\ n <= 54913
        BY SMT, <2>4
      <3> QED
        BY SMT, <2>4, <2>5, <3>1, DivideBy80635
    <2> HIDE DEF n
    <2>7. Poly!Compress(f, c) = ((c * 2 + 1664) \div 3329) % 2
      BY SMT, <2>2, <2>4, <2>6
    <2>8. ((c * 2 + 1664) \div 3329) % 2 = ((s * 2 + 1664) \div 3329) % 2
      BY SMT, <1>0
    <2> QED
      BY SMT, <2>3, <2>7, <2>8
  <1> QED
    BY SMT, ScaleNames, <1>1, <1>2, <1>3, <1>4, <1>5

----------------------------------------------------------------------------
\* The formats that store zero - c.
LEMMA ZeroNames == DOMAIN Poly!Zero = {"eta2", "eta4", "t0", "z17", "z19"}
  BY SMT DEF Poly!Zero

\* No further from c than half a rounding step of the format.
Near(f, v, c) ==
  LET e == (v - c) % Poly!Q
      half == LET d == Poly!Scale[f][1] IN (Poly!Q + 2^d) \div 2^(d + 1)
  IN  e <= half \/ Poly!Q - e <= half

\* The three kinds of format.
LEMMA Kinds ==
  ASSUME NEW f
  PROVE  /\ f \in DOMAIN Poly!Scale => f \notin DOMAIN Poly!Zero /\ f # "poly"
         /\ f \in DOMAIN Poly!Zero => f # "poly"
  <1>1. f \in DOMAIN Poly!Scale <=> f \in {"msg", "dv4", "dv5", "du10", "du11"}
    BY SMT, ScaleNames
  <1>2. f \in DOMAIN Poly!Zero <=> f \in {"eta2", "eta4", "t0", "z17", "z19"}
    BY SMT, ZeroNames
  <1> QED
    BY SMT, <1>1, <1>2

\* What is packed for a coefficient, by the kind of its format.
LEMMA EncodeIs ==
  ASSUME NEW f, NEW c
  PROVE  /\ f \in DOMAIN Poly!Scale => Poly!Encode(f, c) = Poly!Compress(f, c)
         /\ f \in DOMAIN Poly!Zero => Poly!Encode(f, c) = Poly!Zero[f] - c
         /\ f = "poly" => Poly!Encode(f, c) = Poly!Standard(c)
         /\ f \notin DOMAIN Poly!Scale /\ f \notin DOMAIN Poly!Zero /\ f # "poly" => Poly!Encode(f, c) = c
  <1> DEFINE A == f \in DOMAIN Poly!Scale
             B == f \in DOMAIN Poly!Zero
             C == f = "poly"
             a == Poly!Compress(f, c)
             b == Poly!Zero[f] - c
             d == Poly!Standard(c)
             e == Poly!Encode(f, c)
  <1>1. (A => ~B /\ ~C) /\ (B => ~C)
    BY Kinds
  <1>2. e = CASE A -> a [] B -> b [] C -> d [] OTHER -> c
    BY DEF Poly!Encode
  <1>3. (A => e = a) /\ (B => e = b) /\ (C => e = d) /\ (~A /\ ~B /\ ~C => e = c)
    <2> HIDE DEF A, B, C, a, b, d, e
    <2> QED
      BY <1>1, <1>2
  <1> QED
    BY <1>3

\* What is unpacked for a word, by the kind of its format.
LEMMA DecodeIs ==
  ASSUME NEW f, NEW u
  PROVE  /\ f \in DOMAIN Poly!Scale => Poly!Decode(f, u) = Poly!Decompress(f, u)
         /\ f \in DOMAIN Poly!Zero => Poly!Decode(f, u) = Poly!Zero[f] - u
         /\ f \notin DOMAIN Poly!Scale /\ f \notin DOMAIN Poly!Zero => Poly!Decode(f, u) = u
  <1> DEFINE A == f \in DOMAIN Poly!Scale
             B == f \in DOMAIN Poly!Zero
             a == Poly!Decompress(f, u)
             b == Poly!Zero[f] - u
             e == Poly!Decode(f, u)
  <1>1. A => ~B
    BY Kinds
  <1>2. e = CASE A -> a [] B -> b [] OTHER -> u
    BY DEF Poly!Decode
  <1>3. (A => e = a) /\ (B => e = b) /\ (~A /\ ~B => e = u)
    <2> HIDE DEF A, B, a, b, e
    <2> QED
      BY <1>1, <1>2
  <1> QED
    BY <1>3

\* The standard representative of a coefficient in (-q, q).
LEMMA StandardBetween ==
  ASSUME NEW c \in Int, c >= -3328, c <= 3328, NEW s, s = Poly!Standard(c)
  PROVE  s \in Int /\ s >= 0 /\ s <= 3328 /\ (s = c \/ s = c + 3329)
  BY SMT DEF Poly!Standard, Poly!Q

\* What a packer is given lies between the ends of its format.
Between(f, lo, hi) == \A c \in Poly!Given(f) : c \in Int /\ c >= lo /\ c <= hi

\* The ends are the bounds.
LEMMA GivenBetween ==
  ASSUME NEW f, NEW lo \in Int, NEW hi \in Int, Poly!Ends[f] = <<lo, hi>>
  PROVE  Between(f, lo, hi)
  <1>1. Poly!Ends[f][1] = lo /\ Poly!Ends[f][2] = hi
    BY SMT
  <1>2. Poly!Given(f) = lo..hi
    BY SMT, <1>1 DEF Poly!Given
  <1> QED
    BY SMT, <1>2 DEF Between

\* What is compressed was reduced by barrett_reduce.
LEMMA GivenCompressed ==
  ASSUME NEW f \in DOMAIN Poly!Scale
  PROVE  f \in DOMAIN Poly!Format /\ Between(f, -1664, 1664)
  <1>1. f \in {"msg", "dv4", "dv5", "du10", "du11"}
    BY SMT, ScaleNames
  <1>2. Poly!Ends[f] = <<-1664, 1664>>
    BY SMT, <1>1 DEF Poly!Ends
  <1>3. f \in DOMAIN Poly!Format
    BY SMT, <1>1, Names
  <1> QED
    BY SMT, <1>2, <1>3, GivenBetween

\* A coefficient that is packed has w bits.
LEMMA Encoded ==
  ASSUME NEW f \in DOMAIN Poly!Format, NEW c \in Poly!Given(f)
  PROVE  Poly!Encode(f, c) \in Nat /\ Poly!Encode(f, c) < Bin(Poly!Format[f].w)
  <1> DEFINE e == Poly!Encode(f, c)
             s == Poly!Standard(c)
             w == Poly!Format[f].w
  <1>1. CASE f = "msg"
    <2>1. w = 1 /\ Bin(1) = 2
      BY SMT, <1>1, Powers DEF Poly!Format
    <2>2. Poly!Ends[f] = <<-1664, 1664>>
      BY SMT, <1>1 DEF Poly!Ends
    <2>3. c \in Int /\ c >= -1664 /\ c <= 1664
      BY SMT, <2>2, GivenBetween DEF Between
    <2>4. f \in DOMAIN Poly!Scale
      BY SMT, <1>1, ScaleNames
    <2>5. e = Poly!Rounded(f, c)
      <3>1. e = Poly!Compress(f, c)
        BY <2>4, EncodeIs
      <3>2. Poly!Compress(f, c) = Poly!Rounded(f, c)
        BY SMT, <2>3, <2>4, CompressIs
      <3> QED
        BY <3>1, <3>2
    <2>6. Poly!Scale[f][1] = 1 /\ 2^1 = 2 /\ Poly!Q = 3329
      BY SMT, <1>1 DEF Poly!Scale, Poly!Q
    <2>7. e = ((s * 2 + 3329 \div 2) \div 3329) % 2
      BY SMT, <2>5, <2>6 DEF Poly!Rounded
    <2>8. s \in Int /\ s >= 0 /\ s <= 3328
      BY SMT, <2>3, StandardBetween
    <2> HIDE DEF e, s, w
    <2>9. e \in Nat /\ e < 2
      BY SMT, <2>7, <2>8
    <2> QED
      BY SMT, <2>1, <2>9 DEF e, w
  <1>2. CASE f = "dv4"
    <2>1. w = 4 /\ Bin(4) = 16
      BY SMT, <1>2, Powers DEF Poly!Format
    <2>2. Poly!Ends[f] = <<-1664, 1664>>
      BY SMT, <1>2 DEF Poly!Ends
    <2>3. c \in Int /\ c >= -1664 /\ c <= 1664
      BY SMT, <2>2, GivenBetween DEF Between
    <2>4. f \in DOMAIN Poly!Scale
      BY SMT, <1>2, ScaleNames
    <2>5. e = Poly!Rounded(f, c)
      <3>1. e = Poly!Compress(f, c)
        BY <2>4, EncodeIs
      <3>2. Poly!Compress(f, c) = Poly!Rounded(f, c)
        BY SMT, <2>3, <2>4, CompressIs
      <3> QED
        BY <3>1, <3>2
    <2>6. Poly!Scale[f][1] = 4 /\ 2^4 = 16 /\ Poly!Q = 3329
      BY SMT, <1>2 DEF Poly!Scale, Poly!Q
    <2>7. e = ((s * 16 + 3329 \div 2) \div 3329) % 16
      BY SMT, <2>5, <2>6 DEF Poly!Rounded
    <2>8. s \in Int /\ s >= 0 /\ s <= 3328
      BY SMT, <2>3, StandardBetween
    <2> HIDE DEF e, s, w
    <2>9. e \in Nat /\ e < 16
      BY SMT, <2>7, <2>8
    <2> QED
      BY SMT, <2>1, <2>9 DEF e, w
  <1>3. CASE f = "dv5"
    <2>1. w = 5 /\ Bin(5) = 32
      BY SMT, <1>3, Powers DEF Poly!Format
    <2>2. Poly!Ends[f] = <<-1664, 1664>>
      BY SMT, <1>3 DEF Poly!Ends
    <2>3. c \in Int /\ c >= -1664 /\ c <= 1664
      BY SMT, <2>2, GivenBetween DEF Between
    <2>4. f \in DOMAIN Poly!Scale
      BY SMT, <1>3, ScaleNames
    <2>5. e = Poly!Rounded(f, c)
      <3>1. e = Poly!Compress(f, c)
        BY <2>4, EncodeIs
      <3>2. Poly!Compress(f, c) = Poly!Rounded(f, c)
        BY SMT, <2>3, <2>4, CompressIs
      <3> QED
        BY <3>1, <3>2
    <2>6. Poly!Scale[f][1] = 5 /\ 2^5 = 32 /\ Poly!Q = 3329
      BY SMT, <1>3 DEF Poly!Scale, Poly!Q
    <2>7. e = ((s * 32 + 3329 \div 2) \div 3329) % 32
      BY SMT, <2>5, <2>6 DEF Poly!Rounded
    <2>8. s \in Int /\ s >= 0 /\ s <= 3328
      BY SMT, <2>3, StandardBetween
    <2> HIDE DEF e, s, w
    <2>9. e \in Nat /\ e < 32
      BY SMT, <2>7, <2>8
    <2> QED
      BY SMT, <2>1, <2>9 DEF e, w
  <1>4. CASE f = "du10"
    <2>1. w = 10 /\ Bin(10) = 1024
      BY SMT, <1>4, Powers DEF Poly!Format
    <2>2. Poly!Ends[f] = <<-1664, 1664>>
      BY SMT, <1>4 DEF Poly!Ends
    <2>3. c \in Int /\ c >= -1664 /\ c <= 1664
      BY SMT, <2>2, GivenBetween DEF Between
    <2>4. f \in DOMAIN Poly!Scale
      BY SMT, <1>4, ScaleNames
    <2>5. e = Poly!Rounded(f, c)
      <3>1. e = Poly!Compress(f, c)
        BY <2>4, EncodeIs
      <3>2. Poly!Compress(f, c) = Poly!Rounded(f, c)
        BY SMT, <2>3, <2>4, CompressIs
      <3> QED
        BY <3>1, <3>2
    <2>6. Poly!Scale[f][1] = 10 /\ 2^10 = 1024 /\ Poly!Q = 3329
      BY SMT, <1>4 DEF Poly!Scale, Poly!Q
    <2>7. e = ((s * 1024 + 3329 \div 2) \div 3329) % 1024
      BY SMT, <2>5, <2>6 DEF Poly!Rounded
    <2>8. s \in Int /\ s >= 0 /\ s <= 3328
      BY SMT, <2>3, StandardBetween
    <2> HIDE DEF e, s, w
    <2>9. e \in Nat /\ e < 1024
      BY SMT, <2>7, <2>8
    <2> QED
      BY SMT, <2>1, <2>9 DEF e, w
  <1>5. CASE f = "du11"
    <2>1. w = 11 /\ Bin(11) = 2048
      BY SMT, <1>5, Powers DEF Poly!Format
    <2>2. Poly!Ends[f] = <<-1664, 1664>>
      BY SMT, <1>5 DEF Poly!Ends
    <2>3. c \in Int /\ c >= -1664 /\ c <= 1664
      BY SMT, <2>2, GivenBetween DEF Between
    <2>4. f \in DOMAIN Poly!Scale
      BY SMT, <1>5, ScaleNames
    <2>5. e = Poly!Rounded(f, c)
      <3>1. e = Poly!Compress(f, c)
        BY <2>4, EncodeIs
      <3>2. Poly!Compress(f, c) = Poly!Rounded(f, c)
        BY SMT, <2>3, <2>4, CompressIs
      <3> QED
        BY <3>1, <3>2
    <2>6. Poly!Scale[f][1] = 11 /\ 2^11 = 2048 /\ Poly!Q = 3329
      BY SMT, <1>5 DEF Poly!Scale, Poly!Q
    <2>7. e = ((s * 2048 + 3329 \div 2) \div 3329) % 2048
      BY SMT, <2>5, <2>6 DEF Poly!Rounded
    <2>8. s \in Int /\ s >= 0 /\ s <= 3328
      BY SMT, <2>3, StandardBetween
    <2> HIDE DEF e, s, w
    <2>9. e \in Nat /\ e < 2048
      BY SMT, <2>7, <2>8
    <2> QED
      BY SMT, <2>1, <2>9 DEF e, w
  <1>6. CASE f = "poly"
    <2>1. w = 12 /\ Bin(12) = 4096
      BY SMT, <1>6, Powers DEF Poly!Format
    <2>2. Poly!Ends[f] = <<-3328, 3328>>
      BY SMT, <1>6 DEF Poly!Ends
    <2>3. c \in Int /\ c >= -3328 /\ c <= 3328
      BY SMT, <2>2, GivenBetween DEF Between
    <2>4. e = s
      BY <1>6, EncodeIs
    <2>5. s \in Int /\ s >= 0 /\ s <= 3328
      BY SMT, <2>3, StandardBetween
    <2> HIDE DEF e, s, w
    <2>6. e \in Nat /\ e < 4096
      BY SMT, <2>4, <2>5
    <2> QED
      BY SMT, <2>1, <2>6 DEF e, w
  <1>7. CASE f = "eta2"
    <2>1. w = 3 /\ Bin(3) = 8
      BY SMT, <1>7, Powers DEF Poly!Format
    <2>2. Poly!Ends[f] = <<-2, 2>>
      BY SMT, <1>7 DEF Poly!Ends
    <2>3. c \in Int /\ c >= -2 /\ c <= 2
      BY SMT, <2>2, GivenBetween DEF Between
    <2>4. f \in DOMAIN Poly!Zero /\ Poly!Zero[f] = 2
      BY SMT, <1>7 DEF Poly!Zero
    <2>5. e = 2 - c
      BY SMT, <2>4, EncodeIs
    <2> HIDE DEF e, w
    <2>6. e \in Nat /\ e < 8
      BY SMT, <2>3, <2>5
    <2> QED
      BY SMT, <2>1, <2>6 DEF e, w
  <1>8. CASE f = "eta4"
    <2>1. w = 4 /\ Bin(4) = 16
      BY SMT, <1>8, Powers DEF Poly!Format
    <2>2. Poly!Ends[f] = <<-4, 4>>
      BY SMT, <1>8 DEF Poly!Ends
    <2>3. c \in Int /\ c >= -4 /\ c <= 4
      BY SMT, <2>2, GivenBetween DEF Between
    <2>4. f \in DOMAIN Poly!Zero /\ Poly!Zero[f] = 4
      BY SMT, <1>8 DEF Poly!Zero
    <2>5. e = 4 - c
      BY SMT, <2>4, EncodeIs
    <2> HIDE DEF e, w
    <2>6. e \in Nat /\ e < 16
      BY SMT, <2>3, <2>5
    <2> QED
      BY SMT, <2>1, <2>6 DEF e, w
  <1>9. CASE f = "t1"
    <2>1. w = 10 /\ Bin(10) = 1024
      BY SMT, <1>9, Powers DEF Poly!Format
    <2>2. Poly!Ends[f] = <<0, 1023>>
      BY SMT, <1>9 DEF Poly!Ends
    <2>3. c \in Int /\ c >= 0 /\ c <= 1023
      BY SMT, <2>2, GivenBetween DEF Between
    <2>4. f \notin DOMAIN Poly!Scale /\ f \notin DOMAIN Poly!Zero /\ f # "poly"
      BY SMT, <1>9, ScaleNames, ZeroNames
    <2>5. e = c
      BY <2>4, EncodeIs
    <2> HIDE DEF e, w
    <2>6. e \in Nat /\ e < 1024
      BY SMT, <2>3, <2>5
    <2> QED
      BY SMT, <2>1, <2>6 DEF e, w
  <1>10. CASE f = "t0"
    <2>1. w = 13 /\ Bin(13) = 8192
      BY SMT, <1>10, Powers DEF Poly!Format
    <2>2. Poly!Ends[f] = <<-4095, 4096>>
      BY SMT, <1>10 DEF Poly!Ends
    <2>3. c \in Int /\ c >= -4095 /\ c <= 4096
      BY SMT, <2>2, GivenBetween DEF Between
    <2>4. f \in DOMAIN Poly!Zero /\ Poly!Zero[f] = 4096
      BY SMT, <1>10 DEF Poly!Zero
    <2>5. e = 4096 - c
      BY SMT, <2>4, EncodeIs
    <2> HIDE DEF e, w
    <2>6. e \in Nat /\ e < 8192
      BY SMT, <2>3, <2>5
    <2> QED
      BY SMT, <2>1, <2>6 DEF e, w
  <1>11. CASE f = "z17"
    <2>1. w = 18 /\ Bin(18) = 262144
      BY SMT, <1>11, Powers DEF Poly!Format
    <2>2. Poly!Ends[f] = <<-131071, 131072>>
      BY SMT, <1>11 DEF Poly!Ends
    <2>3. c \in Int /\ c >= -131071 /\ c <= 131072
      BY SMT, <2>2, GivenBetween DEF Between
    <2>4. f \in DOMAIN Poly!Zero /\ Poly!Zero[f] = 131072
      BY SMT, <1>11 DEF Poly!Zero
    <2>5. e = 131072 - c
      BY SMT, <2>4, EncodeIs
    <2> HIDE DEF e, w
    <2>6. e \in Nat /\ e < 262144
      BY SMT, <2>3, <2>5
    <2> QED
      BY SMT, <2>1, <2>6 DEF e, w
  <1>12. CASE f = "z19"
    <2>1. w = 20 /\ Bin(20) = 1048576
      BY SMT, <1>12, Powers DEF Poly!Format
    <2>2. Poly!Ends[f] = <<-524287, 524288>>
      BY SMT, <1>12 DEF Poly!Ends
    <2>3. c \in Int /\ c >= -524287 /\ c <= 524288
      BY SMT, <2>2, GivenBetween DEF Between
    <2>4. f \in DOMAIN Poly!Zero /\ Poly!Zero[f] = 524288
      BY SMT, <1>12 DEF Poly!Zero
    <2>5. e = 524288 - c
      BY SMT, <2>4, EncodeIs
    <2> HIDE DEF e, w
    <2>6. e \in Nat /\ e < 1048576
      BY SMT, <2>3, <2>5
    <2> QED
      BY SMT, <2>1, <2>6 DEF e, w
  <1>13. CASE f = "w88"
    <2>1. w = 6 /\ Bin(6) = 64
      BY SMT, <1>13, Powers DEF Poly!Format
    <2>2. Poly!Ends[f] = <<0, 43>>
      BY SMT, <1>13 DEF Poly!Ends
    <2>3. c \in Int /\ c >= 0 /\ c <= 43
      BY SMT, <2>2, GivenBetween DEF Between
    <2>4. f \notin DOMAIN Poly!Scale /\ f \notin DOMAIN Poly!Zero /\ f # "poly"
      BY SMT, <1>13, ScaleNames, ZeroNames
    <2>5. e = c
      BY <2>4, EncodeIs
    <2> HIDE DEF e, w
    <2>6. e \in Nat /\ e < 64
      BY SMT, <2>3, <2>5
    <2> QED
      BY SMT, <2>1, <2>6 DEF e, w
  <1>14. CASE f = "w32"
    <2>1. w = 4 /\ Bin(4) = 16
      BY SMT, <1>14, Powers DEF Poly!Format
    <2>2. Poly!Ends[f] = <<0, 15>>
      BY SMT, <1>14 DEF Poly!Ends
    <2>3. c \in Int /\ c >= 0 /\ c <= 15
      BY SMT, <2>2, GivenBetween DEF Between
    <2>4. f \notin DOMAIN Poly!Scale /\ f \notin DOMAIN Poly!Zero /\ f # "poly"
      BY SMT, <1>14, ScaleNames, ZeroNames
    <2>5. e = c
      BY <2>4, EncodeIs
    <2> HIDE DEF e, w
    <2>6. e \in Nat /\ e < 16
      BY SMT, <2>3, <2>5
    <2> QED
      BY SMT, <2>1, <2>6 DEF e, w
  <1> QED
    BY SMT, Names, <1>1, <1>2, <1>3, <1>4, <1>5, <1>6, <1>7, <1>8, <1>9, <1>10, <1>11, <1>12, <1>13, <1>14

\* Decompression undoes compression up to half a step.
LEMMA DecompressNear ==
  ASSUME NEW f \in DOMAIN Poly!Scale, NEW c \in Int, c >= -1664, c <= 1664
  PROVE  Near(f, Poly!Decompress(f, Poly!Rounded(f, c)), c)
  <1> DEFINE s == Poly!Standard(c)
             u == Poly!Rounded(f, c)
             v == Poly!Decompress(f, u)
  <1>0. s \in Int /\ s >= 0 /\ s <= 3328 /\ (s = c \/ s = c + 3329)
    BY SMT, StandardBetween
  <1>1. CASE f = "msg"
    <2> DEFINE q == (s * 2 + 1664) \div 3329
               m == (v - c) % 3329
    <2>1. Poly!Scale[f][1] = 1 /\ 2^1 = 2 /\ 2^(1 - 1) = 1 /\ 2^(1 + 1) = 4 /\ Poly!Q = 3329
      BY SMT, <1>1 DEF Poly!Scale, Poly!Q
    <2>2. u = q % 2
      <3>1. u = ((s * 2 + 3329 \div 2) \div 3329) % 2
        BY SMT, <2>1 DEF Poly!Rounded
      <3> HIDE DEF s, u
      <3> QED
        BY SMT, <1>0, <3>1
    <2>3. v = (u * 3329 + 1) \div 2
      BY SMT, <2>1 DEF Poly!Decompress
    <2>4. m <= 832 \/ 3329 - m <= 832 => Near(f, v, c)
      <3>1. (3329 + 2) \div 4 = 832
        BY SMT
      <3> HIDE DEF v
      <3> QED
        BY SMT, <2>1, <3>1 DEF Near
    <2> HIDE DEF s, u, v
    <2>5. q \in Int /\ q >= 0 /\ q <= 2 /\ 3329 * q <= s * 2 + 1664 /\ s * 2 + 1664 < 3329 * q + 3329
      BY SMT, <1>0
    <2> HIDE DEF q
    <2>6. CASE q < 2
      <3>1. u = q
        BY SMT, <2>2, <2>5, <2>6
      <3>2. v \in Int /\ 2 * v <= q * 3329 + 1 /\ q * 3329 + 1 < 2 * v + 2
        BY SMT, <2>3, <2>5, <3>1
      <3>3. v - s <= 832 /\ s - v <= 832
        BY SMT, <1>0, <2>5, <3>2
      <3>4. m <= 832 \/ 3329 - m <= 832
        BY SMT, <1>0, <3>2, <3>3
      <3> QED
        BY SMT, <2>4, <3>4 DEF v, u
    <2>7. CASE q = 2
      <3>1. u = 0
        BY SMT, <2>2, <2>7
      <3>2. v = 0
        BY SMT, <2>3, <3>1
      <3>3. 3329 - s <= 832
        BY SMT, <1>0, <2>5, <2>7
      <3>4. m <= 832 \/ 3329 - m <= 832
        BY SMT, <1>0, <3>2, <3>3
      <3> QED
        BY SMT, <2>4, <3>4 DEF v, u
    <2> QED
      BY SMT, <2>5, <2>6, <2>7
  <1>2. CASE f = "dv4"
    <2> DEFINE q == (s * 16 + 1664) \div 3329
               m == (v - c) % 3329
    <2>1. Poly!Scale[f][1] = 4 /\ 2^4 = 16 /\ 2^(4 - 1) = 8 /\ 2^(4 + 1) = 32 /\ Poly!Q = 3329
      BY SMT, <1>2 DEF Poly!Scale, Poly!Q
    <2>2. u = q % 16
      <3>1. u = ((s * 16 + 3329 \div 2) \div 3329) % 16
        BY SMT, <2>1 DEF Poly!Rounded
      <3> HIDE DEF s, u
      <3> QED
        BY SMT, <1>0, <3>1
    <2>3. v = (u * 3329 + 8) \div 16
      BY SMT, <2>1 DEF Poly!Decompress
    <2>4. m <= 104 \/ 3329 - m <= 104 => Near(f, v, c)
      <3>1. (3329 + 16) \div 32 = 104
        BY SMT
      <3> HIDE DEF v
      <3> QED
        BY SMT, <2>1, <3>1 DEF Near
    <2> HIDE DEF s, u, v
    <2>5. q \in Int /\ q >= 0 /\ q <= 16 /\ 3329 * q <= s * 16 + 1664 /\ s * 16 + 1664 < 3329 * q + 3329
      BY SMT, <1>0
    <2> HIDE DEF q
    <2>6. CASE q < 16
      <3>1. u = q
        BY SMT, <2>2, <2>5, <2>6
      <3>2. v \in Int /\ 16 * v <= q * 3329 + 8 /\ q * 3329 + 8 < 16 * v + 16
        BY SMT, <2>3, <2>5, <3>1
      <3>3. v - s <= 104 /\ s - v <= 104
        BY SMT, <1>0, <2>5, <3>2
      <3>4. m <= 104 \/ 3329 - m <= 104
        BY SMT, <1>0, <3>2, <3>3
      <3> QED
        BY SMT, <2>4, <3>4 DEF v, u
    <2>7. CASE q = 16
      <3>1. u = 0
        BY SMT, <2>2, <2>7
      <3>2. v = 0
        BY SMT, <2>3, <3>1
      <3>3. 3329 - s <= 104
        BY SMT, <1>0, <2>5, <2>7
      <3>4. m <= 104 \/ 3329 - m <= 104
        BY SMT, <1>0, <3>2, <3>3
      <3> QED
        BY SMT, <2>4, <3>4 DEF v, u
    <2> QED
      BY SMT, <2>5, <2>6, <2>7
  <1>3. CASE f = "dv5"
    <2> DEFINE q == (s * 32 + 1664) \div 3329
               m == (v - c) % 3329
    <2>1. Poly!Scale[f][1] = 5 /\ 2^5 = 32 /\ 2^(5 - 1) = 16 /\ 2^(5 + 1) = 64 /\ Poly!Q = 3329
      BY SMT, <1>3 DEF Poly!Scale, Poly!Q
    <2>2. u = q % 32
      <3>1. u = ((s * 32 + 3329 \div 2) \div 3329) % 32
        BY SMT, <2>1 DEF Poly!Rounded
      <3> HIDE DEF s, u
      <3> QED
        BY SMT, <1>0, <3>1
    <2>3. v = (u * 3329 + 16) \div 32
      BY SMT, <2>1 DEF Poly!Decompress
    <2>4. m <= 52 \/ 3329 - m <= 52 => Near(f, v, c)
      <3>1. (3329 + 32) \div 64 = 52
        BY SMT
      <3> HIDE DEF v
      <3> QED
        BY SMT, <2>1, <3>1 DEF Near
    <2> HIDE DEF s, u, v
    <2>5. q \in Int /\ q >= 0 /\ q <= 32 /\ 3329 * q <= s * 32 + 1664 /\ s * 32 + 1664 < 3329 * q + 3329
      BY SMT, <1>0
    <2> HIDE DEF q
    <2>6. CASE q < 32
      <3>1. u = q
        BY SMT, <2>2, <2>5, <2>6
      <3>2. v \in Int /\ 32 * v <= q * 3329 + 16 /\ q * 3329 + 16 < 32 * v + 32
        BY SMT, <2>3, <2>5, <3>1
      <3>3. v - s <= 52 /\ s - v <= 52
        BY SMT, <1>0, <2>5, <3>2
      <3>4. m <= 52 \/ 3329 - m <= 52
        BY SMT, <1>0, <3>2, <3>3
      <3> QED
        BY SMT, <2>4, <3>4 DEF v, u
    <2>7. CASE q = 32
      <3>1. u = 0
        BY SMT, <2>2, <2>7
      <3>2. v = 0
        BY SMT, <2>3, <3>1
      <3>3. 3329 - s <= 52
        BY SMT, <1>0, <2>5, <2>7
      <3>4. m <= 52 \/ 3329 - m <= 52
        BY SMT, <1>0, <3>2, <3>3
      <3> QED
        BY SMT, <2>4, <3>4 DEF v, u
    <2> QED
      BY SMT, <2>5, <2>6, <2>7
  <1>4. CASE f = "du10"
    <2> DEFINE q == (s * 1024 + 1664) \div 3329
               m == (v - c) % 3329
    <2>1. Poly!Scale[f][1] = 10 /\ 2^10 = 1024 /\ 2^(10 - 1) = 512 /\ 2^(10 + 1) = 2048 /\ Poly!Q = 3329
      BY SMT, <1>4 DEF Poly!Scale, Poly!Q
    <2>2. u = q % 1024
      <3>1. u = ((s * 1024 + 3329 \div 2) \div 3329) % 1024
        BY SMT, <2>1 DEF Poly!Rounded
      <3> HIDE DEF s, u
      <3> QED
        BY SMT, <1>0, <3>1
    <2>3. v = (u * 3329 + 512) \div 1024
      BY SMT, <2>1 DEF Poly!Decompress
    <2>4. m <= 2 \/ 3329 - m <= 2 => Near(f, v, c)
      <3>1. (3329 + 1024) \div 2048 = 2
        BY SMT
      <3> HIDE DEF v
      <3> QED
        BY SMT, <2>1, <3>1 DEF Near
    <2> HIDE DEF s, u, v
    <2>5. q \in Int /\ q >= 0 /\ q <= 1024 /\ 3329 * q <= s * 1024 + 1664
              /\ s * 1024 + 1664 < 3329 * q + 3329
      BY SMT, <1>0
    <2> HIDE DEF q
    <2>6. CASE q < 1024
      <3>1. u = q
        BY SMT, <2>2, <2>5, <2>6
      <3>2. v \in Int /\ 1024 * v <= q * 3329 + 512 /\ q * 3329 + 512 < 1024 * v + 1024
        BY SMT, <2>3, <2>5, <3>1
      <3>3. v - s <= 2 /\ s - v <= 2
        BY SMT, <1>0, <2>5, <3>2
      <3>4. m <= 2 \/ 3329 - m <= 2
        BY SMT, <1>0, <3>2, <3>3
      <3> QED
        BY SMT, <2>4, <3>4 DEF v, u
    <2>7. CASE q = 1024
      <3>1. u = 0
        BY SMT, <2>2, <2>7
      <3>2. v = 0
        BY SMT, <2>3, <3>1
      <3>3. 3329 - s <= 2
        BY SMT, <1>0, <2>5, <2>7
      <3>4. m <= 2 \/ 3329 - m <= 2
        BY SMT, <1>0, <3>2, <3>3
      <3> QED
        BY SMT, <2>4, <3>4 DEF v, u
    <2> QED
      BY SMT, <2>5, <2>6, <2>7
  <1>5. CASE f = "du11"
    <2> DEFINE q == (s * 2048 + 1664) \div 3329
               m == (v - c) % 3329
    <2>1. Poly!Scale[f][1] = 11 /\ 2^11 = 2048 /\ 2^(11 - 1) = 1024 /\ 2^(11 + 1) = 4096 /\ Poly!Q = 3329
      BY SMT, <1>5 DEF Poly!Scale, Poly!Q
    <2>2. u = q % 2048
      <3>1. u = ((s * 2048 + 3329 \div 2) \div 3329) % 2048
        BY SMT, <2>1 DEF Poly!Rounded
      <3> HIDE DEF s, u
      <3> QED
        BY SMT, <1>0, <3>1
    <2>3. v = (u * 3329 + 1024) \div 2048
      BY SMT, <2>1 DEF Poly!Decompress
    <2>4. m <= 1 \/ 3329 - m <= 1 => Near(f, v, c)
      <3>1. (3329 + 2048) \div 4096 = 1
        BY SMT
      <3> HIDE DEF v
      <3> QED
        BY SMT, <2>1, <3>1 DEF Near
    <2> HIDE DEF s, u, v
    <2>5. q \in Int /\ q >= 0 /\ q <= 2048 /\ 3329 * q <= s * 2048 + 1664
              /\ s * 2048 + 1664 < 3329 * q + 3329
      BY SMT, <1>0
    <2> HIDE DEF q
    <2>6. CASE q < 2048
      <3>1. u = q
        BY SMT, <2>2, <2>5, <2>6
      <3>2. v \in Int /\ 2048 * v <= q * 3329 + 1024 /\ q * 3329 + 1024 < 2048 * v + 2048
        BY SMT, <2>3, <2>5, <3>1
      <3>3. v - s <= 1 /\ s - v <= 1
        BY SMT, <1>0, <2>5, <3>2
      <3>4. m <= 1 \/ 3329 - m <= 1
        BY SMT, <1>0, <3>2, <3>3
      <3> QED
        BY SMT, <2>4, <3>4 DEF v, u
    <2>7. CASE q = 2048
      <3>1. u = 0
        BY SMT, <2>2, <2>7
      <3>2. v = 0
        BY SMT, <2>3, <3>1
      <3>3. 3329 - s <= 1
        BY SMT, <1>0, <2>5, <2>7
      <3>4. m <= 1 \/ 3329 - m <= 1
        BY SMT, <1>0, <3>2, <3>3
      <3> QED
        BY SMT, <2>4, <3>4 DEF v, u
    <2> QED
      BY SMT, <2>5, <2>6, <2>7
  <1> QED
    BY SMT, ScaleNames, <1>1, <1>2, <1>3, <1>4, <1>5

\* What a format promises of a value v that comes back for c.
Promise(f, v, c) ==
  /\ f \in DOMAIN Poly!Scale => Near(f, v, c)
  /\ f = "poly" => (v - c) % Poly!Q = 0
  /\ f \notin DOMAIN Poly!Scale /\ f # "poly" => v = c

\* What the unpack functions make of a word that was packed.
LEMMA Returned ==
  ASSUME NEW f \in DOMAIN Poly!Format, NEW c \in Poly!Given(f)
  PROVE  Promise(f, Poly!Decode(f, Poly!Encode(f, c)), c)
  <1> DEFINE e == Poly!Encode(f, c)
             v == Poly!Decode(f, e)
  <1>0. c \in Int
    BY SMT DEF Poly!Given
  <1>1. CASE f \in DOMAIN Poly!Scale
    <2>1. c \in Int /\ c >= -1664 /\ c <= 1664
      BY SMT, <1>1, GivenCompressed DEF Between
    <2>3. e = Poly!Rounded(f, c)
      <3>1. e = Poly!Compress(f, c)
        BY <1>1, EncodeIs
      <3>2. Poly!Compress(f, c) = Poly!Rounded(f, c)
        BY SMT, <1>1, <2>1, CompressIs
      <3> QED
        BY <3>1, <3>2
    <2>4. v = Poly!Decompress(f, Poly!Rounded(f, c))
      BY <1>1, <2>3, DecodeIs
    <2>5. f # "poly"
      BY <1>1, Kinds
    <2>6. Near(f, v, c)
      BY SMT, <1>1, <2>1, <2>4, DecompressNear
    <2> HIDE DEF v, e
    <2>10. Promise(f, v, c)
      BY <1>1, <2>5, <2>6 DEF Promise
    <2> QED
      BY <2>10 DEF v, e
  <1>2. CASE f \in DOMAIN Poly!Zero
    <2>1. f \notin DOMAIN Poly!Scale /\ f # "poly"
      BY <1>2, Kinds
    <2>2. Poly!Zero[f] \in Int
      BY SMT, <1>2, ZeroNames DEF Poly!Zero
    <2>3. e = Poly!Zero[f] - c /\ v = Poly!Zero[f] - e
      BY <1>2, EncodeIs, DecodeIs
    <2> HIDE DEF e, v
    <2>4. v = c
      BY SMT, <1>0, <2>2, <2>3
    <2>10. Promise(f, v, c)
      BY <2>1, <2>4 DEF Promise
    <2> QED
      BY <2>10 DEF v, e
  <1>3. CASE f = "poly"
    <2>1. f \notin DOMAIN Poly!Scale /\ f \notin DOMAIN Poly!Zero
      BY <1>3, Kinds
    <2>2. v = Poly!Standard(c)
      BY <1>3, <2>1, EncodeIs, DecodeIs
    <2>3. Poly!Ends[f] = <<-3328, 3328>>
      BY SMT, <1>3 DEF Poly!Ends
    <2>4. c >= -3328 /\ c <= 3328
      BY SMT, <2>3, GivenBetween DEF Between
    <2> HIDE DEF v
    <2>5. v \in Int /\ (v = c \/ v = c + 3329)
      BY SMT, <1>0, <2>2, <2>4, StandardBetween
    <2>6. (v - c) % Poly!Q = 0
      BY SMT, <1>0, <2>5 DEF Poly!Q
    <2>10. Promise(f, v, c)
      BY <1>3, <2>1, <2>6 DEF Promise
    <2> QED
      BY <2>10 DEF v, e
  <1>4. CASE f \notin DOMAIN Poly!Scale /\ f \notin DOMAIN Poly!Zero /\ f # "poly"
    <2>1. v = c
      BY <1>4, EncodeIs, DecodeIs
    <2> HIDE DEF v, e
    <2>10. Promise(f, v, c)
      BY <1>4, <2>1 DEF Promise
    <2> QED
      BY <2>10 DEF v, e
  <1> QED
    BY <1>1, <1>2, <1>3, <1>4

----------------------------------------------------------------------------
\* The word a coefficient is packed as.
Word(f, c) == Poly!Bits(Poly!Encode(f, c))

\* It has w bits.
LEMMA WordFits ==
  ASSUME NEW f \in DOMAIN Poly!Format, NEW c \in Poly!Given(f)
  PROVE  Word(f, c) \subseteq 0..(Poly!Format[f].w - 1)
  <1> DEFINE w == Poly!Format[f].w
             e == Poly!Encode(f, c)
  <1>1. w \in 0..24
    BY Packs
  <1>2. e \in Nat /\ e < Bin(w)
    BY Encoded
  <1> HIDE DEF w, e
  <1>3. Poly!Bits(e) \subseteq 0..(w - 1)
    BY <1>1, <1>2, BitsBelow
  <1> QED
    BY <1>3 DEF w, e, Word

\* Its value is the number that was packed.
LEMMA WordValue ==
  ASSUME NEW f \in DOMAIN Poly!Format, NEW c \in Poly!Given(f)
  PROVE  Poly!Value(Word(f, c)) = Poly!Encode(f, c)
  <1> DEFINE w == Poly!Format[f].w
             e == Poly!Encode(f, c)
  <1>1. w \in 0..24
    BY Packs
  <1>2. e \in Nat /\ e < Bin(w)
    BY Encoded
  <1> HIDE DEF w, e
  <1>3. Bin(w) <= Bin(24) /\ Bin(w) \in Nat /\ Bin(24) \in Nat
    BY <1>1, PowersGrow
  <1>4. e < Bin(24)
    BY <1>2, <1>3
  <1>5. Poly!Value(Poly!Bits(e)) = e
    BY <1>2, <1>4, ValueOfBits
  <1> QED
    BY <1>5 DEF e, Word

\* Byte b of what is packed, before it is stored as eight bits.
PackedByte(f, xs, b) ==
  Poly!Gather(Poly!Format[f].pack, (8 * Len(Poly!Format[f].pack)) \div Poly!Format[f].w,
              [c \in 0..7 |-> Word(f, xs[c])], b)

\* Bit a of byte b is bit 8b + a of the words one after the other.
LEMMA PackedByteIs ==
  ASSUME NEW f \in DOMAIN Poly!Format, NEW xs \in [0..7 -> Poly!Given(f)],
         NEW w, w = Poly!Format[f].w, NEW b \in 0..(w - 1), NEW a \in 0..7
  PROVE  /\ (8 * b + a) \div w \in 0..7
         /\ a \in PackedByte(f, xs, b) <=> (8 * b + a) % w \in Word(f, xs[(8 * b + a) \div w])
  <1> DEFINE recipe == Poly!Format[f].pack
             per == (8 * Len(recipe)) \div w
             words == [c \in 0..7 |-> Word(f, xs[c])]
             d == (8 * b + a) \div w
             e == (8 * b + a) % w
  <1>1. w \in 1..20 /\ Moves(recipe, w, 8)
    BY Packs
  <1>2. ASSUME NEW c \in 0..(8 - 1) PROVE words[c] \subseteq 0..(w - 1)
    <2>1. c \in 0..7 /\ xs[c] \in Poly!Given(f)
      OBVIOUS
    <2> QED
      BY <2>1, WordFits
  <1>3. PackedByte(f, xs, b) = Poly!Gather(recipe, per, words, b)
    BY DEF PackedByte
  <1>4. w \in Nat /\ w > 0 /\ b \in Nat /\ b + 1 <= w /\ a \in Nat /\ a < 8 /\ a \in 0..(8 - 1)
    BY <1>1
  <1>5. 8 * (b + 1) <= w * 8
    BY <1>4
  <1>6. d \in 0..7
    <2>1. d \in 0..(8 - 1)
      BY <1>4, <1>5, PlaceBelow
    <2> QED
      BY <2>1
  <1>7. words[d] = Word(f, xs[d])
    BY <1>6
  <1> HIDE DEF recipe, words
  <1>8. Aligned(recipe, w, 8) /\ per \in Nat /\ w * per = 8 * Len(recipe)
    BY <1>1 DEF Moves
  <1> HIDE DEF per
  <1>9. a \in Poly!Gather(recipe, per, words, b) <=> e \in words[d]
    <2> DEFINE byte == 8
    <2>1. /\ w \in Nat /\ byte \in Nat /\ w > 0 /\ byte > 0 /\ per \in Nat /\ b \in Nat
          /\ a \in 0..(byte - 1)
      BY <1>4, <1>8
    <2>2. Aligned(recipe, w, byte) /\ w * per = byte * Len(recipe)
      BY <1>8
    <2>3. \A c \in 0..(byte - 1) : words[c] \subseteq 0..(w - 1)
      BY <1>2
    <2>4. byte * (b + 1) <= w * byte
      BY <1>5
    <2>5. d = (byte * b + a) \div w /\ e = (byte * b + a) % w
      OBVIOUS
    <2> HIDE DEF byte, d, e
    <2>6. a \in Poly!Gather(recipe, per, words, b)
            <=> (byte * b + a) % w \in words[(byte * b + a) \div w]
      BY <2>1, <2>2, <2>3, <2>4, GatherIs
    <2> QED
      BY <2>5, <2>6
  <1> QED
    BY <1>3, <1>6, <1>7, <1>9

\* Bytes that hold the words of xs one after the other.
Holds(f, xs, bytes) ==
  LET w == Poly!Format[f].w
  IN  \A b \in 0..(w - 1) :
        /\ bytes[b] \subseteq 0..7
        /\ \A a \in 0..7 : a \in bytes[b] <=> (8 * b + a) % w \in Word(f, xs[(8 * b + a) \div w])

\* Coefficient c of what is unpacked, before it is masked.
LoadedWord(f, bytes, c) ==
  Poly!Gather(Poly!Format[f].unpack, (Poly!Format[f].w * Len(Poly!Format[f].unpack)) \div 8, bytes, c)

\* w1 is never unpacked.
Unpacked(f) == Poly!Format[f].unpack # << >>

\* Up to its w bits it is the word that was packed.
LEMMA LoadedWordIs ==
  ASSUME NEW f \in DOMAIN Poly!Format, Unpacked(f),
         NEW xs, NEW bytes, Holds(f, xs, bytes),
         NEW w, w = Poly!Format[f].w, NEW c \in 0..7, NEW d \in 0..(w - 1)
  PROVE  d \in LoadedWord(f, bytes, c) <=> d \in Word(f, xs[c])
  <1> DEFINE recipe == Poly!Format[f].unpack
             per == (w * Len(recipe)) \div 8
             b == (w * c + d) \div 8
             a == (w * c + d) % 8
  <1>1. w \in 1..20 /\ Moves(recipe, 8, w)
    BY Packs, Unpacks DEF Unpacked
  <1>2. LoadedWord(f, bytes, c) = Poly!Gather(recipe, per, bytes, c)
    BY DEF LoadedWord
  <1>3. \A m \in 0..(w - 1) : bytes[m] \subseteq 0..7
    BY DEF Holds
  <1>4. w \in Nat /\ w > 0 /\ c \in Nat /\ c + 1 <= 8 /\ d \in Nat /\ d < w
    <2> HIDE DEF recipe
    <2> QED
      BY <1>1
  <1>5. w * (c + 1) <= 8 * w
    <2>1. w * (c + 1) <= w * 8
      BY <1>4
    <2> QED
      BY <1>4, <2>1
  <1>6. w * c + d \in Nat
    BY <1>4
  <1>7. b \in 0..(w - 1)
    <2> DEFINE byte == 8
    <2>1. byte \in Nat /\ byte > 0 /\ w * (c + 1) <= byte * w /\ b = (w * c + d) \div byte
      BY <1>5
    <2> HIDE DEF byte, b
    <2>2. (w * c + d) \div byte \in 0..(w - 1)
      BY <1>4, <2>1, PlaceBelow
    <2> QED
      BY <2>1, <2>2
  <1>8. a \in 0..7 /\ 8 * b + a = w * c + d
    BY <1>6
  <1>9. (w * c + d) \div w = c /\ (w * c + d) % w = d
    BY <1>4, <1>6, DivModIs
  <1> HIDE DEF recipe
  <1>10. Aligned(recipe, 8, w) /\ per \in Nat /\ 8 * per = w * Len(recipe)
    BY <1>1 DEF Moves
  <1> HIDE DEF per
  <1>11. \A m \in 0..(w - 1) : bytes[m] \subseteq 0..(8 - 1)
    BY <1>3
  <1>12. d \in Poly!Gather(recipe, per, bytes, c) <=> a \in bytes[b]
    <2> DEFINE byte == 8
               size == w
    <2>1. /\ w \in Nat /\ byte \in Nat /\ w > 0 /\ byte > 0 /\ per \in Nat /\ c \in Nat /\ size \in Nat
          /\ d \in 0..(w - 1)
      BY <1>4, <1>10
    <2>2. Aligned(recipe, byte, w) /\ byte * per = w * Len(recipe)
      BY <1>10
    <2>3. \A m \in 0..(size - 1) : bytes[m] \subseteq 0..(byte - 1)
      BY <1>11
    <2>4. w * (c + 1) <= byte * size
      BY <1>5
    <2>5. b = (w * c + d) \div byte /\ a = (w * c + d) % byte
      OBVIOUS
    <2> HIDE DEF byte, size, a, b
    <2>6. d \in Poly!Gather(recipe, per, bytes, c)
            <=> (w * c + d) % byte \in bytes[(w * c + d) \div byte]
      BY <2>1, <2>2, <2>3, <2>4, GatherIs
    <2> QED
      BY <2>5, <2>6
  <1> HIDE DEF a, b
  <1>13. a \in bytes[b] <=> (8 * b + a) % w \in Word(f, xs[(8 * b + a) \div w])
    BY <1>7, <1>8 DEF Holds
  <1> QED
    BY <1>2, <1>8, <1>9, <1>12, <1>13

----------------------------------------------------------------------------
\* A byte that is shifted right by n has no bit above 7 - n.
LEMMA ShiftFits ==
  ASSUME NEW s, s \subseteq 0..7, NEW n \in Int, NEW m \in Int, 7 - n <= m
  PROVE  Poly!Shift(s, n) \subseteq 0..m
  <1> SUFFICES ASSUME NEW j \in s, j >= n PROVE j - n \in 0..m
    BY DEF Poly!Shift
  <1>1. j \in 0..7
    OBVIOUS
  <1> QED
    BY <1>1

\* The second word of a recipe of two, where nothing is shifted beyond bit m.
LEMMA GatherFits ==
  ASSUME NEW recipe, NEW per \in Nat, NEW words, NEW n \in Nat, NEW m \in Int,
         Len(recipe) = 2, n % 2 = 1,
         \A t \in recipe[2] : /\ words[(n \div 2) * per + t[1]] \subseteq 0..7
                             /\ t[2] \in Int /\ 7 - t[2] <= m
  PROVE  Poly!Gather(recipe, per, words, n) \subseteq 0..m
  <1> DEFINE first == (n \div 2) * per
  <1>0. (n % 2) + 1 = 2
    OBVIOUS
  <1>1. Poly!Gather(recipe, per, words, n) = UNION {Poly!Shift(words[first + t[1]], t[2]) : t \in recipe[2]}
    BY <1>0 DEF Poly!Gather
  <1>2. ASSUME NEW t \in recipe[2] PROVE Poly!Shift(words[first + t[1]], t[2]) \subseteq 0..m
    <2> DEFINE s == words[first + t[1]]
               d == t[2]
    <2>1. s \subseteq 0..7 /\ d \in Int /\ 7 - d <= m
      OBVIOUS
    <2> HIDE DEF s, d
    <2>2. Poly!Shift(s, d) \subseteq 0..m
      BY <2>1, ShiftFits
    <2> QED
      BY <2>2 DEF s, d
  <1> QED
    BY <1>1, <1>2

\* Without the mask nothing is left above the w bits either.
LEMMA UnmaskedFits ==
  ASSUME NEW f, NEW c \in 0..7, <<f, c % Len(Poly!Format[f].unpack)>> \in Poly!Unmasked,
         NEW bytes, \A b \in 0..(Poly!Format[f].w - 1) : bytes[b] \subseteq 0..7
  PROVE  LoadedWord(f, bytes, c) \subseteq 0..(Poly!Format[f].w - 1)
  <1> DEFINE recipe == Poly!Format[f].unpack
             w == Poly!Format[f].w
             g == c \div 2
  <1>1. (f = "dv4" \/ f = "eta4" \/ f = "z19") /\ c % Len(recipe) = 1
    BY DEF Poly!Unmasked
  <1>2. g \in 0..3 /\ c \in Nat
    OBVIOUS
  <1>3. CASE f = "dv4"
    <2>1. recipe = Poly!poly_decompress_4 /\ w = 4
      BY SMT, <1>3 DEF Poly!Format
    <2>2. Len(recipe) = 2
      BY <2>1, PolyDecompress4
    <2>3. recipe[2] = {<<0, 4>>}
      BY <2>1 DEF Poly!poly_decompress_4
    <2> HIDE DEF recipe, w, g
    <2>4. LoadedWord(f, bytes, c) = Poly!Gather(recipe, 1, bytes, c)
      BY <2>1, <2>2 DEF LoadedWord, recipe, w
    <2>5. \A t \in recipe[2] : bytes[g * 1 + t[1]] \subseteq 0..7 /\ t[2] \in Int /\ 7 - t[2] <= 3
      <3>1. \A b \in 0..3 : bytes[b] \subseteq 0..7
        BY <2>1 DEF w
      <3>2. g * 1 + 0 \in 0..3
        BY <1>2
      <3>2a. bytes[g * 1 + 0] \subseteq 0..7 /\ 7 - (4) <= 3
        BY <3>1, <3>2
      <3> QED
        BY <2>3, <3>2a
    <2>6. Poly!Gather(recipe, 1, bytes, c) \subseteq 0..3
      <3> DEFINE per == 1
                 m == 3
      <3>1. per \in Nat /\ m \in Int
        OBVIOUS
      <3>2. \A t \in recipe[2] : bytes[g * per + t[1]] \subseteq 0..7 /\ t[2] \in Int /\ 7 - t[2] <= m
        BY <2>5
      <3>3. c % 2 = 1
        BY <1>1, <2>2 DEF recipe
      <3> HIDE DEF per, m
      <3>4. Poly!Gather(recipe, per, bytes, c) \subseteq 0..m
        BY <1>2, <2>2, <3>1, <3>2, <3>3, GatherFits DEF g
      <3> QED
        BY <3>4 DEF per, m
    <2> QED
      BY <2>1, <2>4, <2>6 DEF w
  <1>4. CASE f = "eta4"
    <2>1. recipe = Poly!polyeta_unpack_4 /\ w = 4
      BY SMT, <1>4 DEF Poly!Format
    <2>2. Len(recipe) = 2
      BY <2>1, PolyetaUnpack4
    <2>3. recipe[2] = {<<0, 4>>}
      BY <2>1 DEF Poly!polyeta_unpack_4
    <2> HIDE DEF recipe, w, g
    <2>4. LoadedWord(f, bytes, c) = Poly!Gather(recipe, 1, bytes, c)
      BY <2>1, <2>2 DEF LoadedWord, recipe, w
    <2>5. \A t \in recipe[2] : bytes[g * 1 + t[1]] \subseteq 0..7 /\ t[2] \in Int /\ 7 - t[2] <= 3
      <3>1. \A b \in 0..3 : bytes[b] \subseteq 0..7
        BY <2>1 DEF w
      <3>2. g * 1 + 0 \in 0..3
        BY <1>2
      <3>2a. bytes[g * 1 + 0] \subseteq 0..7 /\ 7 - (4) <= 3
        BY <3>1, <3>2
      <3> QED
        BY <2>3, <3>2a
    <2>6. Poly!Gather(recipe, 1, bytes, c) \subseteq 0..3
      <3> DEFINE per == 1
                 m == 3
      <3>1. per \in Nat /\ m \in Int
        OBVIOUS
      <3>2. \A t \in recipe[2] : bytes[g * per + t[1]] \subseteq 0..7 /\ t[2] \in Int /\ 7 - t[2] <= m
        BY <2>5
      <3>3. c % 2 = 1
        BY <1>1, <2>2 DEF recipe
      <3> HIDE DEF per, m
      <3>4. Poly!Gather(recipe, per, bytes, c) \subseteq 0..m
        BY <1>2, <2>2, <3>1, <3>2, <3>3, GatherFits DEF g
      <3> QED
        BY <3>4 DEF per, m
    <2> QED
      BY <2>1, <2>4, <2>6 DEF w
  <1>5. CASE f = "z19"
    <2>1. recipe = Poly!polyz_unpack_19 /\ w = 20
      BY SMT, <1>5 DEF Poly!Format
    <2>2. Len(recipe) = 2
      BY <2>1, PolyzUnpack19
    <2>3. recipe[2] = {<<2, 4>>, <<3, -4>>, <<4, -12>>}
      BY <2>1 DEF Poly!polyz_unpack_19
    <2> HIDE DEF recipe, w, g
    <2>4. LoadedWord(f, bytes, c) = Poly!Gather(recipe, 5, bytes, c)
      BY <2>1, <2>2 DEF LoadedWord, recipe, w
    <2>5. \A t \in recipe[2] : bytes[g * 5 + t[1]] \subseteq 0..7 /\ t[2] \in Int /\ 7 - t[2] <= 19
      <3>1. \A b \in 0..19 : bytes[b] \subseteq 0..7
        BY <2>1 DEF w
      <3>2. g * 5 + 2 \in 0..19
        BY <1>2
      <3>2a. bytes[g * 5 + 2] \subseteq 0..7 /\ 7 - (4) <= 19
        BY <3>1, <3>2
      <3>3. g * 5 + 3 \in 0..19
        BY <1>2
      <3>3a. bytes[g * 5 + 3] \subseteq 0..7 /\ 7 - (-4) <= 19
        BY <3>1, <3>3
      <3>4. g * 5 + 4 \in 0..19
        BY <1>2
      <3>4a. bytes[g * 5 + 4] \subseteq 0..7 /\ 7 - (-12) <= 19
        BY <3>1, <3>4
      <3> QED
        BY <2>3, <3>2a, <3>3a, <3>4a
    <2>6. Poly!Gather(recipe, 5, bytes, c) \subseteq 0..19
      <3> DEFINE per == 5
                 m == 19
      <3>1. per \in Nat /\ m \in Int
        OBVIOUS
      <3>2. \A t \in recipe[2] : bytes[g * per + t[1]] \subseteq 0..7 /\ t[2] \in Int /\ 7 - t[2] <= m
        BY <2>5
      <3>3. c % 2 = 1
        BY <1>1, <2>2 DEF recipe
      <3> HIDE DEF per, m
      <3>4. Poly!Gather(recipe, per, bytes, c) \subseteq 0..m
        BY <1>2, <2>2, <3>1, <3>2, <3>3, GatherFits DEF g
      <3> QED
        BY <3>4 DEF per, m
    <2> QED
      BY <2>1, <2>4, <2>6 DEF w
  <1> QED
    BY <1>1, <1>3, <1>4, <1>5

\* Coefficient c of what is unpacked.
LoadedCoefficient(f, bytes, c) ==
  IF <<f, c % Len(Poly!Format[f].unpack)>> \in Poly!Unmasked
  THEN LoadedWord(f, bytes, c) ELSE LoadedWord(f, bytes, c) \cap 0..(Poly!Format[f].w - 1)

\* It is the word that was packed.
LEMMA Loaded ==
  ASSUME NEW f \in DOMAIN Poly!Format, Unpacked(f), NEW xs \in [0..7 -> Poly!Given(f)],
         NEW bytes, Holds(f, xs, bytes), NEW c \in 0..7
  PROVE  LoadedCoefficient(f, bytes, c) = Word(f, xs[c])
  <1> DEFINE w == Poly!Format[f].w
             g == LoadedWord(f, bytes, c)
             v == Word(f, xs[c])
             l == LoadedCoefficient(f, bytes, c)
             M == <<f, c % Len(Poly!Format[f].unpack)>> \in Poly!Unmasked
  <1>1. \A d \in 0..(w - 1) : d \in g <=> d \in v
    BY LoadedWordIs
  <1>2. v \subseteq 0..(w - 1)
    BY WordFits
  <1>3. \A b \in 0..(w - 1) : bytes[b] \subseteq 0..7
    BY DEF Holds
  <1>4. M => g \subseteq 0..(w - 1)
    BY <1>3, UnmaskedFits
  <1>5. l = IF M THEN g ELSE g \cap 0..(w - 1)
    BY DEF LoadedCoefficient
  <1> HIDE DEF w, g, v, l, M
  <1>6. l = v
    BY <1>1, <1>2, <1>4, <1>5
  <1> QED
    BY <1>6 DEF l, v

----------------------------------------------------------------------------
\* A set t holds the bits of "count" bytes from byte "first" on.
Window(t, bytes, first, count) ==
  \A a : a \in t <=> a \in 0..(8 * count - 1) /\ a % 8 \in bytes[first + (a \div 8)]

\* load24_littleendian and load32_littleendian.
LEMMA LoadIs ==
  ASSUME NEW bytes, NEW first \in Nat, NEW count \in Nat,
         \A b \in 0..(count - 1) : bytes[first + b] \subseteq 0..7
  PROVE  Window(Poly!Load(bytes, first, count), bytes, first, count)
  <1> DEFINE t == Poly!Load(bytes, first, count)
  <1>1. t = UNION {Poly!Shift(bytes[first + b], -8 * b) : b \in 0..(count - 1)}
    BY DEF Poly!Load
  <1>2. ASSUME NEW a \in t PROVE a \in 0..(8 * count - 1) /\ a % 8 \in bytes[first + (a \div 8)]
    <2>1. PICK b \in 0..(count - 1) : a \in Poly!Shift(bytes[first + b], -8 * b)
      BY <1>1
    <2>2. PICK j \in bytes[first + b] : a = j - (-8 * b)
      BY <2>1 DEF Poly!Shift
    <2>3. j \in 0..7 /\ b \in Int
      OBVIOUS
    <2>4. a = 8 * b + j
      BY <2>2, <2>3
    <2>5. a \div 8 = b /\ a % 8 = j
      BY <2>3, <2>4
    <2>6. a \in 0..(8 * count - 1)
      BY <2>3, <2>4
    <2> QED
      BY <2>5, <2>6
  <1>3. ASSUME NEW a \in 0..(8 * count - 1), a % 8 \in bytes[first + (a \div 8)] PROVE a \in t
    <2> DEFINE b == a \div 8
               j == a % 8
    <2>1. b \in 0..(count - 1) /\ j \in 0..7 /\ a = 8 * b + j /\ j \in bytes[first + b]
      BY <1>3
    <2> HIDE DEF b, j
    <2>2. j >= -8 * b /\ a = j - (-8 * b)
      BY <2>1
    <2>3. a \in Poly!Shift(bytes[first + b], -8 * b)
      BY <2>1, <2>2 DEF Poly!Shift
    <2> QED
      BY <1>1, <2>1, <2>3
  <1> HIDE DEF t
  <1>4. Window(t, bytes, first, count)
    BY <1>2, <1>3 DEF Window
  <1> QED
    BY <1>4 DEF t

\* One lane of cbd2 of cbd_rvv.c.
LEMMA ByteIs ==
  ASSUME NEW bytes, NEW first \in Nat, bytes[first] \subseteq 0..7
  PROVE  Window(bytes[first], bytes, first, 1)
  <1>1. ASSUME NEW a \in 0..7 PROVE a % 8 = a /\ first + (a \div 8) = first
    BY SMT
  <1>2. 8 * 1 - 1 = 7
    BY SMT
  <1> QED
    BY <1>1, <1>2 DEF Window

\* The sum of eta bits of the stream from bit n on.
BitSum(bytes, n, eta) == Cardinality({a \in n..(n + eta - 1) : a % 8 \in bytes[a \div 8]})

\* A sum of eta bits is at most eta.
LEMMA BitSumBelow ==
  ASSUME NEW bytes, NEW n \in Nat, NEW eta \in 2..3
  PROVE  BitSum(bytes, n, eta) \in 0..eta
  <1> DEFINE S == n..(n + eta - 1)
             T == {a \in S : a % 8 \in bytes[a \div 8]}
  <1>1. IsFiniteSet(S) /\ Cardinality(S) = eta
    <2>1. n \in Int /\ n + eta - 1 \in Int /\ ~(n > n + eta - 1) /\ (n + eta - 1) - n + 1 = eta
      BY SMT
    <2> QED
      BY <2>1, FS_Interval
  <1>2. T \in SUBSET S
    OBVIOUS
  <1>3. BitSum(bytes, n, eta) = Cardinality(T)
    BY DEF BitSum
  <1> HIDE DEF S, T
  <1>4. IsFiniteSet(T) /\ Cardinality(T) <= Cardinality(S)
    BY <1>1, <1>2, FS_Subset
  <1>5. Cardinality(T) \in Nat
    BY <1>4, FS_CardinalityType
  <1> QED
    BY <1>1, <1>3, <1>4, <1>5

\* Field f of eta bits is among those of "count" bytes, and starts at bit n of the stream.
Room(eta, f, first, count, n) == eta * (f + 1) <= 8 * count /\ n = 8 * first + eta * f

\* Cardinality as PolyCodec extends it.
LEMMA SameCardinality == ASSUME NEW S PROVE Poly!Cardinality(S) = Cardinality(S)
  BY DEF Poly!Cardinality, Cardinality

\* Field f of what is loaded sums the bits at its place in the stream.
LEMMA FieldIs ==
  ASSUME NEW t, NEW bytes, NEW first \in Nat, NEW count \in Nat, Window(t, bytes, first, count),
         NEW eta \in 2..3, NEW f \in Nat, NEW from, Room(eta, f, first, count, from)
  PROVE  Poly!Field(t, eta, f) = BitSum(bytes, from, eta)
  <1> DEFINE o == eta * f
             n == 8 * first + o
             A == {a \in t : a \div eta = f}
             B == {a \in n..(n + eta - 1) : a % 8 \in bytes[a \div 8]}
  <1>1. Poly!Field(t, eta, f) = Cardinality(A) /\ BitSum(bytes, from, eta) = Cardinality(B)
    <2>1. Poly!Field(t, eta, f) = Cardinality(A)
      BY SameCardinality DEF Poly!Field
    <2>2. BitSum(bytes, n, eta) = Cardinality(B)
      BY DEF BitSum
    <2>3. from = n
      BY DEF Room
    <2> QED
      BY <2>1, <2>2, <2>3
  <1>2. o \in Nat /\ o + eta <= 8 * count
    <2>1. eta * (f + 1) = o + eta /\ o \in Nat
      OBVIOUS
    <2>2. eta * (f + 1) <= 8 * count
      BY DEF Room
    <2> QED
      BY <2>1, <2>2
  <1>3. ASSUME NEW a \in Nat PROVE a \div eta = f <=> a \in o..(o + eta - 1)
    <2>1. CASE eta = 2
      BY SMT, <2>1
    <2>2. CASE eta = 3
      BY SMT, <2>2
    <2> QED
      BY <2>1, <2>2
  <1> HIDE DEF o
  <1>4. ASSUME NEW a \in Nat
        PROVE  a \in A <=> a \in o..(o + eta - 1) /\ a % 8 \in bytes[first + (a \div 8)]
    <2>1. a \in A <=> a \in t /\ a \in o..(o + eta - 1)
      BY <1>3
    <2>2. a \in o..(o + eta - 1) => a \in 0..(8 * count - 1)
      BY <1>2
    <2> QED
      BY <2>1, <2>2 DEF Window
  <1>5. A \subseteq Nat /\ B \subseteq Nat
    <2>1. A \subseteq t
      OBVIOUS
    <2>2. t \subseteq Nat
      BY DEF Window
    <2>3. n \in Nat
      BY <1>2
    <2>4. n..(n + eta - 1) \subseteq Nat
      <3> HIDE DEF n
      <3> QED
        BY <2>3
    <2>5. B \subseteq n..(n + eta - 1)
      OBVIOUS
    <2> HIDE DEF A, B, n
    <2> QED
      BY <2>1, <2>2, <2>4, <2>5
  <1>6. ASSUME NEW a \in Nat
        PROVE  a \in A <=> 8 * first + a \in B
    <2>1. (8 * first + a) % 8 = a % 8 /\ (8 * first + a) \div 8 = first + (a \div 8)
      BY SMT
    <2>2. a \in o..(o + eta - 1) <=> 8 * first + a \in n..(n + eta - 1)
      BY <1>2
    <2>3. 8 * first + a \in B
              <=> 8 * first + a \in n..(n + eta - 1)
                        /\ (8 * first + a) % 8 \in bytes[(8 * first + a) \div 8]
      OBVIOUS
    <2> QED
      BY <1>4, <2>1, <2>2, <2>3
  <1>7. \A b \in B : b - 8 * first \in Nat /\ b = 8 * first + (b - 8 * first)
    BY <1>2
  <1>8. IsFiniteSet(B)
    <2>1. IsFiniteSet(n..(n + eta - 1))
      <3>1. n \in Int /\ n + eta - 1 \in Int
        BY <1>2
      <3> HIDE DEF n
      <3> QED
        BY <3>1, FS_Interval
    <2>2. B \in SUBSET (n..(n + eta - 1))
      OBVIOUS
    <2> HIDE DEF B
    <2> QED
      BY <2>1, <2>2, FS_Subset
  <1> HIDE DEF A, B, n
  <1>9. [b \in B |-> b - 8 * first] \in Bijection(B, A)
    <2> DEFINE g == [b \in B |-> b - 8 * first]
    <2>1. g \in [B -> A]
      BY <1>6, <1>7
    <2>2. \A b, c \in B : g[b] = g[c] => b = c
      BY <1>5
    <2>3. \A a \in A : \E b \in B : g[b] = a
      <3> SUFFICES ASSUME NEW a \in A PROVE \E b \in B : g[b] = a
        OBVIOUS
      <3>1. a \in Nat /\ 8 * first + a \in B
        BY <1>5, <1>6
      <3>2. g[8 * first + a] = a
        BY <3>1
      <3> QED
        BY <3>1, <3>2
    <2> HIDE DEF g
    <2> QED
      BY <2>1, <2>2, <2>3, Fun_IsBij DEF g
  <1>10. Cardinality(A) = Cardinality(B)
    BY <1>8, <1>9, FS_Bijection DEF ExistsBijection
  <1> QED
    BY <1>1, <1>10

----------------------------------------------------------------------------
\* Coefficient c of the noise.
Binomial(bytes, eta, c) == BitSum(bytes, 2 * eta * c, eta) - BitSum(bytes, 2 * eta * c + eta, eta)

\* Fields 2j and 2j + 1 of a window that starts at byte "first" are those of coefficient c.
Place(eta, j, first, count, c) ==
  eta * (2 * j + 2) <= 8 * count /\ 8 * first + eta * (2 * j) = 2 * eta * c

\* The difference of the two fields.
LEMMA PairIs ==
  ASSUME NEW t, NEW bytes, NEW first \in Nat, NEW count \in Nat, Window(t, bytes, first, count),
         NEW eta \in 2..3, NEW j \in Nat, NEW c \in Nat, Place(eta, j, first, count, c)
  PROVE  /\ Poly!Field(t, eta, 2 * j) - Poly!Field(t, eta, 2 * j + 1) = Binomial(bytes, eta, c)
         /\ Binomial(bytes, eta, c) \in Int
         /\ Binomial(bytes, eta, c) >= -3 /\ Binomial(bytes, eta, c) <= 3
  <1> DEFINE m == 2 * j
             l == m + 1
             n == 2 * eta * c
             p == n + eta
  <1>1. m \in Nat /\ l \in Nat /\ n \in Nat /\ p \in Nat
    OBVIOUS
  <1>2. eta * (2 * j + 2) <= 8 * count /\ 8 * first + eta * m = n
    BY DEF Place
  <1>3. eta * (l + 1) = eta * m + 2 * eta /\ eta * (m + 1) = eta * m + eta /\ eta * l = eta * m + eta
    OBVIOUS
  <1>4. l + 1 = 2 * j + 2 /\ eta * m \in Int
    OBVIOUS
  <1>5. Binomial(bytes, eta, c) = BitSum(bytes, n, eta) - BitSum(bytes, p, eta)
    BY DEF Binomial
  <1>6. p = n + eta
    OBVIOUS
  <1> HIDE DEF m, n, p, l
  <1>7. Room(eta, l, first, count, p) /\ Room(eta, m, first, count, n)
    <2>1. 8 * first + eta * l = p
      BY <1>1, <1>2, <1>3, <1>4, <1>6
    <2>2. eta * (l + 1) <= 8 * count
      BY <1>2, <1>4
    <2>3. eta * (m + 1) <= 8 * count
      BY <1>3, <1>4, <2>2
    <2> QED
      BY <1>2, <2>1, <2>2, <2>3 DEF Room
  <1>9. Poly!Field(t, eta, m) = BitSum(bytes, n, eta)
    <2>1. m \in Nat /\ Room(eta, m, first, count, n)
      BY <1>1, <1>7
    <2> QED
      BY <2>1, FieldIs
  <1>10. Poly!Field(t, eta, l) = BitSum(bytes, p, eta)
    <2>1. l \in Nat /\ Room(eta, l, first, count, p)
      BY <1>1, <1>7
    <2> QED
      BY <2>1, FieldIs
  <1> DEFINE a == BitSum(bytes, n, eta)
             b == BitSum(bytes, p, eta)
  <1>11. a \in 0..eta /\ b \in 0..eta
    BY <1>1, BitSumBelow
  <1>12. a - b \in Int /\ a - b >= -3 /\ a - b <= 3
    <2> HIDE DEF a, b
    <2> QED
      BY <1>11
  <1>13. Poly!Field(t, eta, m) = a /\ Poly!Field(t, eta, l) = b
    BY <1>9, <1>10
  <1>14. Binomial(bytes, eta, c) = a - b
    BY <1>5
  <1> HIDE DEF a, b
  <1>15. Poly!Field(t, eta, m) - Poly!Field(t, eta, l) = Binomial(bytes, eta, c)
    BY <1>13, <1>14
  <1> QED
    BY <1>12, <1>14, <1>15 DEF m, l

\* A small difference survives its conversion to int8_t or int16_t.
LEMMA SignedIs ==
  ASSUME NEW d \in Int, d >= -3, d <= 3, NEW u, NEW v,
         u = Poly!Signed(d % 256, 8), v = Poly!Signed(d % 65536, 16)
  PROVE  u = d /\ v = d
  <1>1. 2^(8 - 1) = 128 /\ 2^8 = 256 /\ 2^(16 - 1) = 32768 /\ 2^16 = 65536
    BY SMT
  <1>2. u = IF d % 256 >= 128 THEN (d % 256) - 256 ELSE d % 256
    BY SMT, <1>1 DEF Poly!Signed
  <1>3. v = IF d % 65536 >= 32768 THEN (d % 65536) - 65536 ELSE d % 65536
    BY SMT, <1>1 DEF Poly!Signed
  <1> QED
    BY SMT, <1>2, <1>3

\* What the samplers are given.
Stream(bytes) == bytes \in [0..191 -> SUBSET (0..7)]


\* cbd2 of cbd.c.
LEMMA Cbd2Is ==
  ASSUME NEW bytes, Stream(bytes), NEW c \in 0..255
  PROVE  Poly!cbd2(bytes)[c] = Binomial(bytes, 2, c)
  <1> DEFINE first == 4 * (c \div 8)
             j == c % 8
             t == Poly!Load(bytes, first, 4)
             eta == 2
             count == 4
  <1>1. Poly!cbd2(bytes)[c] = Poly!Field(t, 2, 2 * j) - Poly!Field(t, 2, 2 * j + 1)
    BY DEF Poly!cbd2
  <1>2. /\ first \in Nat /\ first + count <= 192 /\ j \in Nat /\ c \in Nat
    BY SMT
  <1>2a. Place(eta, j, first, count, c)
    BY SMT DEF Place
  <1>3. \A b \in 0..(count - 1) : bytes[first + b] \subseteq 0..7
    <2> HIDE DEF first
    <2> QED
      BY <1>2 DEF Stream
  <1>4. Window(t, bytes, first, count)
    <2>1. count \in Nat /\ t = Poly!Load(bytes, first, count)
      OBVIOUS
    <2> HIDE DEF first, count, t
    <2> QED
      BY <1>2, <1>3, <2>1, LoadIs
  <1>5. eta \in 2..3 /\ count \in Nat
    OBVIOUS
  <1> HIDE DEF first, j, t, count
  <1>6. /\ Poly!Field(t, eta, 2 * j) - Poly!Field(t, eta, 2 * j + 1) = Binomial(bytes, eta, c)
        /\ Binomial(bytes, eta, c) \in Int
        /\ Binomial(bytes, eta, c) >= -3 /\ Binomial(bytes, eta, c) <= 3
    <2> HIDE DEF eta
    <2> QED
      BY <1>2, <1>2a, <1>4, <1>5, PairIs
  <1> QED
    BY <1>1, <1>6

\* cbd3 of cbd.c.
LEMMA Cbd3Is ==
  ASSUME NEW bytes, Stream(bytes), NEW c \in 0..255
  PROVE  Poly!cbd3(bytes)[c] = Binomial(bytes, 3, c)
  <1> DEFINE first == 3 * (c \div 4)
             j == c % 4
             t == Poly!Load(bytes, first, 3)
             eta == 3
             count == 3
  <1>1. Poly!cbd3(bytes)[c] = Poly!Field(t, 3, 2 * j) - Poly!Field(t, 3, 2 * j + 1)
    BY DEF Poly!cbd3
  <1>2. /\ first \in Nat /\ first + count <= 192 /\ j \in Nat /\ c \in Nat
    BY SMT
  <1>2a. Place(eta, j, first, count, c)
    BY SMT DEF Place
  <1>3. \A b \in 0..(count - 1) : bytes[first + b] \subseteq 0..7
    <2> HIDE DEF first
    <2> QED
      BY <1>2 DEF Stream
  <1>4. Window(t, bytes, first, count)
    <2>1. count \in Nat /\ t = Poly!Load(bytes, first, count)
      OBVIOUS
    <2> HIDE DEF first, count, t
    <2> QED
      BY <1>2, <1>3, <2>1, LoadIs
  <1>5. eta \in 2..3 /\ count \in Nat
    OBVIOUS
  <1> HIDE DEF first, j, t, count
  <1>6. /\ Poly!Field(t, eta, 2 * j) - Poly!Field(t, eta, 2 * j + 1) = Binomial(bytes, eta, c)
        /\ Binomial(bytes, eta, c) \in Int
        /\ Binomial(bytes, eta, c) >= -3 /\ Binomial(bytes, eta, c) <= 3
    <2> HIDE DEF eta
    <2> QED
      BY <1>2, <1>2a, <1>4, <1>5, PairIs
  <1> QED
    BY <1>1, <1>6

\* cbd2 of cbd_rvv.c.
LEMMA Cbd2RvvIs ==
  ASSUME NEW bytes, Stream(bytes), NEW c \in 0..255
  PROVE  Poly!cbd2_rvv(bytes)[c] = Binomial(bytes, 2, c)
  <1> DEFINE first == 16 * (c \div 32) + ((c % 32) \div 2)
             j == c % 2
             t == bytes[first]
             eta == 2
             count == 1
  <1>1. Poly!cbd2_rvv(bytes)[c]
            = Poly!Signed((Poly!Field(t, 2, 2 * j) - Poly!Field(t, 2, 2 * j + 1)) % 256, 8)
    BY DEF Poly!cbd2_rvv
  <1>2. /\ first \in Nat /\ first + count <= 192 /\ j \in Nat /\ c \in Nat
    BY SMT
  <1>2a. Place(eta, j, first, count, c)
    BY SMT DEF Place
  <1>3. \A b \in 0..(count - 1) : bytes[first + b] \subseteq 0..7
    <2> HIDE DEF first
    <2> QED
      BY <1>2 DEF Stream
  <1>4. Window(t, bytes, first, count)
    <2>1. bytes[first] \subseteq 0..7
      <3> HIDE DEF first
      <3> QED
        BY <1>2 DEF Stream
    <2> HIDE DEF first
    <2> QED
      BY <1>2, <2>1, ByteIs
  <1>5. eta \in 2..3 /\ count \in Nat
    OBVIOUS
  <1> HIDE DEF first, j, t, count
  <1>6. /\ Poly!Field(t, eta, 2 * j) - Poly!Field(t, eta, 2 * j + 1) = Binomial(bytes, eta, c)
        /\ Binomial(bytes, eta, c) \in Int
        /\ Binomial(bytes, eta, c) >= -3 /\ Binomial(bytes, eta, c) <= 3
    <2> HIDE DEF eta
    <2> QED
      BY <1>2, <1>2a, <1>4, <1>5, PairIs
  <1> DEFINE d == Binomial(bytes, 2, c)
  <1>7. d \in Int /\ d >= -3 /\ d <= 3 /\ Poly!cbd2_rvv(bytes)[c] = Poly!Signed(d % 256, 8)
    BY SMT, <1>1, <1>6
  <1> HIDE DEF d
  <1>8. Poly!Signed(d % 256, 8) = d
    BY SMT, <1>7, SignedIs
  <1> QED
    BY SMT, <1>7, <1>8 DEF d

\* cbd3 of cbd_rvv.c.
LEMMA Cbd3RvvIs ==
  ASSUME NEW bytes, Stream(bytes), NEW c \in 0..255
  PROVE  Poly!cbd3_rvv(bytes)[c] = Binomial(bytes, 3, c)
  <1> DEFINE first == 24 * (c \div 32) + 3 * ((c % 32) \div 4)
             j == c % 4
             t == Poly!Load(bytes, first, 3)
             eta == 3
             count == 3
  <1>1. Poly!cbd3_rvv(bytes)[c]
            = Poly!Signed((Poly!Field(t, 3, 2 * j) - Poly!Field(t, 3, 2 * j + 1)) % 65536, 16)
    BY DEF Poly!cbd3_rvv
  <1>2. /\ first \in Nat /\ first + count <= 192 /\ j \in Nat /\ c \in Nat
    BY SMT
  <1>2a. Place(eta, j, first, count, c)
    BY SMT DEF Place
  <1>3. \A b \in 0..(count - 1) : bytes[first + b] \subseteq 0..7
    <2> HIDE DEF first
    <2> QED
      BY <1>2 DEF Stream
  <1>4. Window(t, bytes, first, count)
    <2>1. count \in Nat /\ t = Poly!Load(bytes, first, count)
      OBVIOUS
    <2> HIDE DEF first, count, t
    <2> QED
      BY <1>2, <1>3, <2>1, LoadIs
  <1>5. eta \in 2..3 /\ count \in Nat
    OBVIOUS
  <1> HIDE DEF first, j, t, count
  <1>6. /\ Poly!Field(t, eta, 2 * j) - Poly!Field(t, eta, 2 * j + 1) = Binomial(bytes, eta, c)
        /\ Binomial(bytes, eta, c) \in Int
        /\ Binomial(bytes, eta, c) >= -3 /\ Binomial(bytes, eta, c) <= 3
    <2> HIDE DEF eta
    <2> QED
      BY <1>2, <1>2a, <1>4, <1>5, PairIs
  <1> DEFINE d == Binomial(bytes, 3, c)
  <1>7. d \in Int /\ d >= -3 /\ d <= 3 /\ Poly!cbd3_rvv(bytes)[c] = Poly!Signed(d % 65536, 16)
    BY SMT, <1>1, <1>6
  <1> HIDE DEF d
  <1>8. Poly!Signed(d % 65536, 16) = d
    BY SMT, <1>7, SignedIs
  <1> QED
    BY SMT, <1>7, <1>8 DEF d

----------------------------------------------------------------------------
\* The samplers and their eta.
Samplers == {"cbd2", "cbd3", "cbd2_rvv", "cbd3_rvv"}
Eta(f) == IF f \in {"cbd2", "cbd2_rvv"} THEN 2 ELSE 3

\* A group on its way: once stored the bytes hold its words, once loaded what came back
\* is what the format promises.
GroupInv ==
  /\ fmt \in DOMAIN Poly!Format /\ x \in [0..7 -> Poly!Given(fmt)]
  /\ step \in {"given", "stored", "loaded"}
  /\ step = "stored" => Holds(fmt, x, buf)
  /\ step = "loaded" => \A c \in 0..7 : Promise(fmt, y[c], x[c])

\* A stream on its way.
NoiseInv ==
  /\ fmt \in Samplers /\ Stream(buf) /\ step \in {"given", "loaded"}
  /\ step = "loaded" => \A c \in 0..255 : y[c] = Binomial(buf, Eta(fmt), c)

PolyInv == step = "none" \/ GroupInv \/ NoiseInv

\* A sampler is no format.
LEMMA NoFormat == ASSUME NEW f \in Samplers PROVE f \notin DOMAIN Poly!Format
  BY SMT, Names DEF Samplers

\* The groups and streams that are given satisfy the invariant.
LEMMA PolyInvInit == CodecsInit => PolyInv
  <1> SUFFICES ASSUME CodecsInit PROVE PolyInv
    OBVIOUS
  <1>1. step = "none" \/ Poly!Init
    BY DEF CodecsInit
  <1>2. CASE step = "none"
    BY <1>2 DEF PolyInv
  <1>3. ASSUME Poly!Init, NEW g \in Groups, fmt = g[1], x = g[2] PROVE PolyInv
    <2>1. step = "given"
      BY <1>3 DEF Poly!Init
    <2>2. fmt \in DOMAIN Poly!Format /\ x \in [0..7 -> Poly!Given(fmt)]
      BY <1>3, CodecsAssumption
    <2> QED
      BY <2>1, <2>2 DEF PolyInv, GroupInv
  <1>4. ASSUME Poly!Init, NEW g \in Noise, fmt = g[1], buf = g[2] PROVE PolyInv
    <2>1. step = "given"
      BY <1>4 DEF Poly!Init
    <2>2. fmt \in Samplers /\ Stream(buf)
      BY <1>4, CodecsAssumption DEF Samplers, Stream
    <2> QED
      BY <2>1, <2>2 DEF PolyInv, NoiseInv
  <1>5. Poly!Init => (\E g \in Groups : fmt = g[1] /\ x = g[2]) \/ (\E g \in Noise : fmt = g[1]
            /\ buf = g[2])
    BY DEF Poly!Init
  <1> QED
    BY <1>1, <1>2, <1>3, <1>4, <1>5

\* GroupInv a group.
LEMMA PolyPackStep == GroupInv /\ Poly!Pack => GroupInv'
  <1> SUFFICES ASSUME GroupInv, Poly!Pack PROVE GroupInv'
    OBVIOUS
  <1> DEFINE w == Poly!Format[fmt].w
             byte == [b \in 0..(w - 1) |-> PackedByte(fmt, x, b) \cap 0..7]
  <1>1. fmt \in DOMAIN Poly!Format /\ x \in [0..7 -> Poly!Given(fmt)]
    BY DEF GroupInv
  <1>2. fmt' = fmt /\ x' = x /\ step' = "stored"
    BY DEF Poly!Pack
  <1>3. buf' = byte
    BY DEF Poly!Pack, PackedByte, Word
  <1>4. ASSUME NEW b \in 0..(w - 1)
        PROVE  /\ byte[b] \subseteq 0..7
               /\ \A a \in 0..7 : a \in byte[b] <=> (8 * b + a) % w \in Word(fmt, x[(8 * b + a) \div w])
    <2>1. byte[b] = PackedByte(fmt, x, b) \cap 0..7
      OBVIOUS
    <2>2. \A a \in 0..7 : a \in PackedByte(fmt, x, b)
              <=> (8 * b + a) % w \in Word(fmt, x[(8 * b + a) \div w])
      BY <1>1, PackedByteIs
    <2> HIDE DEF byte, w
    <2> QED
      BY <2>1, <2>2
  <1>5. Holds(fmt, x, byte)
    <2> HIDE DEF byte
    <2> QED
      BY <1>4 DEF Holds
  <1> HIDE DEF byte
  <1>6. Holds(fmt', x', buf')
    BY <1>2, <1>3, <1>5
  <1>7. step' # "loaded" /\ step' \in {"given", "stored", "loaded"}
    BY <1>2
  <1>8. fmt' \in DOMAIN Poly!Format /\ x' \in [0..7 -> Poly!Given(fmt')]
    BY <1>1, <1>2
  <1> QED
    BY <1>6, <1>7, <1>8 DEF GroupInv

\* Unpacking it.
LEMMA PolyUnpackStep == GroupInv /\ Poly!Unpack => GroupInv'
  <1> SUFFICES ASSUME GroupInv, Poly!Unpack PROVE GroupInv'
    OBVIOUS
  <1>1. fmt \in DOMAIN Poly!Format /\ x \in [0..7 -> Poly!Given(fmt)]
    BY DEF GroupInv
  <1>2. fmt' = fmt /\ x' = x /\ step' = "loaded" /\ step = "stored" /\ Unpacked(fmt)
    BY DEF Poly!Unpack, Unpacked
  <1>3. Holds(fmt, x, buf)
    BY <1>2 DEF GroupInv
  <1>4. y' = [c \in 0..7 |-> Poly!Decode(fmt, Poly!Value(LoadedCoefficient(fmt, buf, c)))]
    BY DEF Poly!Unpack, LoadedCoefficient, LoadedWord
  <1>5. ASSUME NEW c \in 0..7 PROVE Promise(fmt', y'[c], x'[c])
    <2>1. x[c] \in Poly!Given(fmt)
      BY <1>1
    <2>2. LoadedCoefficient(fmt, buf, c) = Word(fmt, x[c])
      BY <1>1, <1>2, <1>3, Loaded
    <2>3. Poly!Value(Word(fmt, x[c])) = Poly!Encode(fmt, x[c])
      BY <1>1, <2>1, WordValue
    <2>4. y'[c] = Poly!Decode(fmt, Poly!Encode(fmt, x[c]))
      BY <1>4, <2>2, <2>3
    <2>5. Promise(fmt, Poly!Decode(fmt, Poly!Encode(fmt, x[c])), x[c])
      BY <1>1, <2>1, Returned
    <2> QED
      BY <1>2, <2>4, <2>5
  <1>6. step' # "stored" /\ step' \in {"given", "stored", "loaded"}
    BY <1>2
  <1>7. fmt' \in DOMAIN Poly!Format /\ x' \in [0..7 -> Poly!Given(fmt')]
    BY <1>1, <1>2
  <1> QED
    BY <1>5, <1>6, <1>7 DEF GroupInv

\* Sampling noise.
LEMMA PolyCbdStep == NoiseInv /\ Poly!poly_cbd => NoiseInv'
  <1> SUFFICES ASSUME NoiseInv, Poly!poly_cbd PROVE NoiseInv'
    OBVIOUS
  <1>1. fmt \in Samplers /\ Stream(buf)
    BY DEF NoiseInv
  <1>2. fmt' = fmt /\ buf' = buf /\ step' = "loaded"
    BY DEF Poly!poly_cbd
  <1>3. ASSUME NEW c \in 0..255 PROVE y'[c] = Binomial(buf, Eta(fmt), c)
    <2>1. CASE fmt = "cbd2"
      <3>1. y' = Poly!cbd2(buf) /\ Eta(fmt) = 2
        BY <2>1 DEF Poly!poly_cbd, Eta
      <3> QED
        BY <1>1, <3>1, Cbd2Is
    <2>2. CASE fmt = "cbd3"
      <3>1. y' = Poly!cbd3(buf) /\ Eta(fmt) = 3
        BY <2>2 DEF Poly!poly_cbd, Eta
      <3> QED
        BY <1>1, <3>1, Cbd3Is
    <2>3. CASE fmt = "cbd2_rvv"
      <3>1. y' = Poly!cbd2_rvv(buf) /\ Eta(fmt) = 2
        BY <2>3 DEF Poly!poly_cbd, Eta
      <3> QED
        BY <1>1, <3>1, Cbd2RvvIs
    <2>4. CASE fmt = "cbd3_rvv"
      <3>1. y' = Poly!cbd3_rvv(buf) /\ Eta(fmt) = 3
        BY <2>4 DEF Poly!poly_cbd, Eta
      <3> QED
        BY <1>1, <3>1, Cbd3RvvIs
    <2> QED
      BY <1>1, <2>1, <2>2, <2>3, <2>4 DEF Samplers
  <1>4. \A c \in 0..255 : y'[c] = Binomial(buf', Eta(fmt'), c)
    BY <1>2, <1>3
  <1>5. fmt' \in Samplers /\ Stream(buf') /\ step' \in {"given", "loaded"}
    BY <1>1, <1>2
  <1> QED
    BY <1>4, <1>5 DEF NoiseInv

\* Every step of Codecs keeps it.
LEMMA PolyInvNext == PolyInv /\ [CodecsNext]_codecVars => PolyInv'
  <1> SUFFICES ASSUME PolyInv, [CodecsNext]_codecVars PROVE PolyInv'
    OBVIOUS
  <1>1. ASSUME UNCHANGED <<fmt, step, x, buf, y>> PROVE PolyInv'
    <2>1. fmt' = fmt /\ step' = step /\ x' = x /\ buf' = buf /\ y' = y
      BY <1>1
    <2>2. GroupInv => GroupInv'
      BY <2>1 DEF GroupInv
    <2>3. NoiseInv => NoiseInv'
      BY <2>1 DEF NoiseInv
    <2> QED
      BY <2>1, <2>2, <2>3 DEF PolyInv
  <1>2. ASSUME step # "none", Poly!Next PROVE PolyInv'
    <2>1. CASE Poly!Pack
      <3>1. fmt \in DOMAIN Poly!Format
        BY <2>1 DEF Poly!Pack
      <3>2. GroupInv
        BY <1>2, <3>1, NoFormat DEF PolyInv, NoiseInv
      <3> QED
        BY <2>1, <3>2, PolyPackStep DEF PolyInv
    <2>2. CASE Poly!Unpack
      <3>1. step = "stored"
        BY <2>2 DEF Poly!Unpack
      <3>2. GroupInv
        BY <3>1 DEF PolyInv, NoiseInv
      <3> QED
        BY <2>2, <3>2, PolyUnpackStep DEF PolyInv
    <2>3. CASE Poly!poly_cbd
      <3>1. fmt \notin DOMAIN Poly!Format
        BY <2>3 DEF Poly!poly_cbd
      <3>2. NoiseInv
        BY <1>2, <3>1 DEF PolyInv, GroupInv
      <3> QED
        BY <2>3, <3>2, PolyCbdStep DEF PolyInv
    <2>4. CASE UNCHANGED Poly!vars
      <3>1. UNCHANGED <<fmt, step, x, buf, y>>
        BY <2>4 DEF Poly!vars
      <3> QED
        BY <1>1, <3>1
    <2> QED
      BY <1>2, <2>1, <2>2, <2>3, <2>4 DEF Poly!Next
  <1>3. CASE UNCHANGED codecVars
    <2>1. UNCHANGED <<fmt, step, x, buf, y>>
      BY <1>3 DEF codecVars
    <2> QED
      BY <1>1, <2>1
  <1>4. CodecsNext => UNCHANGED <<fmt, step, x, buf, y>> \/ (step # "none" /\ Poly!Next)
    BY DEF CodecsNext
  <1> QED
    BY <1>1, <1>2, <1>3, <1>4

\* The polynomial side of the inductive invariant.
THEOREM PolyInvInvariant == CodecsSpec => []PolyInv
  BY PolyInvInit, PolyInvNext, PTL DEF CodecsSpec

\* A compressed coefficient is packed as its rounding.
LEMMA EncodeRounded ==
  ASSUME NEW f \in DOMAIN Poly!Scale, NEW c \in Poly!Given(f)
  PROVE  Poly!Encode(f, c) = Poly!Rounded(f, c)
  <1>1. c \in Int /\ c >= -1664 /\ c <= 1664
    BY SMT, GivenCompressed DEF Between
  <1>2. Poly!Encode(f, c) = Poly!Compress(f, c)
    BY EncodeIs
  <1>3. Poly!Compress(f, c) = Poly!Rounded(f, c)
    BY SMT, <1>1, CompressIs
  <1> QED
    BY <1>2, <1>3

\* The invariant says that packed bytes are the little-endian bit string.
LEMMA PolyInvLittleEndian == PolyInv => LittleEndian
  <1> SUFFICES ASSUME PolyInv, step = "stored" PROVE LittleEndian
    BY DEF LittleEndian, Poly!LittleEndian
  <1> DEFINE w == Poly!Format[fmt].w
             u(c) == IF fmt \in DOMAIN Poly!Scale THEN Poly!Rounded(fmt, x[c]) ELSE Poly!Encode(fmt, x[c])
  <1>1. GroupInv
    BY DEF PolyInv, NoiseInv
  <1>2. fmt \in DOMAIN Poly!Format /\ x \in [0..7 -> Poly!Given(fmt)] /\ Holds(fmt, x, buf)
    BY <1>1 DEF GroupInv
  <1>3. ASSUME NEW c \in 0..7 PROVE Word(fmt, x[c]) = Poly!Bits(u(c))
    <2>1. x[c] \in Poly!Given(fmt)
      BY <1>2
    <2>2. u(c) = Poly!Encode(fmt, x[c])
      BY <2>1, EncodeRounded
    <2> HIDE DEF u
    <2> QED
      BY <2>2 DEF Word
  <1> HIDE DEF u
  <1>4. ASSUME NEW b \in 0..(w - 1), NEW a \in 0..7
        PROVE  a \in buf[b] <=> (8 * b + a) % w \in Poly!Bits(u((8 * b + a) \div w))
    <2>1. (8 * b + a) \div w \in 0..7
      BY <1>2, PackedByteIs
    <2>2. a \in buf[b] <=> (8 * b + a) % w \in Word(fmt, x[(8 * b + a) \div w])
      BY <1>2 DEF Holds
    <2> HIDE DEF w
    <2> QED
      BY <1>3, <2>1, <2>2
  <1> QED
    BY <1>4 DEF LittleEndian, Poly!LittleEndian, u

\* The invariant says that what is unpacked is what was packed, or near it.
LEMMA PolyInvReturn == PolyInv => CoefficientsReturn
  <1> SUFFICES ASSUME PolyInv, step = "loaded", fmt \in DOMAIN Poly!Format, NEW c \in 0..7
               PROVE  LET e == (y[c] - x[c]) % Poly!Q
                          half == LET d == Poly!Scale[fmt][1] IN (Poly!Q + 2^d) \div 2^(d + 1)
                      IN  CASE fmt \in DOMAIN Poly!Scale -> e <= half \/ Poly!Q - e <= half
                            [] fmt = "poly"              -> e = 0
                            [] OTHER                     -> y[c] = x[c]
    BY DEF CoefficientsReturn, Poly!RoundTrip
  <1>1. GroupInv
    BY NoFormat DEF PolyInv, NoiseInv
  <1>2. Promise(fmt, y[c], x[c])
    BY <1>1 DEF GroupInv
  <1> DEFINE A == fmt \in DOMAIN Poly!Scale
             B == fmt = "poly"
             e == (y[c] - x[c]) % Poly!Q
             P == Near(fmt, y[c], x[c])
             R == e = 0
             S == y[c] = x[c]
  <1>3. (A => P) /\ (B => R) /\ (~A /\ ~B => S)
    BY <1>2 DEF Promise
  <1>4. A => ~B
    BY Kinds
  <1>5. (CASE A -> P [] B -> R [] OTHER -> S)
    <2> HIDE DEF A, B, P, R, S
    <2> QED
      BY <1>3, <1>4
  <1> QED
    BY <1>5 DEF Near

\* The invariant says that noise is a difference of sums of bits.
LEMMA PolyInvNoise == PolyInv => NoiseIsBinomial
  <1> SUFFICES ASSUME PolyInv, step = "loaded", fmt \notin DOMAIN Poly!Format PROVE NoiseIsBinomial
    BY DEF NoiseIsBinomial, Poly!NoiseIsBinomial
  <1>1. NoiseInv
    BY DEF PolyInv, GroupInv
  <1>2. \A c \in 0..255 : y[c] = Binomial(buf, Eta(fmt), c)
    BY <1>1 DEF NoiseInv
  <1> QED
    BY <1>2, SameCardinality DEF NoiseIsBinomial, Poly!NoiseIsBinomial, Binomial, BitSum, Eta

\* For every group of coefficients in the range of its format: the bytes poly_compress,
\* polyvec_compress, poly_tobytes, poly_tomsg and the pack functions of ML-DSA write are
\* the little-endian bit string of the coefficients, and compression by multiplying and
\* shifting rounds exactly.
THEOREM PackedLittleEndian == CodecsSpec => []LittleEndian
  BY PolyInvInvariant, PolyInvLittleEndian, PTL

\* For every such group: what the unpack functions read back is what was packed, modulo q
\* for poly_tobytes and within half a rounding step where bits are dropped.
THEOREM CoefficientsUnpack == CodecsSpec => []CoefficientsReturn
  BY PolyInvInvariant, PolyInvReturn, PTL

\* For every byte stream: each coefficient of cbd2 and cbd3, in cbd.c and lane by lane in
\* cbd_rvv.c, is the difference of two sums of eta consecutive bits.
THEOREM NoiseBinomial == CodecsSpec => []NoiseIsBinomial
  BY PolyInvInvariant, PolyInvNoise, PTL
=============================================================================
