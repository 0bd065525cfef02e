--------------------------- MODULE SamplersProofs ---------------------------
(***************************************************************************)
(* The samplers write the first accepted candidates of the stream, in      *)
(* order and within their buffers, for every sampler that satisfies the    *)
(* sizes of SamplingAssumption; the challenge has exactly tau coefficients *)
(* that are not zero, for every N, tau and rate.                           *)
(*                                                                         *)
(* First what Select returns for sequences that are joined, then how the   *)
(* stream is cut into units, then the two inductive invariants: the buffer *)
(* is a piece of the stream and the output is what Select keeps of the     *)
(* candidates before it; and the coefficients not yet placed are zero.     *)
(***************************************************************************)
EXTENDS Samplers, FiniteSetTheorems, SequenceTheorems, WellFoundedInduction, TLAPS

----------------------------------------------------------------------------
\* A set of natural numbers that is not empty has a least element.
LEMMA LeastNat ==
  ASSUME NEW S \in SUBSET Nat, S # {}
  PROVE  \E m \in S : \A k \in S : m <= k
  <1>1. PICK m \in S : \A k \in S : ~(<<k, m>> \in OpToRel(<, Nat))
    BY WFMin, NatLessThanWellFounded
  <1>2. \A k \in S : ~(k < m)
    BY <1>1 DEF OpToRel
  <1> QED
    BY <1>2

\* Induction over the natural numbers, for a set instead of a predicate.
LEMMA NatSetInduction ==
  ASSUME NEW S \in SUBSET Nat, 0 \in S, \A n \in S : n + 1 \in S
  PROVE  S = Nat
  <1> SUFFICES ASSUME Nat \ S # {} PROVE FALSE
    OBVIOUS
  <1>1. PICK m \in Nat \ S : \A k \in Nat \ S : m <= k
    <2>1. Nat \ S \in SUBSET Nat
      OBVIOUS
    <2> QED
      BY <2>1, LeastNat
  <1>2. m # 0 /\ m - 1 \in Nat
    BY <1>1
  <1>3. m - 1 \in S
    BY <1>1, <1>2
  <1> QED
    BY <1>1, <1>3

----------------------------------------------------------------------------
\* Select, for every sequence of candidates and every set of rejected ones.

SelectsIn(f, cands, rejected, n) ==
  /\ f[0] = << >>
  /\ \A k \in 1..n : f[k] = IF cands[k] \in rejected THEN f[k - 1]
                            ELSE Append(f[k - 1], cands[k])

\* The recursive function that Select is defined with exists.
LEMMA SelectExists ==
  ASSUME NEW S, NEW cands \in Seq(S), NEW rejected
  PROVE  \A n \in 0..Len(cands) : \E f \in [0..n -> Seq(S)] : SelectsIn(f, cands, rejected, n)
  <1> DEFINE Good == {n \in Nat : n <= Len(cands) =>
                        \E f \in [0..n -> Seq(S)] : SelectsIn(f, cands, rejected, n)}
  <1>1. 0 \in Good
    <2> DEFINE f == [k \in 0..0 |-> << >>]
    <2>1. f \in [0..0 -> Seq(S)] /\ SelectsIn(f, cands, rejected, 0)
      BY EmptySeq DEF SelectsIn
    <2> QED
      BY <2>1
  <1>2. ASSUME NEW n \in Good PROVE n + 1 \in Good
    <2> SUFFICES ASSUME n + 1 <= Len(cands)
                 PROVE  \E f \in [0..(n + 1) -> Seq(S)] : SelectsIn(f, cands, rejected, n + 1)
      OBVIOUS
    <2>1. n \in Nat /\ Len(cands) \in Nat
      OBVIOUS
    <2>2. PICK g \in [0..n -> Seq(S)] : SelectsIn(g, cands, rejected, n)
      BY <2>1
    <2>3. cands[n + 1] \in S /\ g[n] \in Seq(S)
      BY <2>1
    <2> DEFINE last == IF cands[n + 1] \in rejected THEN g[n] ELSE Append(g[n], cands[n + 1])
               f == [k \in 0..(n + 1) |-> IF k = n + 1 THEN last ELSE g[k]]
    <2>4. last \in Seq(S)
      BY <2>3
    <2> HIDE DEF last
    <2>5. f \in [0..(n + 1) -> Seq(S)]
      BY <2>1, <2>4
    <2>6. f[0] = g[0] /\ f[n + 1] = last /\ \A k \in 0..n : f[k] = g[k]
      BY <2>1
    <2> HIDE DEF f
    <2>7. ASSUME NEW k \in 1..(n + 1)
          PROVE  f[k] = IF cands[k] \in rejected THEN f[k - 1] ELSE Append(f[k - 1], cands[k])
      <3>1. CASE k = n + 1
        <4>1. f[k - 1] = g[n]
          BY <2>1, <2>6, <3>1
        <4> QED
          BY <2>6, <3>1, <4>1 DEF last
      <3>2. CASE k \in 1..n
        <4>1. f[k] = g[k] /\ f[k - 1] = g[k - 1]
          BY <2>1, <2>6, <3>2
        <4> QED
          BY <2>2, <3>2, <4>1 DEF SelectsIn
      <3> QED
        BY <2>1, <3>1, <3>2
    <2>8. SelectsIn(f, cands, rejected, n + 1)
      BY <2>2, <2>6, <2>7 DEF SelectsIn
    <2> QED
      BY <2>5, <2>8
  <1> HIDE DEF Good
  <1>3. Good = Nat
    <2>1. Good \in SUBSET Nat
      BY DEF Good
    <2> QED
      BY <1>1, <1>2, <2>1, NatSetInduction
  <1> QED
    BY <1>3 DEF Good

\* Two such functions agree where both are defined.
LEMMA SelectUnique ==
  ASSUME NEW cands, NEW rejected, NEW n \in Nat, NEW f, NEW g,
         SelectsIn(f, cands, rejected, n), SelectsIn(g, cands, rejected, n)
  PROVE  f[n] = g[n]
  <1> DEFINE Good == {k \in Nat : k <= n => f[k] = g[k]}
  <1>1. 0 \in Good
    BY DEF SelectsIn
  <1>2. ASSUME NEW k \in Good PROVE k + 1 \in Good
    <2> SUFFICES ASSUME k + 1 <= n PROVE f[k + 1] = g[k + 1]
      OBVIOUS
    <2>1. k \in Nat /\ k + 1 \in 1..n /\ (k + 1) - 1 = k
      OBVIOUS
    <2>2. f[k] = g[k]
      BY <2>1
    <2>3. /\ f[k + 1] = IF cands[k + 1] \in rejected THEN f[k] ELSE Append(f[k], cands[k + 1])
          /\ g[k + 1] = IF cands[k + 1] \in rejected THEN g[k] ELSE Append(g[k], cands[k + 1])
      BY <2>1 DEF SelectsIn
    <2> QED
      BY <2>1, <2>2, <2>3
  <1> HIDE DEF Good
  <1>3. Good = Nat
    <2>1. Good \in SUBSET Nat
      BY DEF Good
    <2> QED
      BY <1>1, <1>2, <2>1, NatSetInduction
  <1> QED
    BY <1>3 DEF Good

\* Select is the last value of that function.
LEMMA SelectIs ==
  ASSUME NEW S, NEW cands \in Seq(S), NEW rejected
  PROVE  \E f \in [0..Len(cands) -> Seq(S)] :
           SelectsIn(f, cands, rejected, Len(cands)) /\ Rej!Select(cands, rejected) = f[Len(cands)]
  <1> DEFINE n == Len(cands)
             Body(f) == [k \in 0..n |->
                           IF k = 0 THEN << >>
                           ELSE IF cands[k] \in rejected THEN f[k - 1]
                           ELSE Append(f[k - 1], cands[k])]
             upto == CHOOSE f : f = Body(f)
  <1>1. n \in Nat
    OBVIOUS
  <1>2. PICK g \in [0..n -> Seq(S)] : SelectsIn(g, cands, rejected, n)
    <2>1. \A m \in 0..Len(cands) : \E f \in [0..m -> Seq(S)] : SelectsIn(f, cands, rejected, m)
      BY SelectExists
    <2> QED
      BY <1>1, <2>1
  <1>3. g = Body(g)
    <2>1. g[0] = Body(g)[0]
      BY <1>1, <1>2 DEF SelectsIn
    <2>2. \A k \in 1..n : g[k] = Body(g)[k]
      BY <1>1, <1>2 DEF SelectsIn
    <2>3. ASSUME NEW k \in 0..n PROVE g[k] = Body(g)[k]
      <3>1. k = 0 \/ k \in 1..n
        BY <1>1
      <3> HIDE DEF Body
      <3> QED
        BY <2>1, <2>2, <3>1
    <2>4. Body(g) = [k \in 0..n |-> Body(g)[k]] /\ g = [k \in 0..n |-> g[k]]
      BY <1>2
    <2> HIDE DEF Body
    <2> QED
      BY <2>3, <2>4
  <1>4. upto = Body(upto)
    BY <1>3
  <1>5. SelectsIn(upto, cands, rejected, n)
    <2> HIDE DEF upto
    <2>1. Body(upto)[0] = << >>
      BY <1>1
    <2>2. ASSUME NEW k \in 1..n
          PROVE  Body(upto)[k] = IF cands[k] \in rejected THEN upto[k - 1]
                                 ELSE Append(upto[k - 1], cands[k])
      BY <1>1
    <2> HIDE DEF Body
    <2> QED
      BY <1>4, <2>1, <2>2 DEF SelectsIn
  <1>6. upto[n] = g[n]
    BY <1>1, <1>2, <1>5, SelectUnique
  <1>7. Rej!Select(cands, rejected) = upto[n]
    BY DEF Rej!Select
  <1> QED
    BY <1>2, <1>6, <1>7

\* The accepted candidates are candidates.
LEMMA SelectInSeq ==
  ASSUME NEW S, NEW cands \in Seq(S), NEW rejected
  PROVE  Rej!Select(cands, rejected) \in Seq(S)
  <1>1. PICK f \in [0..Len(cands) -> Seq(S)] : Rej!Select(cands, rejected) = f[Len(cands)]
    BY SelectIs
  <1> QED
    BY <1>1

\* Nothing is selected of nothing.
LEMMA SelectEmpty ==
  ASSUME NEW rejected
  PROVE  Rej!Select(<< >>, rejected) = << >>
  <1>1. << >> \in Seq(Nat) /\ Len(<< >>) = 0
    OBVIOUS
  <1>2. \E f \in [0..Len(<< >>) -> Seq(Nat)] :
          /\ SelectsIn(f, << >>, rejected, Len(<< >>))
          /\ Rej!Select(<< >>, rejected) = f[Len(<< >>)]
    BY <1>1, SelectIs
  <1> QED
    BY <1>1, <1>2 DEF SelectsIn

\* One more candidate is appended or left out.
LEMMA SelectAppend ==
  ASSUME NEW S, NEW cands \in Seq(S), NEW e \in S, NEW rejected
  PROVE  /\ Rej!Select(cands, rejected) \in Seq(S)
         /\ Rej!Select(Append(cands, e), rejected) =
              IF e \in rejected THEN Rej!Select(cands, rejected)
              ELSE Append(Rej!Select(cands, rejected), e)
  <1> DEFINE n == Len(cands)
             more == Append(cands, e)
  <1>1. /\ more \in Seq(S) /\ Len(more) = n + 1 /\ n \in Nat
        /\ more[n + 1] = e /\ \A k \in 1..n : more[k] = cands[k]
    OBVIOUS
  <1> HIDE DEF more
  <1>2. PICK f \in [0..n -> Seq(S)] :
          SelectsIn(f, cands, rejected, n) /\ Rej!Select(cands, rejected) = f[n]
    BY SelectIs
  <1>3. PICK g \in [0..(n + 1) -> Seq(S)] :
          SelectsIn(g, more, rejected, n + 1) /\ Rej!Select(more, rejected) = g[n + 1]
    <2>1. \E g \in [0..Len(more) -> Seq(S)] :
            SelectsIn(g, more, rejected, Len(more)) /\ Rej!Select(more, rejected) = g[Len(more)]
      BY <1>1, SelectIs
    <2> QED
      BY <1>1, <2>1
  <1>4. SelectsIn(g, cands, rejected, n)
    BY <1>1, <1>3 DEF SelectsIn
  <1>5. g[n] = f[n]
    BY <1>1, <1>2, <1>4, SelectUnique
  <1>6. g[n + 1] = IF e \in rejected THEN g[n] ELSE Append(g[n], e)
    BY <1>1, <1>3 DEF SelectsIn
  <1>7. f[n] \in Seq(S)
    BY <1>1, <1>2
  <1> QED
    BY <1>2, <1>3, <1>5, <1>6, <1>7 DEF more

\* Selecting from a concatenation is selecting from its parts.
LEMMA SelectConcat ==
  ASSUME NEW S, NEW cands \in Seq(S), NEW rejected
  PROVE  \A more \in Seq(S) :
           Rej!Select(cands \o more, rejected) =
             Rej!Select(cands, rejected) \o Rej!Select(more, rejected)
  <1> DEFINE Holds(more) == Rej!Select(cands \o more, rejected) =
                              Rej!Select(cands, rejected) \o Rej!Select(more, rejected)
             Good == {n \in Nat : \A more \in Seq(S) : Len(more) = n => Holds(more)}
  <1>1. Rej!Select(cands, rejected) \in Seq(S)
    BY SelectInSeq
  <1>2. 0 \in Good
    <2> SUFFICES ASSUME NEW more \in Seq(S), Len(more) = 0 PROVE Holds(more)
      OBVIOUS
    <2>1. more = << >>
      BY EmptySeq
    <2>2. cands \o << >> = cands /\ Rej!Select(cands, rejected) \o << >> = Rej!Select(cands, rejected)
      BY <1>1
    <2> QED
      BY <2>1, <2>2, SelectEmpty
  <1>3. ASSUME NEW n \in Good PROVE n + 1 \in Good
    <2> SUFFICES ASSUME NEW more \in Seq(S), Len(more) = n + 1 PROVE Holds(more)
      OBVIOUS
    <2> DEFINE front == SubSeq(more, 1, n)
               e == more[n + 1]
    <2>1. n \in Nat /\ front \in Seq(S) /\ Len(front) = n /\ e \in S /\ more = Append(front, e)
      OBVIOUS
    <2>2. Holds(front)
      BY <2>1
    <2>3. cands \o front \in Seq(S) /\ cands \o more = Append(cands \o front, e)
      BY <2>1
    <2> DEFINE x == Rej!Select(cands, rejected)
               y == Rej!Select(front, rejected)
    <2> HIDE DEF front, e
    <2>4. /\ Rej!Select(cands \o more, rejected) =
               IF e \in rejected THEN Rej!Select(cands \o front, rejected)
               ELSE Append(Rej!Select(cands \o front, rejected), e)
          /\ Rej!Select(more, rejected) = IF e \in rejected THEN y ELSE Append(y, e)
          /\ y \in Seq(S)
      <3> DEFINE both == cands \o front
      <3>1. both \in Seq(S)
        BY <2>3
      <3> HIDE DEF both
      <3>2. Rej!Select(Append(both, e), rejected) =
              IF e \in rejected THEN Rej!Select(both, rejected)
              ELSE Append(Rej!Select(both, rejected), e)
        BY <2>1, <3>1, SelectAppend
      <3>3. Rej!Select(Append(front, e), rejected) = IF e \in rejected THEN y ELSE Append(y, e)
        BY <2>1, SelectAppend
      <3>4. y \in Seq(S)
        BY <2>1, SelectInSeq
      <3>5. Rej!Select(cands \o more, rejected) = Rej!Select(Append(both, e), rejected)
        BY <2>3 DEF both
      <3>6. Rej!Select(more, rejected) = Rej!Select(Append(front, e), rejected)
        BY <2>1
      <3> QED
        BY <3>2, <3>3, <3>4, <3>5, <3>6 DEF both
    <2>5. x \o Append(y, e) = Append(x \o y, e)
      <3> HIDE DEF x, y
      <3>1. x \in Seq(S)
        BY <1>1 DEF x
      <3> QED
        BY <2>1, <2>4, <3>1
    <2> QED
      BY <2>1, <2>2, <2>3, <2>4, <2>5
  <1> HIDE DEF Good
  <1>4. Good = Nat
    <2>1. Good \in SUBSET Nat
      BY DEF Good
    <2> QED
      BY <1>2, <1>3, <2>1, NatSetInduction
  <1> QED
    BY <1>4 DEF Good

----------------------------------------------------------------------------
\* The inductive invariant of a rejection sampler.

\* The bytes that the rounds before a refill take at a time.
Width(z) == z.unit * (IF z.tail = 1 THEN 1 ELSE z.group)

\* The first m elements of a sequence, or all of them.
Take(q, m) == SubSeq(q, 1, IF Len(q) < m THEN Len(q) ELSE m)

\* q holds the bytes of the stream in front of byte number at.
IsStream(q, at) ==
  /\ q \in Seq(Nat) /\ Len(q) <= at
  /\ \A j \in 1..Len(q) : q[j] = at - Len(q) + j - 1

\* buf holds the last bytes that were squeezed, and not more than it has room for.
BufferIsStream ==
  /\ s \in Kinds
  /\ rpc \in {"init", "group", "tail", "refill", "done"}
  /\ next \in Nat /\ rpos \in Nat /\ rpos <= Len(buf)
  /\ IsStream(buf, next)
  /\ Len(buf) <= s.nblocks * s.block + s.spare

\* The bytes consumed since the start of the stream are whole units, and the
\* coefficients are the first accepted candidates of those units.
ConsumedInOrder ==
  \E u \in Nat : /\ next - Len(buf) + rpos = u * s.unit
                 /\ out = Take(Rej!Reference(s, u), s.n)

\* A sampler that keeps nothing has whole rounds in front of it.
Aligned ==
  /\ \E p \in Nat : rpos = p * s.unit
  /\ s.keep = 0 => \E w \in Nat : Len(buf) - rpos = w * Width(s)

\* A refill that follows finds less than a unit in buf.
LeftOver ==
  /\ rpc = "init" => buf = << >>
  /\ rpc = "tail" => s.tail = 1
  /\ rpc = "refill" /\ Len(out) < s.n =>
       /\ Len(buf) - rpos < s.unit
       /\ s.keep = 0 => rpos = Len(buf)

RejInv == BufferIsStream /\ ConsumedInOrder /\ Aligned /\ LeftOver

----------------------------------------------------------------------------
\* The candidates of the stream.

\* Every candidate of the stream, and those of m units from unit number u on.
AllCands(z) == {Rej!StreamCandidate(z, k) : k \in Nat}
UnitCands(z, u, m) == [k \in 1..(m * z.per) |-> Rej!StreamCandidate(z, u * z.per + k - 1)]

\* The sizes of a sampler are positive numbers.
LEMMA SizeTypes ==
  ASSUME NEW z \in Kinds
  PROVE  /\ z.unit \in Nat /\ z.unit > 0 /\ z.per \in Nat /\ z.per > 0
         /\ z.group \in Nat /\ z.group > 0 /\ z.block \in Nat /\ z.block > 0
         /\ z.nblocks \in Nat /\ z.nblocks > 0 /\ z.spare \in Nat
         /\ z.n \in Nat /\ z.n > 0 /\ z.tail \in {0, 1} /\ z.keep \in {0, 1}
         /\ Width(z) \in Nat /\ Width(z) > 0
  <1>1. z \in Rej!Sizes
    BY SamplersAssumption DEF Rej!SamplingAssumption
  <1>2. /\ z.unit \in Nat /\ z.unit > 0 /\ z.per \in Nat /\ z.per > 0
        /\ z.group \in Nat /\ z.group > 0 /\ z.block \in Nat /\ z.block > 0
        /\ z.nblocks \in Nat /\ z.nblocks > 0 /\ z.spare \in Nat
        /\ z.n \in Nat /\ z.n > 0 /\ z.tail \in {0, 1} /\ z.keep \in {0, 1}
    BY <1>1 DEF Rej!Sizes
  <1>3. \A x, y \in Nat : x > 0 /\ y > 0 => x * y \in Nat /\ x * y > 0
    OBVIOUS
  <1>4. Width(z) \in Nat /\ Width(z) > 0
    BY <1>2, <1>3 DEF Width
  <1> QED
    BY <1>2, <1>4

\* Products as they occur below.
LEMMA Products ==
  ASSUME NEW x \in Nat, NEW y \in Nat, NEW p \in Nat
  PROVE  x * p \in Nat /\ (x + y) * p = x * p + y * p /\ x * p <= (x + y) * p
  <1>1. (x + y) * p = x * p + y * p
    OBVIOUS
  <1>2. x * p \in Nat /\ y * p \in Nat
    OBVIOUS
  <1> QED
    BY <1>1, <1>2

\* A positive factor cancels.
LEMMA Cancel ==
  ASSUME NEW x \in Nat, NEW y \in Nat, NEW p \in Nat, p > 0
  PROVE  /\ x * p <= y * p => x <= y
         /\ x * p < y * p + p => x <= y
  <1> SUFFICES ASSUME x > y PROVE ~(x * p < y * p + p)
    OBVIOUS
  <1>1. x * p >= (y + 1) * p
    OBVIOUS
  <1>2. (y + 1) * p = y * p + p
    OBVIOUS
  <1>3. x * p \in Nat /\ y * p \in Nat
    OBVIOUS
  <1> QED
    BY <1>1, <1>2, <1>3

\* The units are sequences of candidates of the stream.
LEMMA UnitCandsSeq ==
  ASSUME NEW z \in Kinds, NEW u \in Nat, NEW m \in Nat
  PROVE  UnitCands(z, u, m) \in Seq(AllCands(z)) /\ Len(UnitCands(z, u, m)) = m * z.per
  <1>1. m * z.per \in Nat /\ u * z.per \in Nat
    BY SizeTypes, Products
  <1>2. \A k \in 1..(m * z.per) : Rej!StreamCandidate(z, u * z.per + k - 1) \in AllCands(z)
    <2> SUFFICES ASSUME NEW k \in 1..(m * z.per)
                 PROVE  u * z.per + k - 1 \in Nat
      BY DEF AllCands
    <2> QED
      BY <1>1
  <1> QED
    BY <1>1, <1>2 DEF UnitCands

\* The candidates of u + m units are those of u units and those of the next m.
LEMMA UnitCandsSplit ==
  ASSUME NEW z \in Kinds, NEW u \in Nat, NEW m \in Nat
  PROVE  UnitCands(z, 0, u + m) = UnitCands(z, 0, u) \o UnitCands(z, u, m)
  <1>1. u * z.per \in Nat /\ m * z.per \in Nat /\ (u + m) * z.per = u * z.per + m * z.per
    BY SizeTypes, Products
  <1>2. z.per \in Nat /\ 0 * z.per = 0
    BY SizeTypes
  <1> DEFINE S == AllCands(z)
             l == UnitCands(z, 0, u)
             r == UnitCands(z, u, m)
             w == UnitCands(z, 0, u + m)
  <1>3. /\ l \in Seq(S) /\ Len(l) = u * z.per
        /\ r \in Seq(S) /\ Len(r) = m * z.per
        /\ w \in Seq(S) /\ Len(w) = u * z.per + m * z.per
    <2>1. l \in Seq(S) /\ Len(l) = u * z.per
      BY UnitCandsSeq
    <2>2. r \in Seq(S) /\ Len(r) = m * z.per
      BY UnitCandsSeq
    <2>3. u + m \in Nat
      OBVIOUS
    <2>4. w \in Seq(S) /\ Len(w) = (u + m) * z.per
      BY <2>3, UnitCandsSeq
    <2> QED
      BY <1>1, <2>1, <2>2, <2>4
  <1>4. ASSUME NEW k \in 1..Len(w) PROVE w[k] = (l \o r)[k]
    <2>1. w[k] = Rej!StreamCandidate(z, k - 1)
      <3>1. k \in 1..((u + m) * z.per)
        BY <1>1, <1>3
      <3>2. w[k] = Rej!StreamCandidate(z, 0 * z.per + k - 1)
        BY <3>1 DEF UnitCands
      <3> QED
        BY <1>2, <3>2
    <2>2. CASE k <= u * z.per
      <3>1. l[k] = Rej!StreamCandidate(z, k - 1)
        <4>1. k \in 1..(u * z.per)
          BY <1>1, <2>2
        <4>2. l[k] = Rej!StreamCandidate(z, 0 * z.per + k - 1)
          BY <4>1 DEF UnitCands
        <4> QED
          BY <1>2, <4>2
      <3> HIDE DEF S, l, r, w
      <3> QED
        BY <1>1, <1>3, <2>1, <2>2, <3>1
    <2>3. CASE k > u * z.per
      <3>1. k - u * z.per \in 1..(m * z.per)
        BY <1>1, <1>3, <2>3
      <3>2. u * z.per + (k - u * z.per) - 1 = k - 1
        BY <1>1, <1>3
      <3>3. r[k - u * z.per] = Rej!StreamCandidate(z, u * z.per + (k - u * z.per) - 1)
        BY <3>1 DEF UnitCands
      <3> HIDE DEF S, l, r, w
      <3>4. w[k] = r[k - u * z.per]
        BY <2>1, <3>2, <3>3
      <3>5. k \in 1..(Len(l) + Len(r)) /\ ~(k <= Len(l)) /\ Len(l) = u * z.per
        BY <1>1, <1>3, <2>3
      <3>6. (l \o r)[k] = r[k - Len(l)]
        BY <1>3, <3>5, ConcatProperties
      <3> QED
        BY <3>4, <3>5, <3>6
    <2> QED
      BY <1>1, <1>3, <2>2, <2>3
  <1> HIDE DEF S, l, r, w
  <1>5. l \o r \in Seq(S) /\ Len(l \o r) = Len(w)
    <2>1. l \in Seq(S) /\ r \in Seq(S) /\ Len(w) = Len(l) + Len(r)
      BY <1>3
    <2> QED
      BY <2>1, ConcatProperties
  <1>6. w = l \o r
    BY <1>3, <1>4, <1>5, SeqEqual
  <1> QED
    BY <1>6 DEF w, l, r

\* What the reference takes from u + m units is what it takes from u of them,
\* and then what the next m units give.
LEMMA ReferenceSplit ==
  ASSUME NEW z \in Kinds, NEW u \in Nat, NEW m \in Nat
  PROVE  /\ Rej!Reference(z, u) \in Seq(AllCands(z))
         /\ Rej!Select(UnitCands(z, u, m), bad) \in Seq(AllCands(z))
         /\ Rej!Reference(z, u + m) =
              Rej!Reference(z, u) \o Rej!Select(UnitCands(z, u, m), bad)
  <1>1. ASSUME NEW v \in Nat PROVE Rej!Reference(z, v) = Rej!Select(UnitCands(z, 0, v), bad)
    <2>1. v * z.per \in Nat /\ 0 * z.per = 0
      BY SizeTypes, Products
    <2>2. UnitCands(z, 0, v) = [k \in 1..(v * z.per) |-> Rej!StreamCandidate(z, k - 1)]
      BY <2>1 DEF UnitCands
    <2> QED
      BY <2>2 DEF Rej!Reference
  <1> DEFINE S == AllCands(z)
             l == UnitCands(z, 0, u)
             r == UnitCands(z, u, m)
  <1>2. l \in Seq(S) /\ r \in Seq(S) /\ UnitCands(z, 0, u + m) = l \o r
    BY UnitCandsSeq, UnitCandsSplit
  <1>3. /\ Rej!Reference(z, u) = Rej!Select(l, bad)
        /\ Rej!Reference(z, u + m) = Rej!Select(l \o r, bad)
    <2>1. u + m \in Nat
      OBVIOUS
    <2>2. Rej!Reference(z, u + m) = Rej!Select(UnitCands(z, 0, u + m), bad)
      BY <1>1, <2>1
    <2>3. Rej!Reference(z, u) = Rej!Select(l, bad)
      BY <1>1
    <2> HIDE DEF l, r
    <2> QED
      BY <1>2, <2>2, <2>3
  <1> HIDE DEF S, l, r
  <1>4. Rej!Select(l, bad) \in Seq(S) /\ Rej!Select(r, bad) \in Seq(S)
    BY <1>2, SelectInSeq
  <1>5. Rej!Select(l \o r, bad) = Rej!Select(l, bad) \o Rej!Select(r, bad)
    BY <1>2, SelectConcat
  <1> QED
    BY <1>3, <1>4, <1>5 DEF S, r

\* Quotient and remainder after u whole units.
LEMMA DivUnits ==
  ASSUME NEW u \in Nat, NEW a \in Nat, NEW p \in Nat, p > 0
  PROVE  /\ (u * p + a) \div p = u + (a \div p)
         /\ (u * p + a) % p = a % p
         /\ a \div p \in Nat /\ a % p \in Nat /\ a % p < p
         /\ a = p * (a \div p) + (a % p)
  <1> DEFINE d == a \div p
             r == a % p
  <1>1. d \in Int /\ r \in 0..(p - 1) /\ a = p * d + r
    OBVIOUS
  <1>2. d \in Nat
    <2> HIDE DEF d, r
    <2> SUFFICES ASSUME d < 0 PROVE FALSE
      BY <1>1
    <2>1. p * d <= -p
      BY <1>1
    <2> QED
      BY <1>1, <2>1
  <1> DEFINE x == u * p + a
             e == x \div p
             q == x % p
  <1>3. x \in Nat /\ e \in Int /\ q \in 0..(p - 1) /\ x = p * e + q
    <2>1. x \in Nat
      OBVIOUS
    <2> HIDE DEF x
    <2> QED
      BY <2>1
  <1>4. p * e + q = p * (u + d) + r
    <2>1. x = u * p + a
      OBVIOUS
    <2>2. p * (u + d) = u * p + p * d
      <3> HIDE DEF d
      <3> QED
        BY <1>2
    <2> HIDE DEF x, e, q, d, r
    <2> QED
      BY <1>1, <1>3, <2>1, <2>2
  <1>5. e = u + d /\ q = r
    <2> HIDE DEF x, e, q, d, r
    <2> DEFINE f == u + d
    <2>1. f \in Int /\ p * e + q = p * f + r
      BY <1>2, <1>4
    <2> HIDE DEF f
    <2>2. ~(e < f)
      <3> SUFFICES ASSUME e < f PROVE FALSE
        OBVIOUS
      <3>1. p * f >= p * e + p
        BY <1>3, <2>1
      <3> QED
        BY <1>1, <1>3, <2>1, <3>1
    <2>3. ~(f < e)
      <3> SUFFICES ASSUME f < e PROVE FALSE
        OBVIOUS
      <3>1. p * e >= p * f + p
        BY <1>3, <2>1
      <3> QED
        BY <1>1, <1>3, <2>1, <3>1
    <2>4. e = f
      BY <1>3, <2>1, <2>2, <2>3
    <2> QED
      BY <1>1, <1>3, <2>1, <2>4 DEF f
  <1> QED
    BY <1>1, <1>2, <1>5

\* The unit a candidate belongs to, of count units, and where its bytes start.
LEMMA UnitOf ==
  ASSUME NEW u \in Nat, NEW a \in Nat, NEW count \in Nat,
         NEW per \in Nat, per > 0, NEW unit \in Nat, a < count * per
  PROVE  /\ unit * (a \div per) \in Nat /\ count * unit \in Nat /\ u * unit \in Nat
         /\ unit * (a \div per) + unit <= count * unit
         /\ unit * (u + (a \div per)) = u * unit + unit * (a \div per)
  <1> DEFINE d == a \div per
             r == a % per
  <1>1. d \in Nat /\ r \in Nat /\ a = per * d + r
    BY DivUnits
  <1> HIDE DEF d, r
  <1>2. d < count
    <2> SUFFICES ASSUME d >= count PROVE FALSE
      BY <1>1
    <2>1. count * per <= per * d
      BY <1>1
    <2>2. count * per \in Nat /\ per * d \in Nat
      BY <1>1
    <2> DEFINE x == count * per
               y == per * d
    <2>3. x \in Nat /\ y \in Nat /\ x <= y /\ a < x /\ a = y + r
      BY <1>1, <2>1, <2>2
    <2> HIDE DEF x, y
    <2> QED
      BY <1>1, <2>3
  <1>3. unit * d \in Nat /\ unit * d + unit <= count * unit
    <2>1. (d + 1) * unit <= count * unit
      BY <1>1, <1>2
    <2>2. (d + 1) * unit = unit * d + unit /\ unit * d \in Nat
      BY <1>1
    <2> QED
      BY <2>1, <2>2
  <1>4. unit * (u + d) = u * unit + unit * d /\ count * unit \in Nat /\ u * unit \in Nat
    BY <1>1
  <1> QED
    BY <1>3, <1>4 DEF d

\* The candidates decoded from buf are those of the stream, where the bytes
\* consumed so far are u whole units.
LEMMA DecodeIs ==
  ASSUME BufferIsStream, NEW u \in Nat, next - Len(buf) + rpos = u * s.unit,
         NEW count \in Nat, rpos + count * s.unit <= Len(buf)
  PROVE  Rej!Decode(count) = UnitCands(s, u, count)
  <1> DEFINE per == s.per
             unit == s.unit
  <1>1. /\ per \in Nat /\ per > 0 /\ unit \in Nat /\ unit > 0
        /\ rpos \in Nat /\ Len(buf) \in Nat /\ next \in Nat
        /\ \A j \in 1..Len(buf) : buf[j] = next - Len(buf) + j - 1
    BY SizeTypes DEF BufferIsStream, IsStream
  <1>2. next - Len(buf) + rpos = u * unit /\ rpos + count * unit <= Len(buf)
    OBVIOUS
  <1>3. ASSUME NEW k \in 1..(count * per)
        PROVE  Rej!Candidate([j \in 1..unit |-> buf[rpos + unit * ((k - 1) \div per) + j]],
                             (k - 1) % per)
                 = Rej!StreamCandidate(s, u * per + k - 1)
    <2> DEFINE a == k - 1
               d == a \div per
    <2>1. a \in Nat /\ a < count * per
      <3>1. count * per \in Nat
        BY <1>1, Products
      <3> QED
        BY <3>1
    <2>2. /\ (u * per + a) \div per = u + d
          /\ (u * per + a) % per = a % per
      <3> HIDE DEF a, per
      <3>1. per \in Nat /\ per > 0 /\ a \in Nat
        BY <1>1, <2>1
      <3>2. (u * per + a) \div per = u + (a \div per)
        BY <3>1, DivUnits
      <3>3. (u * per + a) % per = a % per
        BY <3>1, DivUnits
      <3> QED
        BY <3>2, <3>3
    <2>3. u * per + k - 1 = u * per + a
      BY <1>1
    <2>4. /\ unit * d \in Nat /\ count * unit \in Nat /\ u * unit \in Nat
          /\ unit * d + unit <= count * unit
          /\ unit * (u + d) = u * unit + unit * d
      <3> HIDE DEF a, per, unit
      <3>1. per \in Nat /\ per > 0 /\ unit \in Nat /\ a \in Nat /\ a < count * per
        BY <1>1, <2>1
      <3> QED
        BY <3>1, UnitOf
    <2>5. ASSUME NEW j \in 1..unit
          PROVE  buf[rpos + unit * d + j] = unit * (u + d) + j - 1
      <3> HIDE DEF d, unit
      <3> DEFINE skip == unit * d
                 all == count * unit
                 from == u * unit
      <3>1. /\ skip \in Nat /\ all \in Nat /\ from \in Nat /\ skip + unit <= all
            /\ unit * (u + d) = from + skip
            /\ next - Len(buf) + rpos = from /\ rpos + all <= Len(buf)
        BY <1>2, <2>4
      <3> HIDE DEF skip, all, from
      <3>2. rpos + skip + j \in 1..Len(buf)
        BY <1>1, <3>1
      <3>3. buf[rpos + skip + j] = next - Len(buf) + (rpos + skip + j) - 1
        BY <1>1, <3>2
      <3>4. next - Len(buf) + (rpos + skip + j) - 1 = from + skip + j - 1
        <4>1. next \in Nat /\ Len(buf) \in Nat /\ rpos \in Nat /\ j \in Int
          BY <1>1
        <4> QED
          BY <3>1, <4>1
      <3> QED
        BY <3>1, <3>3, <3>4 DEF skip
    <2>6. [j \in 1..unit |-> buf[rpos + unit * d + j]] = Rej!Stream(unit * (u + d), unit)
      <3> HIDE DEF a, d, per, unit
      <3> QED
        BY <2>5 DEF Rej!Stream
    <2>7. Rej!StreamCandidate(s, u * per + k - 1) =
            Rej!Candidate(Rej!Stream(unit * ((u * per + a) \div per), unit), (u * per + a) % per)
      BY <2>3 DEF Rej!StreamCandidate
    <2> QED
      BY <2>2, <2>6, <2>7
  <1> QED
    BY <1>3 DEF Rej!Decode, UnitCands

\* The first elements of a sequence are the first elements of a longer one.
LEMMA TakeProperties ==
  ASSUME NEW S, NEW x \in Seq(S), NEW y \in Seq(S), NEW m \in Nat
  PROVE  /\ Take(x, m) \in Seq(S)
         /\ Len(Take(x, m)) <= m
         /\ Len(Take(x, m)) = IF Len(x) < m THEN Len(x) ELSE m
         /\ Len(Take(x, m)) < m => Take(x, m) = x
         /\ Len(Take(x, m)) <= Len(x \o y)
         /\ Take(x, m) = SubSeq(x \o y, 1, Len(Take(x, m)))
  <1> DEFINE k == IF Len(x) < m THEN Len(x) ELSE m
  <1>1. k \in Nat /\ k <= Len(x) /\ Len(x) \in Nat /\ Len(y) \in Nat /\ (k < m => k = Len(x)) /\ k <= m
    OBVIOUS
  <1>2. Take(x, m) = SubSeq(x, 1, k)
    BY DEF Take
  <1> HIDE DEF k
  <1>3. SubSeq(x, 1, k) \in Seq(S) /\ Len(SubSeq(x, 1, k)) = k
    BY <1>1
  <1>4. k = Len(x) => SubSeq(x, 1, k) = x
    BY <1>1
  <1>5. x \o y \in Seq(S) /\ Len(x \o y) = Len(x) + Len(y)
    BY <1>1
  <1>6. SubSeq(x, 1, k) = SubSeq(x \o y, 1, k)
    <2>1. ASSUME NEW j \in 1..k PROVE x[j] = (x \o y)[j]
      BY <1>1
    <2>2. SubSeq(x, 1, k) = [j \in 1..k |-> x[j]]
      BY <1>1
    <2>3. SubSeq(x \o y, 1, k) = [j \in 1..k |-> (x \o y)[j]]
      BY <1>1, <1>5
    <2> QED
      BY <2>1, <2>2, <2>3
  <1> QED
    BY <1>1, <1>2, <1>3, <1>4, <1>5, <1>6 DEF k

----------------------------------------------------------------------------
\* The steps of a rejection sampler preserve the invariant.

\* Which candidates are accepted does not change during a call.
LEMMA ReferenceStays ==
  ASSUME s' = s, bad' = bad
  PROVE  \A u \in Nat : Rej!Reference(s, u)' = Rej!Reference(s, u)
  BY DEF Rej!Reference, Rej!Select, Rej!StreamCandidate, Rej!Candidate, Rej!Stream

\* A round of one of the loops takes count units: the candidates it appends
\* are the next ones of the stream.
LEMMA RoundStep ==
  ASSUME RejInv, NEW count \in Nat, rpc \in {"group", "tail"},
         Rej!Loops(count), Rej!Round(count),
         s.keep = 0 => \E m \in Nat : count * s.unit = m * Width(s)
  PROVE  RejInv'
  <1>1. /\ s \in Kinds /\ buf \in Seq(Nat) /\ next \in Nat /\ rpos \in Nat
        /\ Len(buf) <= next /\ rpos <= Len(buf)
    BY DEF RejInv, BufferIsStream, IsStream
  <1>2. /\ s' = s /\ bad' = bad /\ rpc' = rpc /\ buf' = buf /\ next' = next
        /\ rpos' = rpos + count * s.unit /\ out' = Rej!Store(Rej!Decode(count))
    BY DEF Rej!Round
  <1>3. Len(out) < s.n /\ rpos + count * s.unit <= Len(buf)
    BY DEF Rej!Loops
  <1>4. s.unit \in Nat /\ s.n \in Nat /\ Len(buf) \in Nat /\ count * s.unit \in Nat
    BY <1>1, SizeTypes, Products
  <1>5. BufferIsStream'
    BY <1>1, <1>2, <1>3, <1>4 DEF RejInv, BufferIsStream, IsStream
  <1>6. LeftOver'
    BY <1>2 DEF RejInv, LeftOver
  <1>7. Aligned'
    <2>1. \E p \in Nat : rpos' = p * s.unit
      <3>1. PICK p \in Nat : rpos = p * s.unit
        BY DEF RejInv, Aligned
      <3>2. rpos' = (p + count) * s.unit /\ p + count \in Nat
        BY <1>2, <1>4, <3>1, Products
      <3> QED
        BY <3>2
    <2>2. ASSUME s.keep = 0
          PROVE  \E w \in Nat : Len(buf) - rpos' = w * Width(s)
      <3>1. PICK w \in Nat : Len(buf) - rpos = w * Width(s)
        BY <2>2 DEF RejInv, Aligned
      <3>2. PICK m \in Nat : count * s.unit = m * Width(s)
        BY <2>2
      <3>3. Width(s) \in Nat /\ Width(s) > 0
        BY <1>1, SizeTypes
      <3> DEFINE x == Width(s)
                 taken == count * s.unit
      <3>4. /\ x \in Nat /\ x > 0 /\ taken \in Nat
            /\ Len(buf) - rpos = w * x /\ taken = m * x /\ taken <= Len(buf) - rpos
        BY <1>1, <1>3, <1>4, <3>1, <3>2, <3>3
      <3> HIDE DEF x, taken
      <3>5. m <= w
        <4>1. m * x <= w * x
          BY <3>4
        <4> QED
          BY <3>4, <4>1, Cancel
      <3>6. w - m \in Nat /\ w * x - m * x = (w - m) * x
        BY <3>4, <3>5
      <3>7. Len(buf) - (rpos + taken) = (w - m) * x
        BY <1>1, <1>4, <3>4, <3>6
      <3> QED
        BY <1>2, <3>6, <3>7 DEF x, taken
    <2> QED
      BY <1>2, <2>1, <2>2 DEF Aligned, Width
  <1>8. ConsumedInOrder'
    <2>1. PICK u \in Nat : /\ next - Len(buf) + rpos = u * s.unit
                           /\ out = Take(Rej!Reference(s, u), s.n)
      BY DEF RejInv, ConsumedInOrder
    <2> DEFINE v == u + count
               S == AllCands(s)
               ref == Rej!Reference(s, u)
               new == Rej!Select(UnitCands(s, u, count), bad)
    <2>2. v \in Nat /\ next' - Len(buf') + rpos' = v * s.unit
      <3>1. (u + count) * s.unit = u * s.unit + count * s.unit /\ u * s.unit \in Nat
        BY <1>4, Products
      <3> DEFINE taken == count * s.unit
                 before == u * s.unit
                 base == next - Len(buf)
      <3>2. base \in Int /\ rpos \in Int /\ taken \in Nat /\ base + rpos = before
        BY <1>1, <1>4, <2>1
      <3>3. next' - Len(buf') = base /\ rpos' = rpos + taken /\ v * s.unit = before + taken
        BY <1>2, <3>1
      <3> HIDE DEF taken, before, base, v
      <3>4. next' - Len(buf') + rpos' = v * s.unit
        BY <3>2, <3>3
      <3> QED
        BY <3>4 DEF v
    <2>3. Rej!Decode(count) = UnitCands(s, u, count)
      BY <1>3, <2>1, DecodeIs DEF RejInv
    <2>4. ref \in Seq(S) /\ new \in Seq(S) /\ Rej!Reference(s, v) = ref \o new
      BY <1>1, ReferenceSplit
    <2>5. out = ref
      <3> HIDE DEF S, ref, new
      <3>1. out = Take(ref, s.n)
        BY <2>1 DEF ref
      <3> QED
        BY <1>3, <1>4, <2>4, <3>1, TakeProperties
    <2>6. out' = Take(out \o new, s.n)
      BY <1>2, <2>3 DEF Rej!Store, Rej!Accepted, Take
    <2>7. out' = Take(Rej!Reference(s, v), s.n)
      BY <2>4, <2>5, <2>6
    <2>8. Rej!Reference(s, v)' = Rej!Reference(s, v)
      BY <1>2, <2>2, ReferenceStays
    <2> QED
      BY <1>2, <2>2, <2>7, <2>8 DEF ConsumedInOrder, Take
  <1> QED
    BY <1>5, <1>6, <1>7, <1>8 DEF RejInv

\* Bytes of the stream and the m bytes that follow them.
LEMMA StreamConcat ==
  ASSUME NEW q, NEW at \in Nat, NEW m \in Nat, IsStream(q, at)
  PROVE  /\ Len(q \o Rej!Stream(at, m)) = Len(q) + m
         /\ IsStream(q \o Rej!Stream(at, m), at + m)
  <1> DEFINE more == Rej!Stream(at, m)
             l == Len(q)
             all == q \o more
  <1>1. more \in Seq(Nat) /\ Len(more) = m /\ \A j \in 1..m : more[j] = at + j - 1
    BY DEF Rej!Stream
  <1>2. q \in Seq(Nat) /\ l \in Nat /\ l <= at /\ \A j \in 1..l : q[j] = at - l + j - 1
    BY DEF IsStream
  <1> HIDE DEF more
  <1>3. all \in Seq(Nat) /\ Len(all) = l + m
    BY <1>1, <1>2, ConcatProperties
  <1>4. \A j \in 1..(l + m) : all[j] = IF j <= l THEN q[j] ELSE more[j - l]
    BY <1>1, <1>2, ConcatProperties
  <1> HIDE DEF l, all
  <1>5. ASSUME NEW j \in 1..(l + m) PROVE all[j] = (at + m) - (l + m) + j - 1
    <2>1. (at + m) - (l + m) + j - 1 = at - l + j - 1
      BY <1>2
    <2>2. CASE j <= l
      BY <1>2, <1>4, <2>1, <2>2
    <2>3. CASE ~(j <= l)
      <3>1. j - l \in 1..m /\ at + (j - l) - 1 = at - l + j - 1
        BY <1>2, <2>3
      <3>2. all[j] = more[j - l]
        BY <1>4, <2>3
      <3> QED
        BY <1>1, <2>1, <3>1, <3>2
    <2> QED
      BY <2>2, <2>3
  <1>6. l + m <= at + m
    BY <1>2
  <1> QED
    BY <1>3, <1>5, <1>6 DEF IsStream, all, more, l

\* The bytes that a squeeze keeps are those of buf that were not consumed.
KeptRest(kept) ==
  /\ IsStream(kept, next) /\ Len(kept) = Len(buf) - rpos
  /\ s.keep = 0 => kept = << >>

Fits(kept, blocks) == Len(kept) + blocks * s.block <= s.nblocks * s.block + s.spare

\* A squeeze after the kept bytes gives the bytes of the stream that follow
\* those consumed so far.
LEMMA SqueezeStep ==
  ASSUME RejInv, NEW kept, NEW blocks \in Nat, KeptRest(kept), Fits(kept, blocks),
         Rej!Squeeze(kept, blocks)
  PROVE  RejInv'
  <1>1. s \in Kinds /\ buf \in Seq(Nat) /\ next \in Nat /\ rpos \in Nat
    BY DEF RejInv, BufferIsStream, IsStream
  <1> DEFINE m == blocks * s.block
             l == Len(kept)
  <1>2. /\ s' = s /\ bad' = bad /\ rpc' = "group" /\ out' = out
        /\ buf' = kept \o Rej!Stream(next, m) /\ next' = next + m /\ rpos' = 0
    BY DEF Rej!Squeeze
  <1>3. m \in Nat /\ l \in Nat /\ Len(buf) \in Nat
    <2>1. s.block \in Nat
      BY <1>1, SizeTypes
    <2>2. m \in Nat
      BY <2>1, Products
    <2>3. l \in Nat
      BY DEF KeptRest, IsStream
    <2> QED
      BY <1>1, <2>2, <2>3
  <1>4. l <= next /\ l + m <= s.nblocks * s.block + s.spare /\ l = Len(buf) - rpos
    BY DEF KeptRest, Fits, IsStream
  <1> HIDE DEF m
  <1>5. Len(buf') = l + m /\ IsStream(buf', next')
    <2>1. IsStream(kept, next)
      BY DEF KeptRest
    <2>2. /\ Len(kept \o Rej!Stream(next, m)) = Len(kept) + m
          /\ IsStream(kept \o Rej!Stream(next, m), next + m)
      BY <1>1, <1>3, <2>1, StreamConcat
    <2> QED
      BY <1>2, <2>2
  <1>6. BufferIsStream'
    <2> HIDE DEF l
    <2>1. next' \in Nat /\ rpos' \in Nat /\ rpos' <= Len(buf')
      BY <1>1, <1>2, <1>3, <1>5
    <2>2. Len(buf') <= s.nblocks * s.block + s.spare
      BY <1>4, <1>5
    <2> QED
      BY <1>1, <1>2, <1>5, <2>1, <2>2 DEF BufferIsStream, IsStream
  <1>7. ConsumedInOrder'
    <2>1. PICK u \in Nat : /\ next - Len(buf) + rpos = u * s.unit
                           /\ out = Take(Rej!Reference(s, u), s.n)
      BY DEF RejInv, ConsumedInOrder
    <2>2. next' - Len(buf') + rpos' = next - Len(buf) + rpos
      <3> HIDE DEF l
      <3> QED
        BY <1>1, <1>2, <1>3, <1>4, <1>5
    <2>3. Rej!Reference(s, u)' = Rej!Reference(s, u)
      BY <1>2, ReferenceStays
    <2> QED
      BY <1>2, <2>1, <2>2, <2>3 DEF ConsumedInOrder, Take
  <1>8. Aligned'
    <2>1. \E p \in Nat : 0 = p * s.unit
      <3>1. s.unit \in Nat
        BY <1>1, SizeTypes
      <3>2. 0 = 0 * s.unit
        BY <3>1
      <3> QED
        BY <3>2
    <2>2. ASSUME s.keep = 0 PROVE \E w \in Nat : Len(buf') - 0 = w * Width(s)
      <3>1. l = 0
        BY <2>2 DEF KeptRest
      <3>2. Width(s) \in Nat /\ Width(s) > 0 /\ s.block \in Nat
        BY <1>1, SizeTypes
      <3>3. s.block % Width(s) = 0
        BY <1>1, <2>2, SamplersAssumption DEF Rej!SamplingAssumption, Width
      <3> DEFINE x == Width(s)
                 y == s.block
                 q == y \div x
      <3>4. y = x * q + (y % x) /\ q \in Nat
        <4>1. x \in Nat /\ x > 0 /\ y \in Nat
          BY <3>2
        <4> HIDE DEF x, y
        <4> QED
          BY <4>1, DivUnits
      <3>5. x \in Nat /\ y \in Nat /\ y = x * q
        BY <3>2, <3>3, <3>4
      <3> HIDE DEF x, y, q
      <3>6. blocks * y = (blocks * q) * x /\ blocks * q \in Nat
        BY <3>4, <3>5
      <3>7. Len(buf') - 0 = blocks * y
        BY <1>3, <1>5, <3>1 DEF m, y
      <3> QED
        BY <3>6, <3>7 DEF x
    <2> QED
      BY <1>2, <2>1, <2>2 DEF Aligned, Width
  <1>9. LeftOver'
    BY <1>2 DEF LeftOver
  <1> QED
    BY <1>6, <1>7, <1>8, <1>9 DEF RejInv

\* What a refill keeps of buf: nothing, or the bytes of the incomplete unit.
LEMMA KeptIsRest ==
  ASSUME RejInv, rpc = "refill", Len(out) < s.n
  PROVE  KeptRest(Rej!Kept) /\ Fits(Rej!Kept, 1)
  <1> DEFINE l == Len(buf)
             a == l - rpos
             unit == s.unit
             block == s.block
             room == s.nblocks * block
  <1>1. /\ s \in Kinds /\ next \in Nat /\ rpos \in Nat /\ rpos <= l
        /\ buf \in Seq(Nat) /\ l \in Nat /\ l <= next
        /\ \A j \in 1..l : buf[j] = next - l + j - 1
    BY DEF RejInv, BufferIsStream, IsStream
  <1>2. /\ unit \in Nat /\ unit > 0 /\ block \in Nat /\ s.spare \in Nat
        /\ s.keep \in {0, 1} /\ s.nblocks \in Nat /\ s.nblocks > 0
    BY <1>1, SizeTypes
  <1>3. a < unit /\ (s.keep = 0 => rpos = l)
    BY DEF RejInv, LeftOver
  <1>4. 1 * block = block /\ block <= room /\ room \in Nat
    <2> HIDE DEF block
    <2>1. s.nblocks = 1 + (s.nblocks - 1) /\ s.nblocks - 1 \in Nat
      BY <1>2
    <2>2. 1 * block <= (1 + (s.nblocks - 1)) * block
      BY <1>2, <2>1, Products
    <2>3. room \in Nat
      BY <1>2, Products
    <2> QED
      BY <1>2, <2>1, <2>2, <2>3
  <1>5. CASE s.keep = 0
    <2>1. Rej!Kept = << >>
      BY <1>5 DEF Rej!Kept
    <2>2. << >> \in Seq(Nat) /\ Len(<< >>) = 0
      OBVIOUS
    <2>3. KeptRest(<< >>)
      BY <1>1, <1>3, <1>5, <2>2 DEF KeptRest, IsStream
    <2>4. Fits(<< >>, 1)
      BY <1>2, <1>4, <2>2 DEF Fits
    <2> QED
      BY <2>1, <2>3, <2>4
  <1>6. CASE s.keep = 1
    <2>1. l % unit = a
      <3>1. PICK p \in Nat : rpos = p * unit
        BY DEF RejInv, Aligned
      <3>2. a \in Nat /\ l = p * unit + a
        <4>1. p * unit \in Nat
          BY <1>2, Products
        <4> HIDE DEF l, unit
        <4> QED
          BY <1>1, <3>1, <4>1
      <3> HIDE DEF l, a, unit
      <3>3. (p * unit + a) % unit = a % unit
        <4>1. unit \in Nat /\ unit > 0 /\ a \in Nat
          BY <1>2, <3>2
        <4> QED
          BY <4>1, DivUnits
      <3>4. a % unit = a
        BY <1>2, <1>3, <3>2
      <3> QED
        BY <3>2, <3>3, <3>4
    <2> DEFINE kept == SubSeq(buf, rpos + 1, l)
    <2>2. Rej!Kept = kept
      <3>1. Rej!Kept = SubSeq(buf, l - (l % unit) + 1, l)
        BY <1>6 DEF Rej!Kept
      <3>2. l - a + 1 = rpos + 1
        BY <1>1
      <3> QED
        BY <2>1, <3>1, <3>2
    <2>3. kept \in Seq(Nat) /\ Len(kept) = a /\ \A j \in 1..a : kept[j] = buf[rpos + j]
      <3>1. \A j \in (rpos + 1)..l : buf[j] \in Nat
        BY <1>1
      <3>2. /\ kept \in Seq(Nat)
            /\ Len(kept) = IF rpos + 1 <= l THEN l - (rpos + 1) + 1 ELSE 0
            /\ \A j \in 1..(l - (rpos + 1) + 1) : kept[j] = buf[(rpos + 1) + j - 1]
        <4>1. rpos + 1 \in Int /\ l \in Int
          BY <1>1
        <4> HIDE DEF l
        <4> QED
          BY <3>1, <4>1, SubSeqProperties
      <3>3. l - (rpos + 1) + 1 = a /\ \A j \in 1..a : (rpos + 1) + j - 1 = rpos + j
        BY <1>1
      <3> HIDE DEF l, kept
      <3> QED
        BY <1>1, <3>2, <3>3
    <2> HIDE DEF kept
    <2>4. IsStream(kept, next)
      <3>1. a \in Nat /\ a <= next
        BY <1>1
      <3>2. ASSUME NEW j \in 1..a PROVE kept[j] = next - a + j - 1
        <4> HIDE DEF l
        <4>1. rpos + j \in 1..l /\ next - l + (rpos + j) - 1 = next - a + j - 1
          BY <1>1, <3>1
        <4> QED
          BY <1>1, <2>3, <4>1
      <3> HIDE DEF a
      <3> QED
        BY <2>3, <3>1, <3>2 DEF IsStream
    <2>5. KeptRest(kept)
      BY <1>6, <2>3, <2>4 DEF KeptRest
    <2>6. Fits(kept, 1)
      <3>1. s.spare >= unit - 1
        BY <1>1, <1>6, SamplersAssumption DEF Rej!SamplingAssumption
      <3>2. a \in Nat
        BY <1>1
      <3> HIDE DEF a, unit, room, block
      <3>3. a + block <= room + s.spare
        BY <1>2, <1>3, <1>4, <3>1, <3>2
      <3> QED
        BY <1>4, <2>3, <3>3 DEF Fits, room, block
    <2> QED
      BY <2>2, <2>5, <2>6
  <1> QED
    BY <1>2, <1>5, <1>6

\* The loops leave less than a unit behind when coefficients are missing.
LEMMA RestIsShort ==
  ASSUME RejInv, NEW count \in Nat, count * s.unit = Width(s),
         Len(out) < s.n, ~Rej!Loops(count)
  PROVE  Len(buf) - rpos < s.unit /\ (s.keep = 0 => rpos = Len(buf))
  <1> DEFINE a == Len(buf) - rpos
             w == Width(s)
  <1>1. s \in Kinds /\ rpos \in Nat /\ Len(buf) \in Nat /\ rpos <= Len(buf)
    BY DEF RejInv, BufferIsStream, IsStream
  <1>2. s.unit \in Nat /\ w \in Nat /\ w > 0 /\ s.keep \in {0, 1}
    BY <1>1, SizeTypes
  <1>3. a \in Nat /\ a < w
    <2>1. ~(rpos + w <= Len(buf))
      BY DEF Rej!Loops
    <2> HIDE DEF w
    <2> QED
      BY <1>1, <1>2, <2>1
  <1>4. CASE s.keep = 0
    <2>1. PICK k \in Nat : a = k * w
      BY <1>4 DEF RejInv, Aligned
    <2> HIDE DEF a, w
    <2>2. k = 0
      <3>1. k * w < 0 * w + w
        BY <1>2, <1>3, <2>1
      <3> QED
        BY <1>2, <3>1, Cancel
    <2>3. a = 0
      BY <1>2, <2>1, <2>2
    <2> QED
      BY <1>1, <1>2, <2>3, SizeTypes DEF a
  <1>5. CASE s.keep = 1
    <2>1. s.tail = 1 \/ s.group = 1
      BY <1>1, <1>5, SamplersAssumption DEF Rej!SamplingAssumption
    <2>2. w = s.unit
      <3>1. s.unit * 1 = s.unit
        BY <1>2
      <3> QED
        BY <2>1, <3>1 DEF Width
    <2> QED
      BY <1>3, <1>5, <2>2
  <1> QED
    BY <1>2, <1>4, <1>5

\* Every step of a rejection sampler preserves the invariant.
LEMMA RejStep == RejInv /\ Rej!Next => RejInv'
  <1> SUFFICES ASSUME RejInv, Rej!Next PROVE RejInv'
    OBVIOUS
  <1>1. s \in Kinds /\ s.unit \in Nat /\ s.group \in Nat /\ s.nblocks \in Nat /\ s.tail \in {0, 1}
    <2>1. s \in Kinds
      BY DEF RejInv, BufferIsStream
    <2> QED
      BY <2>1, SizeTypes
  <1>2. s.tail = 0 => s.group * s.unit = Width(s)
    BY <1>1 DEF Width
  <1>3. s.tail = 1 => 1 * s.unit = Width(s)
    BY <1>1 DEF Width
  <1>4. ASSUME UNCHANGED <<s, bad, buf, next, rpos, out>>,
               rpc' \in {"tail", "refill", "done"}, LeftOver'
        PROVE  RejInv'
    <2>1. BufferIsStream'
      BY <1>4 DEF RejInv, BufferIsStream, IsStream
    <2>2. Aligned'
      BY <1>4 DEF RejInv, Aligned, Width
    <2>3. ConsumedInOrder'
      <3>1. PICK u \in Nat : /\ next - Len(buf) + rpos = u * s.unit
                             /\ out = Take(Rej!Reference(s, u), s.n)
        BY DEF RejInv, ConsumedInOrder
      <3>2. Rej!Reference(s, u)' = Rej!Reference(s, u)
        BY <1>4, ReferenceStays
      <3> QED
        BY <1>4, <3>1, <3>2 DEF ConsumedInOrder, Take
    <2> QED
      BY <1>4, <2>1, <2>2, <2>3 DEF RejInv
  <1>5. CASE Rej!FirstBlocks
    <2>1. buf = << >> /\ rpos \in Nat /\ rpos <= Len(buf) /\ next \in Nat
      BY <1>5 DEF RejInv, LeftOver, BufferIsStream, Rej!FirstBlocks
    <2>2. << >> \in Seq(Nat) /\ Len(<< >>) = 0
      OBVIOUS
    <2>3. KeptRest(<< >>)
      BY <2>1, <2>2 DEF KeptRest, IsStream
    <2>4. Fits(<< >>, s.nblocks)
      <3>1. s.nblocks * s.block \in Nat /\ s.spare \in Nat
        BY <1>1, SizeTypes, Products
      <3> QED
        BY <2>2, <3>1 DEF Fits
    <2>5. Rej!Squeeze(<< >>, s.nblocks)
      BY <1>5 DEF Rej!FirstBlocks
    <2> QED
      BY <1>1, <2>3, <2>4, <2>5, SqueezeStep
  <1>6. CASE Rej!GroupRound
    <2>1. rpc = "group" /\ Rej!Loops(s.group) /\ Rej!Round(s.group)
      BY <1>6 DEF Rej!GroupRound
    <2>2. \E m \in Nat : s.group * s.unit = m * Width(s)
      <3>1. CASE s.tail = 0
        <4>1. s.group * s.unit = 1 * Width(s)
          BY <1>1, <1>2, <3>1, SizeTypes
        <4> QED
          BY <4>1
      <3>2. CASE s.tail = 1
        <4>1. Width(s) = s.unit
          BY <1>1, <1>3, <3>2
        <4> QED
          BY <1>1, <4>1
      <3> QED
        BY <1>1, <3>1, <3>2
    <2> QED
      BY <1>1, <2>1, <2>2, RoundStep
  <1>7. CASE Rej!TailRound
    <2>1. rpc = "tail" /\ Rej!Loops(1) /\ Rej!Round(1)
      BY <1>7 DEF Rej!TailRound
    <2>2. 1 * s.unit = 1 * Width(s)
      BY <1>1, <1>3, <2>1 DEF RejInv, LeftOver
    <2>3. \E m \in Nat : 1 * s.unit = m * Width(s)
      BY <2>2
    <2> QED
      BY <2>1, <2>3, RoundStep
  <1>8. CASE Rej!GroupsEnd
    <2>1. /\ ~Rej!Loops(s.group) /\ UNCHANGED <<s, bad, buf, next, rpos, out>>
          /\ rpc' = IF s.tail = 1 THEN "tail" ELSE "refill"
      BY <1>8 DEF Rej!GroupsEnd
    <2>2. CASE s.tail = 1
      <3>1. LeftOver'
        BY <2>1, <2>2 DEF LeftOver
      <3> QED
        BY <1>4, <2>1, <2>2, <3>1
    <2>3. CASE s.tail = 0
      <3>1. Len(out) < s.n => Len(buf) - rpos < s.unit /\ (s.keep = 0 => rpos = Len(buf))
        BY <1>1, <1>2, <2>1, <2>3, RestIsShort
      <3>2. LeftOver'
        BY <2>1, <2>3, <3>1 DEF LeftOver
      <3> QED
        BY <1>4, <2>1, <2>3, <3>2
    <2> QED
      BY <1>1, <2>2, <2>3
  <1>9. CASE Rej!TailEnds
    <2>1. /\ ~Rej!Loops(1) /\ UNCHANGED <<s, bad, buf, next, rpos, out>> /\ rpc' = "refill"
          /\ s.tail = 1
      BY <1>9 DEF Rej!TailEnds, RejInv, LeftOver
    <2>2. Len(out) < s.n => Len(buf) - rpos < s.unit /\ (s.keep = 0 => rpos = Len(buf))
      BY <1>3, <2>1, RestIsShort
    <2>3. LeftOver'
      BY <2>1, <2>2 DEF LeftOver
    <2> QED
      BY <1>4, <2>1, <2>3
  <1>10. CASE Rej!Refill
    <2>1. rpc = "refill" /\ Len(out) < s.n /\ Rej!Squeeze(Rej!Kept, 1)
      BY <1>10 DEF Rej!Refill
    <2>2. KeptRest(Rej!Kept) /\ Fits(Rej!Kept, 1)
      BY <2>1, KeptIsRest
    <2> QED
      BY <2>1, <2>2, SqueezeStep
  <1>11. CASE Rej!Finish
    <2>1. UNCHANGED <<s, bad, buf, next, rpos, out>> /\ rpc' = "done"
      BY <1>11 DEF Rej!Finish
    <2>2. LeftOver'
      BY <2>1 DEF LeftOver
    <2> QED
      BY <1>4, <2>1, <2>2
  <1>12. CASE Rej!Done
    <2>1. UNCHANGED <<s, bad, buf, next, rpos, out>> /\ rpc' = "done"
      BY <1>12 DEF Rej!Done, Rej!vars
    <2>2. LeftOver'
      BY <2>1 DEF LeftOver
    <2> QED
      BY <1>4, <2>1, <2>2
  <1> QED
    BY <1>5, <1>6, <1>7, <1>8, <1>9, <1>10, <1>11, <1>12 DEF Rej!Next

\* The empty buffer satisfies the invariant.
LEMMA InitRej == Rej!Init => RejInv
  <1> SUFFICES ASSUME Rej!Init PROVE RejInv
    OBVIOUS
  <1>1. s \in Kinds /\ rpc = "init" /\ buf = << >> /\ next = 0 /\ rpos = 0 /\ out = << >>
    BY DEF Rej!Init
  <1>2. << >> \in Seq(Nat) /\ Len(<< >>) = 0
    OBVIOUS
  <1>3. BufferIsStream
    <2>1. s.nblocks * s.block \in Nat /\ s.spare \in Nat
      BY <1>1, SizeTypes, Products
    <2> QED
      BY <1>1, <1>2, <2>1 DEF BufferIsStream, IsStream
  <1>4. 0 = 0 * s.unit /\ 0 = 0 * Width(s)
    <2>1. s.unit \in Nat /\ Width(s) \in Nat
      BY <1>1, SizeTypes
    <2> QED
      BY <2>1
  <1>5. Aligned /\ LeftOver
    BY <1>1, <1>2, <1>4 DEF Aligned, LeftOver
  <1>6. out = Take(Rej!Reference(s, 0), s.n)
    <2>1. Rej!Reference(s, 0) = << >>
      <3>1. 1..(0 * s.per) = {}
        BY <1>1, SizeTypes
      <3>2. [k \in 1..(0 * s.per) |-> Rej!StreamCandidate(s, k - 1)] = << >>
        BY <3>1
      <3> QED
        BY <3>2, SelectEmpty DEF Rej!Reference
    <2>2. s.n \in Nat
      BY <1>1, SizeTypes
    <2> QED
      BY <1>1, <1>2, <2>1, <2>2 DEF Take
  <1>7. ConsumedInOrder
    BY <1>1, <1>2, <1>4, <1>6 DEF ConsumedInOrder
  <1> QED
    BY <1>3, <1>5, <1>7 DEF RejInv

\* A step that leaves the sampler alone preserves the invariant.
LEMMA RejStutter ==
  ASSUME RejInv, UNCHANGED rvars
  PROVE  RejInv'
  <1>1. BufferIsStream'
    BY DEF rvars, RejInv, BufferIsStream, IsStream
  <1>2. Aligned' /\ LeftOver'
    BY DEF rvars, RejInv, Aligned, LeftOver, Width
  <1>3. ConsumedInOrder'
    <2>1. PICK u \in Nat : /\ next - Len(buf) + rpos = u * s.unit
                           /\ out = Take(Rej!Reference(s, u), s.n)
      BY DEF RejInv, ConsumedInOrder
    <2>2. Rej!Reference(s, u)' = Rej!Reference(s, u)
      BY ReferenceStays DEF rvars
    <2> QED
      BY <2>1, <2>2 DEF rvars, ConsumedInOrder, Take
  <1> QED
    BY <1>1, <1>2, <1>3 DEF RejInv

\* What the invariant says of the coefficients: with u units consumed and v
\* squeezed, they are the first accepted candidates of the v units.
LEMMA RejFirstAccepted == RejInv => FirstAccepted
  <1> SUFFICES ASSUME RejInv PROVE FirstAccepted
    OBVIOUS
  <1> DEFINE a == Len(buf) - rpos
             unit == s.unit
             v == next \div unit
             ref == Rej!Reference(s, v)
  <1>1. /\ s \in Kinds /\ next \in Nat /\ rpos \in Nat /\ Len(buf) \in Nat
        /\ rpos <= Len(buf) /\ Len(buf) <= next
    BY DEF RejInv, BufferIsStream, IsStream
  <1>2. unit \in Nat /\ unit > 0 /\ s.n \in Nat
    BY <1>1, SizeTypes
  <1>3. PICK u \in Nat : /\ next - Len(buf) + rpos = u * unit
                         /\ out = Take(Rej!Reference(s, u), s.n)
    BY DEF RejInv, ConsumedInOrder
  <1>4. a \in Nat /\ next = u * unit + a
    <2> DEFINE x == u * unit
    <2>1. x \in Nat /\ next - Len(buf) + rpos = x
      BY <1>2, <1>3, Products
    <2> HIDE DEF x
    <2> QED
      BY <1>1, <2>1 DEF x
  <1> HIDE DEF a, unit
  <1>5. v = u + (a \div unit) /\ a \div unit \in Nat
    <2>1. (u * unit + a) \div unit = u + (a \div unit)
      BY <1>2, <1>4, DivUnits
    <2>2. a \div unit \in Nat
      BY <1>2, <1>4, DivUnits
    <2> QED
      BY <1>4, <2>1, <2>2
  <1> DEFINE m == a \div unit
             S == AllCands(s)
             old == Rej!Reference(s, u)
             new == Rej!Select(UnitCands(s, u, m), bad)
  <1>6. m \in Nat /\ v = u + m
    BY <1>5
  <1> HIDE DEF v, m
  <1>7. old \in Seq(S) /\ new \in Seq(S) /\ ref = old \o new
    BY <1>1, <1>6, ReferenceSplit
  <1>8. out = Take(old, s.n)
    BY <1>3
  <1> HIDE DEF old, new, S, ref
  <1>9. /\ Len(out) <= Len(ref) /\ out = SubSeq(ref, 1, Len(out))
        /\ Len(out) = IF Len(old) < s.n THEN Len(old) ELSE s.n
        /\ Len(out) <= s.n
    BY <1>2, <1>7, <1>8, TakeProperties
  <1>10. Len(out) \in Nat /\ Len(ref) \in Nat /\ Len(old) \in Nat
    <2>1. out \in Seq(S)
      BY <1>2, <1>7, <1>8, TakeProperties
    <2>2. ref \in Seq(S)
      BY <1>7
    <2> QED
      BY <1>7, <2>1, <2>2
  <1>11. ASSUME rpc = "refill" PROVE Len(out) = IF Len(ref) < s.n THEN Len(ref) ELSE s.n
    <2>1. CASE Len(out) < s.n
      <3>1. a < unit
        BY <1>11, <2>1 DEF RejInv, LeftOver, a, unit
      <3>2. u + m = u
        BY <1>2, <1>4, <1>6, <3>1 DEF m
      <3>3. ref = old
        BY <1>6, <3>2 DEF ref, old
      <3> QED
        BY <1>2, <1>9, <1>10, <2>1, <3>3
    <2>2. CASE ~(Len(out) < s.n)
      BY <1>2, <1>9, <1>10, <2>2
    <2> QED
      BY <2>1, <2>2
  <1> QED
    BY <1>9, <1>11 DEF FirstAccepted, Rej!FirstAccepted, ref, v, unit

\* What it says of the bounds.
LEMMA RejInBounds == RejInv => InBounds
  <1> SUFFICES ASSUME RejInv PROVE InBounds
    OBVIOUS
  <1>1. PICK u \in Nat : out = Take(Rej!Reference(s, u), s.n)
    BY DEF RejInv, ConsumedInOrder
  <1>2. s \in Kinds /\ s.n \in Nat
    BY SizeTypes DEF RejInv, BufferIsStream
  <1>3. Rej!Reference(s, u) \in Seq(AllCands(s))
    BY <1>2, ReferenceSplit
  <1>4. Len(out) <= s.n
    BY <1>1, <1>2, <1>3, TakeProperties
  <1> QED
    BY <1>4 DEF RejInv, BufferIsStream, IsStream, InBounds, Rej!TypeOK

----------------------------------------------------------------------------
\* The inductive invariant of poly_challenge.  The number of coefficients that
\* are not zero is not inductive by itself: the coefficient at i, which the
\* placement overwrites, must still be zero.

\* The places the loop has not reached hold zero.
ZeroFrom == pc # "init" => /\ i >= N - Tau
                           /\ \A j \in Index : j >= i => c[j] = 0

Counted == pc # "init" => Cardinality(NonZero) = i - (N - Tau)

AtEnd == pc = "done" => i = N

ChallengeInv == TypeOK /\ ZeroFrom /\ Counted /\ AtEnd

\* The set of coefficients that are not zero is finite, so that its elements
\* can be counted.
LEMMA NonZeroFinite == IsFiniteSet(NonZero)
  <1>1. IsFiniteSet(Index) /\ NonZero \subseteq Index
    BY ChallengeAssumption, FS_Interval DEF Index, NonZero
  <1> QED BY <1>1, FS_Subset

\* What one placement does to the coefficients that are not zero: it adds one
\* place, b if c[b] was zero and i otherwise.
LEMMA PlaceAdds ==
  ASSUME TypeOK, ZeroFrom, Place
  PROVE  \E x \in Index : x \notin NonZero /\ NonZero' = NonZero \union {x}
  <1>1. i \in Index /\ b \in Index /\ b <= i /\ c[i] = 0
    BY ChallengeAssumption DEF TypeOK, ZeroFrom, Place, Index
  <1>2. PICK sign \in {1, -1} : c' = [[c EXCEPT ![i] = c[b]] EXCEPT ![b] = sign]
    BY DEF Place
  <1>3. c \in [Index -> {0, 1, -1}]
    BY DEF TypeOK
  <1>4. CASE c[b] = 0
    <2>1. NonZero' = NonZero \union {b}
      BY <1>1, <1>2, <1>3, <1>4 DEF NonZero
    <2> QED BY <1>1, <1>4, <2>1 DEF NonZero
  <1>5. CASE c[b] # 0
    <2>1. NonZero' = NonZero \union {i}
      BY <1>1, <1>2, <1>3, <1>5 DEF NonZero
    <2> QED BY <1>1, <2>1 DEF NonZero
  <1> QED BY <1>4, <1>5

\* The zeroed polynomial has no coefficient that is not zero, and the loop
\* starts at N - Tau: the invariant holds before the first byte is read.
LEMMA InitChallenge == Init => ChallengeInv
  <1> SUFFICES ASSUME Init PROVE ChallengeInv
    OBVIOUS
  <1>1. TypeOK
    BY ChallengeAssumption DEF Init, TypeOK
  <1>2. ZeroFrom /\ Counted /\ AtEnd
    BY DEF Init, ZeroFrom, Counted, AtEnd
  <1> QED BY <1>1, <1>2 DEF ChallengeInv

\* Every step of poly_challenge keeps indices, bytes and sign bits in range.
LEMMA StepTypeOK == ChallengeInv /\ [Next]_vars => TypeOK'
  <1> SUFFICES ASSUME ChallengeInv, [Next]_vars PROVE TypeOK'
    OBVIOUS
  <1> USE ChallengeAssumption
  <1>1. CASE Start
    BY <1>1 DEF ChallengeInv, TypeOK, Start, Index
  <1>2. CASE ReadByte
    BY <1>2 DEF ChallengeInv, TypeOK, ReadByte, Index
  <1>3. CASE Place
    <2>1. c' \in [Index -> {0, 1, -1}]
      BY <1>3 DEF ChallengeInv, TypeOK, Place, Index
    <2>2. i' \in Nat /\ i' <= N /\ (pc' \in {"byte", "place"} => i' < N)
      BY <1>3 DEF ChallengeInv, TypeOK, Place
    <2>3. shifts' \in Nat /\ shifts' <= 8 * SignBytes /\ shifts' = i' - (N - Tau)
      BY <1>3, <2>2 DEF ChallengeInv, TypeOK, Place
    <2> QED BY <1>3, <2>1, <2>2, <2>3 DEF ChallengeInv, TypeOK, Place
  <1>4. CASE UNCHANGED vars
    BY <1>4 DEF ChallengeInv, TypeOK, vars
  <1> QED BY <1>1, <1>2, <1>3, <1>4 DEF Next, Done

\* Every step keeps the places from i on zero and ends the loop at N.
LEMMA StepZeroFrom == ChallengeInv /\ [Next]_vars => ZeroFrom' /\ AtEnd'
  <1> SUFFICES ASSUME ChallengeInv, [Next]_vars PROVE ZeroFrom' /\ AtEnd'
    OBVIOUS
  <1> USE ChallengeAssumption
  <1>1. CASE Start
    BY <1>1 DEF ChallengeInv, ZeroFrom, AtEnd, Start, Index
  <1>2. CASE ReadByte
    BY <1>2 DEF ChallengeInv, ZeroFrom, AtEnd, TypeOK, ReadByte, Index
  <1>3. CASE Place
    <2>1. AtEnd' /\ i' = i + 1 /\ i' >= N - Tau
      BY <1>3 DEF ChallengeInv, ZeroFrom, AtEnd, TypeOK, Place
    <2>2. ASSUME NEW j \in Index, j >= i + 1 PROVE c'[j] = 0
      BY <1>3, <2>2 DEF ChallengeInv, ZeroFrom, TypeOK, Place, Index
    <2> QED BY <2>1, <2>2 DEF ZeroFrom
  <1>4. CASE UNCHANGED vars
    BY <1>4 DEF ChallengeInv, ZeroFrom, AtEnd, vars
  <1> QED BY <1>1, <1>2, <1>3, <1>4 DEF Next, Done

\* Every step keeps the count of placed coefficients equal to the rounds done.
LEMMA StepCounted == ChallengeInv /\ [Next]_vars => Counted'
  <1> SUFFICES ASSUME ChallengeInv, [Next]_vars PROVE Counted'
    OBVIOUS
  <1> USE ChallengeAssumption
  <1>1. CASE Start
    <2>1. NonZero' = {}
      BY <1>1 DEF Start, NonZero
    <2>2. Cardinality(NonZero') = 0
      BY <2>1, FS_EmptySet
    <2> QED BY <1>1, <2>2 DEF Start, Counted
  <1>2. CASE ReadByte
    <2>1. NonZero' = NonZero /\ i' = i
      BY <1>2 DEF ReadByte, NonZero
    <2> QED BY <1>2, <2>1 DEF ChallengeInv, Counted, ReadByte
  <1>3. CASE Place
    <2>1. PICK x \in Index : x \notin NonZero /\ NonZero' = NonZero \union {x}
      BY <1>3, PlaceAdds DEF ChallengeInv
    <2>2. Cardinality(NonZero') = Cardinality(NonZero) + 1
      BY <2>1, NonZeroFinite, FS_AddElement
    <2>3. Cardinality(NonZero) = i - (N - Tau) /\ i' = i + 1 /\ i \in Nat
      BY <1>3 DEF ChallengeInv, Counted, TypeOK, Place
    <2> QED BY <2>2, <2>3 DEF Counted
  <1>4. CASE UNCHANGED vars
    <2>1. NonZero' = NonZero
      BY <1>4 DEF vars, NonZero
    <2> QED BY <1>4, <2>1 DEF ChallengeInv, Counted, vars
  <1> QED BY <1>1, <1>2, <1>3, <1>4 DEF Next, Done

----------------------------------------------------------------------------
\* A call of poly_challenge leaves the samplers alone, and a sampler the
\* challenge: both invariants hold in every reachable state.

\* The two invariants hold together.
THEOREM Invariance == SamplersSpec => [](ChallengeInv /\ RejInv)
  <1>1. SamplersInit => ChallengeInv /\ RejInv
    BY InitChallenge, InitRej DEF SamplersInit
  <1>2. ChallengeInv /\ RejInv /\ [SamplersNext]_<<call, vars, rvars>>
          => (ChallengeInv /\ RejInv)'
    <2> SUFFICES ASSUME ChallengeInv, RejInv, [SamplersNext]_<<call, vars, rvars>>
                 PROVE  ChallengeInv' /\ RejInv'
      OBVIOUS
    <2>1. [Next]_vars /\ (Rej!Next \/ UNCHANGED rvars)
      BY DEF SamplersNext, poly_challenge, poly_uniform
    <2>2. ChallengeInv'
      BY <2>1, StepTypeOK, StepZeroFrom, StepCounted DEF ChallengeInv
    <2>3. RejInv'
      BY <2>1, RejStep, RejStutter
    <2> QED
      BY <2>2, <2>3
  <1> QED
    BY <1>1, <1>2, PTL DEF SamplersSpec

\* poly_challenge reads inside buf, writes inside c and never runs out of
\* sign bits, for every parameter set with Tau <= 8 * SignBytes.
THEOREM ChallengeInRange == SamplersSpec => []TypeOK
  <1>1. ChallengeInv => TypeOK
    BY DEF ChallengeInv
  <1> QED
    BY <1>1, Invariance, PTL

\* poly_challenge returns a polynomial with exactly Tau coefficients that are
\* not zero, for every parameter set.
THEOREM ChallengeWeight == SamplersSpec => []ExactlyTau
  <1>1. ChallengeInv => ExactlyTau
    BY ChallengeAssumption DEF ChallengeInv, Counted, AtEnd, ExactlyTau
  <1> QED
    BY <1>1, Invariance, PTL

\* No rejection sampler fills buf[] past its size or a[] past n coefficients,
\* for all sizes that the #error of gen_matrix and the block sizes allow.
THEOREM SamplersInBounds == SamplersSpec => []InBounds
  BY RejInBounds, Invariance, PTL

\* The coefficients are the first accepted candidates of the stream, for all
\* those sizes and whichever candidates are rejected: scalar and vector
\* samplers, with and without kept bytes, give the same polynomial.
THEOREM SamplersFirstAccepted == SamplersSpec => []FirstAccepted
  BY RejFirstAccepted, Invariance, PTL
=============================================================================
