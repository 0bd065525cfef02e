------------------------------ MODULE HintCodec ------------------------------
(***************************************************************************)
(* The hint part of an ML-DSA signature: Omega index bytes followed by one *)
(* running count per polynomial, as pack_sig writes it and unpack_sig      *)
(* (tools/pqc/mldsa/mldsa.c) reads it.                                     *)
(*                                                                         *)
(* pack_sig is run on any hint vector sign may produce and its bytes go to *)
(* unpack_sig; unpack_sig is also run on any bytes at all.                 *)
(***************************************************************************)
EXTENDS Naturals, FiniteSets, Sequences

CONSTANTS
  N,        \* MLDSA_PAR_N
  K,        \* par->k
  Omega     \* par->omega

ASSUME HintAssumption ==
  N \in Nat /\ K \in Nat /\ Omega \in Nat /\ N > 0 /\ K > 0 /\ Omega < N

\* Every byte is an index of a coefficient, as 0..255 is for N = 256.
Byte  == 0..(N - 1)
Polys == 0..(K - 1)
Sig   == [0..(Omega + K - 1) -> Byte]
Hints == [Polys -> SUBSET Byte]     \* the places of the ones

VARIABLES
  pc,     \* "pack", "unpack", "extra", "ok", "bad"
  given,  \* the hint vector that was packed, or none
  sig,    \* the bytes
  i,      \* the polynomial at hand
  k,      \* index bytes written or read so far
  h       \* the hint vector that unpack_sig has decoded so far

vars == <<pc, given, sig, i, k, h>>

NoHints == [p \in Polys |-> {}]
\* The ones of a hint vector and their number.
Ones(v) == {e \in Polys \X Byte : e[2] \in v[e[1]]}
Weight(v) == Cardinality(Ones(v))

Init ==
  /\ i = 0 /\ k = 0 /\ h = NoHints
  /\ \/ /\ pc = "pack"
        /\ given \in {<<v>> : v \in {v \in Hints : Weight(v) <= Omega}}
        /\ sig = [x \in 0..(Omega + K - 1) |-> 0]
     \/ pc = "unpack" /\ given = <<>> /\ sig \in Sig

\* The indices of the ones of a polynomial, in the order of the loop over j.
Ascending(S) == CHOOSE s \in [1..Cardinality(S) -> S] :
                  \A x, z \in 1..Cardinality(S) : x < z => s[x] < s[z]

\* pack_sig, one polynomial per step: its indices, then the running count.
PackPoly ==
  /\ pc = "pack" /\ i < K
  /\ LET s == Ascending(given[1][i])
     IN  /\ sig' = [x \in DOMAIN sig |->
                      IF x = Omega + i THEN k + Len(s)
                      ELSE IF x \in k..(k + Len(s) - 1) THEN s[x - k + 1]
                      ELSE sig[x]]
         /\ k' = k + Len(s)
  /\ i' = i + 1
  /\ UNCHANGED <<pc, given, h>>

Send ==
  /\ pc = "pack" /\ i = K
  /\ pc' = "unpack" /\ i' = 0 /\ k' = 0
  /\ UNCHANGED <<given, sig, h>>

\* Mutant: the order is demanded across the polynomials too.
BadOrderAcross(lo, hi) == \E j \in lo..(hi - 1) : j > 0 /\ sig[j] <= sig[j - 1]

\* "Coefficients are ordered for strong unforgeability."
BadOrder(lo, hi) == \E j \in lo..(hi - 1) : j > lo /\ sig[j] <= sig[j - 1]

\* Mutant: a count is not compared with Omega.
BadCountHigh(n) == n < k

BadCount(n) == n < k \/ n > Omega

\* unpack_sig, one polynomial per step.  What it wrote to h before it returned
\* 1 is discarded by its caller.
UnpackPoly ==
  /\ pc = "unpack" /\ i < K
  /\ LET n == sig[Omega + i]
     IN  IF BadCount(n) \/ BadOrder(k, n)
         THEN pc' = "bad" /\ UNCHANGED <<i, k, h>>
         ELSE /\ h' = [h EXCEPT ![i] = {sig[j] : j \in k..(n - 1)}]
              /\ k' = n /\ i' = i + 1
              /\ UNCHANGED pc
  /\ UNCHANGED <<given, sig>>

\* Mutant: the last index byte is not looked at.
ExtraLoose == \E j \in k..(Omega - 2) : sig[j] # 0

\* "Extra indices are zero for strong unforgeability."
Extra == \E j \in k..(Omega - 1) : sig[j] # 0

UnpackEnd ==
  /\ pc = "unpack" /\ i = K
  /\ pc' = IF Extra THEN "bad" ELSE "ok"
  /\ UNCHANGED <<given, sig, i, k, h>>

Done == pc \in {"ok", "bad"} /\ UNCHANGED vars

Next == PackPoly \/ Send \/ UnpackPoly \/ UnpackEnd \/ Done

Spec == Init /\ [][Next]_vars

----------------------------------------------------------------------------
\* Properties.

\* Index bytes are written and read below Omega only, also while the counts
\* come from bytes that no signer wrote.
TypeOK ==
  /\ pc \in {"pack", "unpack", "ok", "bad"}
  /\ sig \in Sig /\ i \in 0..K /\ k \in 0..Omega
  /\ h \in Hints

\* Whatever hint vector sign packs, unpack_sig accepts it and gives it back.
RoundTrip ==
  given # <<>> => /\ pc # "bad"
                  /\ pc = "ok" => h = given[1]

\* The bytes that pack_sig would write for v, stated without its loop.
Canonical(v) ==
  LET upto(p) == Cardinality({e \in Ones(v) : e[1] <= p})
      before(p, j) == Cardinality({e \in Ones(v) : e[1] < p \/ (e[1] = p /\ e[2] < j)})
  IN  /\ \A p \in Polys : sig[Omega + p] = upto(p)
      /\ \A p \in Polys : \A j \in v[p] : sig[before(p, j)] = j
      /\ \A x \in Weight(v)..(Omega - 1) : sig[x] = 0

\* Strong unforgeability, as the comments in unpack_sig put it: one hint
\* vector has one encoding, so bytes that unpack_sig accepts are the bytes
\* pack_sig writes for the vector it decoded.
OneEncoding == pc = "ok" => Canonical(h)
=============================================================================
