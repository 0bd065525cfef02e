----------------------------- MODULE Challenge ------------------------------
(***************************************************************************)
(* poly_challenge (tools/pqc/mldsa/mldsa_poly.c): the challenge polynomial *)
(* of an ML-DSA signature, tau coefficients +1 or -1 placed by an          *)
(* inside-out shuffle driven by the bytes of SHAKE256.                     *)
(*                                                                         *)
(* A byte of the stream is any value below N; the first SignBytes bytes    *)
(* are the sign bits, used one per placed coefficient.                     *)
(***************************************************************************)
EXTENDS Integers, FiniteSets

CONSTANTS
  N,          \* MLDSA_PAR_N
  Tau,        \* par->tau
  Rate,       \* SHAKE256_RATE
  SignBytes   \* bytes of the first block that hold the signs

ASSUME ChallengeAssumption ==
  /\ N \in Nat /\ Tau \in Nat /\ Rate \in Nat /\ SignBytes \in Nat
  /\ Tau <= N /\ SignBytes <= Rate /\ Rate > 0
  /\ Tau <= 8 * SignBytes

VARIABLES
  pc,       \* "init", "byte", "place", "done"
  i,        \* the loop's index
  b,        \* the byte just read
  pos,      \* place of the next byte in buf
  shifts,   \* how often signs was shifted right
  c         \* c->coeffs

vars == <<pc, i, b, pos, shifts, c>>

Index == 0..(N - 1)

Init ==
  /\ pc = "init" /\ i = 0 /\ b = 0 /\ pos = 0 /\ shifts = 0
  /\ c = [j \in Index |-> 0]

\* shake256_init .. the first block, the signs, the zeroed polynomial.
Start ==
  /\ pc = "init"
  /\ pos' = SignBytes /\ shifts' = 0
  /\ c' = [j \in Index |-> 0]
  /\ i' = N - Tau
  /\ pc' = IF N - Tau < N THEN "byte" ELSE "done"
  /\ UNCHANGED b

\* Mutant: the refill comes one byte too late.
ReadPastRate ==
  /\ pc = "byte"
  /\ pos' = IF pos > Rate THEN 1 ELSE pos + 1
  /\ b' \in Index
  /\ pc' = IF b' > i THEN "byte" ELSE "place"
  /\ UNCHANGED <<i, shifts, c>>

\* One round of the do-while: refill at the end of the block, read a byte,
\* go round again while it is above i.
ReadByte ==
  /\ pc = "byte"
  /\ pos' = IF pos >= Rate THEN 1 ELSE pos + 1
  /\ b' \in Index
  /\ pc' = IF b' > i THEN "byte" ELSE "place"
  /\ UNCHANGED <<i, shifts, c>>

\* Mutant: the sign is written before the old coefficient is moved.
PlaceFirst ==
  /\ pc = "place"
  /\ \E sign \in {1, -1} :
       LET d == [c EXCEPT ![b] = sign] IN c' = [d EXCEPT ![i] = d[b]]
  /\ shifts' = shifts + 1
  /\ i' = i + 1
  /\ pc' = IF i + 1 < N THEN "byte" ELSE "done"
  /\ UNCHANGED <<b, pos>>

\* c[i] = c[b]; c[b] = 1 - 2 * (signs & 1); signs >>= 1.
Place ==
  /\ pc = "place"
  /\ \E sign \in {1, -1} : c' = [[c EXCEPT ![i] = c[b]] EXCEPT ![b] = sign]
  /\ shifts' = shifts + 1
  /\ i' = i + 1
  /\ pc' = IF i + 1 < N THEN "byte" ELSE "done"
  /\ UNCHANGED <<b, pos>>

Done == pc = "done" /\ UNCHANGED vars

Next == Start \/ ReadByte \/ Place \/ Done

Spec == Init /\ [][Next]_vars

----------------------------------------------------------------------------
\* Properties.

\* No byte is read outside buf, no coefficient is touched outside c, and the
\* sign bits suffice for the coefficients placed.
TypeOK ==
  /\ pc \in {"init", "byte", "place", "done"}
  /\ i \in Nat /\ i <= N /\ (pc \in {"byte", "place"} => i < N)
  /\ b \in Nat /\ (pc = "place" => b <= i)
  /\ pos \in Nat /\ pos <= Rate
  /\ shifts \in Nat /\ shifts <= 8 * SignBytes /\ (pc # "init" => shifts = i - (N - Tau))
  /\ c \in [Index -> {0, 1, -1}]

NonZero == {j \in Index : c[j] # 0}

\* After each placement the polynomial has one more coefficient that is not
\* zero, whichever place the byte named: at the end exactly Tau of them.
ExactlyTau ==
  pc # "init" => /\ Cardinality(NonZero) = i - (N - Tau)
                 /\ pc = "done" => Cardinality(NonZero) = Tau
=============================================================================
