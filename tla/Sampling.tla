------------------------------ MODULE Sampling ------------------------------
(***************************************************************************)
(* Rejection sampling in tools/pqc: polynomials whose coefficients are the *)
(* accepted candidates of a SHAKE output stream, in the order they occur.  *)
(*                                                                         *)
(*   mldsa  poly_uniform, poly_uniform_eta (mldsa_poly.c) with the scalar  *)
(*          or the vector mldsa_rej_uniform (rvv_poly.c)                   *)
(*   mlkem  gen_matrix (mlkem_kpke.c) with the scalar or the vector        *)
(*          mlkem_rej_uniform (rvv_poly.c)                                 *)
(*                                                                         *)
(* A byte stands for its place in the stream.  A candidate is the bytes it *)
(* is decoded from and its part of them; whether its value is below the    *)
(* bound is chosen in advance, the same for every sampler.                 *)
(***************************************************************************)
EXTENDS Naturals, Sequences

CONSTANTS
  Samplers,   \* the samplers and their sizes
  MaxUnits    \* units of the stream in which candidates may be rejected

\* unit:    bytes a candidate (or pair of candidates) is decoded from
\* per:     candidates decoded from one unit
\* group:   units decoded in one round of the first loop
\* tail:    a loop over single units follows the first one (1) or not (0)
\* keep:    an incomplete unit is kept when the buffer is refilled (1) or not
\* block:   bytes of one stream block
\* nblocks: blocks squeezed at first
\* spare:   bytes of buf[] beyond nblocks * block
\* n:       coefficients wanted
Sizes == [unit : 1..3, per : 1..2, group : 1..8, tail : 0..1, keep : 0..1,
          block : 1..168, nblocks : 1..5, spare : 0..2, n : 1..256]

\* What the #error of gen_matrix and the sizes of SHAKE blocks guarantee: a
\* sampler that keeps nothing meets no incomplete group at a block's end.
SamplingAssumption ==
  /\ MaxUnits \in Nat
  /\ \A s \in Samplers :
       /\ s \in Sizes
       /\ s.keep = 0 => s.block % (s.unit * (IF s.tail = 1 THEN 1 ELSE s.group)) = 0
       /\ s.keep = 1 => (s.tail = 1 \/ s.group = 1) /\ s.spare >= s.unit - 1

VARIABLES
  s,      \* the sampler
  bad,    \* candidates of the stream that are rejected
  pc,     \* "init", "group", "tail", "refill", "done"
  buf,    \* buf[0 .. buflen-1]
  next,   \* the first byte of the stream not yet squeezed
  pos,    \* bytes of buf consumed by this call of the rejection loop
  out     \* the coefficients a[0 .. ctr-1]

vars == <<s, bad, pc, buf, next, pos, out>>

Candidate(bytes, part) == [bytes |-> bytes, part |-> part]
\* The bytes from, from + 1, ..., from + len - 1 of the stream.
Stream(from, len) == [i \in 1..len |-> from + i - 1]

\* The reference: candidate number k of the stream, counted from 0.
StreamCandidate(z, k) == Candidate(Stream(z.unit * (k \div z.per), z.unit), k % z.per)

Init ==
  /\ s \in Samplers
  /\ bad \in SUBSET {StreamCandidate(s, k) : k \in 0..(MaxUnits * s.per - 1)}
  /\ pc = "init"
  /\ buf = <<>> /\ next = 0 /\ pos = 0 /\ out = <<>>

----------------------------------------------------------------------------
\* Candidates in count units of buf from place pos on, in order.
Decode(count) ==
  [k \in 1..(count * s.per) |->
     Candidate([b \in 1..s.unit |-> buf[pos + s.unit * ((k - 1) \div s.per) + b]],
               (k - 1) % s.per)]

\* vcompress, or the tests against the bound one after the other.
Select(cands, rejected) ==
  LET upto[k \in 0..Len(cands)] ==
        IF k = 0 THEN << >>
        ELSE IF cands[k] \in rejected THEN upto[k - 1] ELSE Append(upto[k - 1], cands[k])
  IN  upto[Len(cands)]

Accepted(cands) == Select(cands, bad)

\* Mutant: the accepted candidates of a group are stored without the clamp.
StoreAll(cands) == out \o Accepted(cands)

\* The accepted candidates are appended while ctr < len.
Store(cands) ==
  LET all == out \o Accepted(cands)
  IN  SubSeq(all, 1, IF Len(all) < s.n THEN Len(all) ELSE s.n)

Loops(count) == Len(out) < s.n /\ pos + count * s.unit <= Len(buf)

Round(count) ==
  /\ out' = Store(Decode(count))
  /\ pos' = pos + count * s.unit
  /\ UNCHANGED <<s, bad, pc, buf, next>>

Squeeze(kept, blocks) ==
  /\ buf'  = kept \o Stream(next, blocks * s.block)
  /\ next' = next + blocks * s.block
  /\ pos'  = 0
  /\ pc'   = "group"
  /\ UNCHANGED <<s, bad, out>>

\* The stream is keyed and the first nblocks blocks are squeezed.
FirstBlocks ==
  /\ pc = "init"
  /\ Squeeze(<<>>, s.nblocks)

GroupRound == pc = "group" /\ Loops(s.group) /\ Round(s.group)

GroupsEnd ==
  /\ pc = "group" /\ ~Loops(s.group)
  /\ pc' = IF s.tail = 1 THEN "tail" ELSE "refill"
  /\ UNCHANGED <<s, bad, buf, next, pos, out>>

\* "Finish any short tail without vector over-read."
TailRound == pc = "tail" /\ Loops(1) /\ Round(1)

TailEnds ==
  /\ pc = "tail" /\ ~Loops(1)
  /\ pc' = "refill"
  /\ UNCHANGED <<s, bad, buf, next, pos, out>>

\* Mutant: the bytes of an incomplete unit are dropped.
KeepNothing == <<>>

\* off = buflen % 3 bytes move to the front of buf; the other samplers start
\* again at buf[0].
Kept ==
  IF s.keep = 1 THEN SubSeq(buf, Len(buf) - (Len(buf) % s.unit) + 1, Len(buf))
  ELSE <<>>

\* Mutant: a refill that squeezes no block.
RefillNothing ==
  /\ pc = "refill" /\ Len(out) < s.n
  /\ Squeeze(Kept, 0)

Refill ==
  /\ pc = "refill" /\ Len(out) < s.n
  /\ Squeeze(Kept, 1)

Finish ==
  /\ pc = "refill" /\ Len(out) >= s.n
  /\ pc' = "done"
  /\ UNCHANGED <<s, bad, buf, next, pos, out>>

Done == pc = "done" /\ UNCHANGED vars

Next == FirstBlocks \/ GroupRound \/ GroupsEnd \/ TailRound \/ TailEnds
        \/ Refill \/ Finish \/ Done

Spec == Init /\ [][Next]_vars

----------------------------------------------------------------------------
\* Properties.

\* buf[] is never filled past its size and a[] never past n coefficients,
\* whichever candidates are accepted at a boundary.
TypeOK ==
  /\ pc \in {"init", "group", "tail", "refill", "done"}
  /\ Len(buf) <= s.nblocks * s.block + s.spare
  /\ pos <= Len(buf) /\ next \in Nat
  /\ Len(out) <= s.n

\* The accepted candidates of the first units of the stream, by definition.
Reference(z, units) == Select([k \in 1..(units * z.per) |-> StreamCandidate(z, k - 1)], bad)

\* Scalar or vector, with or without a tail loop, across refills and kept
\* bytes: the coefficients are the first accepted candidates of the stream,
\* none lost, repeated, reordered or made of bytes that do not belong together.
FirstAccepted ==
  LET ref == Reference(s, next \div s.unit)
  IN  /\ Len(out) <= Len(ref) /\ out = SubSeq(ref, 1, Len(out))
      /\ pc = "refill" => Len(out) = IF Len(ref) < s.n THEN Len(ref) ELSE s.n

\* Every sampler returns, and with all n coefficients, once the stream gives
\* enough candidates.
SamplerReturns == <>(pc = "done" /\ Len(out) = s.n)
=============================================================================
