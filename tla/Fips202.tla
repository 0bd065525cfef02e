------------------------------- MODULE Fips202 -------------------------------
(***************************************************************************)
(* tools/pqc/mlkem/fips202.c (and its copy under mldsa): the incremental   *)
(* and the one-shot SHAKE and SHA3 calls.                                  *)
(*                                                                         *)
(* The 25 lanes are abstracted to what the calls do with them: perm counts *)
(* the permutations since the state was zeroed, and every XOR of a byte    *)
(* into the state, and every byte read out of it, is recorded as the block *)
(* and the offset it touches.  Every iteration of a loop is a step.        *)
(***************************************************************************)
EXTENDS Integers

CONSTANTS
  Rate,        \* SHAKE128_RATE, SHAKE256_RATE, SHA3_256_RATE, SHA3_512_RATE
  HashBytes,   \* bytes of a SHA3 digest
  MaxIn,       \* bound: message bytes per state
  MaxOut       \* bound: output bytes per state

ASSUME Fips202Assumption ==
  /\ Rate \in Nat /\ Rate > 0
  /\ HashBytes \in 1..Rate
  /\ MaxIn \in Nat /\ MaxOut \in Nat

VARIABLES
  pos,     \* state->pos
  perm,    \* calls of KeccakF1600_StatePermute since the state was zeroed
  pc,      \* the loop being executed
  todo,    \* what is left of inlen, outlen or nblocks
  call,    \* the one-shot function running, if any
  want,    \* outlen of the one-shot function
  \* observation: see XOF
  stage, taken, laid, pads, given, read

fvars == <<pos, perm, pc, todo, call, want>>
xvars == <<stage, taken, laid, pads, given, read>>
vars  == <<pos, perm, pc, todo, call, want, stage, taken, laid, pads, given, read>>

Init ==
  /\ pos = 0 /\ perm = 0 /\ pc = "idle" /\ todo = 0 /\ call = "none" /\ want = 0
  /\ stage = "none"
  /\ taken = 0 /\ laid = {} /\ pads = {}
  /\ given = 0 /\ read = {}

\* Bytes n, n+1, ... n+k-1 of a buffer meet block b from offset o on.
Places(n, b, o, k) == {<<n + j, b, o + j>> : j \in 0..(k - 1)}

\* k bytes of *in are XORed in at offset o of the block being filled.
XorIn(k, o) ==
  /\ taken' = taken + k
  /\ laid' = laid \cup Places(taken, perm, o, k)

\* k bytes are stored to *out from offset o of the state after b permutations.
StoreOut(k, b, o) ==
  /\ given' = given + k
  /\ read' = read \cup Places(given, b, o, k)

----------------------------------------------------------------------------
\* The keccak_init of shake128_init / shake256_init.
shake_init ==
  /\ pc = "idle"
  /\ pos' = 0 /\ perm' = 0
  /\ stage' = "absorbing"
  /\ taken' = 0 /\ laid' = {} /\ pads' = {} /\ given' = 0 /\ read' = {}
  /\ UNCHANGED <<pc, todo, call, want>>

shake_absorb ==
  /\ pc = "idle" /\ stage = "absorbing"
  /\ todo' \in 0..(MaxIn - taken)
  /\ pc' = "absorb"
  /\ UNCHANGED <<pos, perm, call, want, xvars>>

\* Mutant: pos is not reset after the permutation.
AbsorbBlockKeepsPos ==
  /\ pc = "absorb" /\ pos + todo >= Rate
  /\ XorIn(Rate - pos, pos)
  /\ todo' = todo - (Rate - pos)
  /\ perm' = perm + 1
  /\ UNCHANGED <<pos, pc, call, want, stage, pads, given, read>>

\* keccak_absorb: while (pos + inlen >= r) ...
AbsorbBlock ==
  /\ pc = "absorb" /\ pos + todo >= Rate
  /\ XorIn(Rate - pos, pos)
  /\ todo' = todo - (Rate - pos)
  /\ perm' = perm + 1
  /\ pos' = 0
  /\ UNCHANGED <<pc, call, want, stage, pads, given, read>>

AbsorbTail ==
  /\ pc = "absorb" /\ pos + todo < Rate
  /\ XorIn(todo, pos)
  /\ pos' = pos + todo
  /\ todo' = 0 /\ pc' = "idle"
  /\ UNCHANGED <<perm, call, want, stage, pads, given, read>>

\* keccak_finalize, then state->pos = rate.
shake_finalize ==
  /\ pc = "idle" /\ stage = "absorbing"
  /\ pads' = {<<"shake", perm, pos>>, <<"final", perm, Rate - 1>>}
  /\ pos' = Rate
  /\ stage' = "squeezing"
  /\ UNCHANGED <<perm, pc, todo, call, want, taken, laid, given, read>>

shake_squeeze ==
  /\ pc = "idle" /\ stage = "squeezing"
  /\ todo' \in 0..(MaxOut - given)
  /\ pc' = "squeeze"
  /\ UNCHANGED <<pos, perm, call, want, xvars>>

\* Mutant: no permutation at the end of a block.
SqueezeNoPermute ==
  /\ pc = "squeeze" /\ todo > 0
  /\ LET k == IF todo < Rate - pos THEN todo ELSE Rate - pos
     IN  StoreOut(k, perm, pos) /\ pos' = pos + k /\ todo' = todo - k
  /\ UNCHANGED <<perm, pc, call, want, stage, taken, laid, pads>>

\* keccak_squeeze: one iteration of while (outlen).
SqueezeSome ==
  /\ pc = "squeeze" /\ todo > 0
  /\ LET p == IF pos = Rate THEN 0 ELSE pos
         b == IF pos = Rate THEN perm + 1 ELSE perm
         k == IF todo < Rate - p THEN todo ELSE Rate - p
     IN  /\ StoreOut(k, b, p)
         /\ pos' = p + k
         /\ perm' = b
         /\ todo' = todo - k
  /\ UNCHANGED <<pc, call, want, stage, taken, laid, pads>>

\* The end of keccak_squeeze; the one-shot functions return with it.
SqueezeEnd ==
  /\ pc = "squeeze" /\ todo = 0
  /\ pc' = "idle" /\ call' = "none"
  /\ stage' = IF call = "none" THEN stage ELSE "none"
  /\ UNCHANGED <<pos, perm, todo, want, taken, laid, pads, given, read>>

\* Callers keep to the documented precondition: no block has been started.
shake_squeezeblocks ==
  /\ pc = "idle" /\ stage = "squeezing" /\ pos = Rate
  /\ todo' \in {n \in 0..MaxOut : given + n * Rate <= MaxOut}
  /\ pc' = "blocks"
  /\ UNCHANGED <<pos, perm, call, want, xvars>>

\* Mutant: the block is stored before the permutation.
SqueezeBlockEarly ==
  /\ pc = "blocks" /\ todo > 0
  /\ perm' = perm + 1
  /\ StoreOut(Rate, perm, 0)
  /\ todo' = todo - 1
  /\ UNCHANGED <<pos, pc, call, want, stage, taken, laid, pads>>

\* keccak_squeezeblocks: one iteration of while (nblocks).
SqueezeBlock ==
  /\ pc = "blocks" /\ todo > 0
  /\ perm' = perm + 1
  /\ StoreOut(Rate, perm + 1, 0)
  /\ todo' = todo - 1
  /\ UNCHANGED <<pos, pc, call, want, stage, taken, laid, pads>>

\* Mutant: outlen is not reduced by the whole blocks.
BlocksEndKeepsOutlen ==
  /\ pc = "blocks" /\ todo = 0
  /\ \/ call = "none" /\ pc' = "idle" /\ UNCHANGED todo
     \/ call = "shake" /\ pc' = "squeeze" /\ todo' = want
  /\ UNCHANGED <<pos, perm, call, want, xvars>>

\* The end of keccak_squeezeblocks: shake128 and shake256 squeeze the rest.
BlocksEnd ==
  /\ pc = "blocks" /\ todo = 0
  /\ \/ call = "none" /\ pc' = "idle" /\ UNCHANGED todo
     \/ call = "shake" /\ pc' = "squeeze" /\ todo' = want - (want \div Rate) * Rate
  /\ UNCHANGED <<pos, perm, call, want, xvars>>

----------------------------------------------------------------------------
\* shake_absorb_once, and the one-shot shake and sha3 that begin with it; they
\* use a local state, so they may run wherever no caller's state is in use.
AbsorbOnce(c, outlen) ==
  /\ pc = "idle"
  /\ call' = c /\ want' = outlen
  /\ perm' = 0 /\ pc' = "once"
  /\ todo' \in 0..MaxIn
  /\ stage' = "absorbing"
  /\ taken' = 0 /\ laid' = {} /\ pads' = {} /\ given' = 0 /\ read' = {}
  /\ UNCHANGED pos

shake_absorb_once == AbsorbOnce("none", 0)
shake             == \E n \in 0..MaxOut : AbsorbOnce("shake", n)
sha3              == AbsorbOnce("sha3", HashBytes)

\* keccak_absorb_once: while (inlen >= r) ...
OnceBlock ==
  /\ pc = "once" /\ todo >= Rate
  /\ XorIn(Rate, 0)
  /\ todo' = todo - Rate
  /\ perm' = perm + 1
  /\ UNCHANGED <<pos, pc, call, want, stage, pads, given, read>>

\* ... the rest of the message and the padding; each caller goes on its way.
OnceTail ==
  /\ pc = "once" /\ todo < Rate
  /\ XorIn(todo, 0)
  /\ pads' = {<<IF call = "sha3" THEN "sha3" ELSE "shake", perm, todo>>,
              <<"final", perm, Rate - 1>>}
  /\ stage' = "squeezing"
  /\ \/ call = "none"  /\ pc' = "idle" /\ pos' = Rate /\ todo' = 0
     \/ call = "shake" /\ pc' = "blocks" /\ pos' = Rate /\ todo' = want \div Rate
     \/ call = "sha3"  /\ pc' = "digest" /\ todo' = 0 /\ UNCHANGED pos
  /\ UNCHANGED <<perm, call, want, given, read>>

\* sha3_256 / sha3_512: one permutation, the digest is its first lanes.
Digest ==
  /\ pc = "digest"
  /\ perm' = perm + 1
  /\ StoreOut(HashBytes, perm + 1, 0)
  /\ pc' = "idle" /\ call' = "none" /\ stage' = "none"
  /\ UNCHANGED <<pos, todo, want, taken, laid, pads>>

Next ==
  \/ shake_init \/ shake_absorb \/ AbsorbBlock \/ AbsorbTail \/ shake_finalize
  \/ shake_squeeze \/ SqueezeSome \/ SqueezeEnd
  \/ shake_squeezeblocks \/ SqueezeBlock \/ BlocksEnd
  \/ shake_absorb_once \/ shake \/ sha3 \/ OnceBlock \/ OnceTail \/ Digest

Spec     == Init /\ [][Next]_vars
FairSpec == Spec /\ WF_vars(AbsorbBlock \/ AbsorbTail \/ SqueezeSome \/ SqueezeEnd
                            \/ SqueezeBlock \/ BlocksEnd \/ OnceBlock \/ OnceTail \/ Digest)

----------------------------------------------------------------------------
\* The position never leaves the block, whatever the chunks of keccak_absorb and
\* keccak_squeeze, and every counter keeps to its range.
TypeOK ==
  /\ pos \in 0..Rate /\ perm \in Nat /\ todo \in Nat /\ want \in Nat
  /\ pc \in {"idle", "absorb", "squeeze", "blocks", "once", "digest"}
  /\ call \in {"none", "shake", "sha3"}
  /\ stage \in {"none", "absorbing", "squeezing"}
  /\ taken \in Nat /\ given \in Nat

\* keccak_absorb keeps the position inside the block, so that the next byte, the
\* domain byte and the final bit never reach the capacity; perm and pos together
\* are the number of bytes absorbed.
PositionIsBytesTaken ==
  stage = "absorbing" /\ pc \in {"idle", "absorb"} =>
    pos < Rate /\ taken = perm * Rate + pos

\* shake128 / shake256 return with exactly outlen bytes written, whole blocks and
\* the rest together.
OneShotComplete ==
  call = "shake" /\ pc = "squeeze" /\ todo = 0 => given = want

\* Every call returns: no chunk size makes one of the loops spin.
CallsReturn == pc # "idle" ~> pc = "idle"

Abstract ==
  INSTANCE XOF WITH Rate <- Rate, stage <- stage, taken <- taken, laid <- laid,
                    pads <- pads, given <- given, read <- read

\* The byte-level promise of the calls of fips202.c: they implement the abstract
\* sponge, however the message and the output are cut into chunks.
ImplementsXOF == Abstract!Spec
=============================================================================
