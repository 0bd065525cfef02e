------------------------------ MODULE Kernels ------------------------------
(***************************************************************************)
(* The computational kernels of the two schemes side by side: a behaviour  *)
(* is one product of ML-KEM or of ML-DSA, or one Keccak permutation, in    *)
(* the C build or in a vector build.                                       *)
(***************************************************************************)
EXTENDS Integers, Sequences

CONSTANTS
  KemInputs,   \* <<build, caller, i, j>> of ML-KEM ...
  DsaInputs,   \* ... and of ML-DSA
  Starts       \* <<build, the 25 lanes>> of the permutation

VARIABLES
  alg,         \* "mlkem", "mldsa" or "keccak"
  build,
  caller, ip, lay, deg, r, lo, hi, peak, wide,
  round, lanes, group, ref

ringVars   == <<caller, ip, lay, deg, r, lo, hi, peak, wide>>
keccakVars == <<round, lanes, group, ref>>
kernelVars == <<alg, build, ringVars, keccakVars>>

Kem  == INSTANCE MlkemRing WITH Inputs <- KemInputs
Dsa  == INSTANCE MldsaRing WITH Inputs <- DsaInputs, mag <- hi
Hash == INSTANCE Keccak

\* An input names a build and one of the callers.
ASSUME KernelsAssumption ==
  /\ \A in \in KemInputs : in[1] \in {"c", "rvv"} /\ in[2] \in DOMAIN Kem!Calls
  /\ \A in \in DsaInputs : in[1] \in {"c", "rvv"} /\ in[2] \in DOMAIN Dsa!Calls

KernelsInit ==
  \/ /\ \/ alg = "mlkem" /\ Kem!Init
        \/ alg = "mldsa" /\ Dsa!Init /\ lo = 0 /\ peak = 0
     /\ round = 0 /\ lanes = << >> /\ group = << >> /\ ref = << >>
  \/ /\ alg = "keccak" /\ Hash!Init
     /\ caller = "none" /\ ip = 0 /\ lay = 0 /\ deg = << >> /\ r = << >>
     /\ lo = 0 /\ hi = 0 /\ peak = 0 /\ wide = 0

KernelsNext ==
  /\ UNCHANGED alg
  /\ \/ alg = "mlkem"  /\ Kem!Next /\ UNCHANGED keccakVars
     \/ alg = "mldsa"  /\ Dsa!Next /\ UNCHANGED <<lo, peak, keccakVars>>
     \/ alg = "keccak" /\ Hash!Next /\ UNCHANGED ringVars

KernelsSpec == KernelsInit /\ [][KernelsNext]_kernelVars

----------------------------------------------------------------------------
\* Every layer of mlkem_ntt and mldsa_ntt, scalar or vector, leaves the residues of
\* the polynomial modulo the factors X^256 + 1 has split into so far: no zeta is
\* misplaced and no lane permuted.
Splits == (alg = "mlkem" => Kem!Splits) /\ (alg = "mldsa" => Dsa!Splits)

\* Each call sequence of mlkem_kpke.c and mldsa.c ends with the product (and sum)
\* it stands for, with no Montgomery factor left over, in either build.
Product == (alg = "mlkem" => Kem!Product) /\ (alg = "mldsa" => Dsa!Product)

\* Whatever the inputs of these callers, no lazy sum leaves its 16- or 32-bit word
\* between two reductions, a reduction is given what its comment allows, and what
\* polyveck_caddq is given lies within (-q, q), so that power2round, decompose and
\* use_hint see standard representatives.
InRange == /\ alg = "mlkem" => Kem!InRange
           /\ alg = "mldsa" => Dsa!InRange /\ Dsa!StandardBefore

\* Each round of the unrolled KeccakF1600_StatePermute, and what its vector form
\* loads, permutes and stores, is Keccak-p[1600, 24] of FIPS 202.
IsKeccakP == alg = "keccak" => Hash!IsKeccakP
=============================================================================
