------------------------------ MODULE MlkemKem ------------------------------
(***************************************************************************)
(* ML-KEM key generation, encapsulation and decapsulation (mlkem.c) over   *)
(* the public-key encryption of mlkem_kpke.c, with ciphertexts that may be *)
(* altered on the way or reach the wrong key.                              *)
(*                                                                         *)
(* Buffers keep the sizes and offsets of the code.  Polynomials have two   *)
(* coefficients instead of 256, so that a message is two bits and the      *)
(* transform is the identity (Kernels checks the real one).  The noise of  *)
(* a decryption is then always small enough: the rare decryption failures  *)
(* of the real ML-KEM are not in the model.  The hash functions are        *)
(* external: a digest is a term, and the noise and the matrix are fixed    *)
(* functions of seed and nonce or position.                                *)
(***************************************************************************)
EXTENDS Integers, Sequences, FiniteSets, Functions

CONSTANTS
  Pars,     \* parameter sets
  Ids,      \* owners of a key pair; the number is the owner's randomness
  MaxNet    \* ciphertexts on the way

VARIABLES
  par,      \* the parameter set in use
  ek, dk,   \* the key buffers of each owner
  net,      \* ciphertexts on the way
  out,      \* the last call and what it returned
  drawn,    \* history: every noise polynomial drawn, and what for
  table     \* history: what encapsulation gives for each message under each key

vars == <<par, ek, dk, net, out, drawn, table>>

Q == 3329
Bit  == 0..1
Msgs == Bit \X Bit

mlkem_par ==
  [mlkem_512  |-> [k |-> 2, eta1 |-> 3, du |-> 10, dv |-> 4,
                   ek_sz |-> 800,  dk_sz |-> 1632, ct_sz |-> 768],
   mlkem_768  |-> [k |-> 3, eta1 |-> 2, du |-> 10, dv |-> 4,
                   ek_sz |-> 1184, dk_sz |-> 2400, ct_sz |-> 1088],
   mlkem_1024 |-> [k |-> 4, eta1 |-> 2, du |-> 11, dv |-> 5,
                   ek_sz |-> 1568, dk_sz |-> 3168, ct_sz |-> 1568]]

ASSUME MlkemAssumption == Pars \subseteq DOMAIN mlkem_par /\ Ids \subseteq Nat

P     == mlkem_par[par]
Vec   == 1..P.k
Poly  == 384                \* MLKEM_POLY_SZ
Sym   == 32                 \* MLKEM_SYM_SZ

\* A vector of k elements, as a tuple.
Vector(Elem(_)) == SubSeq([i \in Vec |-> Elem(i)], 1, P.k)

----------------------------------------------------------------------------
\* A buffer is the set of fields written to it: <<offset, size, value>>.  A field
\* that is partly overwritten is lost, and reads back as some other value.
NoBuf   == {}
Garbage == <<1, 1>>

Put(buf, at, n, v) ==
  {f \in buf : f[1] + f[2] <= at \/ at + n <= f[1]} \cup {<<at, n, v>>}

PutVec(n, vec) == {<<n * (i - 1), n, vec[i]>> : i \in Vec}

memcpy(buf, at, from) ==
  {f \in buf : f[1] + f[2] <= at} \cup {<<f[1] + at, f[2], f[3]>> : f \in from}

Get(buf, at, n) ==
  IF \E f \in buf : f[1] = at /\ f[2] = n
  THEN (CHOOSE f \in buf : f[1] = at /\ f[2] = n)[3] ELSE Garbage

GetVec(buf, n) == Vector(LAMBDA i : Get(buf, n * (i - 1), n))

----------------------------------------------------------------------------
\* Polynomials modulo X^2 + 1.
Add(a, b) == <<(a[1] + b[1]) % Q, (a[2] + b[2]) % Q>>
Sub(a, b) == <<(a[1] - b[1]) % Q, (a[2] - b[2]) % Q>>
Mul(a, b) == <<(a[1] * b[1] - a[2] * b[2]) % Q, (a[1] * b[2] + a[2] * b[1]) % Q>>

polyvec_basemul_acc(a, b) ==
  LET acc[i \in 0..P.k] == IF i = 0 THEN <<0, 0>> ELSE Add(acc[i - 1], Mul(a[i], b[i]))
  IN  acc[P.k]

\* Compression rounds (Codecs checks how), decompression scales back.
Round(d, c)   == ((c * 2^d + Q \div 2) \div Q) % 2^d
Unround(d, u) == (u * Q + 2^(d - 1)) \div 2^d
Compress(d, a)   == <<Round(d, a[1]), Round(d, a[2])>>
Decompress(d, a) == <<Unround(d, a[1]), Unround(d, a[2])>>

poly_frommsg(m) == <<1665 * m[1], 1665 * m[2]>>
poly_tomsg(a)   == <<Round(1, a[1]), Round(1, a[2])>>

----------------------------------------------------------------------------
\* External: the hash functions, the XOF, the PRF and the rejection key.
hash_h(buf) == <<"hash", buf>>
hash_g_keygen(d) == [rho |-> <<"rho", d, P.k>>, sigma |-> <<"sigma", d, P.k>>]
rkprf(z, ct) == <<"rej", z, ct>>

\* Mutant: the key is left out of what the coins are derived from.
HashGAlone(m, h) == [key |-> <<"key", m, h>>, coins |-> <<"coins", m, hash_h(NoBuf)>>]

hash_g(m, h) == [key |-> <<"key", m, h>>, coins |-> <<"coins", m, h>>]

xof(seed, a, b) == <<(1000 * a + 77 * b + 13 * seed[2] + 5) % Q,
                     (911 * b + 3 * a + 29 * seed[2] + 7) % Q>>

Number(seed) ==
  IF seed[1] = "sigma" THEN 3 * seed[2] + 1
  ELSE 5 * seed[2][1] + 7 * seed[2][2] + Get(seed[3][2], 0, Poly)[1]

noise(seed, nonce, eta) ==
  LET n == Number(seed) + nonce * nonce
  IN  <<(n % (2 * eta + 1)) - eta, ((3 * n + 1) % (2 * eta + 1)) - eta>>

----------------------------------------------------------------------------
\* mlkem_kpke.c
gen_matrix(seed, transposed) ==
  Vector(LAMBDA i : Vector(LAMBDA j :
    IF transposed THEN xof(seed, i - 1, j - 1) ELSE xof(seed, j - 1, i - 1)))

pack_ek(t, seed) == Put(PutVec(Poly, t), P.k * Poly, Sym, seed)

\* Mutant: the second part starts where it would with ten bits for every parameter set.
PackCiphertextTen(b, v) ==
  Put(PutVec(P.du * 32, Vector(LAMBDA i : Compress(P.du, b[i]))),
      P.k * 10 * 32, P.dv * 32, Compress(P.dv, v))

pack_ciphertext(b, v) ==
  Put(PutVec(P.du * 32, Vector(LAMBDA i : Compress(P.du, b[i]))),
      P.k * P.du * 32, P.dv * 32, Compress(P.dv, v))

Draws(seed, nonces, use) == {<<seed, nonces[n], n, use>> : n \in DOMAIN nonces}

kpke_keygen(d) ==
  LET g == hash_g_keygen(d)
      a == gen_matrix(g.rho, FALSE)
      s == Vector(LAMBDA i : noise(g.sigma, i - 1, P.eta1))
      e == Vector(LAMBDA i : noise(g.sigma, P.k + i - 1, P.eta1))
      t == Vector(LAMBDA i : Add(polyvec_basemul_acc(a[i], s), e[i]))
      std == Vector(LAMBDA i : <<s[i][1] % Q, s[i][2] % Q>>)
  IN  [ek |-> pack_ek(t, g.rho), dk |-> PutVec(Poly, std),
       drawn |-> Draws(g.sigma, [n \in 1..(2 * P.k) |-> n - 1], <<d>>)]

Nonces == [n \in 1..(2 * P.k + 1) |-> n - 1]

kpke_encrypt(pk, m, coins) ==
  LET t    == GetVec(pk, Poly)
      seed == Get(pk, P.k * Poly, Sym)
      at   == gen_matrix(seed, TRUE)
      sp   == Vector(LAMBDA i : noise(coins, Nonces[i], P.eta1))
      ep   == Vector(LAMBDA i : noise(coins, Nonces[P.k + i], 2))
      epp  == noise(coins, Nonces[2 * P.k + 1], 2)
      b    == Vector(LAMBDA i : Add(polyvec_basemul_acc(at[i], sp), ep[i]))
      v    == Add(Add(polyvec_basemul_acc(t, sp), epp), poly_frommsg(m))
  IN  pack_ciphertext(b, v)

kpke_decrypt(key, ct) ==
  LET cb == GetVec(ct, P.du * 32)
      b  == Vector(LAMBDA i : Decompress(P.du, cb[i]))
      v  == Decompress(P.dv, Get(ct, P.k * P.du * 32, P.dv * 32))
  IN  poly_tomsg(Sub(v, polyvec_basemul_acc(GetVec(key, Poly), b)))

----------------------------------------------------------------------------
\* mlkem.c
Init ==
  /\ par \in Pars
  /\ ek = [id \in Ids |-> NoBuf] /\ dk = [id \in Ids |-> NoBuf]
  /\ net = {} /\ out = [call |-> "none"] /\ drawn = {}
  /\ table = [id \in Ids |-> << >>]

EncapsCt(pk, m) == kpke_encrypt(pk, m, hash_g(m, hash_h(pk)).coins)

mlkem_keygen_internal(id) ==
  /\ ek[id] = NoBuf
  /\ LET kp == kpke_keygen(id)
         d1 == memcpy(kp.dk, P.k * Poly, kp.ek)
         d2 == Put(d1, P.dk_sz - 2 * Sym, Sym, hash_h(kp.ek))
     IN  /\ ek' = [ek EXCEPT ![id] = kp.ek]
         /\ dk' = [dk EXCEPT ![id] = Put(d2, P.dk_sz - Sym, Sym, <<"z", id>>)]
         /\ drawn' = drawn \cup kp.drawn
         /\ table' = [table EXCEPT ![id] = [m \in Msgs |-> EncapsCt(kp.ek, m)]]
  /\ out' = [call |-> "keygen", id |-> id]
  /\ UNCHANGED <<par, net>>

mlkem_encaps_internal(id, m) ==
  /\ ek[id] # NoBuf /\ Cardinality(net) < MaxNet
  /\ LET kr == hash_g(m, hash_h(ek[id]))
         ct == kpke_encrypt(ek[id], m, kr.coins)
     IN  /\ net' = net \cup {ct}
         /\ out' = [call |-> "encaps", id |-> id, ct |-> ct, key |-> kr.key]
         /\ drawn' = drawn \cup Draws(kr.coins, Nonces, <<id, m>>)
  /\ UNCHANGED <<par, ek, dk, table>>

\* On the way one coefficient changes, in the lowest or in the highest of its d bits.
Tamper ==
  /\ Cardinality(net) < MaxNet
  /\ \E ct \in net : \E f \in ct, n \in 1..2 :
       LET d == f[2] \div 32
       IN  \E by \in {1, 2^(d - 1)} :
             net' = net \cup {Put(ct, f[1], f[2], [f[3] EXCEPT ![n] = (@ + by) % 2^d])}
  /\ UNCHANGED <<par, ek, dk, out, drawn, table>>

\* Mutant: only the compressed vector is compared.
VerifyShort(a, b) ==
  IF {f \in a : f[1] < P.k * P.du * 32} = {f \in b : f[1] < P.k * P.du * 32} THEN 0 ELSE 1

\* 0 when the ct_sz bytes are the same, else 1; cmov by what it leaves in r.  The
\* words and masks that make both constant in time are not modelled.
verify(a, b) == IF {f \in a : f[1] < P.ct_sz} = {f \in b : f[1] < P.ct_sz} THEN 0 ELSE 1

cmov(r, x, b) == IF b = 1 THEN x ELSE r

mlkem_decaps_internal(id, ct) ==
  /\ ek[id] # NoBuf
  /\ LET pk  == {<<f[1] - P.k * Poly, f[2], f[3]>> :
                  f \in {g \in dk[id] : g[1] >= P.k * Poly /\ g[1] < P.dk_sz - 2 * Sym}}
         m   == kpke_decrypt(dk[id], ct)
         kr  == hash_g(m, Get(dk[id], P.dk_sz - 2 * Sym, Sym))
         cmp == kpke_encrypt(pk, m, kr.coins)
         fail == verify(ct, cmp)
         kp   == cmov(rkprf(Get(dk[id], P.dk_sz - Sym, Sym), ct), kr.key, 1 - fail)
     IN  /\ out' = [call |-> "decaps", id |-> id, ct |-> ct, key |-> kp]
         /\ drawn' = drawn \cup Draws(kr.coins, Nonces, <<id, m>>)
  /\ UNCHANGED <<par, ek, dk, net, table>>

Next ==
  \/ \E id \in Ids : mlkem_keygen_internal(id)
  \/ \E id \in Ids, m \in Msgs : mlkem_encaps_internal(id, m)
  \/ \E id \in Ids, ct \in net : mlkem_decaps_internal(id, ct)
  \/ Tamper

Spec == Init /\ [][Next]_vars

----------------------------------------------------------------------------
\* Whose secret a key is.
Meaning(key) ==
  IF key[1] = "key" THEN <<"shared", CHOOSE id \in Ids : hash_h(ek[id]) = key[3], key[2]>>
  ELSE <<"reject", key[2][2], key[3]>>

Abstract ==
  INSTANCE KEM WITH Ids <- Ids, Msgs <- Msgs, enc <- table,
    out <- IF out.call \in {"encaps", "decaps"} THEN [out EXCEPT !.key = Meaning(@)] ELSE out

\* mlkem.c is a key encapsulation mechanism: the receiver of an untouched ciphertext
\* gets the sender's secret, and for an altered or misdirected one a secret bound to
\* the key and that ciphertext, never one that was encapsulated.  "Gets" without
\* exception holds for polynomials of two coefficients; with 256 a decryption fails
\* with a very small probability.
ImplementsKEM == Abstract!Spec

\* A buffer of that many bytes is covered: each field starts at 0 or where one ends, each
\* ends at the end or where one starts, and no two overlap.
Filled(buf, bytes) ==
  /\ {f[1] : f \in buf} \cup {bytes} = {f[1] + f[2] : f \in buf} \cup {0}
  /\ \A f, g \in buf : f[1] < g[1] + g[2] /\ g[1] < f[1] + f[2] => f = g

\* Keys and ciphertexts fill their buffers exactly, without a gap and without writing
\* past the end: the offsets computed from k, du and dv agree with the sizes in the
\* parameter table, and no field overwrites another.
BuffersExact ==
  /\ \A id \in Ids : ek[id] # NoBuf => Filled(ek[id], P.ek_sz) /\ Filled(dk[id], P.dk_sz)
  /\ \A ct \in net : Filled(ct, P.ct_sz)

\* No two noise polynomials come from the same seed and nonce, over all calls for all
\* keys, except where decapsulation repeats an encapsulation for the same key and message.
NoiseOnce ==
  \A x, y \in drawn : x[1] = y[1] /\ x[2] = y[2] => x = y
=============================================================================
