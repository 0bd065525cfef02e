--------------------------- MODULE MlkemKemProofs ---------------------------
(***************************************************************************)
(* The key and ciphertext buffers of ML-KEM are filled exactly, no noise   *)
(* is drawn twice, and mlkem.c implements the abstract key encapsulation   *)
(* mechanism, for any number of owners and of ciphertexts on the way.      *)
(*                                                                         *)
(* The coins of an encapsulation are a digest of the message and the key.  *)
(* That they differ for two owners rests on the seed that the key buffer   *)
(* ends with, and that decapsulation draws the same ones on the digest it  *)
(* reads from its own buffer: the invariant IInv is about both fields.     *)
(*                                                                         *)
(* The refinement rests on decryption.  With t = A s + e as the key and    *)
(* b = A^T p + e1, v = t.p + e2 + m as the ciphertext, v - s.b is m plus   *)
(* e.p + e2 - s.e1 and the errors of rounding b and v: computed over pairs *)
(* of integers, equal modulo Q to what the code computes, (A s).p and      *)
(* s.(A^T p) cancel, and only the noise is left: DecryptionNoise, which    *)
(* depends on no number of coefficients.  With the two of the model that   *)
(* noise is always below a quarter of Q (with the code's 256 it almost     *)
(* always is).  Hence a ciphertext determines its message, and comparing   *)
(* whole ciphertexts decides between the secret and rejection.             *)
(***************************************************************************)
EXTENDS MlkemKem, TLAPS

\* The fields of a buffer are triples with a place and a size.
Fields(buf, bytes) ==
  \A f \in buf : /\ f = <<f[1], f[2], f[3]>> /\ f[1] \in Nat /\ f[2] \in Nat
                 /\ f[2] > 0 /\ f[1] + f[2] <= bytes

Exact(buf, bytes) == Fields(buf, bytes) /\ Filled(buf, bytes)

\* The encapsulation key of an owner ends with the owner's seed.
Ends(buf, id) ==
  /\ <<P.k * Poly, Sym, <<"rho", id, P.k>>>> \in buf
  /\ \A f \in buf : f[1] = P.k * Poly => f[3] = <<"rho", id, P.k>>

Domains == par \in Pars /\ DOMAIN ek = Ids /\ DOMAIN dk = Ids

\* A key pair: the digest in the decapsulation key is that of the encapsulation key.
Pairs ==
  \A id \in Ids : ek[id] # NoBuf =>
    /\ Ends(ek[id], id) /\ Exact(ek[id], P.ek_sz) /\ Exact(dk[id], P.dk_sz)
    /\ Get(dk[id], P.dk_sz - 2 * Sym, Sym) = hash_h(ek[id])

Sent == \A ct \in net : Exact(ct, P.ct_sz)

\* Noise of a key generation, and of an encapsulation or its repetition.
KeyDraw(x, id) == x = <<<<"sigma", id, P.k>>, x[3] - 1, x[3], <<id>>>>
CoinDraw(x, id) ==
  ek[id] # NoBuf /\ x[1][1] = "coins" /\ x = <<<<"coins", x[4][2], hash_h(ek[id])>>, x[3] - 1, x[3], <<id, x[4][2]>>>>

Drawn == \A x \in drawn : x[3] \in Nat /\ \E id \in Ids : KeyDraw(x, id) \/ CoinDraw(x, id)

IInv == Domains /\ Pairs /\ Sent /\ Drawn

----------------------------------------------------------------------------
\* The sizes in the parameter table are the sums of the parts.
LEMMA Parameters ==
  ASSUME par \in Pars
  PROVE  /\ P.k \in 2..4 /\ P.du \in 10..11 /\ P.dv \in 4..5
         /\ P.ek_sz = P.k * 384 + 32 /\ P.dk_sz = P.k * 768 + 96
         /\ P.ct_sz = P.k * (P.du * 32) + P.dv * 32
  <1>1. par \in {"mlkem_512", "mlkem_768", "mlkem_1024"}
    BY MlkemAssumption DEF mlkem_par
  <1>2. CASE par = "mlkem_512"
    BY <1>2 DEF P, mlkem_par
  <1>3. CASE par = "mlkem_768"
    BY <1>3 DEF P, mlkem_par
  <1>4. CASE par = "mlkem_1024"
    BY <1>4 DEF P, mlkem_par
  <1> QED
    BY <1>1, <1>2, <1>3, <1>4

\* A vector fills its k fields.
LEMMA VectorExact ==
  ASSUME par \in Pars, NEW n \in Nat, n > 0, NEW vec
  PROVE  Exact(PutVec(n, vec), P.k * n)
  <1> DEFINE buf == PutVec(n, vec)
  <1>1. P.k \in 2..4
    BY Parameters
  <1>2. \A i \in Vec : /\ n * (i - 1) \in Nat /\ n * (i - 1) + n <= P.k * n
                       /\ n * (i - 1) + n = n * i
    BY <1>1 DEF Vec
  <1>3. Fields(buf, P.k * n)
    BY <1>2 DEF PutVec, Fields
  <1>4. \A i \in Vec : \E f \in buf : f[1] = n * (i - 1) /\ f[1] + f[2] = n * i
    <2> TAKE i \in Vec
    <2>1. <<n * (i - 1), n, vec[i]>> \in buf
      BY DEF PutVec
    <2> QED
      BY <1>2, <2>1
  <1>5. \A f \in buf : \E i \in Vec : f[1] = n * (i - 1) /\ f[1] + f[2] = n * i
    BY <1>2 DEF PutVec
  <1>6. /\ 1 \in Vec /\ P.k \in Vec /\ n * (1 - 1) = 0 /\ n * P.k = P.k * n
        /\ \A i \in Vec : (i = 1 \/ i - 1 \in Vec) /\ (i = P.k \/ i + 1 \in Vec)
    BY <1>1 DEF Vec
  <1>7. ASSUME NEW i \in Vec, NEW j \in Vec, n * (i - 1) < n * (j - 1) + n,
               n * (j - 1) < n * (i - 1) + n
        PROVE  i = j
    BY <1>1, <1>7 DEF Vec
  <1>8. ASSUME NEW f \in buf, NEW g \in buf, f[1] < g[1] + g[2], g[1] < f[1] + f[2]
        PROVE  f = g
    <2>1. PICK i \in Vec : f = <<n * (i - 1), n, vec[i]>>
      BY DEF PutVec
    <2>2. PICK j \in Vec : g = <<n * (j - 1), n, vec[j]>>
      BY DEF PutVec
    <2>3. i = j
      BY <1>7, <1>8, <2>1, <2>2
    <2> QED
      BY <2>1, <2>2, <2>3
  <1> HIDE DEF buf
  <1>9. {f[1] : f \in buf} \cup {P.k * n} = {f[1] + f[2] : f \in buf} \cup {0}
    <2>1. ASSUME NEW f \in buf PROVE f[1] = 0 \/ \E g \in buf : f[1] = g[1] + g[2]
      BY <1>4, <1>5, <1>6
    <2>2. ASSUME NEW f \in buf PROVE f[1] + f[2] = P.k * n \/ \E g \in buf : f[1] + f[2] = g[1]
      <3>1. PICK i \in Vec : f[1] + f[2] = n * i
        BY <1>5
      <3>2. ASSUME i + 1 \in Vec PROVE \E g \in buf : f[1] + f[2] = g[1]
        <4>1. PICK j \in Vec : j = i + 1 /\ j - 1 = i
          BY <1>6, <3>2, <1>1 DEF Vec
        <4>2. PICK g \in buf : g[1] = n * (j - 1)
          BY <1>4
        <4> QED
          BY <3>1, <4>1, <4>2
      <3> QED
        BY <1>6, <3>1, <3>2
    <2>3. (\E f \in buf : f[1] = 0) /\ \E f \in buf : f[1] + f[2] = P.k * n
      BY <1>4, <1>6
    <2> QED
      BY <2>1, <2>2, <2>3
  <1>10. Filled(buf, P.k * n)
    BY <1>8, <1>9 DEF Filled
  <1> QED
    BY <1>3, <1>10 DEF Exact, buf

\* Copying a full buffer behind a full one fills both.
LEMMA CopyExact ==
  ASSUME NEW at \in Nat, NEW n \in Nat, NEW buf, NEW from, Exact(buf, at), Exact(from, n), n > 0
  PROVE  Exact(memcpy(buf, at, from), at + n)
  <1> DEFINE mv(f) == <<f[1] + at, f[2], f[3]>>
  <1> DEFINE all == memcpy(buf, at, from)
  <1>1. all = buf \cup {mv(f) : f \in from}
    BY DEF memcpy, Exact, Fields
  <1>2. \A f \in buf : /\ f = <<f[1], f[2], f[3]>> /\ f[1] \in Nat /\ f[2] \in Nat
                       /\ f[2] > 0 /\ f[1] + f[2] <= at
    BY DEF Exact, Fields
  <1>3. \A f \in from : /\ f = <<f[1], f[2], f[3]>> /\ f[1] \in Nat /\ f[2] \in Nat
                        /\ f[2] > 0 /\ f[1] + f[2] <= n
    BY DEF Exact, Fields
  <1>4. \A f \in from : /\ mv(f)[1] = f[1] + at /\ mv(f)[2] = f[2] /\ mv(f)[3] = f[3]
                        /\ mv(f) = <<mv(f)[1], mv(f)[2], mv(f)[3]>>
    OBVIOUS
  <1> HIDE DEF all, mv
  <1>5. Fields(all, at + n)
    BY <1>1, <1>2, <1>3, <1>4 DEF Fields
  <1>6. /\ {f[1] : f \in buf} \cup {at} = {f[1] + f[2] : f \in buf} \cup {0}
        /\ \A f, g \in buf : f[1] < g[1] + g[2] /\ g[1] < f[1] + f[2] => f = g
    BY DEF Exact, Filled
  <1>7. /\ {f[1] : f \in from} \cup {n} = {f[1] + f[2] : f \in from} \cup {0}
        /\ \A f, g \in from : f[1] < g[1] + g[2] /\ g[1] < f[1] + f[2] => f = g
    BY DEF Exact, Filled
  <1>8. {f[1] : f \in all} \cup {at + n} = {f[1] + f[2] : f \in all} \cup {0}
    <2>1. ASSUME NEW f \in buf
          PROVE  /\ f[1] = 0 \/ \E g \in all : f[1] = g[1] + g[2]
                 /\ f[1] + f[2] = at \/ \E g \in all : f[1] + f[2] = g[1]
      BY <1>1, <1>2, <1>6
    <2>2. /\ at = 0 \/ \E g \in all : at = g[1] + g[2]
          /\ \E g \in all : at = g[1]
      <3>1. at = 0 \/ \E g \in all : at = g[1] + g[2]
        BY <1>1, <1>6
      <3>2. \E f \in from : f[1] = 0
        BY <1>7
      <3>3. \E g \in all : at = g[1]
        BY <1>1, <1>3, <1>4, <3>2
      <3> QED
        BY <3>1, <3>3
    <2>3. ASSUME NEW f \in from
          PROVE  /\ f[1] = 0 \/ \E g \in from : f[1] = g[1] + g[2]
                 /\ f[1] + f[2] = n \/ \E g \in from : f[1] + f[2] = g[1]
      BY <1>3, <1>7
    <2>4. ASSUME NEW f \in from
          PROVE  /\ mv(f)[1] = 0 \/ \E g \in all : mv(f)[1] = g[1] + g[2]
                 /\ mv(f)[1] + mv(f)[2] = at + n \/ \E g \in all : mv(f)[1] + mv(f)[2] = g[1]
      <3>1. f[1] = 0 => mv(f)[1] = 0 \/ \E g \in all : mv(f)[1] = g[1] + g[2]
        BY <1>3, <1>4, <2>2
      <3>2. ASSUME NEW g \in from, f[1] = g[1] + g[2]
            PROVE  \E m \in all : mv(f)[1] = m[1] + m[2]
        <4>1. mv(g) \in all /\ mv(f)[1] = mv(g)[1] + mv(g)[2]
          BY <1>1, <1>3, <1>4, <3>2
        <4> QED
          BY <4>1
      <3>3. f[1] + f[2] = n => mv(f)[1] + mv(f)[2] = at + n
        BY <1>3, <1>4
      <3>4. ASSUME NEW g \in from, f[1] + f[2] = g[1]
            PROVE  \E m \in all : mv(f)[1] + mv(f)[2] = m[1]
        <4>1. mv(g) \in all /\ mv(f)[1] + mv(f)[2] = mv(g)[1]
          BY <1>1, <1>3, <1>4, <3>4
        <4> QED
          BY <4>1
      <3>5. mv(f)[1] + mv(f)[2] = at + n \/ \E g \in all : mv(f)[1] + mv(f)[2] = g[1]
        BY <2>3, <3>3, <3>4
      <3>6. mv(f)[1] = 0 \/ \E g \in all : mv(f)[1] = g[1] + g[2]
        BY <2>3, <3>1, <3>2
      <3> QED
        BY <3>5, <3>6
    <2>5. \E g \in all : at + n = g[1] + g[2]
      <3>1. PICK f \in from : f[1] + f[2] = n
        BY <1>7
      <3> QED
        BY <1>1, <1>3, <1>4, <3>1
    <2>6. at + n = 0 \/ \E g \in all : g[1] = 0
      <3>1. CASE at = 0
        BY <2>2, <3>1
      <3>2. CASE at # 0
        BY <1>1, <1>6, <3>2
      <3> QED
        BY <3>1, <3>2
    <2>7. ASSUME NEW f \in all
          PROVE  /\ f[1] = 0 \/ \E g \in all : f[1] = g[1] + g[2]
                 /\ f[1] + f[2] = at + n \/ \E g \in all : f[1] + f[2] = g[1]
      BY <1>1, <2>1, <2>2, <2>4
    <2> QED
      BY <2>5, <2>6, <2>7
  <1>9. ASSUME NEW f \in all, NEW g \in all, f[1] < g[1] + g[2], g[1] < f[1] + f[2]
        PROVE  f = g
    <2>1. CASE f \in buf /\ g \in buf
      BY <1>6, <1>9, <2>1
    <2>2. ASSUME NEW p \in from, NEW r \in from, f = mv(p), g = mv(r) PROVE f = g
      <3>1. p[1] < r[1] + r[2] /\ r[1] < p[1] + p[2]
        BY <1>3, <1>4, <1>9, <2>2
      <3> QED
        BY <1>7, <2>2, <3>1
    <2>3. ASSUME NEW p \in from, f = mv(p), g \in buf PROVE FALSE
      BY <1>2, <1>3, <1>4, <1>9, <2>3
    <2>4. ASSUME NEW p \in from, g = mv(p), f \in buf PROVE FALSE
      BY <1>2, <1>3, <1>4, <1>9, <2>4
    <2> QED
      BY <1>1, <2>1, <2>2, <2>3, <2>4
  <1>10. Filled(all, at + n)
    BY <1>8, <1>9 DEF Filled
  <1> QED
    BY <1>5, <1>10 DEF Exact, all


\* Putting a field behind a full buffer.
LEMMA AppendExact ==
  ASSUME NEW at \in Nat, NEW n \in Nat, NEW buf, NEW v, Exact(buf, at), n > 0
  PROVE  Exact(Put(buf, at, n, v), at + n) /\ Put(buf, at, n, v) = buf \cup {<<at, n, v>>}
  <1> DEFINE one == {<<0, n, v>>}
  <1>1. Exact(one, n)
    BY DEF Exact, Fields, Filled
  <1>2. {f \in buf : f[1] + f[2] <= at} = buf
    BY DEF Exact, Fields
  <1>3. {f \in buf : f[1] + f[2] <= at \/ at + n <= f[1]} = buf
    BY <1>2
  <1>4. Put(buf, at, n, v) = buf \cup {<<at, n, v>>}
    BY <1>3 DEF Put
  <1>5. {<<f[1] + at, f[2], f[3]>> : f \in one} = {<<at, n, v>>}
    OBVIOUS
  <1>6. memcpy(buf, at, one) = buf \cup {<<at, n, v>>}
    BY <1>2, <1>5 DEF memcpy
  <1> HIDE DEF one
  <1> QED
    BY <1>1, <1>4, <1>6, CopyExact

\* Putting a field in the place of one that is there.
LEMMA ReplaceExact ==
  ASSUME NEW bytes \in Nat, NEW buf, Exact(buf, bytes), NEW f \in buf, NEW v
  PROVE  Exact(Put(buf, f[1], f[2], v), bytes)
  <1> DEFINE new == <<f[1], f[2], v>>
  <1> DEFINE all == Put(buf, f[1], f[2], v)
  <1>1. \A g \in buf : /\ g = <<g[1], g[2], g[3]>> /\ g[1] \in Nat /\ g[2] \in Nat
                       /\ g[2] > 0 /\ g[1] + g[2] <= bytes
    BY DEF Exact, Fields
  <1>2. /\ {g[1] : g \in buf} \cup {bytes} = {g[1] + g[2] : g \in buf} \cup {0}
        /\ \A g, e \in buf : g[1] < e[1] + e[2] /\ e[1] < g[1] + g[2] => g = e
    BY DEF Exact, Filled
  <1>3. all = (buf \ {f}) \cup {new}
    <2>1. {g \in buf : g[1] + g[2] <= f[1] \/ f[1] + f[2] <= g[1]} = buf \ {f}
      BY <1>1, <1>2
    <2> QED
      BY <2>1 DEF Put
  <1>4. new = <<new[1], new[2], new[3]>> /\ new[1] = f[1] /\ new[2] = f[2]
    OBVIOUS
  <1> HIDE DEF all, new
  <1>5. Fields(all, bytes)
    BY <1>1, <1>3, <1>4 DEF Fields
  <1>6. \A g \in buf : \E e \in all : e[1] = g[1] /\ e[2] = g[2]
    BY <1>3, <1>4
  <1>7. \A e \in all : \E g \in buf : e[1] = g[1] /\ e[2] = g[2]
    BY <1>3, <1>4
  <1>8. {g[1] : g \in all} = {g[1] : g \in buf}
    BY <1>6, <1>7
  <1>9. {g[1] + g[2] : g \in all} = {g[1] + g[2] : g \in buf}
    BY <1>6, <1>7
  <1>10. ASSUME NEW g \in all, NEW e \in all, g[1] < e[1] + e[2], e[1] < g[1] + g[2]
         PROVE  g = e
    BY <1>2, <1>3, <1>4, <1>10
  <1>11. Filled(all, bytes)
    BY <1>2, <1>8, <1>9, <1>10 DEF Filled
  <1> QED
    BY <1>5, <1>11 DEF Exact, all

----------------------------------------------------------------------------
\* What key generation writes and draws, whatever the coefficients are.
LEMMA KeygenWrites ==
  ASSUME NEW d
  PROVE  \E t, std : kpke_keygen(d) =
           [ek |-> pack_ek(t, <<"rho", d, P.k>>), dk |-> PutVec(Poly, std),
            drawn |-> Draws(<<"sigma", d, P.k>>, [n \in 1..(2 * P.k) |-> n - 1], <<d>>)]
  BY DEF kpke_keygen, hash_g_keygen

\* A ciphertext is a packed vector and a packed polynomial.
LEMMA EncryptWrites ==
  ASSUME NEW pk, NEW m, NEW coins
  PROVE  \E b, v : kpke_encrypt(pk, m, coins) = pack_ciphertext(b, v)
  BY DEF kpke_encrypt

\* The encapsulation key is exactly filled and ends with the seed.
LEMMA KeyPacked ==
  ASSUME par \in Pars, NEW vec, NEW id
  PROVE  /\ Exact(pack_ek(vec, <<"rho", id, P.k>>), P.ek_sz)
         /\ Ends(pack_ek(vec, <<"rho", id, P.k>>), id)
         /\ pack_ek(vec, <<"rho", id, P.k>>) # NoBuf
  <1> DEFINE seed == <<"rho", id, P.k>>
  <1> DEFINE buf == PutVec(Poly, vec)
  <1>1. Poly \in Nat /\ Poly > 0 /\ Sym \in Nat /\ Sym > 0 /\ Poly = 384 /\ Sym = 32
    BY DEF Poly, Sym
  <1>2. P.k * Poly \in Nat /\ P.k * Poly + Sym = P.ek_sz
    BY <1>1, Parameters
  <1>3. Exact(buf, P.k * Poly)
    BY <1>1, VectorExact
  <1>4. pack_ek(vec, seed) = Put(buf, P.k * Poly, Sym, seed)
    BY DEF pack_ek
  <1> HIDE DEF seed, buf
  <1>5. /\ Exact(pack_ek(vec, seed), P.k * Poly + Sym)
        /\ pack_ek(vec, seed) = buf \cup {<<P.k * Poly, Sym, seed>>}
    BY <1>1, <1>2, <1>3, <1>4, AppendExact
  <1>6. \A f \in buf : f[1] # P.k * Poly
    BY <1>2, <1>3 DEF Exact, Fields
  <1>7. Ends(pack_ek(vec, seed), id)
    BY <1>5, <1>6 DEF Ends, seed
  <1> QED
    BY <1>2, <1>5, <1>7 DEF seed, NoBuf

\* The decapsulation key is exactly filled, and the digest reads back from under the
\* secret z, which is put last.
LEMMA DecapsKeyPacked ==
  ASSUME par \in Pars, NEW std, NEW pk, Exact(pk, P.ek_sz), NEW digest, NEW z
  PROVE  LET d1 == memcpy(PutVec(Poly, std), P.k * Poly, pk)
             d2 == Put(d1, P.dk_sz - 2 * Sym, Sym, digest)
             d3 == Put(d2, P.dk_sz - Sym, Sym, z)
         IN  Exact(d3, P.dk_sz) /\ Get(d3, P.dk_sz - 2 * Sym, Sym) = digest
  <1> DEFINE d1 == memcpy(PutVec(Poly, std), P.k * Poly, pk)
             d2 == Put(d1, P.dk_sz - 2 * Sym, Sym, digest)
             d3 == Put(d2, P.dk_sz - Sym, Sym, z)
  <1>1. Poly \in Nat /\ Poly > 0 /\ Sym \in Nat /\ Sym > 0 /\ Poly = 384 /\ Sym = 32
    BY DEF Poly, Sym
  <1>2. /\ P.k * Poly \in Nat /\ P.ek_sz \in Nat /\ P.ek_sz > 0
        /\ P.k * Poly + P.ek_sz = P.dk_sz - 2 * Sym
        /\ P.dk_sz - 2 * Sym \in Nat /\ P.dk_sz - Sym \in Nat
        /\ (P.dk_sz - 2 * Sym) + Sym = P.dk_sz - Sym /\ (P.dk_sz - Sym) + Sym = P.dk_sz
    BY <1>1, Parameters
  <1>3. Exact(PutVec(Poly, std), P.k * Poly)
    BY <1>1, VectorExact
  <1>4. Exact(d1, P.k * Poly + P.ek_sz)
    BY <1>2, <1>3, CopyExact
  <1> HIDE DEF d1
  <1>5. /\ Exact(d2, (P.dk_sz - 2 * Sym) + Sym)
        /\ d2 = d1 \cup {<<P.dk_sz - 2 * Sym, Sym, digest>>}
    BY <1>1, <1>2, <1>4, AppendExact
  <1> HIDE DEF d2
  <1>6. /\ Exact(d3, (P.dk_sz - Sym) + Sym)
        /\ d3 = d2 \cup {<<P.dk_sz - Sym, Sym, z>>}
    <2>1. Exact(d2, P.dk_sz - Sym)
      BY <1>2, <1>5
    <2> QED
      BY <1>1, <1>2, <2>1, AppendExact
  <1> HIDE DEF d3
  <1> DEFINE at == P.dk_sz - 2 * Sym
  <1>7. at \in Nat /\ at # P.dk_sz - Sym
    BY <1>1, <1>2
  <1>8. \A f \in d1 : f[1] # at
    BY <1>2, <1>4 DEF Exact, Fields
  <1>9. <<at, Sym, digest>> \in d3
    BY <1>5, <1>6
  <1> HIDE DEF at
  <1>10. \A f \in d3 : f[1] = at => f = <<at, Sym, digest>>
    BY <1>5, <1>6, <1>7, <1>8 DEF at
  <1> DEFINE g == CHOOSE f \in d3 : f[1] = at /\ f[2] = Sym
  <1>11. g \in d3 /\ g[1] = at
    BY <1>9
  <1>12. (\E f \in d3 : f[1] = at /\ f[2] = Sym) /\ g = <<at, Sym, digest>>
    BY <1>9, <1>10, <1>11
  <1>13. Get(d3, at, Sym) = g[3]
    BY <1>12 DEF Get
  <1> HIDE DEF g
  <1>14. Get(d3, at, Sym) = digest
    BY <1>12, <1>13
  <1> QED
    BY <1>2, <1>6, <1>14 DEF at, d3, d2, d1

\* A ciphertext is exactly filled.
LEMMA CiphertextPacked ==
  ASSUME par \in Pars, NEW b, NEW v
  PROVE  Exact(pack_ciphertext(b, v), P.ct_sz)
  <1> DEFINE n == P.du * 32
  <1>1. /\ n \in Nat /\ n > 0 /\ P.dv * 32 \in Nat /\ P.dv * 32 > 0
        /\ P.k * n \in Nat /\ P.k * n + P.dv * 32 = P.ct_sz /\ P.k * P.du * 32 = P.k * n
    BY Parameters
  <1>2. \E x : pack_ciphertext(b, v) = Put(PutVec(n, x), P.k * n, P.dv * 32, Compress(P.dv, v))
    BY <1>1 DEF pack_ciphertext
  <1>3. PICK x : pack_ciphertext(b, v) = Put(PutVec(n, x), P.k * n, P.dv * 32, Compress(P.dv, v))
    BY <1>2
  <1> HIDE DEF n
  <1>4. Exact(PutVec(n, x), P.k * n)
    BY <1>1, VectorExact
  <1>5. Exact(Put(PutVec(n, x), P.k * n, P.dv * 32, Compress(P.dv, v)), P.k * n + P.dv * 32)
    BY <1>1, <1>4, AppendExact
  <1> QED
    BY <1>1, <1>3, <1>5

----------------------------------------------------------------------------
\* The steps.

\* The parameter set does not change: a pair may be told in its terms.
LEMMA PairsNext ==
  ASSUME P' = P,
         \A id \in Ids : ek'[id] # NoBuf =>
           /\ Ends(ek'[id], id) /\ Exact(ek'[id], P.ek_sz) /\ Exact(dk'[id], P.dk_sz)
           /\ Get(dk'[id], P.dk_sz - 2 * Sym, Sym) = hash_h(ek'[id])
  PROVE  Pairs'
  BY DEF Pairs, Ends, Exact, Fields, Filled, Get, hash_h

\* What is drawn for a pair stays its own.
LEMMA DrawnKept ==
  ASSUME IInv, P' = P, \A id \in Ids : ek[id] # NoBuf => ek'[id] = ek[id], NEW x \in drawn
  PROVE  x[3] \in Nat /\ \E id \in Ids : KeyDraw(x, id)' \/ CoinDraw(x, id)'
  BY DEF IInv, Drawn, KeyDraw, CoinDraw, hash_h

\* The noise of an encapsulation or of its repetition in decapsulation.
LEMMA CoinsDrawn ==
  ASSUME NEW id \in Ids, NEW m, ek[id] # NoBuf, P.k \in Nat,
         NEW x \in Draws(hash_g(m, hash_h(ek[id])).coins, Nonces, <<id, m>>)
  PROVE  x[3] \in Nat /\ CoinDraw(x, id)
  <1>1. PICK n \in 1..(2 * P.k + 1) : x = <<<<"coins", m, hash_h(ek[id])>>, n - 1, n, <<id, m>>>>
    BY DEF Draws, Nonces, hash_g
  <1> QED
    BY <1>1 DEF CoinDraw

\* Key generation writes a new pair and draws with a seed that is the owner's alone.
LEMMA KeygenStep ==
  ASSUME IInv, NEW id \in Ids, mlkem_keygen_internal(id)
  PROVE  IInv'
  <1>1. PICK vec, std : kpke_keygen(id) =
           [ek |-> pack_ek(vec, <<"rho", id, P.k>>), dk |-> PutVec(Poly, std),
            drawn |-> Draws(<<"sigma", id, P.k>>, [n \in 1..(2 * P.k) |-> n - 1], <<id>>)]
    BY KeygenWrites
  <1> DEFINE pk == pack_ek(vec, <<"rho", id, P.k>>)
             d1 == memcpy(PutVec(Poly, std), P.k * Poly, pk)
             d2 == Put(d1, P.dk_sz - 2 * Sym, Sym, hash_h(pk))
             d3 == Put(d2, P.dk_sz - Sym, Sym, <<"z", id>>)
             new == Draws(<<"sigma", id, P.k>>, [n \in 1..(2 * P.k) |-> n - 1], <<id>>)
  <1>2. /\ ek[id] = NoBuf /\ ek' = [ek EXCEPT ![id] = pk] /\ dk' = [dk EXCEPT ![id] = d3]
        /\ drawn' = drawn \cup new /\ par' = par /\ net' = net
    BY <1>1 DEF mlkem_keygen_internal
  <1>3. par \in Pars /\ DOMAIN ek = Ids /\ DOMAIN dk = Ids /\ P' = P
    BY <1>2 DEF IInv, Domains, P
  <1>4. Exact(pk, P.ek_sz) /\ Ends(pk, id) /\ pk # NoBuf
    BY <1>3, KeyPacked
  <1>5. Exact(d3, P.dk_sz) /\ Get(d3, P.dk_sz - 2 * Sym, Sym) = hash_h(pk)
    BY <1>3, <1>4, DecapsKeyPacked
  <1> HIDE DEF pk, d3
  <1>6. ASSUME NEW x \in new PROVE x[3] \in Nat /\ KeyDraw(x, id)
    <2>1. P.k \in Nat
      BY <1>3, Parameters
    <2>2. PICK n \in 1..(2 * P.k) : x = <<<<"sigma", id, P.k>>, n - 1, n, <<id>>>>
      BY DEF Draws
    <2> QED
      BY <2>1, <2>2 DEF KeyDraw
  <1> HIDE DEF new
  <1>7. Domains'
    BY <1>2, <1>3 DEF Domains
  <1>8. Pairs'
    <2>1. ASSUME NEW o \in Ids, ek'[o] # NoBuf
          PROVE  /\ Ends(ek'[o], o) /\ Exact(ek'[o], P.ek_sz) /\ Exact(dk'[o], P.dk_sz)
                 /\ Get(dk'[o], P.dk_sz - 2 * Sym, Sym) = hash_h(ek'[o])
      <3>1. CASE o = id
        BY <1>2, <1>3, <1>4, <1>5, <3>1
      <3>2. CASE o # id
        <4>1. ek'[o] = ek[o] /\ dk'[o] = dk[o]
          BY <1>2, <1>3, <3>2
        <4> QED
          BY <2>1, <4>1 DEF IInv, Pairs
      <3> QED
        BY <3>1, <3>2
    <2> QED
      BY <1>3, <2>1, PairsNext
  <1>9. Sent'
    BY <1>2, <1>3 DEF IInv, Sent, Exact, Fields, Filled
  <1>10. Drawn'
    <2>1. \A o \in Ids : ek[o] # NoBuf => ek'[o] = ek[o]
      BY <1>2, <1>3
    <2>2. ASSUME NEW x \in drawn
          PROVE  x[3] \in Nat /\ \E o \in Ids : KeyDraw(x, o)' \/ CoinDraw(x, o)'
      BY <1>3, <2>1, DrawnKept
    <2>3. ASSUME NEW x \in new
          PROVE  x[3] \in Nat /\ \E o \in Ids : KeyDraw(x, o)' \/ CoinDraw(x, o)'
      BY <1>3, <1>6 DEF KeyDraw
    <2> QED
      BY <1>2, <2>2, <2>3 DEF Drawn, KeyDraw, CoinDraw, hash_h
  <1> QED
    BY <1>7, <1>8, <1>9, <1>10 DEF IInv

\* A step that leaves the keys alone, adds only full ciphertexts and draws only the
\* coins of pairs there are.
LEMMA OtherSteps ==
  ASSUME IInv, UNCHANGED <<par, ek, dk>>,
         \A ct \in net' \ net : Exact(ct, P.ct_sz),
         \A x \in drawn' \ drawn : x[3] \in Nat /\ \E id \in Ids : CoinDraw(x, id)
  PROVE  IInv'
  <1>1. P' = P
    BY DEF P
  <1>2. Domains'
    BY <1>1 DEF IInv, Domains
  <1>3. Pairs'
    <2>1. ASSUME NEW id \in Ids, ek'[id] # NoBuf
          PROVE  /\ Ends(ek'[id], id) /\ Exact(ek'[id], P.ek_sz) /\ Exact(dk'[id], P.dk_sz)
                 /\ Get(dk'[id], P.dk_sz - 2 * Sym, Sym) = hash_h(ek'[id])
      BY <2>1 DEF IInv, Pairs
    <2> QED
      BY <1>1, <2>1, PairsNext
  <1>4. Sent'
    BY <1>1 DEF IInv, Sent, Exact, Fields, Filled
  <1>5. Drawn'
    <2>1. \A x, id : CoinDraw(x, id) => CoinDraw(x, id)'
      BY DEF CoinDraw, hash_h
    <2>2. ASSUME NEW x \in drawn'
          PROVE  x[3] \in Nat /\ \E id \in Ids : KeyDraw(x, id)' \/ CoinDraw(x, id)'
      <3>1. CASE x \in drawn
        BY <1>1, <3>1, DrawnKept
      <3>2. CASE x \notin drawn
        BY <2>1, <3>2
      <3> QED
        BY <3>1, <3>2
    <2> QED
      BY <2>2 DEF Drawn, KeyDraw, CoinDraw, hash_h
  <1> QED
    BY <1>2, <1>3, <1>4, <1>5 DEF IInv

\* Encapsulation sends a full ciphertext and draws from the coins of its message and key.
LEMMA EncapsStep ==
  ASSUME IInv, NEW id \in Ids, NEW m \in Msgs, mlkem_encaps_internal(id, m)
  PROVE  IInv'
  <1> DEFINE coins == hash_g(m, hash_h(ek[id])).coins
             ct == kpke_encrypt(ek[id], m, coins)
  <1>1. /\ ek[id] # NoBuf /\ net' = net \cup {ct} /\ UNCHANGED <<par, ek, dk>>
        /\ drawn' = drawn \cup Draws(coins, Nonces, <<id, m>>)
    BY DEF mlkem_encaps_internal
  <1>2. par \in Pars /\ P.k \in Nat
    BY Parameters DEF IInv, Domains
  <1>3. Exact(ct, P.ct_sz)
    BY <1>2, EncryptWrites, CiphertextPacked
  <1> HIDE DEF ct
  <1>4. \A x \in drawn' \ drawn : x[3] \in Nat /\ \E o \in Ids : CoinDraw(x, o)
    BY <1>1, <1>2, CoinsDrawn
  <1>5. \A c \in net' \ net : Exact(c, P.ct_sz)
    BY <1>1, <1>3
  <1> QED
    BY <1>1, <1>4, <1>5, OtherSteps

\* Decapsulation draws from the coins of the message it finds and of the digest in its
\* own buffer, which is that of the encapsulation key.
LEMMA DecapsStep ==
  ASSUME IInv, NEW id \in Ids, NEW ct \in net, mlkem_decaps_internal(id, ct)
  PROVE  IInv'
  <1> DEFINE m == kpke_decrypt(dk[id], ct)
  <1>1. /\ ek[id] # NoBuf /\ UNCHANGED <<par, ek, dk, net>>
        /\ drawn' = drawn \cup Draws(hash_g(m, Get(dk[id], P.dk_sz - 2 * Sym, Sym)).coins,
                                     Nonces, <<id, m>>)
    BY DEF mlkem_decaps_internal
  <1>2. par \in Pars /\ P.k \in Nat
    BY Parameters DEF IInv, Domains
  <1>3. Get(dk[id], P.dk_sz - 2 * Sym, Sym) = hash_h(ek[id])
    BY <1>1 DEF IInv, Pairs
  <1> HIDE DEF m
  <1>4. \A x \in drawn' \ drawn : x[3] \in Nat /\ \E o \in Ids : CoinDraw(x, o)
    BY <1>1, <1>2, <1>3, CoinsDrawn
  <1> QED
    BY <1>1, <1>4, OtherSteps

\* An altered ciphertext is as full as the one it was.
LEMMA TamperStep ==
  ASSUME IInv, Tamper
  PROVE  IInv'
  <1>1. UNCHANGED <<par, ek, dk, drawn>>
    BY DEF Tamper
  <1>2. \E ct \in net : \E f \in ct : \E v : net' = net \cup {Put(ct, f[1], f[2], v)}
    BY DEF Tamper
  <1>3. PICK ct \in net : \E f \in ct : \E v : net' = net \cup {Put(ct, f[1], f[2], v)}
    BY <1>2
  <1>4. PICK f \in ct : \E v : net' = net \cup {Put(ct, f[1], f[2], v)}
    BY <1>3
  <1>5. PICK v : net' = net \cup {Put(ct, f[1], f[2], v)}
    BY <1>4
  <1>6. P.ct_sz \in Nat /\ Exact(ct, P.ct_sz)
    BY Parameters DEF IInv, Domains, Sent
  <1>7. Exact(Put(ct, f[1], f[2], v), P.ct_sz)
    BY <1>6, ReplaceExact
  <1>8. \A c \in net' \ net : Exact(c, P.ct_sz)
    BY <1>5, <1>7
  <1> QED
    BY <1>1, <1>8, OtherSteps

\* IInv is an invariant of key generation, encapsulation, decapsulation and tampering.
THEOREM Invariance == Spec => []IInv
  <1>1. Init => IInv
    BY DEF Init, IInv, Domains, Pairs, Sent, Drawn
  <1>2. IInv /\ UNCHANGED vars => IInv'
    BY OtherSteps DEF vars
  <1>3. IInv /\ [Next]_vars => IInv'
    BY <1>2, KeygenStep, EncapsStep, DecapsStep, TamperStep DEF Next
  <1> QED
    BY <1>1, <1>3, PTL DEF Spec

\* For every parameter set, whatever mlkem.c computes or meets on the way, its offsets
\* fill each key and ciphertext buffer exactly.
THEOREM BuffersFilled == Spec => []BuffersExact
  <1>1. IInv => BuffersExact
    BY DEF IInv, Pairs, Sent, Exact, BuffersExact
  <1> QED
    BY Invariance, <1>1, PTL

\* Two key buffers are the same only if they have the same owner.
LEMMA KeysDiffer ==
  ASSUME IInv, NEW id \in Ids, NEW o \in Ids, ek[id] # NoBuf, ek[o] = ek[id]
  PROVE  id = o
  <1>1. Ends(ek[id], id) /\ Ends(ek[id], o)
    BY DEF IInv, Pairs
  <1>2. <<"rho", id, P.k>> = <<"rho", o, P.k>>
    BY <1>1 DEF Ends
  <1> QED
    BY <1>2

\* No seed and nonce of mlkem_kpke.c give two noise polynomials, for any number of
\* keys, encapsulations and decapsulations.
THEOREM NoiseDrawnOnce == Spec => []NoiseOnce
  <1>1. ASSUME IInv PROVE NoiseOnce
    <2>1. SUFFICES ASSUME NEW x \in drawn, NEW y \in drawn, x[1] = y[1], x[2] = y[2] PROVE x = y
      BY DEF NoiseOnce
    <2>2. PICK id \in Ids : KeyDraw(x, id) \/ CoinDraw(x, id)
      BY <1>1 DEF IInv, Drawn
    <2>3. PICK o \in Ids : KeyDraw(y, o) \/ CoinDraw(y, o)
      BY <1>1 DEF IInv, Drawn
    <2>4. x[3] \in Nat /\ y[3] \in Nat
      BY <1>1 DEF IInv, Drawn
    <2>5. CASE KeyDraw(x, id) /\ KeyDraw(y, o)
      BY <2>1, <2>4, <2>5 DEF KeyDraw
    <2>6. CASE CoinDraw(x, id) /\ CoinDraw(y, o)
      <3>1. ek[id] = ek[o] /\ ek[id] # NoBuf /\ x[4][2] = y[4][2] /\ x[3] = y[3]
        BY <2>1, <2>4, <2>6 DEF CoinDraw, hash_h
      <3>2. id = o
        BY <1>1, <3>1, KeysDiffer
      <3> QED
        BY <2>6, <3>1, <3>2 DEF CoinDraw
    <2>7. ~(KeyDraw(x, id) /\ CoinDraw(y, o)) /\ ~(CoinDraw(x, id) /\ KeyDraw(y, o))
      BY <2>1 DEF KeyDraw, CoinDraw
    <2> QED
      BY <2>2, <2>3, <2>5, <2>6, <2>7
  <1> QED
    BY Invariance, <1>1, PTL

----------------------------------------------------------------------------
\* Polynomials modulo X^2 + 1 over the integers, before anything is reduced.
Pair == Int \X Int
GAdd(a, b) == <<a[1] + b[1], a[2] + b[2]>>
GSub(a, b) == <<a[1] - b[1], a[2] - b[2]>>
GMul(a, b) == <<a[1] * b[1] - a[2] * b[2], a[1] * b[2] + a[2] * b[1]>>

\* Vectors of four, the largest k there is; shorter ones end with zeros.
Four     == 1..4
Vectors  == [Four -> Pair]
Matrices == [Four -> Vectors]

GSum(f) == <<f[1][1] + f[2][1] + f[3][1] + f[4][1], f[1][2] + f[2][2] + f[3][2] + f[4][2]>>

VAdd(a, b) == [i \in Four |-> GAdd(a[i], b[i])]
Dot(a, b)  == GSum([i \in Four |-> GMul(a[i], b[i])])

\* A matrix times a vector, and the transposed matrix.
Times(A, s) == [i \in Four |-> Dot(A[i], s)]
Turned(A)   == [j \in Four |-> [i \in Four |-> A[i][j]]]

\* The operations stay among the pairs, and multiplication is that of a ring.
LEMMA PairRing ==
  /\ \A a, b \in Pair : GAdd(a, b) \in Pair /\ GSub(a, b) \in Pair /\ GMul(a, b) \in Pair
  /\ \A a, b, c \in Pair : /\ GMul(GAdd(a, b), c) = GAdd(GMul(a, c), GMul(b, c))
                           /\ GMul(c, GAdd(a, b)) = GAdd(GMul(c, a), GMul(c, b))
                           /\ GMul(GMul(a, b), c) = GMul(b, GMul(a, c))
  <1>1. \A a, b \in Pair : GAdd(a, b) \in Pair /\ GSub(a, b) \in Pair /\ GMul(a, b) \in Pair
    BY DEF Pair, GAdd, GSub, GMul
  <1>2. \A a, b, c \in Pair : GMul(GAdd(a, b), c) = GAdd(GMul(a, c), GMul(b, c))
    BY DEF Pair, GAdd, GMul
  <1>3. \A a, b, c \in Pair : GMul(c, GAdd(a, b)) = GAdd(GMul(c, a), GMul(c, b))
    BY DEF Pair, GAdd, GMul
  <1>4. \A a, b, c \in Pair : GMul(GMul(a, b), c) = GMul(b, GMul(a, c))
    BY DEF Pair, GMul
  <1> QED
    BY <1>1, <1>2, <1>3, <1>4

\* The same law for three given pairs.
LEMMA PairDistributes ==
  ASSUME NEW a \in Pair, NEW b \in Pair, NEW c \in Pair
  PROVE  /\ GMul(GAdd(a, b), c) = GAdd(GMul(a, c), GMul(b, c))
         /\ GMul(c, GAdd(a, b)) = GAdd(GMul(c, a), GMul(c, b))
  BY PairRing

\* The coordinates of a pair, and that they determine it.
LEMMA PairCoordinates ==
  /\ \A a \in Pair : a[1] \in Int /\ a[2] \in Int /\ a = <<a[1], a[2]>>
  /\ \A a, b \in Pair : a[1] = b[1] /\ a[2] = b[2] => a = b
  BY DEF Pair

\* A sum is a pair.
LEMMA SumPair ==
  ASSUME NEW f \in Vectors
  PROVE  GSum(f) \in Pair
  <1>1. f[1] \in Pair /\ f[2] \in Pair /\ f[3] \in Pair /\ f[4] \in Pair
    BY DEF Vectors, Four
  <1> QED
    BY <1>1 DEF GSum, Pair

\* Products and sums of vectors stay where they belong.
LEMMA DotPair ==
  ASSUME NEW a \in Vectors, NEW b \in Vectors
  PROVE  Dot(a, b) \in Pair /\ [i \in Four |-> GMul(a[i], b[i])] \in Vectors /\ VAdd(a, b) \in Vectors
  <1>1. \A i \in Four : a[i] \in Pair /\ b[i] \in Pair
    BY DEF Vectors
  <1>2. [i \in Four |-> GMul(a[i], b[i])] \in Vectors
    BY <1>1, PairRing DEF Vectors
  <1>3. VAdd(a, b) \in Vectors
    BY <1>1, PairRing DEF Vectors, VAdd
  <1> QED
    BY <1>2, <1>3, SumPair DEF Dot

\* Sums add up.
LEMMA SumAdd ==
  ASSUME NEW f \in Vectors, NEW g \in Vectors
  PROVE  GSum(VAdd(f, g)) = GAdd(GSum(f), GSum(g))
  <1> DEFINE h == VAdd(f, g)
  <1>1. \A i \in Four : f[i] \in Pair /\ g[i] \in Pair /\ h[i] = <<f[i][1] + g[i][1], f[i][2] + g[i][2]>>
    BY DEF Vectors, VAdd, GAdd
  <1>2. \A i \in Four : /\ f[i][1] \in Int /\ f[i][2] \in Int /\ g[i][1] \in Int /\ g[i][2] \in Int
                        /\ h[i][1] = f[i][1] + g[i][1] /\ h[i][2] = f[i][2] + g[i][2]
    BY <1>1, PairCoordinates
  <1> HIDE DEF h
  <1>3. 1 \in Four /\ 2 \in Four /\ 3 \in Four /\ 4 \in Four
    BY DEF Four
  <1>4. GSum(h)[1] = GSum(f)[1] + GSum(g)[1]
    BY <1>2, <1>3 DEF GSum
  <1>5. GSum(h)[2] = GSum(f)[2] + GSum(g)[2]
    BY <1>2, <1>3 DEF GSum
  <1> QED
    BY <1>4, <1>5 DEF GSum, GAdd, h

\* A product with a sum is the sum of the products.
LEMMA SumMul ==
  ASSUME NEW f \in Vectors, NEW c \in Pair
  PROVE  /\ GMul(GSum(f), c) = GSum([i \in Four |-> GMul(f[i], c)])
         /\ GMul(c, GSum(f)) = GSum([i \in Four |-> GMul(c, f[i])])
  <1>1. f[1] \in Pair /\ f[2] \in Pair /\ f[3] \in Pair /\ f[4] \in Pair
    BY DEF Vectors, Four
  <1>2. \A i \in Four : f[i][1] \in Int /\ f[i][2] \in Int
    BY PairCoordinates DEF Vectors
  <1>3. 1 \in Four /\ 2 \in Four /\ 3 \in Four /\ 4 \in Four /\ c[1] \in Int /\ c[2] \in Int
    BY PairCoordinates DEF Four
  <1>4. ASSUME NEW p \in Int, NEW q \in Int, NEW r \in Int, NEW s \in Int, NEW x \in Int
        PROVE  (p + q + r + s) * x = p * x + q * x + r * x + s * x /\ x * (p + q + r + s) = x * p + x * q + x * r + x * s
    OBVIOUS
  <1>5. GMul(GSum(f), c) = GSum([i \in Four |-> GMul(f[i], c)])
    BY <1>2, <1>3, <1>4 DEF GMul, GSum
  <1>6. GMul(c, GSum(f)) = GSum([i \in Four |-> GMul(c, f[i])])
    BY <1>2, <1>3, <1>4 DEF GMul, GSum
  <1> QED
    BY <1>5, <1>6

\* A double sum, by rows or by columns.
LEMMA SumSwap ==
  ASSUME NEW m \in Matrices
  PROVE  GSum([i \in Four |-> GSum(m[i])]) = GSum([j \in Four |-> GSum([i \in Four |-> m[i][j]])])
  <1>1. \A i, j \in Four : m[i][j] \in Pair
    BY DEF Matrices, Vectors
  <1>2. \A i, j \in Four : m[i][j][1] \in Int /\ m[i][j][2] \in Int
    BY <1>1, PairCoordinates
  <1>3. 1 \in Four /\ 2 \in Four /\ 3 \in Four /\ 4 \in Four
    BY DEF Four
  <1> DEFINE row == [i \in Four |-> GSum(m[i])]
             col == [j \in Four |-> GSum([i \in Four |-> m[i][j]])]
  <1>4. \A i \in Four : /\ row[i][1] = m[i][1][1] + m[i][2][1] + m[i][3][1] + m[i][4][1]
                        /\ row[i][2] = m[i][1][2] + m[i][2][2] + m[i][3][2] + m[i][4][2]
    BY DEF GSum
  <1>5. \A i \in Four : /\ col[i][1] = m[1][i][1] + m[2][i][1] + m[3][i][1] + m[4][i][1]
                        /\ col[i][2] = m[1][i][2] + m[2][i][2] + m[3][i][2] + m[4][i][2]
    BY <1>3 DEF GSum
  <1> HIDE DEF row, col
  <1>6. row[1][1] + row[2][1] + row[3][1] + row[4][1] = col[1][1] + col[2][1] + col[3][1] + col[4][1]
    BY <1>2, <1>3, <1>4, <1>5
  <1>7. row[1][2] + row[2][2] + row[3][2] + row[4][2] = col[1][2] + col[2][2] + col[3][2] + col[4][2]
    BY <1>2, <1>3, <1>4, <1>5
  <1>8. GSum(row) = GSum(col)
    BY <1>6, <1>7 DEF GSum
  <1> QED
    BY <1>8 DEF row, col

\* (A s) . p = s . (A^T p)
LEMMA Exchange ==
  ASSUME NEW A \in Matrices, NEW s \in Vectors, NEW p \in Vectors
  PROVE  Dot(Times(A, s), p) = Dot(s, Times(Turned(A), p))
  <1>1. \A i, j \in Four : A[i] \in Vectors /\ A[i][j] \in Pair /\ s[j] \in Pair /\ p[i] \in Pair
    BY DEF Matrices, Vectors
  <1> DEFINE m == [i \in Four |-> [j \in Four |-> GMul(GMul(A[i][j], s[j]), p[i])]]
  <1>2. m \in Matrices
    BY <1>1, PairRing DEF Matrices, Vectors
  <1>3. ASSUME NEW i \in Four PROVE GMul(Times(A, s)[i], p[i]) = GSum(m[i])
    <2> DEFINE f == [j \in Four |-> GMul(A[i][j], s[j])]
    <2>1. f \in Vectors /\ Times(A, s)[i] = GSum(f)
      BY <1>1, <1>3, DotPair DEF Times, Dot
    <2>2. [j \in Four |-> GMul(f[j], p[i])] = m[i]
      BY <1>3
    <2> HIDE DEF f, m
    <2> QED
      BY <1>1, <1>3, <2>1, <2>2, SumMul
  <1>4. ASSUME NEW j \in Four PROVE GMul(s[j], Times(Turned(A), p)[j]) = GSum([i \in Four |-> m[i][j]])
    <2> DEFINE f == [i \in Four |-> GMul(A[i][j], p[i])]
    <2>1. f = [i \in Four |-> GMul(Turned(A)[j][i], p[i])]
      BY <1>4 DEF Turned
    <2>2. f \in Vectors
      BY <1>1, PairRing DEF Vectors
    <2>3. Times(Turned(A), p)[j] = GSum(f)
      BY <1>4, <2>1 DEF Times, Dot
    <2>4. [i \in Four |-> GMul(s[j], f[i])] = [i \in Four |-> m[i][j]]
      BY <1>1, PairRing
    <2> HIDE DEF f, m
    <2> QED
      BY <1>1, <1>4, <2>2, <2>3, <2>4, SumMul
  <1> HIDE DEF m
  <1>5. [i \in Four |-> GMul(Times(A, s)[i], p[i])] = [i \in Four |-> GSum(m[i])]
    BY <1>3
  <1>6. [j \in Four |-> GMul(s[j], Times(Turned(A), p)[j])] = [j \in Four |-> GSum([i \in Four |-> m[i][j]])]
    BY <1>4
  <1> QED
    BY <1>2, <1>5, <1>6, SumSwap DEF Dot

\* The inner product distributes over the sum of vectors, on either side.
LEMMA DotAdd ==
  ASSUME NEW a \in Vectors, NEW b \in Vectors, NEW c \in Vectors
  PROVE  /\ Dot(VAdd(a, b), c) = GAdd(Dot(a, c), Dot(b, c))
         /\ Dot(c, VAdd(a, b)) = GAdd(Dot(c, a), Dot(c, b))
  <1>1. \A i \in Four : a[i] \in Pair /\ b[i] \in Pair /\ c[i] \in Pair
    BY DEF Vectors
  <1> DEFINE f == [i \in Four |-> GMul(a[i], c[i])]
             g == [i \in Four |-> GMul(b[i], c[i])]
             x == [i \in Four |-> GMul(c[i], a[i])]
             y == [i \in Four |-> GMul(c[i], b[i])]
  <1>2. f \in Vectors /\ g \in Vectors /\ x \in Vectors /\ y \in Vectors
    BY DotPair
  <1>3. ASSUME NEW i \in Four
        PROVE  /\ GMul(VAdd(a, b)[i], c[i]) = GAdd(f[i], g[i])
               /\ GMul(c[i], VAdd(a, b)[i]) = GAdd(x[i], y[i])
    <2>1. VAdd(a, b)[i] = GAdd(a[i], b[i])
      BY DEF VAdd
    <2>2. /\ f[i] = GMul(a[i], c[i]) /\ g[i] = GMul(b[i], c[i])
          /\ x[i] = GMul(c[i], a[i]) /\ y[i] = GMul(c[i], b[i])
      OBVIOUS
    <2> HIDE DEF f, g, x, y
    <2>5. a[i] \in Pair /\ b[i] \in Pair /\ c[i] \in Pair
      BY <1>1, <1>3
    <2>3. GMul(GAdd(a[i], b[i]), c[i]) = GAdd(GMul(a[i], c[i]), GMul(b[i], c[i]))
      BY <2>5, PairDistributes
    <2>4. GMul(c[i], GAdd(a[i], b[i])) = GAdd(GMul(c[i], a[i]), GMul(c[i], b[i]))
      BY <2>5, PairDistributes
    <2> QED
      BY <2>1, <2>2, <2>3, <2>4
  <1>4. Dot(a, c) = GSum(f) /\ Dot(b, c) = GSum(g) /\ Dot(c, a) = GSum(x) /\ Dot(c, b) = GSum(y)
    BY DEF Dot
  <1> HIDE DEF f, g, x, y
  <1>5. [i \in Four |-> GMul(VAdd(a, b)[i], c[i])] = VAdd(f, g)
    BY <1>3 DEF VAdd
  <1>6. [i \in Four |-> GMul(c[i], VAdd(a, b)[i])] = VAdd(x, y)
    BY <1>3 DEF VAdd
  <1> QED
    BY <1>2, <1>4, <1>5, <1>6, SumAdd DEF Dot

----------------------------------------------------------------------------
\* Equal modulo Q.
Like(a, b) ==
  a \in Pair /\ b \in Pair /\ \E d \in Pair : a[1] = b[1] + Q * d[1] /\ a[2] = b[2] + Q * d[2]

\* Being equal modulo Q is an equivalence.
LEMMA LikeIs ==
  /\ \A a \in Pair : Like(a, a)
  /\ \A a, b : Like(a, b) => Like(b, a)
  /\ \A a, b, c : Like(a, b) /\ Like(b, c) => Like(a, c)
  <1>1. ASSUME NEW a \in Pair PROVE Like(a, a)
    <2>1. <<0, 0>> \in Pair /\ a[1] = a[1] + Q * <<0, 0>>[1] /\ a[2] = a[2] + Q * <<0, 0>>[2]
      BY PairCoordinates DEF Pair, Q
    <2> QED
      BY <2>1 DEF Like
  <1>2. ASSUME NEW a, NEW b, Like(a, b) PROVE Like(b, a)
    <2>1. PICK d \in Pair : a[1] = b[1] + Q * d[1] /\ a[2] = b[2] + Q * d[2]
      BY <1>2 DEF Like
    <2> DEFINE e == <<-d[1], -d[2]>>
    <2>2. e \in Pair /\ e[1] = -d[1] /\ e[2] = -d[2]
      BY PairCoordinates DEF Pair
    <2> HIDE DEF e
    <2>3. b[1] = a[1] + Q * e[1] /\ b[2] = a[2] + Q * e[2]
      BY <1>2, <2>1, <2>2, PairCoordinates DEF Like, Q
    <2> QED
      BY <1>2, <2>2, <2>3 DEF Like
  <1>3. ASSUME NEW a, NEW b, NEW c, Like(a, b), Like(b, c) PROVE Like(a, c)
    <2>1. PICK d \in Pair : a[1] = b[1] + Q * d[1] /\ a[2] = b[2] + Q * d[2]
      BY <1>3 DEF Like
    <2>2. PICK e \in Pair : b[1] = c[1] + Q * e[1] /\ b[2] = c[2] + Q * e[2]
      BY <1>3 DEF Like
    <2> DEFINE f == GAdd(d, e)
    <2>3. f \in Pair /\ f[1] = d[1] + e[1] /\ f[2] = d[2] + e[2]
      BY PairRing DEF GAdd
    <2> HIDE DEF f
    <2>4. a[1] = c[1] + Q * f[1] /\ a[2] = c[2] + Q * f[2]
      BY <1>3, <2>1, <2>2, <2>3, PairCoordinates DEF Like, Q
    <2> QED
      BY <1>3, <2>3, <2>4 DEF Like
  <1> QED
    BY <1>1, <1>2, <1>3

\* Reduction of the coordinates changes nothing modulo Q.
LEMMA LikeReduced ==
  ASSUME NEW x \in Int, NEW y \in Int
  PROVE  Like(<<x % Q, y % Q>>, <<x, y>>) /\ x % Q \in 0..(Q - 1) /\ y % Q \in 0..(Q - 1)
  <1>1. /\ x % Q \in 0..(Q - 1) /\ y % Q \in 0..(Q - 1) /\ x \div Q \in Int /\ y \div Q \in Int
        /\ x = Q * (x \div Q) + (x % Q) /\ y = Q * (y \div Q) + (y % Q)
    BY DEF Q
  <1> DEFINE d == <<-(x \div Q), -(y \div Q)>>
  <1>2. d \in Pair /\ d[1] = -(x \div Q) /\ d[2] = -(y \div Q)
    BY <1>1 DEF Pair
  <1>3. <<x % Q, y % Q>> \in Pair /\ <<x, y>> \in Pair
    BY <1>1 DEF Pair, Q
  <1> HIDE DEF d
  <1>4. x % Q = x + Q * d[1] /\ y % Q = y + Q * d[2]
    BY <1>1, <1>2 DEF Q
  <1>5. Like(<<x % Q, y % Q>>, <<x, y>>)
    BY <1>2, <1>3, <1>4 DEF Like
  <1> QED
    BY <1>1, <1>5

\* Sums, differences and products of like pairs are like.
LEMMA LikeRing ==
  ASSUME NEW a, NEW b, NEW x, NEW y, Like(a, x), Like(b, y)
  PROVE  Like(GAdd(a, b), GAdd(x, y)) /\ Like(GSub(a, b), GSub(x, y)) /\ Like(GMul(a, b), GMul(x, y))
  <1>1. PICK d \in Pair : a[1] = x[1] + Q * d[1] /\ a[2] = x[2] + Q * d[2]
    BY DEF Like
  <1>2. PICK e \in Pair : b[1] = y[1] + Q * e[1] /\ b[2] = y[2] + Q * e[2]
    BY DEF Like
  <1>3. /\ a \in Pair /\ b \in Pair /\ x \in Pair /\ y \in Pair
        /\ a[1] \in Int /\ a[2] \in Int /\ b[1] \in Int /\ b[2] \in Int
        /\ x[1] \in Int /\ x[2] \in Int /\ y[1] \in Int /\ y[2] \in Int
        /\ d[1] \in Int /\ d[2] \in Int /\ e[1] \in Int /\ e[2] \in Int /\ Q \in Int
    BY PairCoordinates DEF Like, Q
  <1>4. Like(GAdd(a, b), GAdd(x, y))
    <2> DEFINE f == GAdd(d, e)
    <2>1. f \in Pair /\ f[1] = d[1] + e[1] /\ f[2] = d[2] + e[2]
      BY PairRing DEF GAdd
    <2> HIDE DEF f
    <2>2. GAdd(a, b)[1] = GAdd(x, y)[1] + Q * f[1] /\ GAdd(a, b)[2] = GAdd(x, y)[2] + Q * f[2]
      BY <1>1, <1>2, <1>3, <2>1 DEF GAdd, Q
    <2> QED
      BY <1>3, <2>1, <2>2, PairRing DEF Like
  <1>5. Like(GSub(a, b), GSub(x, y))
    <2> DEFINE f == GSub(d, e)
    <2>1. f \in Pair /\ f[1] = d[1] - e[1] /\ f[2] = d[2] - e[2]
      BY PairRing DEF GSub
    <2> HIDE DEF f
    <2>2. GSub(a, b)[1] = GSub(x, y)[1] + Q * f[1] /\ GSub(a, b)[2] = GSub(x, y)[2] + Q * f[2]
      BY <1>1, <1>2, <1>3, <2>1 DEF GSub, Q
    <2> QED
      BY <1>3, <2>1, <2>2, PairRing DEF Like
  <1>6. Like(GMul(a, b), GMul(x, y))
    <2> DEFINE f1 == (x[1] * e[1] + d[1] * b[1]) - (x[2] * e[2] + d[2] * b[2])
               f2 == (x[1] * e[2] + d[1] * b[2]) + (x[2] * e[1] + d[2] * b[1])
    <2>1. <<f1, f2>> \in Pair /\ f1 \in Int /\ f2 \in Int
      BY <1>3 DEF Pair
    <2>2. ASSUME NEW u \in Int, NEW v \in Int, NEW s \in Int, NEW t \in Int,
                 NEW g \in Int, NEW h \in Int, g = u + Q * s, h = v + Q * t
          PROVE  g * h = u * v + Q * (u * t + s * h)
      <3>1. g * h = u * h + (Q * s) * h
        BY <1>3, <2>2
      <3>2. u * h = u * v + u * (Q * t)
        BY <1>3, <2>2
      <3> QED
        BY <1>3, <3>1, <3>2
    <2>3a. a[1] * b[1] = x[1] * y[1] + Q * (x[1] * e[1] + d[1] * b[1])
      BY <1>1, <1>2, <1>3, <2>2
    <2>3b. a[2] * b[2] = x[2] * y[2] + Q * (x[2] * e[2] + d[2] * b[2])
      BY <1>1, <1>2, <1>3, <2>2
    <2>3c. a[1] * b[2] = x[1] * y[2] + Q * (x[1] * e[2] + d[1] * b[2])
      BY <1>1, <1>2, <1>3, <2>2
    <2>3d. a[2] * b[1] = x[2] * y[1] + Q * (x[2] * e[1] + d[2] * b[1])
      BY <1>1, <1>2, <1>3, <2>2
    <2>4. a[1] * b[1] - a[2] * b[2] = (x[1] * y[1] - x[2] * y[2]) + Q * f1
      BY <1>3, <2>3a, <2>3b
    <2>5. a[1] * b[2] + a[2] * b[1] = (x[1] * y[2] + x[2] * y[1]) + Q * f2
      BY <1>3, <2>3c, <2>3d
    <2> HIDE DEF f1, f2
    <2>6. GMul(a, b)[1] = GMul(x, y)[1] + Q * <<f1, f2>>[1] /\ GMul(a, b)[2] = GMul(x, y)[2] + Q * <<f1, f2>>[2]
      BY <2>4, <2>5 DEF GMul
    <2> QED
      BY <1>3, <2>1, <2>6, PairRing DEF Like
  <1> QED
    BY <1>4, <1>5, <1>6

\* The reducing operations are those of the integers modulo Q, with reduced results.
Reduced == (0..(Q - 1)) \X (0..(Q - 1))

\* The model's operations are those of the pairs, reduced modulo Q.
LEMMA Reduce ==
  ASSUME NEW a \in Pair, NEW b \in Pair
  PROVE  /\ Like(Add(a, b), GAdd(a, b)) /\ Like(Sub(a, b), GSub(a, b)) /\ Like(Mul(a, b), GMul(a, b))
         /\ Add(a, b) \in Reduced /\ Sub(a, b) \in Reduced /\ Mul(a, b) \in Reduced
  <1>1. a[1] \in Int /\ a[2] \in Int /\ b[1] \in Int /\ b[2] \in Int
    BY PairCoordinates
  <1>6. /\ a[1] + b[1] \in Int /\ a[2] + b[2] \in Int /\ a[1] - b[1] \in Int /\ a[2] - b[2] \in Int
    BY <1>1
  <1>2. Like(Add(a, b), GAdd(a, b)) /\ Add(a, b) \in Reduced
    BY <1>6, LikeReduced DEF Add, GAdd, Reduced
  <1>3. Like(Sub(a, b), GSub(a, b)) /\ Sub(a, b) \in Reduced
    BY <1>6, LikeReduced DEF Sub, GSub, Reduced
  <1>4. /\ a[1] * b[1] - a[2] * b[2] \in Int /\ a[1] * b[2] + a[2] * b[1] \in Int
    BY <1>1
  <1>5. Like(Mul(a, b), GMul(a, b)) /\ Mul(a, b) \in Reduced
    BY <1>4, LikeReduced DEF Mul, GMul, Reduced
  <1> QED
    BY <1>2, <1>3, <1>5

\* A reduced polynomial is a pair of integers.
LEMMA ReducedPair == Reduced \subseteq Pair
  <1>1. 0..(Q - 1) \subseteq Int
    BY DEF Q
  <1> QED
    BY <1>1 DEF Reduced, Pair

\* Sums of vectors that are equal modulo Q are equal modulo Q.
LEMMA LikeSum ==
  ASSUME NEW f \in Vectors, NEW g \in Vectors, \A i \in Four : Like(f[i], g[i])
  PROVE  Like(GSum(f), GSum(g))
  <1>1. 1 \in Four /\ 2 \in Four /\ 3 \in Four /\ 4 \in Four
    BY DEF Four
  <1>2. Like(GAdd(f[1], f[2]), GAdd(g[1], g[2]))
    BY <1>1, LikeRing
  <1>3. Like(GAdd(GAdd(f[1], f[2]), f[3]), GAdd(GAdd(g[1], g[2]), g[3]))
    BY <1>1, <1>2, LikeRing
  <1>4. Like(GAdd(GAdd(GAdd(f[1], f[2]), f[3]), f[4]), GAdd(GAdd(GAdd(g[1], g[2]), g[3]), g[4]))
    BY <1>1, <1>3, LikeRing
  <1> QED
    BY <1>4 DEF GSum, GAdd

\* Inner products of like vectors are like.
LEMMA LikeDot ==
  ASSUME NEW a \in Vectors, NEW b \in Vectors, NEW x \in Vectors, NEW y \in Vectors,
         \A i \in Four : Like(a[i], x[i]) /\ Like(b[i], y[i])
  PROVE  Like(Dot(a, b), Dot(x, y))
  <1> DEFINE f == [i \in Four |-> GMul(a[i], b[i])]
             g == [i \in Four |-> GMul(x[i], y[i])]
  <1>1. f \in Vectors /\ g \in Vectors
    BY DotPair
  <1>2. \A i \in Four : Like(f[i], g[i])
    BY LikeRing
  <1> HIDE DEF f, g
  <1>3. Like(GSum(f), GSum(g))
    BY <1>1, <1>2, LikeSum
  <1> QED
    BY <1>3 DEF Dot, f, g

\* A vector of the code, with zeros behind.
Zero   == <<0, 0>>
Pad(v) == [i \in Four |-> IF i <= P.k THEN v[i] ELSE Zero]

\* A vector of the k polynomials of a parameter set, padded.
LEMMA PadVector ==
  ASSUME par \in Pars, NEW v, \A i \in Vec : v[i] \in Pair
  PROVE  Pad(v) \in Vectors
  <1>1. Zero \in Pair
    BY DEF Zero, Pair
  <1>2. \A i \in Four : i <= P.k => i \in Vec
    BY Parameters DEF Four, Vec
  <1> QED
    BY <1>1, <1>2 DEF Pad, Vectors

\* The accumulation of polyvec.c, with the intermediate sums reduced, is an inner product.
LEMMA Accumulates ==
  ASSUME par \in Pars, NEW a, NEW b, \A i \in Vec : a[i] \in Pair /\ b[i] \in Pair
  PROVE  /\ polyvec_basemul_acc(a, b) \in Reduced
         /\ Like(polyvec_basemul_acc(a, b), Dot(Pad(a), Pad(b)))
  <1> DEFINE c1 == Add(Zero, Mul(a[1], b[1]))
             c2 == Add(c1, Mul(a[2], b[2]))
             c3 == Add(c2, Mul(a[3], b[3]))
             c4 == Add(c3, Mul(a[4], b[4]))
             w == [i \in 0..P.k |-> IF i = 0 THEN Zero ELSE IF i = 1 THEN c1 ELSE IF i = 2 THEN c2
                                    ELSE IF i = 3 THEN c3 ELSE c4]
  <1>1. P.k = 2 \/ P.k = 3 \/ P.k = 4
    BY Parameters
  <1>2. w = [i \in 0..P.k |-> IF i = 0 THEN <<0, 0>> ELSE Add(w[i - 1], Mul(a[i], b[i]))]
    <2>1. ASSUME NEW i \in 0..P.k, i # 0 PROVE w[i] = Add(w[i - 1], Mul(a[i], b[i]))
      <3>1. i = 1 \/ i = 2 \/ i = 3 \/ i = 4
        BY <1>1, <2>1
      <3>2. i - 1 \in 0..P.k
        BY <1>1, <2>1
      <3> HIDE DEF c1, c2, c3, c4
      <3>3. CASE i = 1
        BY <2>1, <3>2, <3>3 DEF c1
      <3>4. CASE i = 2
        BY <2>1, <3>2, <3>4 DEF c2
      <3>5. CASE i = 3
        BY <2>1, <3>2, <3>5 DEF c3
      <3>6. CASE i = 4
        BY <2>1, <3>2, <3>6 DEF c4
      <3> QED
        BY <3>1, <3>3, <3>4, <3>5, <3>6
    <2> QED
      BY <2>1 DEF Zero
  <1> DEFINE acc == CHOOSE acc : acc = [i \in 0..P.k |-> IF i = 0 THEN <<0, 0>> ELSE Add(acc[i - 1], Mul(a[i], b[i]))]
  <1> HIDE DEF w
  <1>3. acc = [i \in 0..P.k |-> IF i = 0 THEN <<0, 0>> ELSE Add(acc[i - 1], Mul(a[i], b[i]))]
    BY <1>2
  <1>4. polyvec_basemul_acc(a, b) = acc[P.k]
    BY DEF polyvec_basemul_acc
  <1> HIDE DEF acc
  <1>5. /\ acc[0] = Zero /\ acc[1] = c1 /\ acc[2] = c2
        /\ (P.k >= 3 => acc[3] = c3) /\ (P.k = 4 => acc[4] = c4)
    <2>1. \A i \in 0..P.k : acc[i] = IF i = 0 THEN <<0, 0>> ELSE Add(acc[i - 1], Mul(a[i], b[i]))
      BY <1>3
    <2>2. acc[0] = Zero /\ acc[1] = Add(acc[0], Mul(a[1], b[1])) /\ acc[2] = Add(acc[1], Mul(a[2], b[2]))
      BY <1>1, <2>1 DEF Zero
    <2>3. P.k >= 3 => acc[3] = Add(acc[2], Mul(a[3], b[3]))
      BY <1>1, <2>1
    <2>4. P.k = 4 => acc[4] = Add(acc[3], Mul(a[4], b[4]))
      BY <1>1, <2>1
    <2> QED
      BY <1>1, <2>2, <2>3, <2>4
  <1> DEFINE f == [i \in Four |-> GMul(Pad(a)[i], Pad(b)[i])]
  <1>6. f \in Vectors /\ Dot(Pad(a), Pad(b)) = GSum(f)
    BY PadVector, DotPair DEF Dot
  <1>7. /\ f[1] = GMul(a[1], b[1]) /\ f[2] = GMul(a[2], b[2])
        /\ (P.k >= 3 => f[3] = GMul(a[3], b[3])) /\ (P.k < 3 => f[3] = Zero)
        /\ (P.k = 4 => f[4] = GMul(a[4], b[4])) /\ (P.k < 4 => f[4] = Zero)
    <2>1. GMul(Zero, Zero) = Zero
      BY DEF GMul, Zero
    <2>2. \A i \in Four : f[i] = IF i <= P.k THEN GMul(a[i], b[i]) ELSE Zero
      BY <2>1 DEF Pad
    <2>3. 1 \in Four /\ 2 \in Four /\ 3 \in Four /\ 4 \in Four
      BY DEF Four
    <2> HIDE DEF f
    <2> QED
      BY <1>1, <2>2, <2>3
  <1> HIDE DEF f
  <1>8. ASSUME NEW c, NEW g, Like(c, g), NEW x \in Pair, NEW y \in Pair
        PROVE  /\ Add(c, Mul(x, y)) \in Reduced
               /\ Like(Add(c, Mul(x, y)), GAdd(g, GMul(x, y)))
    <2>1. c \in Pair /\ Mul(x, y) \in Pair
      BY <1>8, Reduce, ReducedPair DEF Like
    <2>2. Add(c, Mul(x, y)) \in Reduced /\ Like(Add(c, Mul(x, y)), GAdd(c, Mul(x, y)))
      BY <2>1, Reduce
    <2>3. Like(Mul(x, y), GMul(x, y))
      BY Reduce
    <2>4. Like(GAdd(c, Mul(x, y)), GAdd(g, GMul(x, y)))
      BY <1>8, <2>3, LikeRing
    <2> QED
      BY <2>2, <2>4, LikeIs
  <1> DEFINE g1 == GAdd(Zero, GMul(a[1], b[1]))
             g2 == GAdd(g1, GMul(a[2], b[2]))
             g3 == GAdd(g2, GMul(a[3], b[3]))
             g4 == GAdd(g3, GMul(a[4], b[4]))
  <1>9. Like(Zero, Zero)
    BY LikeIs DEF Zero, Pair
  <1>10. a[1] \in Pair /\ b[1] \in Pair /\ a[2] \in Pair /\ b[2] \in Pair
    BY <1>1 DEF Vec
  <1>11. c1 \in Reduced /\ Like(c1, g1)
    BY <1>8, <1>9, <1>10
  <1> HIDE DEF c1, g1
  <1>12. c2 \in Reduced /\ Like(c2, g2)
    BY <1>8, <1>10, <1>11
  <1> HIDE DEF c2, g2
  <1>13. ASSUME P.k >= 3 PROVE c3 \in Reduced /\ Like(c3, g3)
    <2>1. a[3] \in Pair /\ b[3] \in Pair
      BY <1>1, <1>13 DEF Vec
    <2> QED
      BY <1>8, <1>12, <2>1
  <1> HIDE DEF c3, g3
  <1>14. ASSUME P.k = 4 PROVE c4 \in Reduced /\ Like(c4, g4)
    <2>1. a[4] \in Pair /\ b[4] \in Pair
      BY <1>1, <1>14 DEF Vec
    <2> QED
      BY <1>8, <1>13, <1>14, <2>1
  <1> HIDE DEF c4, g4
  <1>15. /\ f[1] \in Pair /\ f[2] \in Pair /\ f[3] \in Pair /\ f[4] \in Pair
         /\ f[1][1] \in Int /\ f[1][2] \in Int /\ f[2][1] \in Int /\ f[2][2] \in Int
         /\ f[3][1] \in Int /\ f[3][2] \in Int /\ f[4][1] \in Int /\ f[4][2] \in Int
    BY <1>6, PairCoordinates DEF Vectors, Four
  <1>16. g2 = <<f[1][1] + f[2][1], f[1][2] + f[2][2]>>
    BY <1>7, <1>15 DEF g1, g2, GAdd, Zero
  <1>17. CASE P.k = 2
    <2>1. GSum(f) = g2
      BY <1>7, <1>15, <1>16, <1>17 DEF GSum, Zero
    <2> QED
      BY <1>4, <1>5, <1>6, <1>12, <1>17, <2>1
  <1>18. P.k >= 3 => g3 = <<f[1][1] + f[2][1] + f[3][1], f[1][2] + f[2][2] + f[3][2]>>
    BY <1>7, <1>15, <1>16 DEF g3, GAdd
  <1>19. CASE P.k = 3
    <2>1. GSum(f) = g3
      BY <1>7, <1>15, <1>18, <1>19 DEF GSum, Zero
    <2> QED
      BY <1>4, <1>5, <1>6, <1>13, <1>19, <2>1
  <1>20. CASE P.k = 4
    <2>1. GSum(f) = g4
      BY <1>7, <1>15, <1>18, <1>20 DEF GSum, g4, GAdd
    <2> QED
      BY <1>4, <1>5, <1>6, <1>14, <1>20, <2>1
  <1> QED
    BY <1>1, <1>17, <1>19, <1>20

----------------------------------------------------------------------------
\* Both coordinates are at most n away from zero.
Small(x, n) == x \in Pair /\ x[1] \in -n..n /\ x[2] \in -n..n

\* How far the operations can make small polynomials grow.
LEMMA SmallRing ==
  ASSUME NEW n \in Nat, NEW m \in Nat, NEW x, NEW y, Small(x, n), Small(y, m)
  PROVE  Small(GAdd(x, y), n + m) /\ Small(GSub(x, y), n + m) /\ Small(GMul(x, y), 2 * n * m)
  <1>1. x \in Pair /\ y \in Pair /\ x[1] \in -n..n /\ x[2] \in -n..n /\ y[1] \in -m..m /\ y[2] \in -m..m
    BY DEF Small
  <1>2. Small(GAdd(x, y), n + m)
    BY <1>1, PairRing DEF Small, GAdd
  <1>3. Small(GSub(x, y), n + m)
    BY <1>1, PairRing DEF Small, GSub
  <1>4. ASSUME NEW u \in -n..n, NEW v \in -m..m PROVE u * v \in -(n * m)..(n * m)
    <2>1. u \in Int /\ v \in Int /\ n * m \in Nat
      OBVIOUS
    <2>2. (n - u) * (m + v) >= 0 /\ (n + u) * (m - v) >= 0 /\ (n - u) * (m - v) >= 0 /\ (n + u) * (m + v) >= 0
      OBVIOUS
    <2> QED
      BY <2>1, <2>2
  <1>5. /\ x[1] * y[1] \in -(n * m)..(n * m) /\ x[2] * y[2] \in -(n * m)..(n * m)
        /\ x[1] * y[2] \in -(n * m)..(n * m) /\ x[2] * y[1] \in -(n * m)..(n * m)
    BY <1>1, <1>4
  <1>6. n * m \in Nat /\ 2 * n * m = n * m + n * m
    OBVIOUS
  <1>7. Small(GMul(x, y), 2 * n * m)
    BY <1>1, <1>5, <1>6, PairRing DEF Small, GMul
  <1> QED
    BY <1>2, <1>3, <1>7

\* How far an inner product of four small polynomials can grow.
LEMMA SmallDot ==
  ASSUME NEW n \in Nat, NEW m \in Nat, NEW a \in Vectors, NEW b \in Vectors,
         \A i \in Four : Small(a[i], n) /\ Small(b[i], m)
  PROVE  Small(Dot(a, b), 8 * n * m)
  <1> DEFINE f == [i \in Four |-> GMul(a[i], b[i])]
             q == 2 * n * m
  <1>1. \A i \in Four : Small(f[i], q)
    BY SmallRing
  <1>2. Dot(a, b) = GSum(f) /\ f \in Vectors
    BY DotPair DEF Dot
  <1>3. q \in Nat /\ 8 * n * m = q + q + q + q
    OBVIOUS
  <1> HIDE DEF f, q
  <1>4. \A i \in Four : f[i][1] \in -q..q /\ f[i][2] \in -q..q
    BY <1>1 DEF Small
  <1>5. 1 \in Four /\ 2 \in Four /\ 3 \in Four /\ 4 \in Four
    BY DEF Four
  <1>6. GSum(f)[1] \in -(q + q + q + q)..(q + q + q + q)
    BY <1>3, <1>4, <1>5 DEF GSum
  <1>7. GSum(f)[2] \in -(q + q + q + q)..(q + q + q + q)
    BY <1>3, <1>4, <1>5 DEF GSum
  <1> QED
    BY <1>2, <1>3, <1>6, <1>7, SumPair DEF Small

\* Rounding to d bits and scaling back moves a coefficient by little, modulo Q.
LEMMA RoundingError ==
  ASSUME NEW x \in 0..(Q - 1)
  PROVE  /\ \E e \in -2..2, n \in 0..1 : Unround(10, Round(10, x)) = x + e - Q * n
         /\ \E e \in -2..2, n \in 0..1 : Unround(11, Round(11, x)) = x + e - Q * n
         /\ \E e \in -105..105, n \in 0..1 : Unround(4, Round(4, x)) = x + e - Q * n
         /\ \E e \in -105..105, n \in 0..1 : Unround(5, Round(5, x)) = x + e - Q * n
  <1>1. /\ 2^10 = 1024 /\ 2^11 = 2048 /\ 2^4 = 16 /\ 2^5 = 32 /\ 10 - 1 = 9 /\ 11 - 1 = 10
        /\ 4 - 1 = 3 /\ 5 - 1 = 4 /\ 2^9 = 512 /\ 2^3 = 8 /\ Q = 3329 /\ Q \div 2 = 1664
    BY DEF Q
  <1>2. x \in 0..3328
    BY <1>1
  <1>3. \E e \in -2..2, n \in 0..1 : Unround(10, Round(10, x)) = x + e - Q * n
    <2>1. Unround(10, Round(10, x)) = ((((x * 1024 + 1664) \div 3329) % 1024) * 3329 + 512) \div 1024
      BY <1>1 DEF Unround, Round
    <2>2. \E e \in -2..2, n \in 0..1 :
            ((((x * 1024 + 1664) \div 3329) % 1024) * 3329 + 512) \div 1024 = x + e - 3329 * n
      BY <1>2
    <2> QED
      BY <1>1, <2>1, <2>2
  <1>4. \E e \in -2..2, n \in 0..1 : Unround(11, Round(11, x)) = x + e - Q * n
    <2>1. Unround(11, Round(11, x)) = ((((x * 2048 + 1664) \div 3329) % 2048) * 3329 + 1024) \div 2048
      BY <1>1 DEF Unround, Round
    <2>2. \E e \in -2..2, n \in 0..1 :
            ((((x * 2048 + 1664) \div 3329) % 2048) * 3329 + 1024) \div 2048 = x + e - 3329 * n
      BY <1>2
    <2> QED
      BY <1>1, <2>1, <2>2
  <1>5. \E e \in -105..105, n \in 0..1 : Unround(4, Round(4, x)) = x + e - Q * n
    <2>1. Unround(4, Round(4, x)) = ((((x * 16 + 1664) \div 3329) % 16) * 3329 + 8) \div 16
      BY <1>1 DEF Unround, Round
    <2>2. \E e \in -105..105, n \in 0..1 :
            ((((x * 16 + 1664) \div 3329) % 16) * 3329 + 8) \div 16 = x + e - 3329 * n
      BY <1>2
    <2> QED
      BY <1>1, <2>1, <2>2
  <1>6. \E e \in -105..105, n \in 0..1 : Unround(5, Round(5, x)) = x + e - Q * n
    <2>1. Unround(5, Round(5, x)) = ((((x * 32 + 1664) \div 3329) % 32) * 3329 + 16) \div 32
      BY <1>1 DEF Unround, Round
    <2>2. \E e \in -105..105, n \in 0..1 :
            ((((x * 32 + 1664) \div 3329) % 32) * 3329 + 16) \div 32 = x + e - 3329 * n
      BY <1>2
    <2> QED
      BY <1>1, <2>1, <2>2
  <1> QED
    BY <1>3, <1>4, <1>5, <1>6

\* One bit survives noise of less than a quarter of Q.
LEMMA BitArithmetic ==
  ASSUME NEW m \in 0..1, NEW n \in Int, n >= -831, n <= 831, NEW z \in Int,
         NEW c \in Int, c >= 0, c <= 3328, c = 1665 * m + n + 3329 * z
  PROVE  ((c * 2 + 1664) \div 3329) % 2 = m
  <1>1. CASE m = 0
    <2>1. c = n + 3329 * z
      BY <1>1
    <2>2. z = 0 \/ z = 1
      BY <2>1
    <2>3. (c >= 0 /\ c <= 831) \/ (c >= 2498 /\ c <= 3328)
      BY <2>1, <2>2
    <2>4. (c * 2 + 1664) \div 3329 = 0 \/ (c * 2 + 1664) \div 3329 = 2
      BY <2>3
    <2> QED
      BY <1>1, <2>4
  <1>2. CASE m = 1
    <2>1. c = 1665 + n + 3329 * z
      BY <1>2
    <2>2. z = 0
      BY <2>1
    <2>3. c >= 834 /\ c <= 2496
      BY <2>1, <2>2
    <2>4. (c * 2 + 1664) \div 3329 = 1
      BY <2>3
    <2> QED
      BY <1>2, <2>4
  <1> QED
    BY <1>1, <1>2

\* A coefficient that carries a bit with an error of less than a quarter of Q.
Near(c, m, n, z) == n \in -831..831 /\ z \in Int /\ c = 1665 * m + n + Q * z

\* Such a coefficient is rounded to the bit (poly_tomsg).
LEMMA BitSurvives ==
  ASSUME NEW m \in Bit, NEW n, NEW z, NEW c \in 0..(Q - 1), Near(c, m, n, z)
  PROVE  Round(1, c) = m
  <1>1. 2^1 = 2 /\ Q = 3329 /\ Q \div 2 = 1664 /\ m \in 0..1
    BY DEF Q, Bit
  <1>2. Round(1, c) = ((c * 2 + 1664) \div 3329) % 2
    BY <1>1 DEF Round
  <1>3. c \in Int /\ c >= 0 /\ c <= 3328 /\ n \in Int /\ n >= -831 /\ n <= 831 /\ m \in 0..1 /\ z \in Int
    BY <1>1 DEF Near
  <1>4. c = 1665 * m + n + 3329 * z
    BY <1>1 DEF Near
  <1>5. ((c * 2 + 1664) \div 3329) % 2 = m
    BY <1>3, <1>4, BitArithmetic
  <1> QED
    BY <1>2, <1>5

\* Each bit of a message comes back from under noise of its own.
LEMMA EachBitSurvives ==
  ASSUME NEW m \in Msgs, NEW n, NEW w \in Reduced, Like(w, GAdd(poly_frommsg(m), n))
  PROVE  \A i \in 1..2 : n[i] \in -831..831 => poly_tomsg(w)[i] = m[i]
  <1>1. m[1] \in Bit /\ m[2] \in Bit
    BY DEF Msgs
  <1>2. PICK d \in Pair : /\ w[1] = (1665 * m[1] + n[1]) + Q * d[1]
                          /\ w[2] = (1665 * m[2] + n[2]) + Q * d[2]
    BY DEF Like, GAdd, poly_frommsg
  <1>3. w[1] \in 0..(Q - 1) /\ w[2] \in 0..(Q - 1) /\ d[1] \in Int /\ d[2] \in Int
    BY PairCoordinates DEF Reduced
  <1>4. n[1] \in -831..831 => Round(1, w[1]) = m[1]
    <2> HAVE n[1] \in -831..831
    <2>1. Near(w[1], m[1], n[1], d[1])
      BY <1>2, <1>3 DEF Near
    <2> QED
      BY <1>1, <1>3, <2>1, BitSurvives
  <1>5. n[2] \in -831..831 => Round(1, w[2]) = m[2]
    <2> HAVE n[2] \in -831..831
    <2>1. Near(w[2], m[2], n[2], d[2])
      BY <1>2, <1>3 DEF Near
    <2> QED
      BY <1>1, <1>3, <2>1, BitSurvives
  <1>6. poly_tomsg(w)[1] = Round(1, w[1]) /\ poly_tomsg(w)[2] = Round(1, w[2])
    BY DEF poly_tomsg
  <1> QED
    BY <1>4, <1>5, <1>6

\* A message comes back from under small noise.
LEMMA MessageSurvives ==
  ASSUME NEW m \in Msgs, NEW n, Small(n, 831), NEW w \in Reduced, Like(w, GAdd(poly_frommsg(m), n))
  PROVE  poly_tomsg(w) = m
  <1>1. poly_tomsg(w)[1] = m[1] /\ poly_tomsg(w)[2] = m[2]
    BY EachBitSurvives DEF Small
  <1>2. m = <<m[1], m[2]>> /\ poly_tomsg(w) = <<poly_tomsg(w)[1], poly_tomsg(w)[2]>>
    BY DEF Msgs, poly_tomsg
  <1> QED
    BY <1>1, <1>2

\* What is left of a ciphertext when the product with the secret is taken away: the matrix
\* cancels, and the rest is the message and small noise.
LEMMA MatrixCancels ==
  ASSUME NEW A \in Matrices, NEW s \in Vectors, NEW e \in Vectors, NEW p \in Vectors,
         NEW f \in Vectors, NEW T \in Vectors, NEW S \in Vectors, NEW B \in Vectors,
         NEW M \in Pair, NEW g \in Pair, NEW V,
         \A i \in Four : /\ Like(S[i], s[i])
                         /\ Like(T[i], GAdd(Times(A, s)[i], e[i]))
                         /\ Like(B[i], GAdd(Times(Turned(A), p)[i], f[i])),
         Like(V, GAdd(GAdd(Dot(T, p), g), M))
  PROVE  Like(GSub(V, Dot(S, B)), GAdd(M, GAdd(GSub(Dot(e, p), Dot(s, f)), g)))
  <1> DEFINE As == Times(A, s)
             Atp == Times(Turned(A), p)
             X == Dot(As, p)
             Y == Dot(e, p)
             Z == Dot(s, f)
  <1>1. As \in Vectors
    BY DotPair DEF Times, Matrices, Vectors
  <1>2. Turned(A) \in Matrices
    BY DEF Turned, Matrices, Vectors
  <1>3. Atp \in Vectors
    BY <1>2, DotPair DEF Times, Matrices, Vectors
  <1>4. X = Dot(s, Atp)
    BY Exchange
  <1> HIDE DEF As, Atp
  <1>5. VAdd(As, e) \in Vectors /\ VAdd(Atp, f) \in Vectors /\ X \in Pair /\ Y \in Pair /\ Z \in Pair
    BY <1>1, <1>3, DotPair
  <1>6. \A i \in Four : Like(p[i], p[i])
    BY LikeIs DEF Vectors
  <1>7. \A i \in Four : Like(T[i], VAdd(As, e)[i]) /\ Like(B[i], VAdd(Atp, f)[i])
    BY DEF VAdd, As, Atp
  <1>8. Like(Dot(T, p), Dot(VAdd(As, e), p))
    BY <1>5, <1>6, <1>7, LikeDot
  <1>9. Dot(VAdd(As, e), p) = GAdd(X, Y)
    BY <1>1, DotAdd
  <1>10. Like(Dot(S, B), Dot(s, VAdd(Atp, f)))
    BY <1>5, <1>7, LikeDot
  <1>11. Dot(s, VAdd(Atp, f)) = GAdd(X, Z)
    BY <1>3, <1>4, DotAdd
  <1> HIDE DEF X, Y, Z
  <1>12. Like(g, g) /\ Like(M, M)
    BY LikeIs
  <1>13. Like(GAdd(Dot(T, p), g), GAdd(GAdd(X, Y), g))
    BY <1>8, <1>9, <1>12, LikeRing
  <1>14. Like(GAdd(GAdd(Dot(T, p), g), M), GAdd(GAdd(GAdd(X, Y), g), M))
    BY <1>12, <1>13, LikeRing
  <1>15. Like(V, GAdd(GAdd(GAdd(X, Y), g), M))
    BY <1>14, LikeIs
  <1>16. Like(GSub(V, Dot(S, B)), GSub(GAdd(GAdd(GAdd(X, Y), g), M), GAdd(X, Z)))
    BY <1>10, <1>11, <1>15, LikeRing
  <1>17. /\ X[1] \in Int /\ X[2] \in Int /\ Y[1] \in Int /\ Y[2] \in Int /\ Z[1] \in Int /\ Z[2] \in Int
         /\ g[1] \in Int /\ g[2] \in Int /\ M[1] \in Int /\ M[2] \in Int
    BY <1>5, PairCoordinates
  <1>18. GSub(GAdd(GAdd(GAdd(X, Y), g), M), GAdd(X, Z)) = GAdd(M, GAdd(GSub(Y, Z), g))
    BY <1>17 DEF GAdd, GSub
  <1> QED
    BY <1>16, <1>18 DEF Y, Z

----------------------------------------------------------------------------
\* What is read from a full buffer is what was put there.
LEMMA GetIs ==
  ASSUME NEW bytes, NEW buf, Exact(buf, bytes), NEW at, NEW n, NEW v, <<at, n, v>> \in buf
  PROVE  Get(buf, at, n) = v
  <1> DEFINE g == CHOOSE f \in buf : f[1] = at /\ f[2] = n
  <1>1. \E f \in buf : f[1] = at /\ f[2] = n
    OBVIOUS
  <1>2. g \in buf /\ g[1] = at /\ g[2] = n
    BY <1>1
  <1>3. Get(buf, at, n) = g[3]
    BY <1>1 DEF Get
  <1> HIDE DEF g
  <1>4. at \in Nat /\ n \in Nat /\ n > 0
    BY DEF Exact, Fields
  <1>5. \A f, h \in buf : f[1] < h[1] + h[2] /\ h[1] < f[1] + f[2] => f = h
    BY DEF Exact, Filled
  <1>6. g = <<at, n, v>>
    <2> DEFINE h == <<at, n, v>>
    <2>1. h \in buf /\ h[1] = at /\ h[2] = n
      OBVIOUS
    <2> HIDE DEF h
    <2>2. g[1] < h[1] + h[2] /\ h[1] < g[1] + g[2]
      BY <1>2, <1>4, <2>1
    <2>3. g = h
      BY <1>2, <1>5, <2>1, <2>2
    <2> QED
      BY <2>3 DEF h
  <1> QED
    BY <1>3, <1>6

\* A vector built as a tuple is the function it was built from.
LEMMA Whole ==
  ASSUME par \in Pars, NEW f, f = [i \in Vec |-> f[i]]
  PROVE  SubSeq(f, 1, P.k) = f
  <1>1. P.k \in Nat /\ P.k >= 2
    BY Parameters
  <1>2. f \in [1..P.k -> {f[i] : i \in Vec}]
    BY DEF Vec
  <1>3. SubSeq(f, 1, P.k) = [i \in 1..P.k |-> f[i]]
    BY <1>1, <1>2
  <1> QED
    BY <1>3 DEF Vec

\* A vector reads back from a full buffer that holds its fields.
LEMMA GetVecIs ==
  ASSUME par \in Pars, NEW n \in Nat, NEW bytes, NEW buf, Exact(buf, bytes), NEW vec,
         PutVec(n, vec) \subseteq buf
  PROVE  GetVec(buf, n) = [i \in Vec |-> vec[i]]
  <1> DEFINE f == [i \in Vec |-> Get(buf, n * (i - 1), n)]
  <1>1. GetVec(buf, n) = SubSeq(f, 1, P.k)
    BY DEF GetVec, Vector
  <1>2. f = [i \in Vec |-> f[i]]
    OBVIOUS
  <1>3. ASSUME NEW i \in Vec PROVE f[i] = vec[i]
    <2>1. <<n * (i - 1), n, vec[i]>> \in buf
      BY <1>3 DEF PutVec
    <2>2. Get(buf, n * (i - 1), n) = vec[i]
      BY <2>1, GetIs
    <2> QED
      BY <1>3, <2>2
  <1> HIDE DEF f
  <1>4. SubSeq(f, 1, P.k) = f
    BY <1>2, Whole
  <1> QED
    BY <1>1, <1>2, <1>3, <1>4

\* The two matrices, one the other transposed.
LEMMA MatrixIs ==
  ASSUME par \in Pars, NEW seed
  PROVE  /\ gen_matrix(seed, FALSE) = [i \in Vec |-> [j \in Vec |-> xof(seed, j - 1, i - 1)]]
         /\ gen_matrix(seed, TRUE)  = [i \in Vec |-> [j \in Vec |-> xof(seed, i - 1, j - 1)]]
  <1>1. gen_matrix(seed, FALSE) = [i \in Vec |-> [j \in Vec |-> xof(seed, j - 1, i - 1)]]
    <2> DEFINE f(i) == [j \in Vec |-> xof(seed, j - 1, i - 1)]
               m == [i \in Vec |-> f(i)]
    <2>1. \A i \in Vec : SubSeq(f(i), 1, P.k) = f(i)
      BY Whole
    <2>2. SubSeq(m, 1, P.k) = m
      BY Whole
    <2>3. gen_matrix(seed, FALSE) = SubSeq([i \in Vec |-> SubSeq(f(i), 1, P.k)], 1, P.k)
      BY DEF gen_matrix, Vector
    <2> HIDE DEF f
    <2> QED
      BY <2>1, <2>2, <2>3 DEF f
  <1>2. gen_matrix(seed, TRUE)  = [i \in Vec |-> [j \in Vec |-> xof(seed, i - 1, j - 1)]]
    <2> DEFINE f(i) == [j \in Vec |-> xof(seed, i - 1, j - 1)]
               m == [i \in Vec |-> f(i)]
    <2>1. \A i \in Vec : SubSeq(f(i), 1, P.k) = f(i)
      BY Whole
    <2>2. SubSeq(m, 1, P.k) = m
      BY Whole
    <2>3. gen_matrix(seed, TRUE) = SubSeq([i \in Vec |-> SubSeq(f(i), 1, P.k)], 1, P.k)
      BY DEF gen_matrix, Vector
    <2> HIDE DEF f
    <2> QED
      BY <2>1, <2>2, <2>3 DEF f
  <1> QED
    BY <1>1, <1>2

\* Its elements are reduced, whatever the hash gives.
LEMMA XofReduced ==
  ASSUME NEW id \in Ids, NEW k, NEW a \in Int, NEW b \in Int
  PROVE  xof(<<"rho", id, k>>, a, b) \in Reduced
  <1>1. id \in Int /\ <<"rho", id, k>>[2] = id
    BY MlkemAssumption
  <1>2. (1000 * a + 77 * b + 13 * id + 5) \in Int /\ (911 * b + 3 * a + 29 * id + 7) \in Int
    BY <1>1
  <1> DEFINE u == 1000 * a + 77 * b + 13 * id + 5
             v == 911 * b + 3 * a + 29 * id + 7
  <1>3. xof(<<"rho", id, k>>, a, b) = <<u % Q, v % Q>>
    BY <1>1 DEF xof
  <1> HIDE DEF u, v
  <1>5. u \in Int /\ v \in Int
    BY <1>2 DEF u, v
  <1>4. u % Q \in 0..(Q - 1) /\ v % Q \in 0..(Q - 1)
    BY <1>5, LikeReduced
  <1> QED
    BY <1>3, <1>4 DEF Reduced

\* Noise stays within eta, whatever the PRF gives.
LEMMA NoiseSmall ==
  ASSUME NEW seed, Number(seed) \in Int, NEW nonce \in Int, NEW eta \in 2..3
  PROVE  Small(noise(seed, nonce, eta), eta)
  <1> DEFINE n == Number(seed) + nonce * nonce
  <1>1. n \in Int /\ 3 * n + 1 \in Int
    OBVIOUS
  <1>2. noise(seed, nonce, eta) = <<(n % (2 * eta + 1)) - eta, ((3 * n + 1) % (2 * eta + 1)) - eta>>
    BY DEF noise
  <1> HIDE DEF n
  <1>3. ASSUME NEW x \in Int PROVE (x % (2 * eta + 1)) - eta \in Int /\ (x % (2 * eta + 1)) - eta \in -eta..eta
    <2>1. x % (2 * eta + 1) \in 0..(2 * eta)
      OBVIOUS
    <2> QED
      BY <2>1
  <1>4. /\ (n % (2 * eta + 1)) - eta \in Int /\ ((3 * n + 1) % (2 * eta + 1)) - eta \in Int
        /\ (n % (2 * eta + 1)) - eta \in -eta..eta /\ ((3 * n + 1) % (2 * eta + 1)) - eta \in -eta..eta
    BY <1>1, <1>3
  <1> QED
    BY <1>2, <1>4 DEF Small, Pair

\* A bound may be raised.
LEMMA SmallWider ==
  ASSUME NEW x, NEW n \in Nat, NEW m \in Nat, n <= m, Small(x, n)
  PROVE  Small(x, m)
  BY DEF Small

\* Etas and widths.
LEMMA Widths ==
  ASSUME par \in Pars
  PROVE  P.eta1 \in 2..3 /\ (P.du = 10 \/ P.du = 11) /\ (P.dv = 4 \/ P.dv = 5)
  <1>1. par \in {"mlkem_512", "mlkem_768", "mlkem_1024"}
    BY MlkemAssumption DEF mlkem_par
  <1>2. CASE par = "mlkem_512"
    BY <1>2 DEF P, mlkem_par
  <1>3. CASE par = "mlkem_768"
    BY <1>3 DEF P, mlkem_par
  <1>4. CASE par = "mlkem_1024"
    BY <1>4 DEF P, mlkem_par
  <1> QED
    BY <1>1, <1>2, <1>3, <1>4

\* What key generation computes: the secret s and the error e are small, t = A s + e and
\* s are stored reduced.
IsKey(id, s, e, t, std) ==
  /\ t = [i \in Vec |-> t[i]] /\ std = [i \in Vec |-> std[i]]
  /\ \A i \in Vec :
                 /\ Small(s[i], 3) /\ Small(e[i], 3)
                 /\ t[i] = Add(polyvec_basemul_acc(gen_matrix(<<"rho", id, P.k>>, FALSE)[i], s), e[i])
                 /\ std[i] = <<s[i][1] % Q, s[i][2] % Q>>

\* What kpke_keygen computes is such a key.
LEMMA KeygenIs ==
  ASSUME par \in Pars, NEW id \in Ids
  PROVE  \E s, e, t, std :
           /\ IsKey(id, s, e, t, std)
           /\ kpke_keygen(id).ek = pack_ek(t, <<"rho", id, P.k>>) /\ kpke_keygen(id).dk = PutVec(Poly, std)
  <1> DEFINE rho == <<"rho", id, P.k>>
             sigma == <<"sigma", id, P.k>>
             a == gen_matrix(rho, FALSE)
             s == [i \in Vec |-> noise(sigma, i - 1, P.eta1)]
             e == [i \in Vec |-> noise(sigma, P.k + i - 1, P.eta1)]
             t == [i \in Vec |-> Add(polyvec_basemul_acc(a[i], s), e[i])]
             std == [i \in Vec |-> <<s[i][1] % Q, s[i][2] % Q>>]
  <1>1. SubSeq(s, 1, P.k) = s /\ SubSeq(e, 1, P.k) = e
    BY Whole
  <1>2. SubSeq(t, 1, P.k) = t
    BY Whole
  <1>3. SubSeq(std, 1, P.k) = std
    BY Whole
  <1>4. kpke_keygen(id).ek = pack_ek(t, rho) /\ kpke_keygen(id).dk = PutVec(Poly, std)
    <2> DEFINE g == hash_g_keygen(id)
               a1 == gen_matrix(g.rho, FALSE)
               s1 == Vector(LAMBDA i : noise(g.sigma, i - 1, P.eta1))
               e1 == Vector(LAMBDA i : noise(g.sigma, P.k + i - 1, P.eta1))
               t1 == Vector(LAMBDA i : Add(polyvec_basemul_acc(a1[i], s1), e1[i]))
               std1 == Vector(LAMBDA i : <<s1[i][1] % Q, s1[i][2] % Q>>)
    <2>0. g.rho = rho /\ g.sigma = sigma
      BY DEF hash_g_keygen
    <2>1. kpke_keygen(id).ek = pack_ek(t1, g.rho) /\ kpke_keygen(id).dk = PutVec(Poly, std1)
      BY DEF kpke_keygen, Vector
    <2> HIDE DEF g
    <2>2. s1 = s /\ e1 = e /\ a1 = a
      BY <1>1, <2>0 DEF Vector
    <2> HIDE DEF s1, e1, s, e, a1, a
    <2>3. t1 = t
      BY <1>2, <2>2 DEF Vector
    <2>4. std1 = std
      BY <1>3, <2>2 DEF Vector
    <2> QED
      BY <2>0, <2>1, <2>3, <2>4
  <1>5. Number(sigma) \in Int
    BY MlkemAssumption DEF Number
  <1>6. P.eta1 \in 2..3 /\ P.k \in Int /\ \A i \in Vec : i - 1 \in Int /\ P.k + i - 1 \in Int
    BY Widths, Parameters DEF Vec
  <1> HIDE DEF sigma
  <1>7. \A i \in Vec : Small(s[i], P.eta1) /\ Small(e[i], P.eta1)
    BY <1>5, <1>6, NoiseSmall
  <1> HIDE DEF s, e, t, std
  <1>8. \A i \in Vec : Small(s[i], 3) /\ Small(e[i], 3)
    BY <1>6, <1>7, SmallWider
  <1>9. IsKey(id, s, e, t, std)
    BY <1>8 DEF IsKey, t, std
  <1> QED
    BY <1>4, <1>9

\* What encryption computes from a key (t, rho): b = A^T p + e1 and v = t p + e2 + message,
\* with small p, e1 and e2.
IsCiphertext(seed, t, m, p, e1, e2, b, v) ==
  /\ \A i \in Vec : /\ Small(p[i], 3) /\ Small(e1[i], 2)
                    /\ b[i] = Add(polyvec_basemul_acc(gen_matrix(seed, TRUE)[i], p), e1[i])
  /\ Small(e2, 2)
  /\ v = Add(Add(polyvec_basemul_acc(t, p), e2), poly_frommsg(m))

\* What kpke_encrypt computes is such a ciphertext.
LEMMA EncryptIs ==
  ASSUME par \in Pars, NEW pk, NEW m, NEW coins, Number(coins) \in Int
  PROVE  \E p, e1, e2, b, v :
           /\ IsCiphertext(Get(pk, P.k * Poly, Sym), GetVec(pk, Poly), m, p, e1, e2, b, v)
           /\ kpke_encrypt(pk, m, coins) = pack_ciphertext(b, v)
  <1> DEFINE t == GetVec(pk, Poly)
             seed == Get(pk, P.k * Poly, Sym)
             at == gen_matrix(seed, TRUE)
             p == [i \in Vec |-> noise(coins, Nonces[i], P.eta1)]
             e1 == [i \in Vec |-> noise(coins, Nonces[P.k + i], 2)]
             e2 == noise(coins, Nonces[2 * P.k + 1], 2)
             b == [i \in Vec |-> Add(polyvec_basemul_acc(at[i], p), e1[i])]
             v == Add(Add(polyvec_basemul_acc(t, p), e2), poly_frommsg(m))
  <1>1. SubSeq(p, 1, P.k) = p /\ SubSeq(e1, 1, P.k) = e1
    BY Whole
  <1>2. SubSeq(b, 1, P.k) = b
    BY Whole
  <1>3. kpke_encrypt(pk, m, coins) = pack_ciphertext(b, v)
    <2> DEFINE p1 == Vector(LAMBDA i : noise(coins, Nonces[i], P.eta1))
               e11 == Vector(LAMBDA i : noise(coins, Nonces[P.k + i], 2))
               b1 == Vector(LAMBDA i : Add(polyvec_basemul_acc(at[i], p1), e11[i]))
               v1 == Add(Add(polyvec_basemul_acc(t, p1), e2), poly_frommsg(m))
    <2>1. kpke_encrypt(pk, m, coins) = pack_ciphertext(b1, v1)
      BY DEF kpke_encrypt, Vector
    <2>2. p1 = p /\ e11 = e1
      BY <1>1 DEF Vector
    <2> HIDE DEF p1, e11, p, e1, at, e2, t
    <2>3. b1 = b
      BY <1>2, <2>2 DEF Vector
    <2> QED
      BY <2>1, <2>2, <2>3
  <1>4. P.eta1 \in 2..3 /\ P.k \in Nat
    BY Widths, Parameters
  <1>5. /\ \A i \in Vec : Nonces[i] \in Int /\ Nonces[P.k + i] \in Int
        /\ Nonces[2 * P.k + 1] \in Int
    <2>1. \A n \in 1..(2 * P.k + 1) : Nonces[n] \in Int
      BY <1>4 DEF Nonces
    <2>2. /\ \A i \in Vec : i \in 1..(2 * P.k + 1) /\ P.k + i \in 1..(2 * P.k + 1)
          /\ 2 * P.k + 1 \in 1..(2 * P.k + 1)
      BY <1>4 DEF Vec
    <2> QED
      BY <2>1, <2>2
  <1>6. 2 \in 2..3
    OBVIOUS
  <1>7. \A i \in Vec : Small(p[i], P.eta1) /\ Small(e1[i], 2)
    BY <1>4, <1>5, <1>6, NoiseSmall
  <1>8. Small(e2, 2)
    BY <1>5, <1>6, NoiseSmall
  <1> HIDE DEF p, e1, e2, t, seed
  <1>9. \A i \in Vec : Small(p[i], 3)
    BY <1>4, <1>7, SmallWider
  <1>10. IsCiphertext(seed, t, m, p, e1, e2, b, v)
    BY <1>7, <1>8, <1>9 DEF IsCiphertext
  <1> HIDE DEF b, v
  <1> QED
    BY <1>3, <1>10 DEF seed, t

\* What decryption computes from a packed ciphertext.
LEMMA DecryptIs ==
  ASSUME par \in Pars, NEW key, NEW b, NEW v
  PROVE  \E bb : /\ \A i \in Vec : bb[i] = Decompress(P.du, Compress(P.du, b[i]))
                 /\ kpke_decrypt(key, pack_ciphertext(b, v)) =
                      poly_tomsg(Sub(Decompress(P.dv, Compress(P.dv, v)),
                                     polyvec_basemul_acc(GetVec(key, Poly), bb)))
  <1> DEFINE n == P.du * 32
             c == [i \in Vec |-> Compress(P.du, b[i])]
             ct == pack_ciphertext(b, v)
  <1>1. /\ n \in Nat /\ n > 0 /\ P.dv * 32 \in Nat /\ P.dv * 32 > 0
        /\ P.k * n \in Nat /\ P.k * P.du * 32 = P.k * n
    BY Parameters
  <1>2. SubSeq(c, 1, P.k) = c
    BY Whole
  <1>3. ct = Put(PutVec(n, c), P.k * n, P.dv * 32, Compress(P.dv, v))
    BY <1>1, <1>2 DEF pack_ciphertext, Vector
  <1>4. \A i \in Vec : c[i] = Compress(P.du, b[i])
    OBVIOUS
  <1>5. c = [i \in Vec |-> c[i]]
    OBVIOUS
  <1> HIDE DEF n, c, ct
  <1>6. Exact(PutVec(n, c), P.k * n)
    BY <1>1, VectorExact
  <1>7. /\ Exact(ct, P.k * n + P.dv * 32)
        /\ ct = PutVec(n, c) \cup {<<P.k * n, P.dv * 32, Compress(P.dv, v)>>}
    BY <1>1, <1>3, <1>6, AppendExact
  <1>8. GetVec(ct, n) = c
    BY <1>1, <1>5, <1>7, GetVecIs
  <1>9. Get(ct, P.k * P.du * 32, P.dv * 32) = Compress(P.dv, v)
    <2>1. <<P.k * n, P.dv * 32, Compress(P.dv, v)>> \in ct
      BY <1>7
    <2>2. Get(ct, P.k * n, P.dv * 32) = Compress(P.dv, v)
      BY <1>7, <2>1, GetIs
    <2> QED
      BY <1>1, <2>2
  <1> DEFINE bb == [i \in Vec |-> Decompress(P.du, c[i])]
  <1>10. SubSeq(bb, 1, P.k) = bb
    BY Whole
  <1>11. kpke_decrypt(key, ct) = poly_tomsg(Sub(Decompress(P.dv, Compress(P.dv, v)),
                                     polyvec_basemul_acc(GetVec(key, Poly), SubSeq(bb, 1, P.k))))
    BY <1>8, <1>9 DEF kpke_decrypt, Vector, n
  <1>12. \A i \in Vec : bb[i] = Decompress(P.du, Compress(P.du, b[i]))
    BY <1>4
  <1> HIDE DEF bb
  <1> QED
    BY <1>10, <1>11, <1>12 DEF ct

\* Compression to du or dv bits and back, of a reduced polynomial.
LEMMA DecompressLike ==
  ASSUME par \in Pars, NEW x \in Reduced
  PROVE  /\ \E c : Small(c, 2) /\ Like(Decompress(P.du, Compress(P.du, x)), GAdd(x, c))
         /\ \E c : Small(c, 105) /\ Like(Decompress(P.dv, Compress(P.dv, x)), GAdd(x, c))
  <1>1. x[1] \in 0..(Q - 1) /\ x[2] \in 0..(Q - 1) /\ x[1] \in Int /\ x[2] \in Int
    <2>1. x[1] \in 0..(Q - 1) /\ x[2] \in 0..(Q - 1)
      BY DEF Reduced
    <2>2. 0..(Q - 1) \subseteq Int
      BY DEF Q
    <2> QED
      BY <2>1, <2>2
  <1>2. ASSUME NEW d, NEW w \in Nat, NEW u1 \in -w..w, NEW u2 \in -w..w, NEW n1 \in 0..1, NEW n2 \in 0..1,
               Unround(d, Round(d, x[1])) = x[1] + u1 - Q * n1,
               Unround(d, Round(d, x[2])) = x[2] + u2 - Q * n2
        PROVE  \E c : Small(c, w) /\ Like(Decompress(d, Compress(d, x)), GAdd(x, c))
    <2> DEFINE c == <<u1, u2>>
               z == <<-n1, -n2>>
               y == Decompress(d, Compress(d, x))
    <2>1. c \in Pair /\ z \in Pair /\ c[1] = u1 /\ c[2] = u2 /\ z[1] = -n1 /\ z[2] = -n2
      BY DEF Pair
    <2>2. y = <<x[1] + u1 - Q * n1, x[2] + u2 - Q * n2>>
      BY <1>2 DEF Decompress, Compress
    <2>3. x[1] + u1 - Q * n1 \in Int /\ x[2] + u2 - Q * n2 \in Int
      BY <1>1 DEF Q
    <2>4. GAdd(x, c) = <<x[1] + u1, x[2] + u2>> /\ x[1] + u1 \in Int /\ x[2] + u2 \in Int
      BY <1>1 DEF GAdd
    <2>5. y \in Pair /\ GAdd(x, c) \in Pair
      BY <2>2, <2>3, <2>4 DEF Pair
    <2> HIDE DEF c, z, y
    <2>6. y[1] = GAdd(x, c)[1] + Q * z[1] /\ y[2] = GAdd(x, c)[2] + Q * z[2]
      BY <1>1, <2>1, <2>2, <2>4 DEF Q
    <2>7. Like(y, GAdd(x, c))
      BY <2>1, <2>5, <2>6 DEF Like
    <2>8. Small(c, w)
      BY <2>1 DEF Small
    <2> QED
      BY <2>7, <2>8 DEF y
  <1>3. /\ \E e \in -2..2, n \in 0..1 : Unround(P.du, Round(P.du, x[1])) = x[1] + e - Q * n
        /\ \E e \in -2..2, n \in 0..1 : Unround(P.du, Round(P.du, x[2])) = x[2] + e - Q * n
    BY <1>1, RoundingError, Widths
  <1>4. /\ \E e \in -105..105, n \in 0..1 : Unround(P.dv, Round(P.dv, x[1])) = x[1] + e - Q * n
        /\ \E e \in -105..105, n \in 0..1 : Unround(P.dv, Round(P.dv, x[2])) = x[2] + e - Q * n
    BY <1>1, RoundingError, Widths
  <1>5. \E c : Small(c, 2) /\ Like(Decompress(P.du, Compress(P.du, x)), GAdd(x, c))
    <2>1. PICK u1 \in -2..2, n1 \in 0..1 : Unround(P.du, Round(P.du, x[1])) = x[1] + u1 - Q * n1
      BY <1>3
    <2>2. PICK u2 \in -2..2, n2 \in 0..1 : Unround(P.du, Round(P.du, x[2])) = x[2] + u2 - Q * n2
      BY <1>3
    <2>3. 2 \in Nat
      OBVIOUS
    <2> QED
      BY <1>2, <2>1, <2>2, <2>3
  <1>6. \E c : Small(c, 105) /\ Like(Decompress(P.dv, Compress(P.dv, x)), GAdd(x, c))
    <2>1. PICK u1 \in -105..105, n1 \in 0..1 : Unround(P.dv, Round(P.dv, x[1])) = x[1] + u1 - Q * n1
      BY <1>4
    <2>2. PICK u2 \in -105..105, n2 \in 0..1 : Unround(P.dv, Round(P.dv, x[2])) = x[2] + u2 - Q * n2
      BY <1>4
    <2>3. 105 \in Nat
      OBVIOUS
    <2> QED
      BY <1>2, <2>1, <2>2, <2>3
  <1> QED
    BY <1>5, <1>6

\* The matrix of the code, with zeros around.
Padded(a) == [i \in Four |-> IF i <= P.k THEN Pad(a[i]) ELSE [j \in Four |-> Zero]]

\* The padded matrix, and that kpke_encrypt expands its transpose.
LEMMA PaddedIs ==
  ASSUME par \in Pars, NEW id \in Ids
  PROVE  LET rho == <<"rho", id, P.k>>
             a  == gen_matrix(rho, FALSE)
             at == gen_matrix(rho, TRUE)
         IN  /\ Padded(a) \in Matrices
             /\ \A i, j \in Vec : a[i][j] \in Pair /\ at[i][j] \in Pair
             /\ \A i \in Vec : Padded(a)[i] = Pad(a[i]) /\ Turned(Padded(a))[i] = Pad(at[i])
             /\ \A i \in Four \ Vec : \A j \in Four : Padded(a)[i][j] = Zero /\ Turned(Padded(a))[i][j] = Zero
  <1> DEFINE rho == <<"rho", id, P.k>>
             a  == gen_matrix(rho, FALSE)
             at == gen_matrix(rho, TRUE)
  <1>1. /\ a = [i \in Vec |-> [j \in Vec |-> xof(rho, j - 1, i - 1)]]
        /\ at = [i \in Vec |-> [j \in Vec |-> xof(rho, i - 1, j - 1)]]
    BY MatrixIs
  <1>2. /\ \A i \in Four : i <= P.k <=> i \in Vec
        /\ Vec \subseteq Four /\ \A i \in Vec : i - 1 \in Int
    BY Parameters DEF Vec, Four
  <1>3. \A i, j \in Vec : /\ a[i][j] = xof(rho, j - 1, i - 1) /\ at[i][j] = xof(rho, i - 1, j - 1)
                          /\ xof(rho, i - 1, j - 1) \in Pair
    <2>1. \A i, j \in Vec : xof(rho, i - 1, j - 1) \in Reduced
      BY <1>2, XofReduced
    <2> HIDE DEF rho, a, at
    <2> QED
      BY <1>1, <2>1, ReducedPair
  <1> HIDE DEF rho, a, at
  <1>4. \A i, j \in Vec : a[i][j] \in Pair /\ at[i][j] \in Pair /\ at[i][j] = a[j][i]
    BY <1>3
  <1>5. Zero \in Pair /\ [j \in Four |-> Zero] \in Vectors
    BY DEF Zero, Pair, Vectors
  <1>6. \A i \in Vec : Pad(a[i]) \in Vectors /\ Pad(at[i]) \in Vectors
    BY <1>4, PadVector
  <1>7. Padded(a) \in Matrices
    BY <1>2, <1>5, <1>6 DEF Padded, Matrices
  <1>8. \A i, j \in Four : Padded(a)[i][j] = IF i \in Vec /\ j \in Vec THEN a[i][j] ELSE Zero
    BY <1>2 DEF Padded, Pad
  <1>9. \A i \in Vec : Padded(a)[i] = Pad(a[i])
    BY <1>2 DEF Padded
  <1>10. \A i, j \in Four : Turned(Padded(a))[i][j] = IF i \in Vec /\ j \in Vec THEN a[j][i] ELSE Zero
    BY <1>8 DEF Turned
  <1>11. ASSUME NEW i \in Vec PROVE Turned(Padded(a))[i] = Pad(at[i])
    <2>1. Turned(Padded(a))[i] = [j \in Four |-> Turned(Padded(a))[i][j]]
      BY <1>2, <1>11 DEF Turned
    <2>2. \A j \in Four : Turned(Padded(a))[i][j] = IF j <= P.k THEN at[i][j] ELSE Zero
      BY <1>2, <1>4, <1>10, <1>11
    <2> QED
      BY <2>1, <2>2 DEF Pad
  <1>12. \A i \in Four \ Vec : \A j \in Four : Padded(a)[i][j] = Zero /\ Turned(Padded(a))[i][j] = Zero
    BY <1>8, <1>10
  <1> QED
    BY <1>4, <1>7, <1>9, <1>11, <1>12 DEF rho, a, at

\* One reduced addition on top of something known modulo Q.
LEMMA AddLike ==
  ASSUME NEW x, NEW y, Like(x, y), NEW z \in Pair
  PROVE  Add(x, z) \in Reduced /\ Like(Add(x, z), GAdd(y, z))
  <1>1. x \in Pair /\ Like(z, z)
    BY LikeIs DEF Like
  <1>2. Add(x, z) \in Reduced /\ Like(Add(x, z), GAdd(x, z))
    BY <1>1, Reduce
  <1>3. Like(GAdd(x, z), GAdd(y, z))
    BY <1>1, LikeRing
  <1> QED
    BY <1>2, <1>3, LikeIs

\* A row of zeros.
LEMMA DotZero ==
  ASSUME NEW a, \A j \in Four : a[j] = Zero, NEW b \in Vectors
  PROVE  Dot(a, b) = Zero
  <1>1. \A j \in Four : GMul(a[j], b[j]) = Zero
    <2>1. \A x \in Pair : GMul(Zero, x) = Zero
      BY PairCoordinates DEF GMul, Zero
    <2> QED
      BY <2>1 DEF Vectors
  <1> DEFINE f == [j \in Four |-> GMul(a[j], b[j])]
  <1>2. f[1] = Zero /\ f[2] = Zero /\ f[3] = Zero /\ f[4] = Zero
    BY <1>1 DEF Four
  <1> HIDE DEF f
  <1>3. GSum(f) = Zero
    BY <1>2 DEF GSum, Zero
  <1> QED
    BY <1>3 DEF Dot, f

\* A sum of a matrix row and a small part, over the code's indices and over the padded ones.
LEMMA PadRows ==
  ASSUME par \in Pars, NEW A, NEW a, NEW x, NEW e, NEW y, Pad(x) \in Vectors,
         \A i \in Vec : A[i] = Pad(a[i]) /\ Like(y[i], GAdd(Dot(Pad(a[i]), Pad(x)), e[i])),
         \A i \in Four \ Vec : \A j \in Four : A[i][j] = Zero
  PROVE  \A i \in Four : Like(Pad(y)[i], GAdd(Times(A, Pad(x))[i], Pad(e)[i]))
  <1>1. \A i \in Four : i <= P.k <=> i \in Vec
    BY Parameters DEF Vec, Four
  <1>2. ASSUME NEW i \in Four PROVE Like(Pad(y)[i], GAdd(Times(A, Pad(x))[i], Pad(e)[i]))
    <2>1. Times(A, Pad(x))[i] = Dot(A[i], Pad(x))
      BY <1>2 DEF Times
    <2>2. CASE i \in Vec
      <3>1. Pad(y)[i] = y[i] /\ Pad(e)[i] = e[i]
        BY <1>1, <1>2, <2>2 DEF Pad
      <3> QED
        BY <2>1, <2>2, <3>1
    <2>3. CASE i \notin Vec
      <3>1. Pad(y)[i] = Zero /\ Pad(e)[i] = Zero
        BY <1>1, <1>2, <2>3 DEF Pad
      <3>2. Dot(A[i], Pad(x)) = Zero
        BY <1>2, <2>3, DotZero
      <3>3. GAdd(Zero, Zero) = Zero /\ Zero \in Pair
        BY DEF GAdd, Zero, Pair
      <3> QED
        BY <2>1, <3>1, <3>2, <3>3, LikeIs
    <2> QED
      BY <2>2, <2>3
  <1> QED
    BY <1>2

\* A padded vector of small elements is small.
LEMMA PadSmall ==
  ASSUME par \in Pars, NEW n \in Nat, NEW x, \A i \in Vec : Small(x[i], n)
  PROVE  Pad(x) \in Vectors /\ (\A i \in Vec : x[i] \in Pair) /\ \A i \in Four : Small(Pad(x)[i], n)
  <1>1. \A i \in Vec : x[i] \in Pair
    BY DEF Small
  <1>2. \A i \in Four : i <= P.k <=> i \in Vec
    BY Parameters DEF Vec, Four
  <1>3. Small(Zero, n)
    BY DEF Small, Zero, Pair
  <1>4. \A i \in Four : Small(Pad(x)[i], n)
    BY <1>2, <1>3 DEF Pad
  <1> QED
    BY <1>1, <1>4, PadVector

\* The public vector and the two parts of a ciphertext are reduced, and what they are
\* modulo Q.
LEMMA CiphertextLike ==
  ASSUME par \in Pars, NEW id \in Ids, NEW m \in Msgs, NEW s, NEW e, NEW t, NEW std,
         IsKey(id, s, e, t, std), NEW p, NEW e1, NEW e2, NEW b, NEW v,
         IsCiphertext(<<"rho", id, P.k>>, t, m, p, e1, e2, b, v)
  PROVE  LET a  == gen_matrix(<<"rho", id, P.k>>, FALSE)
             at == gen_matrix(<<"rho", id, P.k>>, TRUE)
         IN  /\ \A i \in Vec : Like(t[i], GAdd(Dot(Pad(a[i]), Pad(s)), e[i])) /\ t[i] \in Reduced
             /\ \A i \in Vec : Like(b[i], GAdd(Dot(Pad(at[i]), Pad(p)), e1[i])) /\ b[i] \in Reduced
             /\ v \in Reduced /\ Like(v, GAdd(GAdd(Dot(Pad(t), Pad(p)), e2), poly_frommsg(m)))
  <1> DEFINE rho == <<"rho", id, P.k>>
             a  == gen_matrix(rho, FALSE)
             at == gen_matrix(rho, TRUE)
             A  == Padded(a)
             M  == poly_frommsg(m)
  <1>1. /\ A \in Matrices
        /\ \A i, j \in Vec : a[i][j] \in Pair /\ at[i][j] \in Pair
        /\ \A i \in Vec : A[i] = Pad(a[i]) /\ Turned(A)[i] = Pad(at[i])
        /\ \A i \in Four \ Vec : \A j \in Four : A[i][j] = Zero /\ Turned(A)[i][j] = Zero
    BY PaddedIs
  <1>2. \A i \in Vec : /\ Small(s[i], 3) /\ Small(e[i], 3) /\ Small(p[i], 3) /\ Small(e1[i], 2)
                       /\ t[i] = Add(polyvec_basemul_acc(a[i], s), e[i])
                       /\ std[i] = <<s[i][1] % Q, s[i][2] % Q>>
                       /\ b[i] = Add(polyvec_basemul_acc(at[i], p), e1[i])
    BY DEF IsKey, IsCiphertext
  <1>3. Small(e2, 2) /\ v = Add(Add(polyvec_basemul_acc(t, p), e2), M)
    BY DEF IsCiphertext
  <1>4. M \in Pair
    <2>1. m[1] \in Int /\ m[2] \in Int
      BY DEF Msgs, Bit
    <2> QED
      BY <2>1 DEF poly_frommsg, Pair
  <1> HIDE DEF rho, a, at, A, M
  <1>5. /\ Pad(s) \in Vectors /\ Pad(e) \in Vectors /\ Pad(p) \in Vectors
        /\ \A i \in Vec : s[i] \in Pair /\ e[i] \in Pair /\ p[i] \in Pair /\ e1[i] \in Pair
        /\ \A i \in Four : Small(Pad(s)[i], 3) /\ Small(Pad(e)[i], 3) /\ Small(Pad(p)[i], 3)
    BY <1>2, PadSmall
  <1>6. \A i \in Vec : Like(t[i], GAdd(Dot(Pad(a[i]), Pad(s)), e[i])) /\ t[i] \in Reduced
    <2> TAKE i \in Vec
    <2>1. Like(polyvec_basemul_acc(a[i], s), Dot(Pad(a[i]), Pad(s)))
      BY <1>1, <1>5, Accumulates
    <2> QED
      BY <1>2, <1>5, <2>1, AddLike
  <1>7. \A i \in Vec : Like(b[i], GAdd(Dot(Pad(at[i]), Pad(p)), e1[i])) /\ b[i] \in Reduced
    <2> TAKE i \in Vec
    <2>1. Like(polyvec_basemul_acc(at[i], p), Dot(Pad(at[i]), Pad(p)))
      BY <1>1, <1>5, Accumulates
    <2> QED
      BY <1>2, <1>5, <2>1, AddLike
  <1>8. \A i \in Vec : t[i] \in Pair
    BY <1>6, ReducedPair
  <1>9. /\ v \in Reduced
        /\ Like(v, GAdd(GAdd(Dot(Pad(t), Pad(p)), e2), M))
    <2>1. Like(polyvec_basemul_acc(t, p), Dot(Pad(t), Pad(p)))
      BY <1>5, <1>8, Accumulates
    <2>2. e2 \in Pair
      BY <1>3 DEF Small
    <2>3. Like(Add(polyvec_basemul_acc(t, p), e2), GAdd(Dot(Pad(t), Pad(p)), e2))
      BY <2>1, <2>2, AddLike
    <2> QED
      BY <1>3, <1>4, <2>3, AddLike
  <1> QED
    BY <1>6, <1>7, <1>9 DEF rho, a, at, M

\* What is left of the noise of a key and of an encryption in a decryption: e and s are the
\* key's, p, e1 and e2 the encryption's, c and cv what compression rounded off.
LeftOver(s, e, p, e1, e2, c, cv) ==
  GAdd(GSub(Dot(Pad(e), Pad(p)), Dot(Pad(s), Pad([i \in Vec |-> GAdd(e1[i], c[i])]))), GAdd(e2, cv))

\* How far decompression is off the two parts of a ciphertext.
RoundedOff(b, v, c, cv) ==
  /\ \A i \in Vec : /\ Small(c[i], 2)
                    /\ Like(Decompress(P.du, Compress(P.du, b[i])), GAdd(b[i], c[i]))
  /\ Small(cv, 105)
  /\ Like(Decompress(P.dv, Compress(P.dv, v)), GAdd(v, cv))

\* got is the rounding of w, which is the message plus the noise that is left; each bit
\* whose noise is at most 831 in size, a quarter of Q, survives.
Rounds(m, left, w, got) ==
  /\ w \in Reduced
  /\ Like(w, GAdd(poly_frommsg(m), left))
  /\ got = poly_tomsg(w)
  /\ \A n \in 1..2 : left[n] \in -831..831 => got[n] = m[n]

\* kpke_decrypt, for every key, message and noise that keygen and encrypt draw (KeygenIs and
\* EncryptIs say that these are IsKey and IsCiphertext): it rounds exactly the message plus
\* e.p - s.(e1 + c) + e2 + cv, where c and cv are what the two compressed parts of the
\* ciphertext are off; and each bit whose noise is at most 831 in size comes back. Products are
\* of the model's polynomials, with two coefficients; but how large the noise gets is left open,
\* so that no case is excluded for there being only two.
THEOREM DecryptionNoise ==
  ASSUME par \in Pars, NEW id \in Ids, NEW m \in Msgs, NEW s, NEW e, NEW t, NEW std,
         IsKey(id, s, e, t, std), NEW p, NEW e1, NEW e2, NEW b, NEW v,
         IsCiphertext(<<"rho", id, P.k>>, t, m, p, e1, e2, b, v),
         NEW key, GetVec(key, Poly) = std
  PROVE  \E c, cv, w :
           /\ RoundedOff(b, v, c, cv)
           /\ Rounds(m, LeftOver(s, e, p, e1, e2, c, cv), w, kpke_decrypt(key, pack_ciphertext(b, v)))
  <1> DEFINE rho == <<"rho", id, P.k>>
             a  == gen_matrix(rho, FALSE)
             at == gen_matrix(rho, TRUE)
             A  == Padded(a)
             M  == poly_frommsg(m)
  <1>1. /\ A \in Matrices
        /\ \A i, j \in Vec : a[i][j] \in Pair /\ at[i][j] \in Pair
        /\ \A i \in Vec : A[i] = Pad(a[i]) /\ Turned(A)[i] = Pad(at[i])
        /\ \A i \in Four \ Vec : \A j \in Four : A[i][j] = Zero /\ Turned(A)[i][j] = Zero
    BY PaddedIs
  <1>2. \A i \in Vec : /\ Small(s[i], 3) /\ Small(e[i], 3) /\ Small(p[i], 3) /\ Small(e1[i], 2)
                       /\ t[i] = Add(polyvec_basemul_acc(a[i], s), e[i])
                       /\ std[i] = <<s[i][1] % Q, s[i][2] % Q>>
                       /\ b[i] = Add(polyvec_basemul_acc(at[i], p), e1[i])
    BY DEF IsKey, IsCiphertext
  <1>3. Small(e2, 2) /\ v = Add(Add(polyvec_basemul_acc(t, p), e2), M)
    BY DEF IsCiphertext
  <1>4. M \in Pair
    <2>1. m[1] \in Int /\ m[2] \in Int
      BY DEF Msgs, Bit
    <2> QED
      BY <2>1 DEF poly_frommsg, Pair
  <1> HIDE DEF rho, a, at, A, M
  <1>5. /\ Pad(s) \in Vectors /\ Pad(e) \in Vectors /\ Pad(p) \in Vectors
        /\ \A i \in Vec : s[i] \in Pair /\ e[i] \in Pair /\ p[i] \in Pair /\ e1[i] \in Pair
        /\ \A i \in Four : Small(Pad(s)[i], 3) /\ Small(Pad(e)[i], 3) /\ Small(Pad(p)[i], 3)
    BY <1>2, PadSmall
  <1>6. \A i \in Vec : Like(t[i], GAdd(Dot(Pad(a[i]), Pad(s)), e[i])) /\ t[i] \in Reduced
    BY CiphertextLike DEF rho, a
  <1>7. \A i \in Vec : Like(b[i], GAdd(Dot(Pad(at[i]), Pad(p)), e1[i])) /\ b[i] \in Reduced
    BY CiphertextLike DEF rho, at
  <1>8. \A i \in Vec : t[i] \in Pair
    BY <1>6, ReducedPair
  <1>9. v \in Reduced /\ Like(v, GAdd(GAdd(Dot(Pad(t), Pad(p)), e2), M))
    BY CiphertextLike DEF M
  <1>10. PICK bb : /\ \A i \in Vec : bb[i] = Decompress(P.du, Compress(P.du, b[i]))
                   /\ kpke_decrypt(key, pack_ciphertext(b, v)) =
                        poly_tomsg(Sub(Decompress(P.dv, Compress(P.dv, v)),
                                       polyvec_basemul_acc(std, bb)))
    BY DecryptIs
  <1> DEFINE V == Decompress(P.dv, Compress(P.dv, v))
  <1>11. PICK cv : Small(cv, 105) /\ Like(V, GAdd(v, cv))
    BY <1>9, DecompressLike
  <1> HIDE DEF V
  <1>12. \A i \in Vec : \E c : Small(c, 2) /\ Like(bb[i], GAdd(b[i], c))
    BY <1>7, <1>10, DecompressLike
  <1> DEFINE c == [i \in Vec |-> CHOOSE x : Small(x, 2) /\ Like(bb[i], GAdd(b[i], x))]
  <1>13. \A i \in Vec : Small(c[i], 2) /\ Like(bb[i], GAdd(b[i], c[i]))
    BY <1>12
  <1> HIDE DEF c
  <1> DEFINE f == [i \in Vec |-> GAdd(e1[i], c[i])]
             g == GAdd(e2, cv)
  <1>14. \A i \in Vec : Small(f[i], 4) /\ Like(bb[i], GAdd(Dot(Pad(at[i]), Pad(p)), f[i]))
    <2> TAKE i \in Vec
    <2> DEFINE D == Dot(Pad(at[i]), Pad(p))
    <2>1. f[i] = GAdd(e1[i], c[i])
      OBVIOUS
    <2>2. Small(GAdd(e1[i], c[i]), 2 + 2)
      BY <1>2, <1>13, SmallRing
    <2>3. D \in Pair
      BY <1>1, <1>5, PadVector, DotPair
    <2>4. c[i] \in Pair /\ Like(c[i], c[i])
      BY <1>13, LikeIs DEF Small
    <2> HIDE DEF D
    <2>5. Like(GAdd(b[i], c[i]), GAdd(GAdd(D, e1[i]), c[i]))
      BY <1>7, <2>4, LikeRing DEF D
    <2>6. GAdd(GAdd(D, e1[i]), c[i]) = GAdd(D, GAdd(e1[i], c[i]))
      <3>1. /\ D[1] \in Int /\ D[2] \in Int /\ e1[i][1] \in Int /\ e1[i][2] \in Int
            /\ c[i][1] \in Int /\ c[i][2] \in Int
        BY <1>5, <2>3, <2>4, PairCoordinates
      <3> QED
        BY <3>1 DEF GAdd
    <2>7. Like(bb[i], GAdd(D, GAdd(e1[i], c[i])))
      BY <1>13, <2>5, <2>6, LikeIs
    <2>8. 2 + 2 = 4
      OBVIOUS
    <2> HIDE DEF f
    <2> QED
      BY <2>1, <2>2, <2>7, <2>8 DEF D
  <1>15. e2 \in Pair /\ cv \in Pair /\ g \in Pair /\ Small(g, 107)
    <2>1. e2 \in Pair /\ cv \in Pair
      BY <1>3, <1>11 DEF Small
    <2>2. Small(g, 2 + 105) /\ 2 + 105 = 107
      BY <1>3, <1>11, SmallRing
    <2> QED
      BY <2>1, <2>2, PairRing
  <1>16. Like(V, GAdd(GAdd(Dot(Pad(t), Pad(p)), g), M))
    <2> DEFINE D == Dot(Pad(t), Pad(p))
    <2>1. D \in Pair
      BY <1>5, <1>8, PadVector, DotPair
    <2>2. Like(cv, cv)
      BY <1>15, LikeIs
    <2> HIDE DEF D
    <2>3. Like(GAdd(v, cv), GAdd(GAdd(GAdd(D, e2), M), cv))
      BY <1>9, <2>2, LikeRing DEF D
    <2>4. GAdd(GAdd(GAdd(D, e2), M), cv) = GAdd(GAdd(D, GAdd(e2, cv)), M)
      <3>1. /\ D[1] \in Int /\ D[2] \in Int /\ e2[1] \in Int /\ e2[2] \in Int
            /\ cv[1] \in Int /\ cv[2] \in Int /\ M[1] \in Int /\ M[2] \in Int
        BY <1>4, <1>15, <2>1, PairCoordinates
      <3> QED
        BY <3>1 DEF GAdd
    <2> QED
      BY <1>11, <2>3, <2>4, LikeIs DEF D
  <1> HIDE DEF f, g
  <1>17. /\ Pad(f) \in Vectors /\ \A i \in Four : Small(Pad(f)[i], 4)
    BY <1>14, PadSmall
  <1>18. \A i \in Vec : bb[i] \in Pair /\ std[i] \in Pair /\ Like(std[i], s[i])
    <2> TAKE i \in Vec
    <2>1. bb[i] \in Pair
      BY <1>14 DEF Like
    <2>2. s[i][1] \in Int /\ s[i][2] \in Int /\ s[i] = <<s[i][1], s[i][2]>>
      BY <1>5, PairCoordinates
    <2>3. Like(std[i], s[i])
      BY <1>2, <2>2, LikeReduced
    <2> QED
      BY <2>1, <2>3 DEF Like
  <1>19. Pad(t) \in Vectors /\ Pad(std) \in Vectors /\ Pad(bb) \in Vectors
    BY <1>8, <1>18, PadVector
  <1>20. \A i \in Four : Like(Pad(t)[i], GAdd(Times(A, Pad(s))[i], Pad(e)[i]))
    BY <1>1, <1>5, <1>6, PadRows
  <1>21. \A i \in Four : Like(Pad(bb)[i], GAdd(Times(Turned(A), Pad(p))[i], Pad(f)[i]))
    BY <1>1, <1>5, <1>14, PadRows
  <1>22. \A i \in Four : Like(Pad(std)[i], Pad(s)[i])
    <2>1. \A i \in Four : i <= P.k <=> i \in Vec
      BY Parameters DEF Vec, Four
    <2>2. Like(Zero, Zero)
      BY LikeIs DEF Zero, Pair
    <2> QED
      BY <1>18, <2>1, <2>2 DEF Pad
  <1> DEFINE N == LeftOver(s, e, p, e1, e2, c, cv)
             w == Sub(V, polyvec_basemul_acc(std, bb))
  <1>23. N = GAdd(GSub(Dot(Pad(e), Pad(p)), Dot(Pad(s), Pad(f))), g)
    BY DEF LeftOver, f, g
  <1> HIDE DEF N
  <1>24. Like(GSub(V, Dot(Pad(std), Pad(bb))), GAdd(M, N))
    BY <1>1, <1>4, <1>5, <1>15, <1>16, <1>17, <1>19, <1>20, <1>21, <1>22, <1>23, MatrixCancels
  <1>25. w \in Reduced /\ Like(w, GAdd(M, N))
    <2>1. /\ polyvec_basemul_acc(std, bb) \in Pair /\ V \in Pair /\ Like(V, V)
          /\ Like(polyvec_basemul_acc(std, bb), Dot(Pad(std), Pad(bb)))
      <3>1. Like(polyvec_basemul_acc(std, bb), Dot(Pad(std), Pad(bb)))
        BY <1>18, Accumulates
      <3>2. polyvec_basemul_acc(std, bb) \in Pair /\ V \in Pair
        BY <1>11, <3>1 DEF Like
      <3> QED
        BY <3>1, <3>2, LikeIs
    <2>2. w \in Reduced /\ Like(w, GSub(V, polyvec_basemul_acc(std, bb)))
      BY <2>1, Reduce
    <2>3. Like(GSub(V, polyvec_basemul_acc(std, bb)), GSub(V, Dot(Pad(std), Pad(bb))))
      BY <2>1, LikeRing
    <2> QED
      BY <1>24, <2>2, <2>3, LikeIs
  <1> HIDE DEF w
  <1>26. \A n \in 1..2 : N[n] \in -831..831 => poly_tomsg(w)[n] = m[n]
    BY <1>25, EachBitSurvives DEF M
  <1>27. RoundedOff(b, v, c, cv)
    <2>1. Like(Decompress(P.dv, Compress(P.dv, v)), GAdd(v, cv))
      BY <1>11 DEF V
    <2>2. \A i \in Vec : Like(Decompress(P.du, Compress(P.du, b[i])), GAdd(b[i], c[i]))
      BY <1>10, <1>13
    <2> QED
      BY <1>11, <1>13, <2>1, <2>2 DEF RoundedOff
  <1>28. kpke_decrypt(key, pack_ciphertext(b, v)) = poly_tomsg(w)
    BY <1>10 DEF w, V
  <1>29. w \in Reduced /\ Like(w, GAdd(poly_frommsg(m), N))
    BY <1>25 DEF M
  <1>30. Rounds(m, N, w, kpke_decrypt(key, pack_ciphertext(b, v)))
    BY <1>26, <1>28, <1>29 DEF Rounds
  <1> QED
    BY <1>27, <1>30 DEF N

\* The noise of the model's two coefficients stays below a quarter of Q. This is where their
\* number is used: with the 256 of the code the same bound exceeds a quarter of Q, and ML-KEM
\* then fails to decrypt with a small probability, which the model does not have.
LEMMA LeftOverOfTwo ==
  ASSUME par \in Pars, NEW s, NEW e, NEW p, NEW e1, NEW e2, NEW c, NEW cv,
         \A i \in Vec : /\ Small(s[i], 3) /\ Small(e[i], 3) /\ Small(p[i], 3)
                        /\ Small(e1[i], 2) /\ Small(c[i], 2),
         Small(e2, 2), Small(cv, 105)
  PROVE  Small(LeftOver(s, e, p, e1, e2, c, cv), 831)
  <1> DEFINE f == [i \in Vec |-> GAdd(e1[i], c[i])]
             g == GAdd(e2, cv)
  <1>1. /\ Pad(s) \in Vectors /\ Pad(e) \in Vectors /\ Pad(p) \in Vectors
        /\ \A i \in Four : Small(Pad(s)[i], 3) /\ Small(Pad(e)[i], 3) /\ Small(Pad(p)[i], 3)
    BY PadSmall
  <1>2. \A i \in Vec : Small(f[i], 4)
    <2> TAKE i \in Vec
    <2>1. Small(GAdd(e1[i], c[i]), 2 + 2) /\ 2 + 2 = 4
      BY SmallRing
    <2> QED
      BY <2>1
  <1>3. Small(g, 107)
    <2>1. Small(g, 2 + 105) /\ 2 + 105 = 107
      BY SmallRing
    <2> QED
      BY <2>1
  <1> HIDE DEF f, g
  <1>4. Pad(f) \in Vectors /\ \A i \in Four : Small(Pad(f)[i], 4)
    BY <1>2, PadSmall
  <1>5. Small(Dot(Pad(e), Pad(p)), 8 * 3 * 3) /\ 8 * 3 * 3 = 72
    BY <1>1, SmallDot
  <1>6. Small(Dot(Pad(s), Pad(f)), 8 * 3 * 4) /\ 8 * 3 * 4 = 96
    BY <1>1, <1>4, SmallDot
  <1>7. Small(GSub(Dot(Pad(e), Pad(p)), Dot(Pad(s), Pad(f))), 72 + 96) /\ 72 + 96 = 168
    BY <1>5, <1>6, SmallRing
  <1>8. /\ Small(GAdd(GSub(Dot(Pad(e), Pad(p)), Dot(Pad(s), Pad(f))), g), 168 + 107)
        /\ 168 + 107 <= 831
    BY <1>3, <1>7, SmallRing
  <1>9. LeftOver(s, e, p, e1, e2, c, cv) = GAdd(GSub(Dot(Pad(e), Pad(p)), Dot(Pad(s), Pad(f))), g)
    BY DEF LeftOver, f, g
  <1> QED
    BY <1>8, <1>9, SmallWider

\* Decryption gives back the message, for every key, message and noise of two coefficients.
LEMMA DecryptsBack ==
  ASSUME par \in Pars, NEW id \in Ids, NEW m \in Msgs, NEW s, NEW e, NEW t, NEW std,
         IsKey(id, s, e, t, std), NEW p, NEW e1, NEW e2, NEW b, NEW v,
         IsCiphertext(<<"rho", id, P.k>>, t, m, p, e1, e2, b, v),
         NEW key, GetVec(key, Poly) = std
  PROVE  kpke_decrypt(key, pack_ciphertext(b, v)) = m
  <1>1. PICK c, cv, w :
          /\ RoundedOff(b, v, c, cv)
          /\ Rounds(m, LeftOver(s, e, p, e1, e2, c, cv), w, kpke_decrypt(key, pack_ciphertext(b, v)))
    BY DecryptionNoise
  <1>2. /\ \A i \in Vec : /\ Small(s[i], 3) /\ Small(e[i], 3) /\ Small(p[i], 3)
                          /\ Small(e1[i], 2) /\ Small(c[i], 2)
        /\ Small(e2, 2) /\ Small(cv, 105)
    BY <1>1 DEF IsKey, IsCiphertext, RoundedOff
  <1>3. Small(LeftOver(s, e, p, e1, e2, c, cv), 831)
    BY <1>2, LeftOverOfTwo
  <1>4. poly_tomsg(w) = m
    BY <1>1, <1>3, MessageSurvives DEF Rounds
  <1> QED
    BY <1>1, <1>4 DEF Rounds

----------------------------------------------------------------------------
\* The decapsulation key of mlkem_keygen_internal, and the encapsulation key that
\* decapsulation finds in it.
DecapsKey(id) ==
  LET kp == kpke_keygen(id)
      d1 == memcpy(kp.dk, P.k * Poly, kp.ek)
      d2 == Put(d1, P.dk_sz - 2 * Sym, Sym, hash_h(kp.ek))
  IN  Put(d2, P.dk_sz - Sym, Sym, <<"z", id>>)

\* The encapsulation key that mlkem_decaps_internal reads out of the decapsulation key.
Inner(key) ==
  {<<f[1] - P.k * Poly, f[2], f[3]>> :
     f \in {g \in key : g[1] >= P.k * Poly /\ g[1] < P.dk_sz - 2 * Sym}}

\* The fields of the encapsulation key.
LEMMA KeyFields ==
  ASSUME par \in Pars, NEW t, t = [i \in Vec |-> t[i]], NEW id
  PROVE  LET pk == pack_ek(t, <<"rho", id, P.k>>)
         IN  /\ GetVec(pk, Poly) = t /\ Get(pk, P.k * Poly, Sym) = <<"rho", id, P.k>>
             /\ Get(pk, 0, Poly) = t[1] /\ Exact(pk, P.ek_sz)
  <1> DEFINE rho == <<"rho", id, P.k>>
             pk == pack_ek(t, rho)
  <1>1. Poly \in Nat /\ Poly > 0 /\ Sym \in Nat /\ Sym > 0 /\ P.k * Poly \in Nat /\ 1 \in Vec
    BY Parameters DEF Poly, Sym, Vec
  <1>2. Exact(PutVec(Poly, t), P.k * Poly)
    BY <1>1, VectorExact
  <1>3. pk = PutVec(Poly, t) \cup {<<P.k * Poly, Sym, rho>>}
    BY <1>1, <1>2, AppendExact DEF pack_ek
  <1>4. Exact(pk, P.ek_sz)
    BY KeyPacked
  <1> HIDE DEF rho, pk
  <1>5. GetVec(pk, Poly) = t
    BY <1>1, <1>3, <1>4, GetVecIs
  <1>6. Get(pk, P.k * Poly, Sym) = rho
    <2>1. <<P.k * Poly, Sym, rho>> \in pk
      BY <1>3
    <2> QED
      BY <1>4, <2>1, GetIs
  <1>7. Get(pk, 0, Poly) = t[1]
    <2>1. <<Poly * (1 - 1), Poly, t[1]>> \in pk
      BY <1>1, <1>3 DEF PutVec
    <2>2. Poly * (1 - 1) = 0
      BY <1>1
    <2>3. <<0, Poly, t[1]>> \in pk
      BY <2>1, <2>2
    <2> QED
      BY <1>4, <2>3, GetIs
  <1> QED
    BY <1>4, <1>5, <1>6, <1>7 DEF rho, pk

\* The fields of the decapsulation key: the secret vector, the encapsulation key, its
\* digest and z.
LEMMA DecapsKeyFields ==
  ASSUME par \in Pars, NEW std, std = [i \in Vec |-> std[i]], NEW pk, Exact(pk, P.ek_sz),
         NEW digest, NEW z
  PROVE  LET d1 == memcpy(PutVec(Poly, std), P.k * Poly, pk)
             d2 == Put(d1, P.dk_sz - 2 * Sym, Sym, digest)
             d3 == Put(d2, P.dk_sz - Sym, Sym, z)
         IN  /\ GetVec(d3, Poly) = std /\ Inner(d3) = pk /\ Exact(d3, P.dk_sz)
             /\ Get(d3, P.dk_sz - Sym, Sym) = z
             /\ Get(d3, P.dk_sz - 2 * Sym, Sym) = digest
  <1> DEFINE d1 == memcpy(PutVec(Poly, std), P.k * Poly, pk)
             d2 == Put(d1, P.dk_sz - 2 * Sym, Sym, digest)
             d3 == Put(d2, P.dk_sz - Sym, Sym, z)
             own == PutVec(Poly, std)
             at == P.k * Poly
             top == P.dk_sz - 2 * Sym
             mv(f) == <<f[1] + at, f[2], f[3]>>
  <1>0. Poly = 384 /\ Sym = 32 /\ P.k \in 2..4
    BY Parameters DEF Poly, Sym
  <1>1. /\ Poly \in Nat /\ Poly > 0 /\ Sym \in Nat /\ Sym > 0
        /\ at \in Nat /\ P.ek_sz \in Nat /\ P.ek_sz > 0 /\ at + P.ek_sz = top
        /\ top \in Nat /\ P.dk_sz - Sym \in Nat /\ top + Sym = P.dk_sz - Sym
        /\ (P.dk_sz - Sym) + Sym = P.dk_sz /\ P.dk_sz - Sym >= top
    BY <1>0, Parameters
  <1>2. Exact(own, at)
    BY <1>1, VectorExact
  <1>3. Exact(d1, at + P.ek_sz)
    BY <1>1, <1>2, CopyExact
  <1>4. d1 = own \cup {mv(f) : f \in pk}
    BY <1>2 DEF memcpy, Exact, Fields
  <1> HIDE DEF d1, own
  <1>5. Exact(d2, top + Sym) /\ d2 = d1 \cup {<<top, Sym, digest>>}
    BY <1>1, <1>3, AppendExact
  <1> HIDE DEF d2
  <1>6. Exact(d3, P.dk_sz) /\ d3 = d2 \cup {<<P.dk_sz - Sym, Sym, z>>}
    <2>1. Exact(d2, P.dk_sz - Sym)
      BY <1>1, <1>5
    <2>2. /\ Exact(d3, (P.dk_sz - Sym) + Sym)
          /\ d3 = d2 \cup {<<P.dk_sz - Sym, Sym, z>>}
      BY <1>1, <2>1, AppendExact
    <2> QED
      BY <1>1, <2>2
  <1> HIDE DEF d3
  <1>7. Get(d3, P.dk_sz - Sym, Sym) = z /\ Get(d3, top, Sym) = digest
    <2>1. <<P.dk_sz - Sym, Sym, z>> \in d3 /\ <<top, Sym, digest>> \in d3
      BY <1>5, <1>6
    <2> HIDE DEF top
    <2> QED
      BY <1>6, <2>1, GetIs
  <1>8. GetVec(d3, Poly) = std
    <2>1. PutVec(Poly, std) \subseteq d3
      BY <1>4, <1>5, <1>6 DEF own
    <2> QED
      BY <1>1, <1>6, <2>1, GetVecIs
  <1>9. \A f \in own : f[1] \in Nat /\ f[1] < at
    BY <1>1, <1>2 DEF Exact, Fields
  <1>10. \A f \in pk : /\ f = <<f[1], f[2], f[3]>> /\ f[1] \in Nat /\ f[2] \in Nat
                       /\ f[2] > 0 /\ f[1] + f[2] <= P.ek_sz
    BY DEF Exact, Fields
  <1>11. \A f \in pk : /\ mv(f)[1] = f[1] + at /\ mv(f)[2] = f[2] /\ mv(f)[3] = f[3]
                       /\ mv(f)[1] >= at /\ mv(f)[1] < top
                       /\ <<mv(f)[1] - at, mv(f)[2], mv(f)[3]>> = f
    <2> TAKE f \in pk
    <2>1. mv(f)[1] = f[1] + at /\ mv(f)[2] = f[2] /\ mv(f)[3] = f[3]
      OBVIOUS
    <2>2. f[1] + at >= at /\ f[1] + at < top /\ (f[1] + at) - at = f[1]
      BY <1>1, <1>10
    <2>3. <<f[1], f[2], f[3]>> = f
      BY <1>10
    <2> HIDE DEF mv, at, top
    <2> QED
      BY <2>1, <2>2, <2>3
  <1> HIDE DEF mv
  <1>12. {g \in d3 : g[1] >= at /\ g[1] < top} = {mv(f) : f \in pk}
    <2>1. \A g \in d3 : g \in own \/ g \in {mv(f) : f \in pk} \/ g[1] = top \/ g[1] = P.dk_sz - Sym
      BY <1>4, <1>5, <1>6
    <2>2. \A f \in pk : mv(f) \in d3
      BY <1>4, <1>5, <1>6
    <2>3. ASSUME NEW g \in d3, g[1] >= at, g[1] < top PROVE g \in {mv(f) : f \in pk}
      BY <1>1, <1>9, <2>1, <2>3
    <2> HIDE DEF at, top
    <2> QED
      BY <1>11, <2>2, <2>3
  <1>13. Inner(d3) = pk
    <2>1. Inner(d3) = {<<g[1] - at, g[2], g[3]>> : g \in {mv(f) : f \in pk}}
      BY <1>12 DEF Inner
    <2> HIDE DEF at, top
    <2> QED
      BY <1>11, <2>1
  <1> QED
    BY <1>6, <1>7, <1>8, <1>13 DEF d3, d2, d1, top

\* The same definitions with the parameter set as an argument.
At(p) == INSTANCE MlkemKem WITH par <- p

\* Nothing but the parameter set enters the operators that fill and read buffers.
LEMMA SameOperators ==
  /\ P = At(par)!P /\ Vec = At(par)!Vec /\ Poly = At(par)!Poly /\ Sym = At(par)!Sym /\ Q = At(par)!Q /\ Nonces = At(par)!Nonces
  /\ \A a, b : /\ Add(a, b) = At(par)!Add(a, b)
               /\ polyvec_basemul_acc(a, b) = At(par)!polyvec_basemul_acc(a, b)
               /\ Compress(a, b) = At(par)!Compress(a, b)
               /\ PutVec(a, b) = At(par)!PutVec(a, b)
               /\ GetVec(a, b) = At(par)!GetVec(a, b)
               /\ hash_g(a, b) = At(par)!hash_g(a, b)
               /\ gen_matrix(a, b) = At(par)!gen_matrix(a, b)
  /\ \A a, b, c : Get(a, b, c) = At(par)!Get(a, b, c) /\ noise(a, b, c) = At(par)!noise(a, b, c)
  /\ \A a, b, c, d : Put(a, b, c, d) = At(par)!Put(a, b, c, d)
  /\ \A a : poly_frommsg(a) = At(par)!poly_frommsg(a) /\ hash_h(a) = At(par)!hash_h(a) /\ hash_g_keygen(a) = At(par)!hash_g_keygen(a)
  /\ \A a, b, c : Draws(a, b, c) = At(par)!Draws(a, b, c)
  <1>1. P = At(par)!P
    BY DEF P, At!P, mlkem_par, At!mlkem_par
  <1>2. Vec = At(par)!Vec /\ Poly = At(par)!Poly /\ Sym = At(par)!Sym /\ Q = At(par)!Q /\ Nonces = At(par)!Nonces
    BY <1>1 DEF Vec, At!Vec, Poly, At!Poly, Sym, At!Sym, Q, At!Q, Nonces, At!Nonces
  <1>3. \A a, b, c : Get(a, b, c) = At(par)!Get(a, b, c)
    BY DEF Get, At!Get, Garbage, At!Garbage
  <1>4. \A a, b, c : noise(a, b, c) = At(par)!noise(a, b, c)
    <2>1. \A a : Number(a) = At(par)!Number(a)
      BY <1>2, <1>3 DEF Number, At!Number
    <2> QED
      BY <2>1 DEF noise, At!noise
  <1>5. \A a, b, c, d : Put(a, b, c, d) = At(par)!Put(a, b, c, d)
    BY DEF Put, At!Put
  <1>6. \A a, b : Add(a, b) = At(par)!Add(a, b) /\ Mul(a, b) = At(par)!Mul(a, b)
    BY <1>2 DEF Add, At!Add, Mul, At!Mul
  <1>7. \A a, b : polyvec_basemul_acc(a, b) = At(par)!polyvec_basemul_acc(a, b)
    BY DEF polyvec_basemul_acc, At!polyvec_basemul_acc, P, At!P, mlkem_par, At!mlkem_par, Add, At!Add, Mul, At!Mul, Q, At!Q
  <1>8. \A a, b : Compress(a, b) = At(par)!Compress(a, b)
    BY DEF Compress, At!Compress, Round, At!Round, Q, At!Q
  <1>9. \A a, b : PutVec(a, b) = At(par)!PutVec(a, b)
    BY <1>2 DEF PutVec, At!PutVec
  <1>10. \A a, b : GetVec(a, b) = At(par)!GetVec(a, b)
    BY DEF GetVec, At!GetVec, Vector, At!Vector, Vec, At!Vec, P, At!P, mlkem_par, At!mlkem_par, Get, At!Get, Garbage, At!Garbage
  <1>11. \A a, b : gen_matrix(a, b) = At(par)!gen_matrix(a, b)
    BY DEF gen_matrix, At!gen_matrix, Vector, At!Vector, xof, At!xof, Vec, At!Vec, P, At!P, mlkem_par, At!mlkem_par,  Q, At!Q
  <1>12. \A a : poly_frommsg(a) = At(par)!poly_frommsg(a) /\ hash_h(a) = At(par)!hash_h(a)
    BY DEF poly_frommsg, At!poly_frommsg, hash_h, At!hash_h
  <1>13. \A a : hash_g_keygen(a) = At(par)!hash_g_keygen(a)
    BY <1>1 DEF hash_g_keygen, At!hash_g_keygen
  <1>14. \A a, b : hash_g(a, b) = At(par)!hash_g(a, b)
    BY DEF hash_g, At!hash_g
  <1>15. \A a, b, c : Draws(a, b, c) = At(par)!Draws(a, b, c)
    BY DEF Draws, At!Draws
  <1> QED
    BY <1>1, <1>2, <1>3, <1>4, <1>5, <1>6, <1>7, <1>8, <1>9, <1>10, <1>11, <1>12, <1>13, <1>14, <1>15

\* The same of the packed key and ciphertext.
LEMMA SamePacked ==
  \A a, b : pack_ek(a, b) = At(par)!pack_ek(a, b) /\ pack_ciphertext(a, b) = At(par)!pack_ciphertext(a, b)
  <1>1. \A a, b : pack_ek(a, b) = At(par)!pack_ek(a, b)
    BY SameOperators DEF pack_ek, At!pack_ek
  <1>2. ASSUME NEW a, NEW b PROVE pack_ciphertext(a, b) = At(par)!pack_ciphertext(a, b)
    <2>1. SubSeq([i \in Vec |-> Compress(P.du, a[i])], 1, P.k) = SubSeq([i \in At(par)!Vec |-> At(par)!Compress(At(par)!P.du, a[i])], 1, At(par)!P.k)
      BY SameOperators
    <2> QED
      BY <2>1, SameOperators DEF pack_ciphertext, At!pack_ciphertext, Vector, At!Vector
  <1> QED
    BY <1>1, <1>2

\* The same of an encapsulation.
LEMMA SameEncaps == \A pk, m : EncapsCt(pk, m) = At(par)!EncapsCt(pk, m)
  <1>1. ASSUME NEW pk, NEW m, NEW coins PROVE kpke_encrypt(pk, m, coins) = At(par)!kpke_encrypt(pk, m, coins)
    <2> DEFINE t == GetVec(pk, Poly)
               at == gen_matrix(Get(pk, P.k * Poly, Sym), TRUE)
               p == SubSeq([i \in Vec |-> noise(coins, Nonces[i], P.eta1)], 1, P.k)
               e == SubSeq([i \in Vec |-> noise(coins, Nonces[P.k + i], 2)], 1, P.k)
               e2 == noise(coins, Nonces[2 * P.k + 1], 2)
               b == SubSeq([i \in Vec |-> Add(polyvec_basemul_acc(at[i], p), e[i])], 1, P.k)
               v == Add(Add(polyvec_basemul_acc(t, p), e2), poly_frommsg(m))
               t_ == At(par)!GetVec(pk, At(par)!Poly)
               at_ == At(par)!gen_matrix(At(par)!Get(pk, At(par)!P.k * At(par)!Poly, At(par)!Sym), TRUE)
               p_ == SubSeq([i \in At(par)!Vec |-> At(par)!noise(coins, At(par)!Nonces[i], At(par)!P.eta1)], 1, At(par)!P.k)
               e_ == SubSeq([i \in At(par)!Vec |-> At(par)!noise(coins, At(par)!Nonces[At(par)!P.k + i], 2)], 1, At(par)!P.k)
               e2_ == At(par)!noise(coins, At(par)!Nonces[2 * At(par)!P.k + 1], 2)
               b_ == SubSeq([i \in At(par)!Vec |-> At(par)!Add(At(par)!polyvec_basemul_acc(at_[i], p_), e_[i])], 1, At(par)!P.k)
               v_ == At(par)!Add(At(par)!Add(At(par)!polyvec_basemul_acc(t_, p_), e2_), At(par)!poly_frommsg(m))
    <2>1. kpke_encrypt(pk, m, coins) = pack_ciphertext(b, v)
      BY DEF kpke_encrypt, Vector
    <2>2. At(par)!kpke_encrypt(pk, m, coins) = At(par)!pack_ciphertext(b_, v_)
      BY DEF At!kpke_encrypt, At!Vector
    <2>3. t = t_ /\ at = at_ /\ e2 = e2_
      BY SameOperators
    <2>4. p = p_
      BY SameOperators
    <2>5. e = e_
      BY SameOperators
    <2> HIDE DEF t, t_, at, at_, p, p_, e, e_, e2, e2_
    <2>6. b = b_
      BY <2>3, <2>4, <2>5, SameOperators
    <2>7. v = v_
      BY <2>3, <2>4, SameOperators
    <2> HIDE DEF b, v, b_, v_
    <2> QED
      BY <2>1, <2>2, <2>6, <2>7, SamePacked
  <1> QED
    BY <1>1, SameOperators DEF EncapsCt, At!EncapsCt

\* The same of a key generation.
LEMMA SameKeygen == \A id : kpke_keygen(id) = At(par)!kpke_keygen(id)
  <1> TAKE id
  <1> DEFINE g == hash_g_keygen(id)
             a == gen_matrix(g.rho, FALSE)
             s == SubSeq([i \in Vec |-> noise(g.sigma, i - 1, P.eta1)], 1, P.k)
             e == SubSeq([i \in Vec |-> noise(g.sigma, P.k + i - 1, P.eta1)], 1, P.k)
             t == SubSeq([i \in Vec |-> Add(polyvec_basemul_acc(a[i], s), e[i])], 1, P.k)
             std == SubSeq([i \in Vec |-> <<s[i][1] % Q, s[i][2] % Q>>], 1, P.k)
             g_ == At(par)!hash_g_keygen(id)
             a_ == At(par)!gen_matrix(g_.rho, FALSE)
             s_ == SubSeq([i \in At(par)!Vec |-> At(par)!noise(g_.sigma, i - 1, At(par)!P.eta1)], 1, At(par)!P.k)
             e_ == SubSeq([i \in At(par)!Vec |-> At(par)!noise(g_.sigma, At(par)!P.k + i - 1, At(par)!P.eta1)], 1, At(par)!P.k)
             t_ == SubSeq([i \in At(par)!Vec |-> At(par)!Add(At(par)!polyvec_basemul_acc(a_[i], s_), e_[i])], 1, At(par)!P.k)
             std_ == SubSeq([i \in At(par)!Vec |-> <<s_[i][1] % At(par)!Q, s_[i][2] % At(par)!Q>>], 1, At(par)!P.k)
  <1>1. kpke_keygen(id) = [ek |-> pack_ek(t, g.rho), dk |-> PutVec(Poly, std),
                           drawn |-> Draws(g.sigma, [n \in 1..(2 * P.k) |-> n - 1], <<id>>)]
    BY DEF kpke_keygen, Vector
  <1>2. At(par)!kpke_keygen(id) = [ek |-> At(par)!pack_ek(t_, g_.rho), dk |-> At(par)!PutVec(At(par)!Poly, std_),
                           drawn |-> At(par)!Draws(g_.sigma, [n \in 1..(2 * At(par)!P.k) |-> n - 1], <<id>>)]
    BY DEF At!kpke_keygen, At!Vector
  <1>3. g = g_ /\ a = a_
    BY SameOperators
  <1> HIDE DEF g, g_, a, a_
  <1>4. s = s_
    BY <1>3, SameOperators
  <1>5. e = e_
    BY <1>3, SameOperators
  <1> HIDE DEF s, s_, e, e_
  <1>6. t = t_
    BY <1>3, <1>4, <1>5, SameOperators
  <1>7. std = std_
    BY <1>4, SameOperators
  <1> HIDE DEF t, t_, std, std_
  <1> QED
    BY <1>1, <1>2, <1>3, <1>6, <1>7, SameOperators, SamePacked

----------------------------------------------------------------------------
\* A compressed or a decompressed pair is a pair, and a decoded one a message.
LEMMA CodedPair ==
  ASSUME par \in Pars, NEW x \in Pair, NEW d \in {P.du, P.dv}
  PROVE  Compress(d, x) \in Pair /\ Decompress(d, x) \in Pair /\ poly_tomsg(x) \in Msgs
  <1>1. x[1] \in Int /\ x[2] \in Int /\ Q = 3329 /\ Q \div 2 = 1664
    BY PairCoordinates DEF Q
  <1>2. d = 10 \/ d = 11 \/ d = 4 \/ d = 5
    BY Widths
  <1>3. 2^d \in Int /\ 2^d > 0 /\ 2^(d - 1) \in Int
    <2>1. CASE d = 10
      <3>1. 2^d = 1024 /\ 2^(d - 1) = 512
        BY <2>1
      <3> QED
        BY <3>1
    <2>2. CASE d = 11
      <3>1. 2^d = 2048 /\ 2^(d - 1) = 1024
        BY <2>2
      <3> QED
        BY <3>1
    <2>3. CASE d = 4
      <3>1. 2^d = 16 /\ 2^(d - 1) = 8
        BY <2>3
      <3> QED
        BY <3>1
    <2>4. CASE d = 5
      <3>1. 2^d = 32 /\ 2^(d - 1) = 16
        BY <2>4
      <3> QED
        BY <3>1
    <2> QED
      BY <1>2, <2>1, <2>2, <2>3, <2>4
  <1>4. ASSUME NEW c \in Int PROVE Round(d, c) \in Int /\ Unround(d, c) \in Int
    <2> DEFINE w == 2^d
               h == 2^(d - 1)
    <2>1. w \in Int /\ w > 0 /\ h \in Int
      BY <1>3
    <2> HIDE DEF w, h
    <2>2. c * w + 1664 \in Int /\ c * Q + h \in Int
      BY <1>1, <2>1
    <2>3. (c * w + 1664) \div Q \in Int
      BY <1>1, <2>2
    <2>4. ((c * w + 1664) \div Q) % w \in Int /\ (c * Q + h) \div w \in Int
      BY <2>1, <2>2, <2>3
    <2> QED
      BY <1>1, <2>4 DEF Round, Unround, w, h
  <1>5. ASSUME NEW c \in Int PROVE Round(1, c) \in Bit
    <2>1. 2^1 = 2 /\ (c * 2 + 1664) \div 3329 \in Int
      OBVIOUS
    <2>2. ((c * 2 + 1664) \div 3329) % 2 \in 0..1
      BY <2>1
    <2> QED
      BY <1>1, <2>1, <2>2 DEF Round, Bit
  <1>6. Compress(d, x) \in Pair
    BY <1>1, <1>4 DEF Compress, Pair
  <1>7. Decompress(d, x) \in Pair
    BY <1>1, <1>4 DEF Decompress, Pair
  <1>8. poly_tomsg(x) \in Msgs
    BY <1>1, <1>5 DEF poly_tomsg, Msgs
  <1> QED
    BY <1>6, <1>7, <1>8

\* Ciphertexts hold pairs of du and of dv bits.
Holds(ct) == \A f \in ct : (f[2] = P.du * 32 \/ f[2] = P.dv * 32) /\ f[3] \in Pair

\* What is read from a ciphertext of pairs is a pair, and what is decrypted a message.
LEMMA DecryptsMessage ==
  ASSUME par \in Pars, NEW ct, Holds(ct), NEW key, \A i \in Vec : GetVec(key, Poly)[i] \in Pair
  PROVE  kpke_decrypt(key, ct) \in Msgs
  <1>1. ASSUME NEW at, NEW n PROVE Get(ct, at, n) \in Pair
    <2>1. Garbage \in Pair
      BY DEF Garbage, Pair
    <2>2. \A f \in ct : f[3] \in Pair
      BY DEF Holds
    <2>3. CASE \E f \in ct : f[1] = at /\ f[2] = n
      <3> DEFINE g == CHOOSE f \in ct : f[1] = at /\ f[2] = n
      <3>1. g \in ct /\ Get(ct, at, n) = g[3]
        BY <2>3 DEF Get
      <3> HIDE DEF g
      <3> QED
        BY <2>2, <3>1
    <2>4. CASE ~\E f \in ct : f[1] = at /\ f[2] = n
      BY <2>1, <2>4 DEF Get
    <2> QED
      BY <2>3, <2>4
  <1> DEFINE n == P.du * 32
             cb == [i \in Vec |-> Get(ct, n * (i - 1), n)]
             b == [i \in Vec |-> Decompress(P.du, cb[i])]
             v == Decompress(P.dv, Get(ct, P.k * P.du * 32, P.dv * 32))
             acc == polyvec_basemul_acc(GetVec(key, Poly), b)
  <1>2. SubSeq(cb, 1, P.k) = cb
    BY Whole
  <1>3. SubSeq(b, 1, P.k) = b
    BY Whole
  <1>4. GetVec(ct, n) = cb
    BY <1>2 DEF GetVec, Vector
  <1>5. \A i \in Vec : cb[i] \in Pair
    BY <1>1
  <1> HIDE DEF cb
  <1>6. kpke_decrypt(key, ct) = poly_tomsg(Sub(v, acc))
    BY <1>3, <1>4 DEF kpke_decrypt, Vector
  <1>7. \A i \in Vec : b[i] \in Pair
    BY <1>5, CodedPair
  <1>8. v \in Pair
    BY <1>1, CodedPair
  <1> HIDE DEF b, v
  <1>9. acc \in Pair
    BY <1>7, Accumulates, ReducedPair
  <1> HIDE DEF acc
  <1>10. Sub(v, acc) \in Pair
    BY <1>8, <1>9, Reduce, ReducedPair
  <1>11. poly_tomsg(Sub(v, acc)) \in Msgs
    BY <1>10, CodedPair
  <1> QED
    BY <1>6, <1>11

\* The coins of an encapsulation under a key of this owner are numbers to the PRF.
LEMMA CoinsNumber ==
  ASSUME par \in Pars, NEW m \in Msgs, NEW pk, Get(pk, 0, Poly) \in Pair
  PROVE  Number(hash_g(m, hash_h(pk)).coins) \in Int
  <1> DEFINE coins == <<"coins", m, <<"hash", pk>>>>
  <1>1. hash_g(m, hash_h(pk)).coins = coins
    BY DEF hash_g, hash_h
  <1>2. coins[1] # "sigma" /\ coins[2] = m /\ coins[3][2] = pk
    OBVIOUS
  <1> HIDE DEF coins
  <1>3. Number(coins) = 5 * m[1] + 7 * m[2] + Get(pk, 0, Poly)[1]
    BY <1>2 DEF Number
  <1>4. m[1] \in Int /\ m[2] \in Int /\ Get(pk, 0, Poly)[1] \in Int
    BY PairCoordinates DEF Msgs, Bit
  <1> QED
    BY <1>1, <1>3, <1>4

\* A key pair as generated: every message encapsulated under it is decrypted with it, and
\* decapsulation finds in it the encapsulation key, its digest and the owner's z.
LEMMA KeyOpens ==
  ASSUME par \in Pars, NEW id \in Ids
  PROVE  LET pk == kpke_keygen(id).ek
             sk == DecapsKey(id)
         IN  /\ \A m \in Msgs : kpke_decrypt(sk, EncapsCt(pk, m)) = m /\ Holds(EncapsCt(pk, m))
             /\ \A i \in Vec : GetVec(sk, Poly)[i] \in Pair
             /\ Inner(sk) = pk
             /\ Get(sk, P.dk_sz - Sym, Sym) = <<"z", id>>
             /\ Get(sk, P.dk_sz - 2 * Sym, Sym) = hash_h(pk)
  <1>1. PICK s, e, t, std :
          /\ IsKey(id, s, e, t, std)
          /\ kpke_keygen(id).ek = pack_ek(t, <<"rho", id, P.k>>) /\ kpke_keygen(id).dk = PutVec(Poly, std)
    BY KeygenIs
  <1> DEFINE rho == <<"rho", id, P.k>>
             pk == kpke_keygen(id).ek
             sk == DecapsKey(id)
  <1>2. t = [i \in Vec |-> t[i]] /\ std = [i \in Vec |-> std[i]]
    BY <1>1 DEF IsKey
  <1>3. /\ GetVec(pk, Poly) = t /\ Get(pk, P.k * Poly, Sym) = rho
        /\ Get(pk, 0, Poly) = t[1] /\ Exact(pk, P.ek_sz)
    BY <1>1, <1>2, KeyFields
  <1>4. /\ GetVec(sk, Poly) = std /\ Inner(sk) = pk
        /\ Get(sk, P.dk_sz - Sym, Sym) = <<"z", id>>
        /\ Get(sk, P.dk_sz - 2 * Sym, Sym) = hash_h(pk)
    BY <1>1, <1>2, <1>3, DecapsKeyFields DEF DecapsKey
  <1>5. \A i \in Vec : s[i] \in Pair /\ e[i] \in Pair
    BY <1>1 DEF IsKey, Small
  <1>6. \A i \in Vec : std[i] \in Pair
    <2> TAKE i \in Vec
    <2>1. std[i] = <<s[i][1] % Q, s[i][2] % Q>> /\ s[i][1] \in Int /\ s[i][2] \in Int
      BY <1>1, <1>5, PairCoordinates DEF IsKey
    <2> QED
      BY <2>1, LikeReduced DEF Like
  <1>7. 1 \in Vec
    BY Parameters DEF Vec
  <1>8. t[1] \in Pair
    <2> DEFINE a == gen_matrix(rho, FALSE)[1]
    <2>1. \A j \in Vec : a[j] \in Pair
      BY <1>7, PaddedIs
    <2>2. t[1] = Add(polyvec_basemul_acc(a, s), e[1])
      BY <1>1, <1>7 DEF IsKey
    <2> HIDE DEF a
    <2>3. polyvec_basemul_acc(a, s) \in Pair
      BY <1>5, <2>1, Accumulates, ReducedPair
    <2> QED
      BY <1>5, <1>7, <2>2, <2>3, Reduce, ReducedPair
  <1> HIDE DEF pk, sk, rho
  <1>9. ASSUME NEW m \in Msgs
        PROVE  kpke_decrypt(sk, EncapsCt(pk, m)) = m /\ Holds(EncapsCt(pk, m))
    <2> DEFINE coins == hash_g(m, hash_h(pk)).coins
    <2>1. Number(coins) \in Int
      BY <1>3, <1>8, <1>9, CoinsNumber
    <2>2. EncapsCt(pk, m) = kpke_encrypt(pk, m, coins)
      BY DEF EncapsCt
    <2> HIDE DEF coins
    <2>3. PICK p, e1, e2, b, v :
            /\ IsCiphertext(rho, t, m, p, e1, e2, b, v)
            /\ EncapsCt(pk, m) = pack_ciphertext(b, v)
      BY <1>3, <2>1, <2>2, EncryptIs
    <2>4. kpke_decrypt(sk, pack_ciphertext(b, v)) = m
      BY <1>1, <1>4, <1>9, <2>3, DecryptsBack DEF rho
    <2>5. v \in Reduced /\ \A i \in Vec : b[i] \in Reduced
      BY <1>1, <1>9, <2>3, CiphertextLike DEF rho
    <2>6. Holds(pack_ciphertext(b, v))
      <3> DEFINE c == [i \in Vec |-> Compress(P.du, b[i])]
      <3>1. SubSeq(c, 1, P.k) = c
        BY Whole
      <3>2. \A i \in Vec : c[i] \in Pair
        BY <2>5, CodedPair, ReducedPair
      <3>3. Compress(P.dv, v) \in Pair
        BY <2>5, CodedPair, ReducedPair
      <3>4. pack_ciphertext(b, v) = Put(PutVec(P.du * 32, c), P.k * P.du * 32, P.dv * 32, Compress(P.dv, v))
        BY <3>1 DEF pack_ciphertext, Vector
      <3> HIDE DEF c
      <3>5. \A f \in PutVec(P.du * 32, c) : f[2] = P.du * 32 /\ f[3] \in Pair
        BY <3>2 DEF PutVec
      <3> QED
        BY <3>3, <3>4, <3>5 DEF Put, Holds
    <2> QED
      BY <2>3, <2>4, <2>6
  <1> QED
    BY <1>4, <1>6, <1>9 DEF pk, sk

----------------------------------------------------------------------------
\* The state of an owner's key pair and of the table of its ciphertexts.
KeyState(id) ==
  <<kpke_keygen(id).ek, DecapsKey(id), [m \in Msgs |-> EncapsCt(kpke_keygen(id).ek, m)]>>

\* The buffers of every owner hold what its key generation wrote, and nothing else.
KeysKept ==
  /\ DOMAIN table = Ids
  /\ \A id \in Ids : IF ek[id] = NoBuf THEN table[id] = << >>
                     ELSE <<ek[id], dk[id], table[id]>> = KeyState(id)

\* What is on the way has the fields of a ciphertext, altered or not.
NetHolds == \A ct \in net : Holds(ct)

\* The inductive invariant of the refinement.
RInv == IInv /\ KeysKept /\ NetHolds

\* It depends on the parameter set alone, which does not change.
KeyStateAt(p, id) ==
  LET kp == At(p)!kpke_keygen(id)
      d1 == memcpy(kp.dk, At(p)!P.k * Poly, kp.ek)
      d2 == Put(d1, At(p)!P.dk_sz - 2 * Sym, Sym, hash_h(kp.ek))
  IN  <<kp.ek, Put(d2, At(p)!P.dk_sz - Sym, Sym, <<"z", id>>),
        [m \in Msgs |-> At(p)!EncapsCt(kp.ek, m)]>>

\* The key pair of an owner as a function of the parameter set.
LEMMA KeyStateIs == \A id : KeyState(id) = KeyStateAt(par, id)
  BY SameKeygen, SameEncaps, SameOperators DEF KeyState, KeyStateAt, DecapsKey

\* And so it is in the next state.
LEMMA KeyStateNext == (\A id : KeyState(id) = KeyStateAt(par, id))'
  BY KeyStateIs, PTL

\* A step that keeps the parameter set keeps what a key pair has to be.
LEMMA KeyStateStays ==
  ASSUME par' = par
  PROVE  \A id : KeyState(id)' = KeyState(id)
  BY KeyStateIs, KeyStateNext

\* The invariant of the next state, told in terms of this one.
LEMMA KeptNext ==
  ASSUME par' = par, DOMAIN table' = Ids,
         \A id \in Ids : IF ek'[id] = NoBuf THEN table'[id] = << >>
                         ELSE <<ek'[id], dk'[id], table'[id]>> = KeyState(id)
  PROVE  KeysKept'
  BY KeyStateStays DEF KeysKept, NoBuf

\* The same for the ciphertexts on the way.
LEMMA HoldsNext ==
  ASSUME par' = par, \A ct \in net' : Holds(ct)
  PROVE  NetHolds'
  <1>1. P' = P
    BY DEF P
  <1> QED
    BY <1>1 DEF NetHolds, Holds

\* A step that touches no key buffer keeps the key pairs.
LEMMA KeptSame ==
  ASSUME RInv, UNCHANGED <<par, ek, dk, table>>
  PROVE  KeysKept'
  BY KeptNext DEF RInv, KeysKept

\* What is true of a key pair that exists.
LEMMA PairFacts ==
  ASSUME RInv, NEW id \in Ids, ek[id] # NoBuf
  PROVE  /\ par \in Pars
         /\ ek[id] = kpke_keygen(id).ek /\ dk[id] = DecapsKey(id)
         /\ table[id] = [m \in Msgs |-> EncapsCt(ek[id], m)] /\ table[id] # << >>
         /\ \A m \in Msgs : kpke_decrypt(dk[id], EncapsCt(ek[id], m)) = m /\ Holds(EncapsCt(ek[id], m))
         /\ \A i \in Vec : GetVec(dk[id], Poly)[i] \in Pair
         /\ Inner(dk[id]) = ek[id]
         /\ Get(dk[id], P.dk_sz - Sym, Sym) = <<"z", id>>
         /\ Get(dk[id], P.dk_sz - 2 * Sym, Sym) = hash_h(ek[id])
  <1>1. par \in Pars
    BY DEF RInv, IInv, Domains
  <1>2. <<ek[id], dk[id], table[id]>> = KeyState(id)
    BY DEF RInv, KeysKept
  <1>3. /\ ek[id] = kpke_keygen(id).ek /\ dk[id] = DecapsKey(id)
        /\ table[id] = [m \in Msgs |-> EncapsCt(ek[id], m)]
    BY <1>2 DEF KeyState
  <1>4. <<0, 0>> \in Msgs
    BY DEF Msgs, Bit
  <1>5. table[id] # << >>
    BY <1>3, <1>4
  <1>6. /\ \A m \in Msgs : kpke_decrypt(dk[id], EncapsCt(ek[id], m)) = m /\ Holds(EncapsCt(ek[id], m))
        /\ \A i \in Vec : GetVec(dk[id], Poly)[i] \in Pair
        /\ Inner(dk[id]) = ek[id]
        /\ Get(dk[id], P.dk_sz - Sym, Sym) = <<"z", id>>
        /\ Get(dk[id], P.dk_sz - 2 * Sym, Sym) = hash_h(ek[id])
    BY <1>1, <1>3, KeyOpens
  <1> QED
    BY <1>1, <1>3, <1>5, <1>6

\* mlkem_keygen_internal writes the owner's pair and no other one.
LEMMA KeygenKeeps ==
  ASSUME RInv, NEW id \in Ids, mlkem_keygen_internal(id)
  PROVE  KeysKept' /\ NetHolds' /\ table[id] = << >> /\ table'[id] = [m \in Msgs |-> EncapsCt(kpke_keygen(id).ek, m)]
  <1>1. /\ ek[id] = NoBuf /\ par' = par /\ net' = net
        /\ ek' = [ek EXCEPT ![id] = kpke_keygen(id).ek] /\ dk' = [dk EXCEPT ![id] = DecapsKey(id)]
        /\ table' = [table EXCEPT ![id] = [m \in Msgs |-> EncapsCt(kpke_keygen(id).ek, m)]]
    BY DEF mlkem_keygen_internal, DecapsKey
  <1>2. /\ par \in Pars /\ DOMAIN ek = Ids /\ DOMAIN dk = Ids /\ DOMAIN table = Ids
        /\ table[id] = << >>
    BY <1>1 DEF RInv, IInv, Domains, KeysKept
  <1>3. NetHolds'
    BY <1>1, HoldsNext DEF RInv, NetHolds
  <1>4. kpke_keygen(id).ek # NoBuf
    <2>1. PICK t, std : kpke_keygen(id) =
           [ek |-> pack_ek(t, <<"rho", id, P.k>>), dk |-> PutVec(Poly, std),
            drawn |-> Draws(<<"sigma", id, P.k>>, [n \in 1..(2 * P.k) |-> n - 1], <<id>>)]
      BY KeygenWrites
    <2> QED
      BY <1>2, <2>1, KeyPacked
  <1>5. DOMAIN table' = Ids
    BY <1>1, <1>2
  <1>6. ASSUME NEW o \in Ids
        PROVE  IF ek'[o] = NoBuf THEN table'[o] = << >>
               ELSE <<ek'[o], dk'[o], table'[o]>> = KeyState(o)
    <2>1. CASE o = id
      BY <1>1, <1>2, <1>4, <2>1 DEF KeyState
    <2>2. CASE o # id
      <3>1. ek'[o] = ek[o] /\ dk'[o] = dk[o] /\ table'[o] = table[o]
        BY <1>1, <1>2, <2>2
      <3> QED
        BY <3>1 DEF RInv, KeysKept
    <2> QED
      BY <2>1, <2>2
  <1> QED
    BY <1>1, <1>2, <1>3, <1>5, <1>6, KeptNext

\* mlkem_encaps_internal sends a ciphertext with all its fields.
LEMMA EncapsKeeps ==
  ASSUME RInv, NEW id \in Ids, NEW m \in Msgs, mlkem_encaps_internal(id, m)
  PROVE  KeysKept' /\ NetHolds'
  <1>1. /\ ek[id] # NoBuf /\ UNCHANGED <<par, ek, dk, table>>
        /\ net' = net \cup {EncapsCt(ek[id], m)}
    BY DEF mlkem_encaps_internal, EncapsCt
  <1>2. Holds(EncapsCt(ek[id], m))
    BY <1>1, PairFacts
  <1>3. \A ct \in net' : Holds(ct)
    BY <1>1, <1>2 DEF RInv, NetHolds
  <1> QED
    BY <1>1, <1>3, HoldsNext, KeptSame

\* An alteration on the way leaves the fields of a ciphertext.
LEMMA TamperKeeps ==
  ASSUME RInv, Tamper
  PROVE  KeysKept' /\ NetHolds'
  <1>1. UNCHANGED <<par, ek, dk, table>>
    BY DEF Tamper
  <1>2. PICK ct \in net : \E f \in ct, n \in 1..2 : \E by \in {1, 2^((f[2] \div 32) - 1)} :
           net' = net \cup {Put(ct, f[1], f[2], [f[3] EXCEPT ![n] = (@ + by) % 2^(f[2] \div 32)])}
    BY DEF Tamper
  <1>3. PICK f \in ct, n \in 1..2 : \E by \in {1, 2^((f[2] \div 32) - 1)} :
           net' = net \cup {Put(ct, f[1], f[2], [f[3] EXCEPT ![n] = (@ + by) % 2^(f[2] \div 32)])}
    BY <1>2
  <1> DEFINE d == f[2] \div 32
  <1>4. PICK by \in {1, 2^(d - 1)} :
           net' = net \cup {Put(ct, f[1], f[2], [f[3] EXCEPT ![n] = (@ + by) % 2^d])}
    BY <1>3
  <1>5. Holds(ct) /\ par \in Pars
    BY DEF RInv, NetHolds, IInv, Domains
  <1>6. (f[2] = P.du * 32 \/ f[2] = P.dv * 32) /\ f[3] \in Pair
    BY <1>5 DEF Holds
  <1>7. d = P.du \/ d = P.dv
    BY <1>5, <1>6, Parameters
  <1> HIDE DEF d
  <1>8. d = 10 \/ d = 11 \/ d = 4 \/ d = 5
    BY <1>5, <1>7, Widths
  <1>9. 2^d \in Int /\ 2^d > 0 /\ by \in Int
    <2>1. CASE d = 10
      <3>1. 2^d = 1024 /\ 2^(d - 1) = 512
        BY <2>1
      <3> QED
        BY <3>1
    <2>2. CASE d = 11
      <3>1. 2^d = 2048 /\ 2^(d - 1) = 1024
        BY <2>2
      <3> QED
        BY <3>1
    <2>3. CASE d = 4
      <3>1. 2^d = 16 /\ 2^(d - 1) = 8
        BY <2>3
      <3> QED
        BY <3>1
    <2>4. CASE d = 5
      <3>1. 2^d = 32 /\ 2^(d - 1) = 16
        BY <2>4
      <3> QED
        BY <3>1
    <2> QED
      BY <1>8, <2>1, <2>2, <2>3, <2>4
  <1> DEFINE w == 2^d
             v == [f[3] EXCEPT ![n] = (@ + by) % w]
  <1>10. v \in Pair
    <2>1. w \in Int /\ w > 0
      BY <1>9
    <2> HIDE DEF w
    <2>2. PICK x \in Int, y \in Int : f[3] = <<x, y>>
      BY <1>6 DEF Pair
    <2>3. (x + by) % w \in Int /\ (y + by) % w \in Int
      BY <1>9, <2>1
    <2>4. v = <<(x + by) % w, y>> \/ v = <<x, (y + by) % w>>
      BY <2>2
    <2> QED
      BY <2>3, <2>4 DEF Pair
  <1>11. net' = net \cup {Put(ct, f[1], f[2], v)}
    BY <1>4
  <1> HIDE DEF v
  <1>12. Holds(Put(ct, f[1], f[2], v))
    BY <1>5, <1>6, <1>10 DEF Holds, Put
  <1>13. \A c \in net' : Holds(c)
    BY <1>11, <1>12 DEF RInv, NetHolds
  <1> QED
    BY <1>1, <1>13, HoldsNext, KeptSame

\* The invariant holds of every behaviour.
THEOREM RInvInvariant == Spec => []RInv
  <1>1. Init => KeysKept /\ NetHolds
    BY DEF Init, KeysKept, NetHolds
  <1>2. ASSUME RInv, UNCHANGED vars PROVE KeysKept' /\ NetHolds'
    <2>1. UNCHANGED <<par, ek, dk, table>> /\ net' = net
      BY <1>2 DEF vars
    <2>2. \A ct \in net' : Holds(ct)
      BY <1>2, <2>1 DEF RInv, NetHolds
    <2> QED
      BY <1>2, <2>1, <2>2, KeptSame, HoldsNext
  <1>3. ASSUME RInv, NEW id \in Ids, NEW ct \in net, mlkem_decaps_internal(id, ct)
        PROVE  KeysKept' /\ NetHolds'
    <2>1. UNCHANGED <<par, ek, dk, table>> /\ net' = net
      BY <1>3 DEF mlkem_decaps_internal
    <2>2. \A c \in net' : Holds(c)
      BY <1>3, <2>1 DEF RInv, NetHolds
    <2> QED
      BY <1>3, <2>1, <2>2, KeptSame, HoldsNext
  <1>4. RInv /\ [Next]_vars => KeysKept' /\ NetHolds'
    BY <1>2, <1>3, KeygenKeeps, EncapsKeeps, TamperKeeps DEF Next
  <1> QED
    BY <1>1, <1>4, Invariance, PTL DEF Spec, RInv

----------------------------------------------------------------------------
\* What the abstract specification sees of the last call.
Shown == IF out.call \in {"encaps", "decaps"} THEN [out EXCEPT !.key = Meaning(@)] ELSE out

\* The same, with the keys and the call as arguments.
MeaningAt(keys, key) ==
  IF key[1] = "key" THEN <<"shared", CHOOSE id \in Ids : hash_h(keys[id]) = key[3], key[2]>>
  ELSE <<"reject", key[2][2], key[3]>>

\* The last call as the abstract specification sees it, with the same arguments.
ShownAt(keys, o) ==
  IF o.call \in {"encaps", "decaps"} THEN [o EXCEPT !.key = MeaningAt(keys, @)] ELSE o

\* It is the expression the refinement mapping substitutes.
LEMMA ShownIs == Shown = ShownAt(ek, out) /\ Shown' = ShownAt(ek', out')
  BY DEF Shown, ShownAt, MeaningAt, Meaning

\* What makes a step a key generation of the abstract mechanism.
LEMMA KeyGenShown ==
  ASSUME NEW id, table[id] = << >>, DOMAIN table'[id] = Msgs, IsInjective(table'[id]),
         \A o \in Ids \ {id} : table'[o] = table[o], out' = [call |-> "keygen", id |-> id]
  PROVE  Abstract!KeyGen(id)
  BY DEF Abstract!KeyGen, Meaning, IsInjective, Abstract!IsInjective

\* What makes it an encapsulation.
LEMMA EncapsShown ==
  ASSUME NEW id, NEW m, table[id] # << >>, table' = table,
         ShownAt(ek', out') = [call |-> "encaps", id |-> id, ct |-> table[id][m], key |-> <<"shared", id, m>>]
  PROVE  Abstract!Encaps(id, m)
  BY DEF Abstract!Encaps, ShownAt, MeaningAt, Meaning, Abstract!Shared

\* What makes it a decapsulation.
LEMMA DecapsShown ==
  ASSUME NEW id, NEW ct, NEW key, table[id] # << >>, table' = table,
         ShownAt(ek', out') = [call |-> "decaps", id |-> id, ct |-> ct, key |-> key],
         IF {m \in Msgs : table[id][m] = ct} = {} THEN key = <<"reject", id, ct>>
         ELSE \E m \in {n \in Msgs : table[id][n] = ct} : key = <<"shared", id, m>>
  PROVE  Abstract!Decaps(id)
  <1> DEFINE v == ShownAt(ek', out')
  <1>1. v.call = "decaps" /\ v.id = id /\ v.ct = ct /\ v.key = key
    OBVIOUS
  <1> HIDE DEF v
  <1>2. LET rows == {m \in Msgs : table[id][m] = v.ct}
        IN  IF rows = {} THEN v.key = <<"reject", id, v.ct>>
            ELSE \E m \in rows : v.key = <<"shared", id, m>>
    BY <1>1
  <1>3. v = (IF out.call \in {"encaps", "decaps"} THEN [out EXCEPT !.key = Meaning(@)] ELSE out)'
    BY ShownIs DEF Shown, v
  <1> QED
    BY <1>1, <1>2, <1>3 DEF Abstract!Decaps, Abstract!Shared, Abstract!Reject

\* Whose secret a key is: that of the one owner with this encapsulation key.
LEMMA MeaningShared ==
  ASSUME RInv, NEW id \in Ids, NEW m, ek[id] # NoBuf
  PROVE  MeaningAt(ek, <<"key", m, hash_h(ek[id])>>) = <<"shared", id, m>>
  <1> DEFINE key == <<"key", m, hash_h(ek[id])>>
             o == CHOOSE o \in Ids : hash_h(ek[o]) = key[3]
  <1>1. key[1] = "key" /\ key[2] = m /\ key[3] = hash_h(ek[id])
    OBVIOUS
  <1>2. o \in Ids /\ hash_h(ek[o]) = hash_h(ek[id])
    BY <1>1
  <1>3. MeaningAt(ek, key) = <<"shared", o, m>>
    BY <1>1 DEF MeaningAt
  <1> HIDE DEF o, key
  <1>4. ek[o] = ek[id]
    BY <1>2 DEF hash_h
  <1>5. o = id
    BY <1>2, <1>4, KeysDiffer DEF RInv
  <1> QED
    BY <1>3, <1>5 DEF key

\* The key of a rejection names the owner and the ciphertext.
LEMMA MeaningReject ==
  ASSUME NEW keys, NEW id, NEW ct
  PROVE  MeaningAt(keys, <<"rej", <<"z", id>>, ct>>) = <<"reject", id, ct>>
  BY DEF MeaningAt

\* A key generation of mlkem.c is one of the abstract mechanism: no two messages share a
\* ciphertext, because each ciphertext decrypts to its own message.
LEMMA KeyGenImplements ==
  ASSUME RInv, NEW id \in Ids, mlkem_keygen_internal(id)
  PROVE  Abstract!KeyGen(id)
  <1> DEFINE pk == kpke_keygen(id).ek
             row == [m \in Msgs |-> EncapsCt(pk, m)]
  <1>1. table[id] = << >> /\ table'[id] = row
    BY KeygenKeeps
  <1>2. out' = [call |-> "keygen", id |-> id] /\ \A o \in Ids \ {id} : table'[o] = table[o]
    BY DEF mlkem_keygen_internal, RInv, KeysKept
  <1>3. par \in Pars
    BY DEF RInv, IInv, Domains
  <1>4. \A m \in Msgs : kpke_decrypt(DecapsKey(id), EncapsCt(pk, m)) = m
    BY <1>3, KeyOpens
  <1> HIDE DEF pk
  <1>5. IsInjective(row)
    BY <1>4 DEF IsInjective
  <1>6. DOMAIN row = Msgs
    OBVIOUS
  <1> HIDE DEF row
  <1> QED
    BY <1>1, <1>2, <1>5, <1>6, KeyGenShown

\* An encapsulation is one of the abstract mechanism.
LEMMA EncapsImplements ==
  ASSUME RInv, NEW id \in Ids, NEW m \in Msgs, mlkem_encaps_internal(id, m)
  PROVE  Abstract!Encaps(id, m)
  <1> DEFINE ct == EncapsCt(ek[id], m)
             key == <<"key", m, hash_h(ek[id])>>
  <1>1. /\ ek[id] # NoBuf /\ ek' = ek /\ table' = table
        /\ out' = [call |-> "encaps", id |-> id, ct |-> ct, key |-> key]
    BY DEF mlkem_encaps_internal, EncapsCt, hash_g
  <1>2. table[id] # << >> /\ table[id][m] = ct
    BY <1>1, PairFacts
  <1>3. MeaningAt(ek, key) = <<"shared", id, m>>
    BY <1>1, MeaningShared
  <1> HIDE DEF ct, key
  <1>4. ShownAt(ek', out') = [call |-> "encaps", id |-> id, ct |-> ct, key |-> MeaningAt(ek, key)]
    BY <1>1 DEF ShownAt
  <1> QED
    BY <1>1, <1>2, <1>3, <1>4, EncapsShown

\* Full buffers are compared as a whole.
LEMMA VerifyIs ==
  ASSUME NEW a, NEW b, Exact(a, P.ct_sz), Exact(b, P.ct_sz), P.ct_sz \in Nat
  PROVE  verify(a, b) = IF a = b THEN 0 ELSE 1
  <1>1. {f \in a : f[1] < P.ct_sz} = a
    BY DEF Exact, Fields
  <1>2. {f \in b : f[1] < P.ct_sz} = b
    BY DEF Exact, Fields
  <1> QED
    BY <1>1, <1>2 DEF verify

\* A decapsulation is one of the abstract mechanism: the re-encryption agrees with the
\* ciphertext just when the ciphertext is one of the owner's table.
LEMMA DecapsImplements ==
  ASSUME RInv, NEW id \in Ids, NEW ct \in net, mlkem_decaps_internal(id, ct)
  PROVE  Abstract!Decaps(id)
  <1> DEFINE m == kpke_decrypt(dk[id], ct)
             digest == Get(dk[id], P.dk_sz - 2 * Sym, Sym)
             kr == hash_g(m, digest)
             cmp == kpke_encrypt(Inner(dk[id]), m, kr.coins)
             fail == verify(ct, cmp)
             z == Get(dk[id], P.dk_sz - Sym, Sym)
             key == cmov(rkprf(z, ct), kr.key, 1 - fail)
  <1>1. /\ ek[id] # NoBuf /\ ek' = ek /\ table' = table
        /\ out' = [call |-> "decaps", id |-> id, ct |-> ct, key |-> key]
    BY DEF mlkem_decaps_internal, Inner
  <1>2. /\ par \in Pars /\ Inner(dk[id]) = ek[id] /\ digest = hash_h(ek[id]) /\ z = <<"z", id>>
        /\ table[id] = [n \in Msgs |-> EncapsCt(ek[id], n)] /\ table[id] # << >>
        /\ \A n \in Msgs : kpke_decrypt(dk[id], EncapsCt(ek[id], n)) = n
        /\ \A i \in Vec : GetVec(dk[id], Poly)[i] \in Pair
    BY <1>1, PairFacts
  <1>3. m \in Msgs
    BY <1>2, DecryptsMessage DEF RInv, NetHolds
  <1>4. cmp = EncapsCt(ek[id], m) /\ kr.key = <<"key", m, hash_h(ek[id])>>
    BY <1>2 DEF EncapsCt, hash_g
  <1>5. Exact(ct, P.ct_sz) /\ Exact(cmp, P.ct_sz) /\ P.ct_sz \in Nat
    <2>1. Exact(ct, P.ct_sz)
      BY DEF RInv, IInv, Sent
    <2>2. Exact(cmp, P.ct_sz)
      BY <1>2, EncryptWrites, CiphertextPacked
    <2>3. par \in Pars
      BY <1>2
    <2> HIDE DEF m, digest, kr, cmp, fail, z, key
    <2>4. P.ct_sz \in Nat
      BY <2>3, Parameters
    <2> QED
      BY <2>1, <2>2, <2>4
  <1> HIDE DEF cmp, digest
  <1>6. fail = IF ct = cmp THEN 0 ELSE 1
    BY <1>5, VerifyIs
  <1> HIDE DEF fail
  <1>7. key = IF ct = cmp THEN <<"key", m, hash_h(ek[id])>> ELSE <<"rej", <<"z", id>>, ct>>
    BY <1>2, <1>4, <1>6 DEF cmov, rkprf
  <1> HIDE DEF key, z, kr
  <1>8. ShownAt(ek', out') = [call |-> "decaps", id |-> id, ct |-> ct, key |-> MeaningAt(ek, key)]
    BY <1>1 DEF ShownAt
  <1>9. \A n \in Msgs : table[id][n] = ct => n = m
    BY <1>2
  <1> HIDE DEF m
  <1>10. table[id] # << >> /\ table' = table
    BY <1>1, <1>2
  <1>11. CASE ct = cmp
    <2>1. MeaningAt(ek, key) = <<"shared", id, m>>
      BY <1>1, <1>7, <1>11, MeaningShared
    <2>2. m \in {n \in Msgs : table[id][n] = ct}
      BY <1>2, <1>3, <1>4, <1>11
    <2> DEFINE rows == {n \in Msgs : table[id][n] = ct}
               shared == <<"shared", id, m>>
    <2>3. \E n \in rows : shared = <<"shared", id, n>>
      BY <2>2
    <2>4. ShownAt(ek', out') = [call |-> "decaps", id |-> id, ct |-> ct, key |-> shared]
      BY <1>8, <2>1
    <2>5. IF rows = {} THEN shared = <<"reject", id, ct>>
          ELSE \E n \in rows : shared = <<"shared", id, n>>
      BY <2>2, <2>3
    <2> HIDE DEF shared
    <2> QED
      BY <1>10, <2>4, <2>5, DecapsShown
  <1>12. CASE ct # cmp
    <2>1. MeaningAt(ek, key) = <<"reject", id, ct>>
      BY <1>7, <1>12, MeaningReject
    <2>2. {n \in Msgs : table[id][n] = ct} = {}
      BY <1>2, <1>3, <1>4, <1>9, <1>12
    <2> DEFINE reject == <<"reject", id, ct>>
               rows == {n \in Msgs : table[id][n] = ct}
    <2>3. ShownAt(ek', out') = [call |-> "decaps", id |-> id, ct |-> ct, key |-> reject]
      BY <1>8, <2>1
    <2>4. IF rows = {} THEN reject = <<"reject", id, ct>>
          ELSE \E n \in rows : reject = <<"shared", id, n>>
      BY <2>2
    <2> HIDE DEF reject
    <2> QED
      BY <1>10, <2>3, <2>4, DecapsShown
  <1> QED
    BY <1>11, <1>12

\* mlkem.c implements the abstract mechanism.
THEOREM Refinement == Spec => ImplementsKEM
  <1>1. Init => Abstract!Init
    BY DEF Init, Abstract!Init
  <1>2. ASSUME UNCHANGED <<table, ek, out>>
        PROVE  UNCHANGED <<table, IF out.call \in {"encaps", "decaps"}
                                  THEN [out EXCEPT !.key = Meaning(@)] ELSE out>>
    <2>1. Shown' = Shown
      BY <1>2, ShownIs
    <2> QED
      BY <1>2, <2>1 DEF Shown
  <1>3. ASSUME RInv, [Next]_vars
        PROVE  [Abstract!Next]_<<table, IF out.call \in {"encaps", "decaps"}
                                  THEN [out EXCEPT !.key = Meaning(@)] ELSE out>>
    <2>1. CASE UNCHANGED vars
      BY <1>2, <2>1 DEF vars
    <2>2. CASE Tamper
      BY <1>2, <2>2 DEF Tamper
    <2>3. ASSUME NEW id \in Ids, mlkem_keygen_internal(id) PROVE Abstract!Next
      BY <1>3, <2>3, KeyGenImplements DEF Abstract!Next
    <2>4. ASSUME NEW id \in Ids, NEW m \in Msgs, mlkem_encaps_internal(id, m) PROVE Abstract!Next
      BY <1>3, <2>4, EncapsImplements DEF Abstract!Next
    <2>5. ASSUME NEW id \in Ids, NEW ct \in net, mlkem_decaps_internal(id, ct) PROVE Abstract!Next
      BY <1>3, <2>5, DecapsImplements DEF Abstract!Next
    <2> QED
      BY <1>3, <2>1, <2>2, <2>3, <2>4, <2>5 DEF Next
  <1> QED
    BY <1>1, <1>3, RInvInvariant, PTL DEF Spec, ImplementsKEM, Abstract!Spec
=============================================================================
