------------------------------ MODULE MlkemRing ------------------------------
(***************************************************************************)
(* Multiplication in Z_q[X]/(X^256 + 1) as ML-KEM does it: the number-     *)
(* theoretic transform, the products in its domain and the way back, in    *)
(* the C build (mlkem_ntt.c, reduce.h) and in the vector build             *)
(* (rvv_poly.c), called in the order of kpke_keygen, kpke_encrypt and      *)
(* kpke_decrypt.                                                           *)
(*                                                                         *)
(* The polynomial is X^i, its factor X^j, held in 16-bit words exactly as  *)
(* the code computes them; both builds are linear in each of the two.      *)
(* Beside it, lo..hi is the range any input of the callers could have      *)
(* spread the coefficients over.                                           *)
(***************************************************************************)
EXTENDS Integers, Sequences

CONSTANTS
  Inputs    \* <<build, caller, i, j>>

VARIABLES
  build,    \* "c" or "rvv"
  caller,   \* whose calls are being made
  ip,       \* the call at hand
  lay,      \* the layer at hand within a transform
  deg,      \* <<i, j>>
  r,        \* the 256 coefficients
  lo, hi,   \* where every coefficient lies, whatever the input
  peak,     \* the largest 16-bit sum or difference of the last step ...
  wide      \* ... and the largest 32-bit value given to a reduction

vars == <<build, caller, ip, lay, deg, r, lo, hi, peak, wide>>

Q == 3329      \* MLKEM_PAR_Q
Degree == 256  \* MLKEM_PAR_N
Idx == 0..(Degree - 1)

\* int16_t
W16(x) == ((x + 32768) % 65536) - 32768

----------------------------------------------------------------------------
\* reduce.h
montgomery_reduce(a) ==
  LET t == W16(W16(a) * (-3327)) IN W16((a - t * Q) \div 65536)

barrett_reduce(a) ==
  LET v == (67108864 + Q \div 2) \div Q
      t == W16((v * a + 33554432) \div 67108864)
  IN  W16(a - W16(t * Q))

fqmul(a, b) == montgomery_reduce(a * b)

\* rvv_poly.c: the product's halves are reduced apart, a carry joins them.
fq_mul(x, y) ==
  LET rl == W16(x * y)
      t  == (W16(rl * 3327) * Q) \div 65536
  IN  W16(t + (x * y) \div 65536 + (IF rl = 0 THEN 0 ELSE 1))

fq_redc2(z) == W16((z + W16(W16(z) * 3327) * Q) \div 65536)

fq_barrett(a) ==
  LET v == (67108864 + Q \div 2) \div Q
      t == ((a * v) \div 65536 + 512) \div 1024
  IN  W16(a - W16(t * Q))

fq_cadd(x) == IF x < 0 THEN x + Q ELSE x
fq_csub(x) == IF x >= Q THEN x - Q ELSE x
fq_mulq(x, y) == fq_cadd(fq_mul(x, y))

----------------------------------------------------------------------------
\* mlkem_zetas; a table starts at 1 here.
zetas == <<
    -1044,  -758,  -359, -1517,  1493,  1422,   287,   202,  -171,   622,  1577,   182,   962, -1202, -1474,  1468,
      573, -1325,   264,   383,  -829,  1458, -1602,  -130,  -681,  1017,   732,   608, -1542,   411,  -205, -1571,
     1223,   652,  -552,  1015, -1293,  1491,  -282, -1544,   516,    -8,  -320,  -666, -1618, -1162,   126,  1469,
     -853,   -90,  -271,   830,   107, -1421,  -247,  -951,  -398,   961, -1508,  -725,   448, -1065,   677, -1275,
    -1103,   430,   555,   843, -1251,   871,  1550,   105,   422,   587,   177,  -235,  -291,  -460,  1574,  1653,
     -246,   778,  1159,  -147,  -777,  1483,  -602,  1119, -1590,   644,  -872,   349,   418,   329,  -156,   -75,
      817,  1097,   603,   610,  1322, -1285, -1465,   384, -1215,  -136,  1218, -1335,  -874,   220, -1187, -1659,
    -1185, -1530, -1278,   794, -1510,  -854,  -870,   478,  -108,  -308,   996,   991,   958, -1460,  1522,  1628>>

\* zeta, izeta and (one of four entries of) roots of rvv_poly.c.
zeta == <<
    -1044,  -758,   573, -1325,  1223,   652,  -552,  1015, -1103,   430,   555,   843, -1251,   871,  1550,   105,
     -359, -1517,   264,   383, -1293,  1491,  -282, -1544,   422,   587,   177,  -235,  -291,  -460,  1574,  1653,
     1493,  1422,  -829,  1458,   516,    -8,  -320,  -666,  -246,   778,  1159,  -147,  -777,  1483,  -602,  1119,
      287,   202, -1602,  -130, -1618, -1162,   126,  1469, -1590,   644,  -872,   349,   418,   329,  -156,   -75,
     -171,   622,  -681,  1017,  -853,   -90,  -271,   830,   817,  1097,   603,   610,  1322, -1285, -1465,   384,
     1577,   182,   732,   608,   107, -1421,  -247,  -951, -1215,  -136,  1218, -1335,  -874,   220, -1187, -1659,
      962, -1202, -1542,   411,  -398,   961, -1508,  -725, -1185, -1530, -1278,   794, -1510,  -854,  -870,   478,
    -1474,  1468,  -205, -1571,   448, -1065,   677, -1275,  -108,  -308,   996,   991,   958, -1460,  1522,  1628>>

izeta == <<
    -1044,   758,  1571,   205,  1275,  -677,  1065,  -448, -1628, -1522,  1460,  -958,  -991,  -996,   308,   108,
     1517,   359,  -411,  1542,   725,  1508,  -961,   398,  -478,   870,   854,  1510,  -794,  1278,  1530,  1185,
     -202,  -287,  -608,  -732,   951,   247,  1421,  -107,  1659,  1187,  -220,   874,  1335, -1218,   136,  1215,
    -1422, -1493, -1017,   681,  -830,   271,    90,   853,  -384,  1465,  1285, -1322,  -610,  -603, -1097,  -817,
    -1468,  1474,   130,  1602, -1469,  -126,  1162,  1618,    75,   156,  -329,  -418,  -349,   872,  -644,  1590,
     1202,  -962, -1458,   829,   666,   320,     8,  -516, -1119,   602, -1483,   777,   147, -1159,  -778,   246,
     -182, -1577,  -383,  -264,  1544,   282, -1491,  1293, -1653, -1574,   460,   291,   235,  -177,  -587,  -422,
     -622,   171,  1325,  -573, -1015,   552,  -652, -1223,  -105, -1550,  -871,  1251,  -843,  -555,  -430,  1103>>

roots == <<
    -1103,   430,   555,   843, -1251,   871,  1550,   105,   422,   587,   177,  -235,  -291,  -460,  1574,  1653,
     -246,   778,  1159,  -147,  -777,  1483,  -602,  1119, -1590,   644,  -872,   349,   418,   329,  -156,   -75,
      817,  1097,   603,   610,  1322, -1285, -1465,   384, -1215,  -136,  1218, -1335,  -874,   220, -1187, -1659,
    -1185, -1530, -1278,   794, -1510,  -854,  -870,   478,  -108,  -308,   996,   991,   958, -1460,  1522,  1628>>

\* The index of zeta for each block of the first four layers.
RegisterZeta == << <<1>>, <<16, 17>>, <<32, 33, 48, 49>>,
                   <<64, 65, 80, 81, 96, 97, 112, 113>> >>

Times(a, b) == IF build = "c" THEN fqmul(a, b) ELSE fq_mul(a, b)

\* One layer of forward butterflies at distance len; c[j] is the factor of the
\* pair whose lower half is j.
Forward(f, len, c) ==
  [j \in Idx |-> IF (j \div len) % 2 = 0
                 THEN W16(f[j] + Times(f[j + len], c[j]))
                 ELSE W16(f[j - len] - Times(f[j], c[j - len]))]

\* mlkem_invntt subtracts the lower half from the upper, with zetas ...
InverseC(f, len, c) ==
  [j \in Idx |-> IF (j \div len) % 2 = 0
                 THEN barrett_reduce(W16(f[j] + f[j + len]))
                 ELSE fqmul(W16(f[j] - f[j - len]), c[j - len])]

\* ... and RVV_BFLY_RX / RVV_BFLY_RV the upper from the lower, with izeta.
InverseRVV(f, len, c) ==
  [j \in Idx |-> IF (j \div len) % 2 = 0
                 THEN fq_csub(W16(f[j] + f[j + len]))
                 ELSE fq_mul(W16(f[j - len] - f[j]), c[j - len])]

\* bitswap_perm: bits a and b of a lane number change places.
bitswap_perm(a, b) ==
  [x \in 0..31 |-> LET d == ((x \div 2^b) % 2) - ((x \div 2^a) % 2)
                   IN  x + d * 2^a - d * 2^b]

p8 == bitswap_perm(3, 4)
p4 == bitswap_perm(2, 4)
p2 == bitswap_perm(1, 4)
Compose(p, q) == [x \in 0..31 |-> p[q[x]]]       \* vrgather of p by q

\* A vrgather in each of the eight pairs of vectors.
Gather(f, p) == [j \in Idx |-> f[32 * (j \div 32) + p[j % 32]]]

\* The lane's factor out of the pair's 16 table entries: cs8, cs4 and cs2.
Lane(tab, j, shift, first) == tab[16 * (j \div 32) + (j % 16) \div shift + first + 1]

----------------------------------------------------------------------------
\* Ranges.  Redc bounds what a Montgomery reduction of |a| <= m returns.
Mag     == IF -lo > hi THEN -lo ELSE hi
Redc(m) == m \div 65536 + Q \div 2 + 2
MaxZeta == 1659

Range(a, b, p, w) == lo' = a /\ hi' = b /\ peak' = p /\ wide' = w

ForwardRange == LET t == Redc(Mag * MaxZeta) IN Range(lo - t, hi + t, Mag + t, Mag * MaxZeta)

\* fq_mulq by a constant.
MulqRange(c) ==
  LET t == Redc(Mag * c)
  IN  Range(IF t > Q THEN Q - t ELSE 0, IF t > Q - 1 THEN t ELSE Q - 1, t + Q, Mag * c)

BarrettRange == Range(-(Q \div 2), Q \div 2, Mag, Mag)

\* The sums and differences of an inverse layer are words too.
InverseRangeC ==
  LET t == Redc(2 * Mag * MaxZeta)
      m == IF t > Q \div 2 THEN t ELSE Q \div 2
  IN  Range(-m, m, 2 * Mag, 2 * Mag * MaxZeta)

InverseRangeRVV ==
  LET d == hi - lo
      t == Redc(d * MaxZeta)
      l == IF 2 * lo < -t THEN 2 * lo ELSE -t
      h == IF 2 * hi - Q > Q - 1 THEN 2 * hi - Q ELSE Q - 1
  IN  Range(l, IF t > h THEN t ELSE h, 2 * Mag, d * MaxZeta)

----------------------------------------------------------------------------
Calls ==
  [kpke_keygen  |-> <<"ntt", "mul", "tomont", "add", "reduce">>,
   kpke_encrypt |-> <<"ntt", "mul", "invntt", "add", "add", "reduce">>,
   kpke_decrypt |-> <<"ntt", "mul", "invntt", "sub", "reduce">>]

Terms == 4     \* par->k products are accumulated, at most

\* The inputs are noise or a decompressed ciphertext, what is added or
\* subtracted from is noise, its transform, a message or a ciphertext, and the
\* other factor is uniform or any twelve bits of a key.
FirstRange == [lo |-> -3, hi |-> Q - 1]
AddRange   == [lo |-> -(Q \div 2), hi |-> Q - 1]
KeyMax     == 4095

At(op) == ip <= Len(Calls[caller]) /\ Calls[caller][ip] = op

Advance(last) ==
  /\ lay' = IF lay = last THEN 0 ELSE lay + 1
  /\ ip'  = IF lay = last THEN ip + 1 ELSE ip
  /\ UNCHANGED <<build, caller, deg>>

Init ==
  /\ \E in \in Inputs : build = in[1] /\ caller = in[2] /\ deg = <<in[3], in[4]>>
  /\ ip = 1 /\ lay = 0 /\ peak = 0 /\ wide = 0
  /\ r = [x \in Idx |-> IF x = deg[1] THEN 1 ELSE 0]
  /\ lo = FirstRange.lo /\ hi = FirstRange.hi

\* mlkem_poly_ntt, one layer a step, then mlkem_poly_reduce.
NttC ==
  /\ build = "c" /\ At("ntt")
  /\ \/ LET len == 128 \div 2^lay
        IN  /\ lay < 7
            /\ r' = Forward(r, len, [j \in Idx |-> zetas[128 \div len + j \div (2 * len) + 1]])
            /\ ForwardRange
     \/ lay = 7 /\ r' = [x \in Idx |-> barrett_reduce(r[x])] /\ BarrettRange
  /\ Advance(7)

\* The first four layers of mlkem_poly_ntt are on whole vectors.
NttRegisters ==
  /\ build = "rvv" /\ At("ntt") /\ lay < 4
  /\ LET len == 128 \div 2^lay
     IN  r' = Forward(r, len, [j \in Idx |-> zeta[RegisterZeta[lay + 1][j \div (2 * len) + 1] + 1]])
  /\ ForwardRange
  /\ Advance(7)

\* vector_ntt2: three layers inside a pair of vectors, then normalize and
\* reorganize.
NttVector ==
  /\ build = "rvv" /\ At("ntt") /\ lay \in 4..7
  /\ \/ lay = 4 /\ r' = Forward(Gather(r, p8), 16, [j \in Idx |-> Lane(zeta, j, 8, 2)])
     \/ lay = 5 /\ r' = Forward(Gather(r, p4), 16, [j \in Idx |-> Lane(zeta, j, 4, 4)])
     \/ lay = 6 /\ r' = Forward(Gather(r, p2), 16, [j \in Idx |-> Lane(zeta, j, 2, 8)])
     \/ /\ lay = 7
        /\ r' = Gather([x \in Idx |-> fq_mulq(r[x], 2285)], Compose(Compose(p2, p4), p8))
  /\ IF lay = 7 THEN MulqRange(2285) ELSE ForwardRange
  /\ Advance(7)

----------------------------------------------------------------------------
\* What the transforms are for: X^256 + 1 splits layer by layer into factors
\* X^len - 17^e, and node n of this tree has the exponent e = Exponent[n].
Exponent[n \in 1..255] ==
  IF n = 1 THEN 128 ELSE Exponent[n \div 2] \div 2 + 128 * (n % 2)

Power[e \in 0..255] ==
  IF e = 0 THEN 1
  ELSE LET h == Power[e \div 2] IN (h * h * (IF e % 2 = 1 THEN 17 ELSE 1)) % Q

\* Coefficient x of X^m, in order, after the given number of layers.
Residue(m, layers, x) ==
  LET len == Degree \div 2^layers
  IN  IF x % len # m % len THEN 0
      ELSE Power[(Exponent[2^layers + x \div len] * (m \div len)) % 256]

----------------------------------------------------------------------------
\* poly_basemul_montgomery of the first of the vectors' entries (the others are
\* zero here), the sum of par->k such products, and mlkem_poly_reduce.
MulC ==
  /\ build = "c" /\ At("mul")
  /\ LET y   == [x \in Idx |-> Residue(deg[2], 7, x)]
         z(x) == IF x % 4 < 2 THEN zetas[64 + x \div 4 + 1] ELSE -zetas[64 + x \div 4 + 1]
         t   == Redc(KeyMax * Mag)
     IN  /\ r' = [x \in Idx |->
                    barrett_reduce(
                      IF x % 2 = 0
                      THEN W16(fqmul(fqmul(y[x + 1], r[x + 1]), z(x)) + fqmul(y[x], r[x]))
                      ELSE W16(fqmul(y[x - 1], r[x]) + fqmul(y[x], r[x - 1])))]
         /\ Range(-(Q \div 2), Q \div 2, Terms * 2 * t, KeyMax * Mag)
  /\ Advance(0)

\* The vector build sums 32-bit products before it reduces them.
MulRVV ==
  /\ build = "rvv" /\ At("mul")
  /\ LET y     == [x \in Idx |-> Residue(deg[2], 7, x)]
         vz(x) == IF x % 2 = 0 THEN -1044
                  ELSE IF x % 4 = 1 THEN roots[x \div 4 + 1] ELSE -roots[x \div 4 + 1]
         wa(x) == vz(x) * fq_mul(y[x], r[x])
         w     == 2 * KeyMax * Mag
         t     == Redc(w)
     IN  /\ r' = [x \in Idx |->
                    fq_barrett(fq_redc2(IF x % 2 = 0 THEN wa(x) + wa(x + 1)
                                        ELSE y[x] * r[x - 1] + y[x - 1] * r[x]))]
         /\ Range(-(Q \div 2), Q \div 2, Terms * t, w)
  /\ Advance(0)

\* Mutant: the factor is R instead of R^2.
PolyTomontOnce ==
  /\ At("tomont")
  /\ r' = [x \in Idx |-> IF build = "c" THEN fqmul(r[x], -1044) ELSE fq_mul(r[x], -1044)]
  /\ LET t == Redc(Mag * 1353) IN Range(-t, t, t, Mag * 1353)
  /\ Advance(0)

poly_tomont ==
  /\ At("tomont")
  /\ r' = [x \in Idx |-> IF build = "c" THEN fqmul(r[x], 1353) ELSE fq_mul(r[x], 1353)]
  /\ LET t == Redc(Mag * 1353) IN Range(-t, t, t, Mag * 1353)
  /\ Advance(0)

\* mlkem_invntt: k runs down from 127.
InvNttC ==
  /\ build = "c" /\ At("invntt")
  /\ \/ LET len == 2 * 2^lay
        IN  /\ lay < 7
            /\ r' = InverseC(r, len, [j \in Idx |-> zetas[Degree \div len - 1 - j \div (2 * len) + 1]])
            /\ InverseRangeC
     \/ /\ lay = 7 /\ r' = [x \in Idx |-> fqmul(r[x], 1441)]
        /\ LET t == Redc(Mag * 1441) IN Range(-t, t, t, Mag * 1441)
  /\ Advance(7)

\* vector_intt2.
InvNttVector ==
  /\ build = "rvv" /\ At("invntt") /\ lay < 4
  /\ \/ /\ lay = 0
        /\ r' = InverseRVV(Gather(r, Compose(Compose(p8, p4), p2)), 16,
                           [j \in Idx |-> Lane(izeta, j, 2, 8)])
     \/ lay = 1 /\ r' = InverseRVV(Gather(r, p2), 16, [j \in Idx |-> Lane(izeta, j, 4, 4)])
     \/ lay = 2 /\ r' = InverseRVV(Gather(r, p4), 16, [j \in Idx |-> Lane(izeta, j, 8, 2)])
     \/ lay = 3 /\ r' = [x \in Idx |-> fq_mulq(Gather(r, p8)[x], 2285)]
  /\ IF lay = 3 THEN MulqRange(2285) ELSE InverseRangeRVV
  /\ Advance(8)

InvNttRegisters ==
  /\ build = "rvv" /\ At("invntt") /\ lay >= 4
  /\ \/ LET len == 2^lay
        IN  /\ lay < 8
            /\ r' = InverseRVV(r, len, [j \in Idx |->
                                 izeta[RegisterZeta[8 - lay][j \div (2 * len) + 1] + 1]])
            /\ InverseRangeRVV
     \/ lay = 8 /\ r' = [x \in Idx |-> fq_mulq(r[x], 1441)] /\ MulqRange(1441)
  /\ Advance(8)

\* What is added, or subtracted from, is X^7 (its transform in kpke_keygen).
Addend(x) == IF caller = "kpke_keygen" THEN Residue(7, 7, x) ELSE Residue(7, 0, x)

mlkem_poly_add ==
  /\ At("add")
  /\ r' = [x \in Idx |-> W16(r[x] + Addend(x))]
  /\ Range(lo + AddRange.lo, hi + AddRange.hi, Mag + AddRange.hi, 0)
  /\ Advance(0)

mlkem_poly_sub ==
  /\ At("sub")
  /\ r' = [x \in Idx |-> W16(Addend(x) - r[x])]
  /\ Range(AddRange.lo - hi, AddRange.hi - lo, Mag + AddRange.hi, 0)
  /\ Advance(0)

mlkem_poly_reduce ==
  /\ At("reduce")
  /\ r' = [x \in Idx |-> IF build = "c" THEN barrett_reduce(r[x]) ELSE fq_barrett(r[x])]
  /\ BarrettRange
  /\ Advance(0)

Done == ip > Len(Calls[caller])

Next ==
  \/ NttC \/ NttRegisters \/ NttVector \/ MulC \/ MulRVV \/ poly_tomont
  \/ InvNttC \/ InvNttVector \/ InvNttRegisters
  \/ mlkem_poly_add \/ mlkem_poly_sub \/ mlkem_poly_reduce
  \/ Done /\ UNCHANGED vars

Spec == Init /\ [][Next]_vars

----------------------------------------------------------------------------
\* Every layer of mlkem_ntt splits the ring once more, and the two builds agree
\* on the order and on the tables: the coefficients are the residues of the input
\* modulo the factors.
Splits ==
  /\ At("ntt") /\ lay <= (IF build = "c" THEN 7 ELSE 4)
       => \A x \in Idx : r[x] % Q = Residue(deg[1], lay, x)
  /\ At("mul") => \A x \in Idx : r[x] % Q = Residue(deg[1], 7, x)

\* What a caller ends with, up to a multiple of q.
Expected(x) ==
  CASE caller = "kpke_keygen"  -> Residue(deg[1] + deg[2], 7, x) + Residue(7, 7, x)
    [] caller = "kpke_encrypt" -> Residue(deg[1] + deg[2], 0, x) + 2 * Residue(7, 0, x)
    [] caller = "kpke_decrypt" -> Residue(7, 0, x) - Residue(deg[1] + deg[2], 0, x)

\* The callers get the product they compute, modulo q, in either build.
Product == Done => \A x \in Idx : (r[x] - Expected(x)) % Q = 0

\* No 16-bit sum or difference wraps, whatever the inputs, and what is given to a
\* reduction keeps to the range the comment of fq_redc states.
InRange ==
  /\ lo >= -32768 /\ hi <= 32767 /\ peak <= 32767
  /\ wide <= 2038402304
=============================================================================
