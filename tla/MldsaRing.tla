------------------------------ MODULE MldsaRing ------------------------------
(***************************************************************************)
(* Multiplication in Z_q[X]/(X^256 + 1) as ML-DSA does it, in the C build  *)
(* (mldsa_ntt.c) and in the vector build (rvv_poly.c), called in the order *)
(* of the products of key generation, signing and verification (mldsa.c).  *)
(*                                                                         *)
(* The polynomial is X^i, its factor X^j.  Coefficients are kept modulo q; *)
(* their representatives are 32-bit words, and mag bounds their magnitude  *)
(* for every input the callers could have.                                 *)
(***************************************************************************)
EXTENDS Integers, Sequences

CONSTANTS
  Inputs    \* <<build, caller, i, j>>

VARIABLES
  build,    \* "c" or "rvv"
  caller,   \* whose calls are being made
  ip,       \* the call at hand
  lay,      \* the layer at hand within a transform
  deg,      \* <<i, j>>
  r,        \* the 256 coefficients, modulo q
  mag,      \* the largest magnitude of a coefficient
  wide      \* the largest argument of a Montgomery reduction, in units of 2^32

vars == <<build, caller, ip, lay, deg, r, mag, wide>>

Q == 8380417   \* MLDSA_PAR_Q
Degree == 256  \* MLDSA_PAR_N
Idx == 0..(Degree - 1)

----------------------------------------------------------------------------
\* x * y modulo q, a byte of y at a time (the values of TLC have 32 bits).
MulMod(x, y) ==
  LET a == x % Q
      b == y % Q
      h == (a * (b \div 65536)) % Q
      m == (((h * 256) % Q) + ((a * ((b \div 256) % 256)) % Q)) % Q
  IN  (((m * 256) % Q) + ((a * (b % 256)) % Q)) % Q

\* montgomery_reduce of a product, and fq_redc2 of rvv_poly.c: modulo q it
\* divides by 2^32; 8265825 is the inverse.
Mont(x, y) == MulMod(MulMod(x, y), 8265825)

----------------------------------------------------------------------------
\* zetas (the same in both builds), rvv_zeta and rvv_izeta; they start at 1 here.
zetas == <<
           0,    25847, -2608894,  -518909,   237124,  -777960,  -876248,   466468,  1826347,  2353451,  -359251, -2091905,  3119733, -2884855,  3111497,  2680103,
     2725464,  1024112, -1079900,  3585928,  -549488, -1119584,  2619752, -2108549, -2118186, -3859737, -1399561, -3277672,  1757237,   -19422,  4010497,   280005,
     2706023,    95776,  3077325,  3530437, -1661693, -3592148, -2537516,  3915439, -3861115, -3043716,  3574422, -2867647,  3539968,  -300467,  2348700,  -539299,
    -1699267, -1643818,  3505694, -3821735,  3507263, -2140649, -1600420,  3699596,   811944,   531354,   954230,  3881043,  3900724, -2556880,  2071892, -2797779,
    -3930395, -1528703, -3677745, -3041255, -1452451,  3475950,  2176455, -1585221, -1257611,  1939314, -4083598, -1000202, -3190144, -3157330, -3632928,   126922,
     3412210,  -983419,  2147896,  2715295, -2967645, -3693493,  -411027, -2477047,  -671102, -1228525,   -22981, -1308169,  -381987,  1349076,  1852771, -1430430,
    -3343383,   264944,   508951,  3097992,    44288, -1100098,   904516,  3958618, -3724342,    -8578,  1653064, -3249728,  2389356,  -210977,   759969, -1316856,
      189548, -3553272,  3159746, -1851402, -2409325,  -177440,  1315589,  1341330,  1285669, -1584928,  -812732, -1439742, -3019102, -3881060, -3628969,  3839961,
     2091667,  3407706,  2316500,  3817976, -3342478,  2244091, -2446433, -3562462,   266997,  2434439, -1235728,  3513181, -3520352, -3759364, -1197226, -3193378,
      900702,  1859098,   909542,   819034,   495491, -1613174,   -43260,  -522500,  -655327, -3122442,  2031748,  3207046, -3556995,  -525098,  -768622, -3595838,
      342297,   286988, -2437823,  4108315,  3437287, -3342277,  1735879,   203044,  2842341,  2691481, -2590150,  1265009,  4055324,  1247620,  2486353,  1595974,
    -3767016,  1250494,  2635921, -3548272, -2994039,  1869119,  1903435, -1050970, -1333058,  1237275, -3318210, -1430225,  -451100,  1312455,  3306115, -1962642,
    -1279661,  1917081, -2546312, -1374803,  1500165,   777191,  2235880,  3406031,  -542412, -2831860, -1671176, -1846953, -2584293, -3724270,   594136, -3776993,
    -2013608,  2432395,  2454455,  -164721,  1957272,  3369112,   185531, -1207385, -3183426,   162844,  1616392,  3014001,   810149,  1652634, -3694233, -1799107,
    -3038916,  3523897,  3866901,   269760,  2213111,  -975884,  1717735,   472078,  -426683,  1723600, -1803090,  1910376, -1667432, -1104333,  -260646, -3833893,
    -2939036, -2235985,  -420899, -2286327,   183443,  -976891,  1612842, -3545687,  -554416,  3919660,   -48306, -1362209,  3937738,  1400424,  -846154,  1976782>>

rvv_zeta == <<
     2091667,  3407706,  2316500,  3817976, -3342478,  2244091, -2446433, -3562462,  2725464,  2706023,    95776, -3930395, -1528703, -3677745, -3041255,        0,
      266997,  2434439, -1235728,  3513181, -3520352, -3759364, -1197226, -3193378,  1024112,  3077325,  3530437, -1452451,  3475950,  2176455, -1585221,    25847,
      900702,  1859098,   909542,   819034,   495491, -1613174,   -43260,  -522500, -1079900, -1661693, -3592148, -1257611,  1939314, -4083598, -1000202, -2608894,
     -655327, -3122442,  2031748,  3207046, -3556995,  -525098,  -768622, -3595838,  3585928, -2537516,  3915439, -3190144, -3157330, -3632928,   126922,  -518909,
      342297,   286988, -2437823,  4108315,  3437287, -3342277,  1735879,   203044,  -549488, -3861115, -3043716,  3412210,  -983419,  2147896,  2715295,   237124,
     2842341,  2691481, -2590150,  1265009,  4055324,  1247620,  2486353,  1595974, -1119584,  3574422, -2867647, -2967645, -3693493,  -411027, -2477047,  -777960,
    -3767016,  1250494,  2635921, -3548272, -2994039,  1869119,  1903435, -1050970,  2619752,  3539968,  -300467,  -671102, -1228525,   -22981, -1308169,  -876248,
    -1333058,  1237275, -3318210, -1430225,  -451100,  1312455,  3306115, -1962642, -2108549,  2348700,  -539299,  -381987,  1349076,  1852771, -1430430,   466468,
    -1279661,  1917081, -2546312, -1374803,  1500165,   777191,  2235880,  3406031, -2118186, -1699267, -1643818, -3343383,   264944,   508951,  3097992,  1826347,
     -542412, -2831860, -1671176, -1846953, -2584293, -3724270,   594136, -3776993, -3859737,  3505694, -3821735,    44288, -1100098,   904516,  3958618,  2353451,
    -2013608,  2432395,  2454455,  -164721,  1957272,  3369112,   185531, -1207385, -1399561,  3507263, -2140649, -3724342,    -8578,  1653064, -3249728,  -359251,
    -3183426,   162844,  1616392,  3014001,   810149,  1652634, -3694233, -1799107, -3277672, -1600420,  3699596,  2389356,  -210977,   759969, -1316856, -2091905,
    -3038916,  3523897,  3866901,   269760,  2213111,  -975884,  1717735,   472078,  1757237,   811944,   531354,   189548, -3553272,  3159746, -1851402,  3119733,
     -426683,  1723600, -1803090,  1910376, -1667432, -1104333,  -260646, -3833893,   -19422,   954230,  3881043, -2409325,  -177440,  1315589,  1341330, -2884855,
    -2939036, -2235985,  -420899, -2286327,   183443,  -976891,  1612842, -3545687,  4010497,  3900724, -2556880,  1285669, -1584928,  -812732, -1439742,  3111497,
     -554416,  3919660,   -48306, -1362209,  3937738,  1400424,  -846154,  1976782,   280005,  2071892, -2797779, -3019102, -3881060, -3628969,  3839961,  2680103>>

rvv_izeta == <<
    -1976782,   846154, -1400424, -3937738,  1362209,    48306, -3919660,   554416,  -280005,  2797779, -2071892, -3839961,  3628969,  3881060,  3019102,        0,
     3545687, -1612842,   976891,  -183443,  2286327,   420899,  2235985,  2939036, -4010497,  2556880, -3900724,  1439742,   812732,  1584928, -1285669,        0,
     3833893,   260646,  1104333,  1667432, -1910376,  1803090, -1723600,   426683,    19422, -3881043,  -954230, -1341330, -1315589,   177440,  2409325,        0,
     -472078, -1717735,   975884, -2213111,  -269760, -3866901, -3523897,  3038916, -1757237,  -531354,  -811944,  1851402, -3159746,  3553272,  -189548,        0,
     1799107,  3694233, -1652634,  -810149, -3014001, -1616392,  -162844,  3183426,  3277672, -3699596,  1600420,  1316856,  -759969,   210977, -2389356,        0,
     1207385,  -185531, -3369112, -1957272,   164721, -2454455, -2432395,  2013608,  1399561,  2140649, -3507263,  3249728, -1653064,     8578,  3724342,        0,
     3776993,  -594136,  3724270,  2584293,  1846953,  1671176,  2831860,   542412,  3859737,  3821735, -3505694, -3958618,  -904516,  1100098,   -44288,        0,
    -3406031, -2235880,  -777191, -1500165,  1374803,  2546312, -1917081,  1279661,  2118186,  1643818,  1699267, -3097992,  -508951,  -264944,  3343383,        0,
     1962642, -3306115, -1312455,   451100,  1430225,  3318210, -1237275,  1333058,  2108549,   539299, -2348700,  1430430, -1852771, -1349076,   381987,        0,
     1050970, -1903435, -1869119,  2994039,  3548272, -2635921, -1250494,  3767016, -2619752,   300467, -3539968,  1308169,    22981,  1228525,   671102,        0,
    -1595974, -2486353, -1247620, -4055324, -1265009,  2590150, -2691481, -2842341,  1119584,  2867647, -3574422,  2477047,   411027,  3693493,  2967645,        0,
     -203044, -1735879,  3342277, -3437287, -4108315,  2437823,  -286988,  -342297,   549488,  3043716,  3861115, -2715295, -2147896,   983419, -3412210,        0,
     3595838,   768622,   525098,  3556995, -3207046, -2031748,  3122442,   655327, -3585928, -3915439,  2537516,  -126922,  3632928,  3157330,  3190144,        0,
      522500,    43260,  1613174,  -495491,  -819034,  -909542, -1859098,  -900702,  1079900,  3592148,  1661693,  1000202,  4083598, -1939314,  1257611,        0,
     3193378,  1197226,  3759364,  3520352, -3513181,  1235728, -2434439,  -266997, -1024112, -3530437, -3077325,  1585221, -2176455, -3475950,  1452451,        0,
     3562462,  2446433, -2244091,  3342478, -3817976, -2316500, -3407706, -2091667, -2725464,   -95776, -2706023,  3041255,  3677745,  1528703,  3930395,        0>>

\* One layer of butterflies at distance len; c[j] is the factor of the pair whose
\* lower half is j.
Forward(f, len, c) ==
  [j \in Idx |-> IF (j \div len) % 2 = 0
                 THEN (f[j] + Mont(f[j + len], c[j])) % Q
                 ELSE (f[j - len] - Mont(f[j], c[j - len])) % Q]

Inverse(f, len, c) ==
  [j \in Idx |-> IF (j \div len) % 2 = 0
                 THEN (f[j] + f[j + len]) % Q
                 ELSE Mont(f[j - len] - f[j], c[j - len])]

\* bitswap_perm: bits a and b of a lane number change places.
bitswap_perm(a, b) ==
  [x \in 0..15 |-> LET d == ((x \div 2^b) % 2) - ((x \div 2^a) % 2)
                   IN  x + d * 2^a - d * 2^b]

p4 == bitswap_perm(2, 3)
p2 == bitswap_perm(1, 3)
p1 == bitswap_perm(0, 3)
Compose(p, q) == [x \in 0..15 |-> p[q[x]]]

\* A vrgather in each of the sixteen pairs of vectors.
Gather(f, p) == [j \in Idx |-> f[16 * (j \div 16) + p[j % 16]]]

\* The lane's factor out of the pair's 16 table entries: c8 is the first eight,
\* cz the others, and cs4, cs2 pick from cz.
Lane(tab, j, shift, first) == tab[16 * (j \div 16) + (j % 8) \div shift + first + 1]

\* The index into rvv_zeta of the factor of j in the layers on whole vectors.
RegisterZeta(layer, j) ==
  LET i == 128 * (j \div 128)
  IN  CASE layer = 0 -> 31
        [] layer = 1 -> 47 + i \div 8
        [] layer = 2 -> 79 + i \div 4 + 16 * ((j % 128) \div 64)
        [] layer = 3 -> 143 + i \div 2 + 16 * ((j % 128) \div 32)

\* The index into zetas of the (negated) factor on the way back.
RegisterIzeta(len, j) ==
  LET i == 128 * (j \div 128)
  IN  CASE len = 16  -> 15 - (i \div 32 + (j % 128) \div 32)
        [] len = 32  -> 7 - (i \div 64 + (j % 128) \div 64)
        [] len = 64  -> 3 - i \div 128
        [] len = 128 -> 1

----------------------------------------------------------------------------
\* Magnitudes, stopping at the largest 32-bit value.
IntMax == 2147483647
Plus(x, y) == IF x > IntMax - y THEN IntMax ELSE x + y

\* |x * y| / 2^32, and what a Montgomery reduction makes of it.
High(x, y) == (x \div 65536 + 1) * (y \div 65536 + 1)
Redc(w)    == w + Q \div 2 + 1

MaxZeta    == 4108315
Grow(m)    == Plus(m, Redc(High(m, MaxZeta)))
NttMag(m)  == Grow(Grow(Grow(Grow(Grow(Grow(Grow(Grow(m))))))))
MulMag(x, y) == Redc(High(x, y))

\* reduce32: what is left of the multiples of 2^23.
Reduce32Mag(m) == 4194304 + ((Plus(m, 4194304)) \div 8388608) * 8191

----------------------------------------------------------------------------
SignW == [ops |-> <<"ntt", "acc", "reduce", "invntt", "caddq">>,
          mag |-> 524288, by |-> Q - 1, add |-> 0]

\* The products of mldsa.c: t = A s1 + s2 in mldsa_keygen_internal, w = A y and
\* z = y + c s1, w0 - c s2, c t0 in mldsa_sign_internal, A z - c t1 2^d in
\* mldsa_verify_internal.  mag is the range of the polynomial that is transformed,
\* by that of its factor, add that of what is added or subtracted from.
Calls ==
  [keygen_t |-> [ops |-> <<"ntt", "acc", "reduce", "invntt", "add", "caddq">>,
                 mag |-> 4, by |-> Q - 1, add |-> 4],
   sign_w   |-> SignW,
   sign_z   |-> [ops |-> <<"ntt", "mul", "invntt", "add", "reduce">>,
                 mag |-> 4, by |-> NttMag(1), add |-> 524288],
   sign_w0  |-> [ops |-> <<"ntt", "mul", "invntt", "sub", "reduce">>,
                 mag |-> 4, by |-> NttMag(1), add |-> 261888],
   sign_h   |-> [ops |-> <<"ntt", "mul", "invntt", "reduce">>,
                 mag |-> 4096, by |-> NttMag(1), add |-> 0],
   verify   |-> [ops |-> <<"shiftl", "ntt", "mul", "sub", "reduce", "invntt", "caddq">>,
                 mag |-> 1023, by |-> NttMag(1),
                 add |-> 7 * MulMag(Q - 1, NttMag(524288))]]

Ell == 7     \* the largest par->ell

At(op) == ip <= Len(Calls[caller].ops) /\ Calls[caller].ops[ip] = op

Advance(last) ==
  /\ lay' = IF lay = last THEN 0 ELSE lay + 1
  /\ ip'  = IF lay = last THEN ip + 1 ELSE ip
  /\ UNCHANGED <<build, caller, deg>>

Init ==
  /\ \E in \in Inputs : build = in[1] /\ caller = in[2] /\ deg = <<in[3], in[4]>>
  /\ ip = 1 /\ lay = 0 /\ wide = 0
  /\ r = [x \in Idx |-> IF x = deg[1] THEN 1 ELSE 0]
  /\ mag = Calls[caller].mag

\* What the transforms are for: X^256 + 1 splits layer by layer into factors
\* X^len - 1753^e, and node n of this tree has the exponent e = Exponent[n].
Exponent[n \in 1..511] ==
  IF n = 1 THEN 256 ELSE Exponent[n \div 2] \div 2 + 256 * (n % 2)

Power[e \in 0..511] ==
  IF e = 0 THEN 1
  ELSE LET h == Power[e \div 2] IN MulMod(MulMod(h, h), IF e % 2 = 1 THEN 1753 ELSE 1)

\* Coefficient x of X^m, in order, after the given number of layers.
Residue(m, layers, x) ==
  LET len == Degree \div 2^layers
  IN  IF x % len # m % len THEN 0
      ELSE Power[(Exponent[2^layers + x \div len] * (m \div len)) % 512]

----------------------------------------------------------------------------
\* mldsa_poly_ntt, one layer a step.
NttC ==
  /\ build = "c" /\ At("ntt")
  /\ LET len == 128 \div 2^lay
     IN  r' = Forward(r, len, [j \in Idx |-> zetas[128 \div len + j \div (2 * len) + 1]])
  /\ mag' = Grow(mag) /\ wide' = High(mag, MaxZeta)
  /\ Advance(7)

\* Mutant: the second half of a layer takes the factor of the first.
NttRegistersOne ==
  /\ build = "rvv" /\ At("ntt") /\ lay < 4
  /\ r' = Forward(r, 128 \div 2^lay, [j \in Idx |-> rvv_zeta[RegisterZeta(lay, j % 128) + 1]])
  /\ mag' = Grow(mag) /\ wide' = High(mag, MaxZeta)
  /\ Advance(7)

NttRegisters ==
  /\ build = "rvv" /\ At("ntt") /\ lay < 4
  /\ r' = Forward(r, 128 \div 2^lay, [j \in Idx |-> rvv_zeta[RegisterZeta(lay, j) + 1]])
  /\ mag' = Grow(mag) /\ wide' = High(mag, MaxZeta)
  /\ Advance(7)

\* vector_ntt2: four layers inside a pair of vectors.
NttVector ==
  /\ build = "rvv" /\ At("ntt") /\ lay >= 4
  /\ \/ lay = 4 /\ r' = Forward(r, 8, [j \in Idx |-> Lane(rvv_zeta, j, 8, 8)])
     \/ lay = 5 /\ r' = Forward(Gather(r, p4), 8, [j \in Idx |-> Lane(rvv_zeta, j, 4, 9)])
     \/ lay = 6 /\ r' = Forward(Gather(r, p2), 8, [j \in Idx |-> Lane(rvv_zeta, j, 2, 11)])
     \/ /\ lay = 7
        /\ r' = Gather(Forward(Gather(r, p1), 8, [j \in Idx |-> Lane(rvv_zeta, j, 1, 0)]),
                       Compose(Compose(p1, p2), p4))
  /\ mag' = Grow(mag) /\ wide' = High(mag, MaxZeta)
  /\ Advance(7)

\* The products of the first entries; the others are zero here.
Pointwise == r' = [x \in Idx |-> Mont(r[x], Residue(deg[2], 8, x))]

\* polyvecl_pointwise_acc_montgomery, a row of the matrix product.
Acc ==
  /\ At("acc") /\ Pointwise
  /\ wide' = High(mag, Calls[caller].by)
  /\ mag'  = Ell * MulMag(mag, Calls[caller].by)
  /\ Advance(0)

\* poly_pointwise_montgomery by the challenge.
Mul ==
  /\ At("mul") /\ Pointwise
  /\ wide' = High(mag, Calls[caller].by)
  /\ mag'  = MulMag(mag, Calls[caller].by)
  /\ Advance(0)

poly_shiftl ==
  /\ At("shiftl")
  /\ r' = [x \in Idx |-> (r[x] * 8192) % Q]
  /\ mag' = mag * 8192 /\ wide' = 0
  /\ Advance(0)

\* Mutant: nothing is reduced before the inverse transform.
ReduceLate ==
  /\ At("reduce")
  /\ UNCHANGED r
  /\ mag' = IF ip + 1 <= Len(Calls[caller].ops) THEN mag ELSE Reduce32Mag(mag)
  /\ wide' = 0
  /\ Advance(0)

\* reduce32 keeps the residue.
mldsa_poly_reduce ==
  /\ At("reduce")
  /\ UNCHANGED r
  /\ mag' = Reduce32Mag(mag) /\ wide' = 0
  /\ Advance(0)

\* A sum or a difference doubles the range; the product of the difference may
\* be the larger one.
InverseMag ==
  LET d == Plus(mag, mag)
      t == Redc(High(d, MaxZeta))
  IN  mag' = (IF t > d THEN t ELSE d) /\ wide' = High(d, MaxZeta)

\* The last step of mldsa_invntt: mont^2 / 256.
Scale(f) ==
  /\ r' = [x \in Idx |-> Mont(f[x], 41978)]
  /\ mag' = MulMag(mag, 41978) /\ wide' = High(mag, 41978)

InvNttC ==
  /\ build = "c" /\ At("invntt")
  /\ \/ /\ lay < 8 /\ InverseMag
        /\ LET len == 2^lay
           IN  r' = Inverse(r, len, [j \in Idx |-> -zetas[Degree \div len - 1 - j \div (2 * len) + 1]])
     \/ lay = 8 /\ Scale(r)
  /\ Advance(8)

\* vector_intt2.
InvNttVector ==
  /\ build = "rvv" /\ At("invntt") /\ lay < 4
  /\ \/ /\ lay = 0
        /\ r' = Inverse(Gather(r, Compose(Compose(p4, p2), p1)), 8,
                        [j \in Idx |-> Lane(rvv_izeta, j, 1, 0)])
     \/ lay = 1 /\ r' = Inverse(Gather(r, p1), 8, [j \in Idx |-> Lane(rvv_izeta, j, 2, 11)])
     \/ lay = 2 /\ r' = Inverse(Gather(r, p2), 8, [j \in Idx |-> Lane(rvv_izeta, j, 4, 9)])
     \/ lay = 3 /\ r' = Inverse(Gather(r, p4), 8, [j \in Idx |-> Lane(rvv_izeta, j, 8, 8)])
  /\ InverseMag
  /\ Advance(8)

InvNttRegisters ==
  /\ build = "rvv" /\ At("invntt") /\ lay >= 4
  /\ \/ /\ lay < 8 /\ InverseMag
        /\ r' = Inverse(r, 2^lay, [j \in Idx |-> -zetas[RegisterIzeta(2^lay, j) + 1]])
     \/ lay = 8 /\ Scale(r)
  /\ Advance(8)

\* What is added, or subtracted from, is X^7; in verification a product in the
\* domain of the transform.
Addend(x) == IF caller = "verify" THEN Mont(Residue(7, 8, x), 1) ELSE Residue(7, 0, x)

AddSub ==
  /\ \/ At("add") /\ r' = [x \in Idx |-> (r[x] + Addend(x)) % Q]
     \/ At("sub") /\ r' = [x \in Idx |-> (Addend(x) - r[x]) % Q]
  /\ mag' = Plus(mag, Calls[caller].add) /\ wide' = 0
  /\ Advance(0)

\* caddq keeps the residue; StandardBefore says what it makes of the range.
poly_caddq ==
  /\ At("caddq")
  /\ UNCHANGED r
  /\ mag' = IF mag < Q THEN Q - 1 ELSE mag
  /\ wide' = 0
  /\ Advance(0)

Done == ip > Len(Calls[caller].ops)

Next ==
  \/ NttC \/ NttRegisters \/ NttVector \/ Acc \/ Mul \/ poly_shiftl
  \/ mldsa_poly_reduce \/ InvNttC \/ InvNttVector \/ InvNttRegisters
  \/ AddSub \/ poly_caddq
  \/ Done /\ UNCHANGED vars

Spec == Init /\ [][Next]_vars

----------------------------------------------------------------------------
\* Every layer of mldsa_ntt splits the ring once more, and the two builds agree
\* on the order and on the tables.
Splits ==
  LET Whole(layers) ==
        \A x \in Idx :
          r[x] = MulMod(Residue(deg[1], layers, x), IF caller = "verify" THEN 8192 ELSE 1)
  IN  /\ At("ntt") /\ (build = "c" \/ lay <= 4) => Whole(lay)
      /\ At("acc") \/ At("mul") => Whole(8)

\* What a caller ends with, modulo q.
Expected(x) ==
  LET p == Residue(deg[1] + deg[2], 0, x)
      a == Residue(7, 0, x)
  IN  CASE caller \in {"keygen_t", "sign_z"} -> p + a
        [] caller \in {"sign_w", "sign_h"}   -> p
        [] caller = "sign_w0"                -> a - p
        [] caller = "verify"                 -> a - MulMod(p, 8192)

\* The callers get the product they compute, modulo q, in either build.
Product == Done => \A x \in Idx : (r[x] - Expected(x)) % Q = 0

\* No 32-bit sum or difference wraps, whatever the inputs, and what is given to
\* montgomery_reduce and to reduce32 keeps to the ranges their comments state.
InRange ==
  /\ mag < IntMax /\ wide <= Q \div 2
  /\ At("reduce") => mag <= IntMax - 4194304

\* power2round, decompose and use_hint take standard representatives: what caddq
\* is given lies within (-q, q).
StandardBefore == At("caddq") => mag < Q
=============================================================================
