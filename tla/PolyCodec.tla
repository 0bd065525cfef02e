------------------------------ MODULE PolyCodec ------------------------------
(***************************************************************************)
(* How the coefficients of ML-KEM and ML-DSA polynomials become bytes and  *)
(* bytes become coefficients: compression, bit packing, and the centred    *)
(* binomial noise in its C and its vector form.                            *)
(*                                                                         *)
(* Every format packs eight coefficients of w bits into w bytes.  A word   *)
(* is the set of its one bits: a shift moves them, "or" is union, the      *)
(* conversion to uint8_t keeps 0..7.  A recipe lists for each word it      *)
(* fills which words go into it, <<index, shift>>, to the right if the     *)
(* shift is positive.                                                      *)
(***************************************************************************)
EXTENDS Integers, Sequences, FiniteSets

CONSTANTS
  Groups,    \* <<format, the eight coefficients>>
  Noise      \* <<sampler, the bytes of the stream>>

VARIABLES
  fmt,       \* the format, or the noise sampler
  step,      \* "given", "stored", "loaded"
  x,         \* the coefficients that are packed
  buf,       \* the bytes
  y          \* the coefficients that come out

vars == <<fmt, step, x, buf, y>>

Bits(n)  == {k \in 0..23 : (n \div 2^k) % 2 = 1}
Value(s) ==
  LET below[k \in 0..24] ==
        IF k = 0 THEN 0 ELSE below[k - 1] + (IF k - 1 \in s THEN 2^(k - 1) ELSE 0)
  IN  below[24]
Shift(s, n) == {k - n : k \in {j \in s : j >= n}}

----------------------------------------------------------------------------
poly_compress_4   == << {<<0, 0>>, <<1, -4>>}, {<<2, 0>>, <<3, -4>>},
                        {<<4, 0>>, <<5, -4>>}, {<<6, 0>>, <<7, -4>>} >>
poly_decompress_4 == << {<<0, 0>>}, {<<0, 4>>} >>

poly_compress_5   == << {<<0, 0>>, <<1, -5>>}, {<<1, 3>>, <<2, -2>>, <<3, -7>>},
                        {<<3, 1>>, <<4, -4>>}, {<<4, 4>>, <<5, -1>>, <<6, -6>>},
                        {<<6, 2>>, <<7, -3>>} >>
poly_decompress_5 == << {<<0, 0>>}, {<<0, 5>>, <<1, -3>>}, {<<1, 2>>},
                        {<<1, 7>>, <<2, -1>>}, {<<2, 4>>, <<3, -4>>}, {<<3, 1>>},
                        {<<3, 6>>, <<4, -2>>}, {<<4, 3>>} >>

polyvec_compress_10   == << {<<0, 0>>}, {<<0, 8>>, <<1, -2>>}, {<<1, 6>>, <<2, -4>>},
                            {<<2, 4>>, <<3, -6>>}, {<<3, 2>>} >>
polyvec_decompress_10 == << {<<0, 0>>, <<1, -8>>}, {<<1, 2>>, <<2, -6>>},
                            {<<2, 4>>, <<3, -4>>}, {<<3, 6>>, <<4, -2>>} >>

polyvec_compress_11   == << {<<0, 0>>}, {<<0, 8>>, <<1, -3>>}, {<<1, 5>>, <<2, -6>>},
                            {<<2, 2>>}, {<<2, 10>>, <<3, -1>>}, {<<3, 7>>, <<4, -4>>},
                            {<<4, 4>>, <<5, -7>>}, {<<5, 1>>}, {<<5, 9>>, <<6, -2>>},
                            {<<6, 6>>, <<7, -5>>}, {<<7, 3>>} >>
polyvec_decompress_11 == << {<<0, 0>>, <<1, -8>>}, {<<1, 3>>, <<2, -5>>},
                            {<<2, 6>>, <<3, -2>>, <<4, -10>>}, {<<4, 1>>, <<5, -7>>},
                            {<<5, 4>>, <<6, -4>>}, {<<6, 7>>, <<7, -1>>, <<8, -9>>},
                            {<<8, 2>>, <<9, -6>>}, {<<9, 5>>, <<10, -3>>} >>

poly_tobytes   == << {<<0, 0>>}, {<<0, 8>>, <<1, -4>>}, {<<1, 4>>} >>
poly_frombytes == << {<<0, 0>>, <<1, -8>>}, {<<1, 4>>, <<2, -4>>} >>

poly_tomsg   == << {<<j, -j>> : j \in 0..7} >>
poly_frommsg == [j \in 1..8 |-> {<<0, j - 1>>}]

polyeta_pack_2   == << {<<0, 0>>, <<1, -3>>, <<2, -6>>},
                       {<<2, 2>>, <<3, -1>>, <<4, -4>>, <<5, -7>>},
                       {<<5, 1>>, <<6, -2>>, <<7, -5>>} >>
polyeta_unpack_2 == << {<<0, 0>>}, {<<0, 3>>}, {<<0, 6>>, <<1, -2>>}, {<<1, 1>>},
                       {<<1, 4>>}, {<<1, 7>>, <<2, -1>>}, {<<2, 2>>}, {<<2, 5>>} >>

polyeta_pack_4   == << {<<0, 0>>, <<1, -4>>} >>
polyeta_unpack_4 == << {<<0, 0>>}, {<<0, 4>>} >>

polyt1_pack   == << {<<0, 0>>}, {<<0, 8>>, <<1, -2>>}, {<<1, 6>>, <<2, -4>>},
                    {<<2, 4>>, <<3, -6>>}, {<<3, 2>>} >>
polyt1_unpack == << {<<0, 0>>, <<1, -8>>}, {<<1, 2>>, <<2, -6>>},
                    {<<2, 4>>, <<3, -4>>}, {<<3, 6>>, <<4, -2>>} >>

polyt0_pack   == << {<<0, 0>>}, {<<0, 8>>, <<1, -5>>}, {<<1, 3>>}, {<<1, 11>>, <<2, -2>>},
                    {<<2, 6>>, <<3, -7>>}, {<<3, 1>>}, {<<3, 9>>, <<4, -4>>}, {<<4, 4>>},
                    {<<4, 12>>, <<5, -1>>}, {<<5, 7>>, <<6, -6>>}, {<<6, 2>>},
                    {<<6, 10>>, <<7, -3>>}, {<<7, 5>>} >>
polyt0_unpack == << {<<0, 0>>, <<1, -8>>}, {<<1, 5>>, <<2, -3>>, <<3, -11>>},
                    {<<3, 2>>, <<4, -6>>}, {<<4, 7>>, <<5, -1>>, <<6, -9>>},
                    {<<6, 4>>, <<7, -4>>, <<8, -12>>}, {<<8, 1>>, <<9, -7>>},
                    {<<9, 6>>, <<10, -2>>, <<11, -10>>}, {<<11, 3>>, <<12, -5>>} >>

polyz_pack_17   == << {<<0, 0>>}, {<<0, 8>>}, {<<0, 16>>, <<1, -2>>}, {<<1, 6>>},
                      {<<1, 14>>, <<2, -4>>}, {<<2, 4>>}, {<<2, 12>>, <<3, -6>>},
                      {<<3, 2>>}, {<<3, 10>>} >>
polyz_unpack_17 == << {<<0, 0>>, <<1, -8>>, <<2, -16>>}, {<<2, 2>>, <<3, -6>>, <<4, -14>>},
                      {<<4, 4>>, <<5, -4>>, <<6, -12>>}, {<<6, 6>>, <<7, -2>>, <<8, -10>>} >>

polyz_pack_19   == << {<<0, 0>>}, {<<0, 8>>}, {<<0, 16>>, <<1, -4>>}, {<<1, 4>>}, {<<1, 12>>} >>
\* Mutant: the highest bits are forgotten.
PolyzUnpackShort == << {<<0, 0>>, <<1, -8>>, <<2, -16>>}, {<<2, 4>>, <<3, -4>>} >>

polyz_unpack_19 == << {<<0, 0>>, <<1, -8>>, <<2, -16>>}, {<<2, 4>>, <<3, -4>>, <<4, -12>>} >>

\* The verifier hashes w1 and never unpacks it.
polyw1_pack_88 == << {<<0, 0>>, <<1, -6>>}, {<<1, 2>>, <<2, -4>>}, {<<2, 4>>, <<3, -2>>} >>
polyw1_pack_32 == << {<<0, 0>>, <<1, -4>>} >>

\* w bits; a byte holds zero - c where zero is given, c otherwise.
Format ==
  [msg  |-> [w |-> 1,  pack |-> poly_tomsg,          unpack |-> poly_frommsg],
   dv4  |-> [w |-> 4,  pack |-> poly_compress_4,     unpack |-> poly_decompress_4],
   dv5  |-> [w |-> 5,  pack |-> poly_compress_5,     unpack |-> poly_decompress_5],
   du10 |-> [w |-> 10, pack |-> polyvec_compress_10, unpack |-> polyvec_decompress_10],
   du11 |-> [w |-> 11, pack |-> polyvec_compress_11, unpack |-> polyvec_decompress_11],
   poly |-> [w |-> 12, pack |-> poly_tobytes,        unpack |-> poly_frombytes],
   eta2 |-> [w |-> 3,  pack |-> polyeta_pack_2,      unpack |-> polyeta_unpack_2],
   eta4 |-> [w |-> 4,  pack |-> polyeta_pack_4,      unpack |-> polyeta_unpack_4],
   t1   |-> [w |-> 10, pack |-> polyt1_pack,         unpack |-> polyt1_unpack],
   t0   |-> [w |-> 13, pack |-> polyt0_pack,         unpack |-> polyt0_unpack],
   z17  |-> [w |-> 18, pack |-> polyz_pack_17,       unpack |-> polyz_unpack_17],
   z19  |-> [w |-> 20, pack |-> polyz_pack_19,       unpack |-> polyz_unpack_19],
   w88  |-> [w |-> 6,  pack |-> polyw1_pack_88,      unpack |-> << >>],
   w32  |-> [w |-> 4,  pack |-> polyw1_pack_32,      unpack |-> << >>]]

Zero == [eta2 |-> 2, eta4 |-> 4, t0 |-> 4096, z17 |-> 131072, z19 |-> 524288]

\* The least and the greatest coefficient a packer is given: what barrett_reduce leaves
\* where it compresses, anything in (-q, q) for poly_tobytes, and the ranges of s, t1,
\* t0, z and w1.
Ends ==
  [msg  |-> <<-1664, 1664>>, dv4 |-> <<-1664, 1664>>, dv5 |-> <<-1664, 1664>>,
   du10 |-> <<-1664, 1664>>, du11 |-> <<-1664, 1664>>, poly |-> <<-3328, 3328>>,
   eta2 |-> <<-2, 2>>, eta4 |-> <<-4, 4>>, t1 |-> <<0, 1023>>, t0 |-> <<-4095, 4096>>,
   z17  |-> <<-131071, 131072>>, z19 |-> <<-524287, 524288>>,
   w88  |-> <<0, 43>>, w32 |-> <<0, 15>>]

Given(f) == Ends[f][1]..Ends[f][2]

\* What is stored without a final mask: <<format, place in the recipe>>.
Unmasked == {<<"dv4", 1>>, <<"eta4", 1>>, <<"z19", 1>>}

----------------------------------------------------------------------------
Q == 3329

\* x * m >> s, a byte of m at a time (the values of TLC have 32 bits).
MulShr(n, m, s) ==
  (((((n * (m % 256)) \div 256) + n * ((m \div 256) % 256)) \div 256)
     + n * (m \div 65536)) \div 2^(s - 16)

\* d, the rounding term, and the multiplication and shift for a division by q.
Scale ==
  [msg  |-> <<1,  1665, 80635,   28>>,
   dv4  |-> <<4,  1665, 80635,   28>>,
   dv5  |-> <<5,  1664, 40318,   27>>,
   du10 |-> <<10, 1665, 1290167, 32>>,
   du11 |-> <<11, 1664, 645084,  31>>]

Standard(c) == IF c < 0 THEN c + Q ELSE c

\* Mutant: the rounding term is left out.
CompressDown(f, c) ==
  LET k == Scale[f]
      u == IF f = "msg" THEN c ELSE Standard(c)
  IN  MulShr(u * 2^k[1], k[3], k[4]) % 2^k[1]

\* poly_tomsg alone does not map to standard representatives first.
Compress(f, c) ==
  LET k == Scale[f]
      u == IF f = "msg" THEN c ELSE Standard(c)
  IN  MulShr(u * 2^k[1] + k[2], k[3], k[4]) % 2^k[1]

Decompress(f, u) == LET d == Scale[f][1] IN (u * Q + 2^(d - 1)) \div 2^d

Encode(f, c) ==
  CASE f \in DOMAIN Scale -> Compress(f, c)
    [] f \in DOMAIN Zero  -> Zero[f] - c
    [] f = "poly"         -> Standard(c)
    [] OTHER              -> c

Decode(f, u) ==
  CASE f \in DOMAIN Scale -> Decompress(f, u)
    [] f \in DOMAIN Zero  -> Zero[f] - u
    [] OTHER              -> u

\* Word n out of the words of a group, by a recipe that is repeated after "per" of
\* the words it reads.
Gather(recipe, per, words, n) ==
  LET first == (n \div Len(recipe)) * per
  IN  UNION {Shift(words[first + t[1]], t[2]) : t \in recipe[(n % Len(recipe)) + 1]}

----------------------------------------------------------------------------
\* cbd.c and cbd_rvv.c.  The masked additions are taken by their result, a sum of eta
\* bits in each field of eta bits of d (the mask constants themselves are not here);
\* noise is the difference of two neighbouring fields.
Field(t, eta, f) == Cardinality({k \in t : k \div eta = f})
Signed(n, w)     == IF n >= 2^(w - 1) THEN n - 2^w ELSE n

Load(bytes, first, count) == UNION {Shift(bytes[first + b], -8 * b) : b \in 0..(count - 1)}

cbd2(bytes) ==
  [c \in 0..255 |-> LET t == Load(bytes, 4 * (c \div 8), 4)
                        j == c % 8
                    IN  Field(t, 2, 2 * j) - Field(t, 2, 2 * j + 1)]

cbd3(bytes) ==
  [c \in 0..255 |-> LET t == Load(bytes, 3 * (c \div 4), 3)
                        j == c % 4
                    IN  Field(t, 3, 2 * j) - Field(t, 3, 2 * j + 1)]

\* Mutant: c0 and c1 are stored one after the other.
Cbd2Planar(bytes) ==
  [c \in 0..255 |-> LET t == bytes[16 * (c \div 32) + (c % 16)]
                        n == (c % 32) \div 16
                    IN  Signed((Field(t, 2, 2 * n) - Field(t, 2, 2 * n + 1)) % 256, 8)]

\* Sixteen lanes, one byte each; c0 and c1 are stored interleaved.
cbd2_rvv(bytes) ==
  [c \in 0..255 |-> LET i    == c \div 32
                        lane == (c % 32) \div 2
                        t    == bytes[16 * i + lane]
                        n    == c % 2
                    IN  Signed((Field(t, 2, 2 * n) - Field(t, 2, 2 * n + 1)) % 256, 8)]

\* Eight lanes of three bytes; c0..c3 are stored with a stride of four words and
\* narrowed to 16 bits.
cbd3_rvv(bytes) ==
  [c \in 0..255 |-> LET i    == c \div 32
                        lane == (c % 32) \div 4
                        t    == Load(bytes, 24 * i + 3 * lane, 3)
                        n    == c % 4
                    IN  Signed((Field(t, 3, 2 * n) - Field(t, 3, 2 * n + 1)) % 65536, 16)]

----------------------------------------------------------------------------
Init ==
  /\ step = "given" /\ y = << >>
  /\ \/ \E g \in Groups : fmt = g[1] /\ x = g[2] /\ buf = << >>
     \/ \E g \in Noise : fmt = g[1] /\ x = << >> /\ buf = g[2]

Pack ==
  /\ step = "given" /\ fmt \in DOMAIN Format
  /\ LET f     == Format[fmt]
         words == [c \in 0..7 |-> Bits(Encode(fmt, x[c]))]
     IN  buf' = [b \in 0..(f.w - 1) |->
                   Gather(f.pack, (8 * Len(f.pack)) \div f.w, words, b) \cap 0..7]
  /\ step' = "stored"
  /\ UNCHANGED <<fmt, x, y>>

Unpack ==
  /\ step = "stored" /\ Format[fmt].unpack # << >>
  /\ LET f == Format[fmt]
         u(c) == LET g == Gather(f.unpack, (f.w * Len(f.unpack)) \div 8, buf, c)
                 IN  IF <<fmt, c % Len(f.unpack)>> \in Unmasked THEN g ELSE g \cap 0..(f.w - 1)
     IN  y' = [c \in 0..7 |-> Decode(fmt, Value(u(c)))]
  /\ step' = "loaded"
  /\ UNCHANGED <<fmt, x, buf>>

poly_cbd ==
  /\ step = "given" /\ fmt \notin DOMAIN Format
  /\ y' = CASE fmt = "cbd2"     -> cbd2(buf)
            [] fmt = "cbd3"     -> cbd3(buf)
            [] fmt = "cbd2_rvv" -> cbd2_rvv(buf)
            [] fmt = "cbd3_rvv" -> cbd3_rvv(buf)
  /\ step' = "loaded"
  /\ UNCHANGED <<fmt, x, buf>>

Done == step = "loaded" \/ (step = "stored" /\ Format[fmt].unpack = << >>)

Next == Pack \/ Unpack \/ poly_cbd \/ (Done /\ UNCHANGED vars)

Spec == Init /\ [][Next]_vars

----------------------------------------------------------------------------
\* The rounding the comments of poly_compress and polyvec_compress state.
Rounded(f, c) == ((Standard(c) * 2^Scale[f][1] + Q \div 2) \div Q) % 2^Scale[f][1]

\* Packed bytes are the little-endian bit string of the coefficients, and those of a
\* compressed polynomial are rounded exactly, although the code divides by
\* multiplying and shifting.
LittleEndian ==
  step = "stored" =>
    LET w == Format[fmt].w
        u(c) == IF fmt \in DOMAIN Scale THEN Rounded(fmt, x[c]) ELSE Encode(fmt, x[c])
    IN  \A b \in 0..(w - 1), k \in 0..7 :
          k \in buf[b] <=> (8 * b + k) % w \in Bits(u((8 * b + k) \div w))

\* What is unpacked is what was packed (modulo q for poly_tobytes), or, where the
\* format drops bits, no further from it than half a rounding step.
RoundTrip ==
  step = "loaded" /\ fmt \in DOMAIN Format =>
    \A c \in 0..7 :
      LET e == (y[c] - x[c]) % Q
          half == LET d == Scale[fmt][1] IN (Q + 2^d) \div 2^(d + 1)
      IN  CASE fmt \in DOMAIN Scale -> e <= half \/ Q - e <= half
            [] fmt = "poly"         -> e = 0
            [] OTHER                -> y[c] = x[c]

\* Each noise coefficient is the difference of two sums of eta consecutive bits, in
\* the C build and lane by lane in the vector build.
NoiseIsBinomial ==
  step = "loaded" /\ fmt \notin DOMAIN Format =>
    LET eta == IF fmt \in {"cbd2", "cbd2_rvv"} THEN 2 ELSE 3
        Sum(n) == Cardinality({k \in n..(n + eta - 1) : k % 8 \in buf[k \div 8]})
    IN  \A c \in 0..255 : y[c] = Sum(2 * eta * c) - Sum(2 * eta * c + eta)
=============================================================================
