------------------------------ MODULE MCCodecs ------------------------------
(* Hints: byte strings over 0..4, three index bytes and two counts, so that a  *)
(* count may be below the last one, equal to Omega and above it.               *)
(* Coefficients: compressed ones take every value a reduction leaves, eight    *)
(* consecutive ones in a group; the others have a single bit set at every      *)
(* place, or are at the end of their range among others at its other end.      *)
EXTENDS Codecs, Integers

\* The formats alone.
Tables == INSTANCE PolyCodec WITH Groups <- {}, Noise <- {}

\* The value that is packed as zero.
Nought(f) == IF f \in DOMAIN Tables!Zero THEN Tables!Zero[f] ELSE 0

SingleBits(f) ==
  {v \in {IF Nought(f) > 0 THEN Nought(f) - 2^b ELSE 2^b : b \in 0..19} :
     v \in Tables!Given(f)}

\* Coefficient p is v, the others are b; byte p is v, the others are zero.
Group(p, v, b) == [c \in 0..7 |-> IF c = p THEN v ELSE b]
Eight(v)       == [c \in 0..7 |-> IF v + c > 1664 THEN 1664 ELSE v + c]
Stream(p, v)   == [b \in 0..191 |-> IF b = p THEN Tables!Bits(v) ELSE {}]

MCGroups ==
       {<<f, Eight(v)>> : f \in DOMAIN Tables!Scale, v \in {u \in -1664..1664 : u % 8 = 0}}
  \cup UNION {    {<<f, Group(p, v, Nought(f))>> : p \in 0..7, v \in SingleBits(f)}
             \cup {<<f, Group(p, Tables!Ends[f][1], Tables!Ends[f][2])>> : p \in 0..7} :
             f \in DOMAIN Tables!Format \ DOMAIN Tables!Scale}

MCNoise ==
       {<<s, Stream(p, v)>> : s \in {"cbd2", "cbd2_rvv"}, p \in 0..127, v \in {1, 226, 255}}
  \cup {<<s, Stream(p, v)>> : s \in {"cbd3", "cbd3_rvv"}, p \in 0..191, v \in {1, 226, 255}}
  \cup {<<s, Stream(p, v)>> : s \in {"cbd2", "cbd2_rvv", "cbd3", "cbd3_rvv"},
                              p \in {1, 94}, v \in 0..255}
=============================================================================
