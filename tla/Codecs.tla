------------------------------- MODULE Codecs -------------------------------
(***************************************************************************)
(* Everything that turns polynomials and hints into bytes and back: a      *)
(* behaviour packs and unpacks either a hint vector (HintCodec) or a group *)
(* of coefficients, or samples noise from bytes (PolyCodec).               *)
(***************************************************************************)
EXTENDS HintCodec

CONSTANTS Groups, Noise
VARIABLES fmt, step, x, buf, y

Poly == INSTANCE PolyCodec WITH Groups <- Groups, Noise <- Noise

\* Coefficients in the range of their format, bytes of eight bits.
ASSUME CodecsAssumption ==
  /\ \A g \in Groups : g[1] \in DOMAIN Poly!Format /\ g[2] \in [0..7 -> Poly!Given(g[1])]
  /\ \A g \in Noise : /\ g[1] \in {"cbd2", "cbd3", "cbd2_rvv", "cbd3_rvv"}
                      /\ g[2] \in [0..191 -> SUBSET (0..7)]

codecVars == <<vars, fmt, step, x, buf, y>>

CodecsInit ==
  \/ Init /\ fmt = "none" /\ step = "none" /\ x = << >> /\ buf = << >> /\ y = << >>
  \/ /\ Poly!Init
     /\ pc = "none" /\ given = << >> /\ sig = << >> /\ i = 0 /\ k = 0 /\ h = NoHints

CodecsNext ==
  \/ pc # "none" /\ Next /\ UNCHANGED <<fmt, step, x, buf, y>>
  \/ step # "none" /\ Poly!Next /\ UNCHANGED vars

CodecsSpec == CodecsInit /\ [][CodecsNext]_codecVars

----------------------------------------------------------------------------
\* Index bytes are written and read below Omega only, also while the counts
\* come from bytes that no signer wrote.
HintsInBounds == pc # "none" => TypeOK

\* Whatever poly_compress, polyvec_compress, poly_tobytes, poly_tomsg and the pack
\* functions of ML-DSA write is the little-endian bit string of the coefficients,
\* and compression rounds exactly although it divides by multiplying.
LittleEndian == Poly!LittleEndian

\* What the unpack functions read back is what was packed, or within half a
\* rounding step of it where bits are dropped.
CoefficientsReturn == Poly!RoundTrip

\* cbd2 and cbd3 of cbd.c, and lane by lane those of cbd_rvv.c, are differences of
\* sums of consecutive bits of the stream.
NoiseIsBinomial == Poly!NoiseIsBinomial
=============================================================================
