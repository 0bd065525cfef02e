----------------------------- MODULE MCSamplers -----------------------------
(* The samplers of tools/pqc with their sizes scaled down: groups of two      *)
(* units for the eight of a vector, blocks of a few units.  poly_uniform also *)
(* with blocks that end inside a unit, which is what its kept bytes are for.  *)
(* The challenge has six coefficients, four of them placed; blocks of three   *)
(* bytes, the first of which holds the signs, so that placements use bytes of *)
(* several blocks.                                                            *)
EXTENDS Samplers

uniform         == [unit |-> 3, per |-> 1, group |-> 1, tail |-> 0, keep |-> 1,
                    block |-> 6, nblocks |-> 2, spare |-> 2, n |-> 4]
uniform_odd     == [uniform EXCEPT !.block = 4, !.nblocks = 1]
uniform_rvv     == [uniform EXCEPT !.group = 2, !.tail = 1]
uniform_rvv_odd == [uniform_rvv EXCEPT !.block = 7, !.nblocks = 1]
uniform_eta     == [unit |-> 1, per |-> 2, group |-> 1, tail |-> 0, keep |-> 0,
                    block |-> 2, nblocks |-> 1, spare |-> 0, n |-> 5]
gen_matrix      == [unit |-> 3, per |-> 2, group |-> 1, tail |-> 0, keep |-> 0,
                    block |-> 6, nblocks |-> 1, spare |-> 0, n |-> 5]
gen_matrix_rvv  == [gen_matrix EXCEPT !.group = 2]

MCKinds == {uniform, uniform_odd, uniform_rvv, uniform_rvv_odd, uniform_eta, gen_matrix,
            gen_matrix_rvv}
=============================================================================
