---------------------------- MODULE MCMldsaSign ----------------------------
(* Z_33 with alpha = 2 * Gamma2 = 8, so four high parts, 2^D = 8, so that    *)
(* c t0 may reach Gamma2; two rows, of which one hint is allowed.             *)
EXTENDS MldsaSign

MCMatrices == {[r \in Rows |-> IF r = 1 THEN x ELSE m] : x \in 0..(Q - 1), m \in {5, 14}}
=============================================================================
