----------------------------- MODULE MCKernels -----------------------------
(* The transforms are linear: every X^i in one caller covers all polynomials   *)
(* in the vector builds.  X^255 alone meets every factor of the C loops.  Both *)
(* parities of j cover the factors of ML-KEM.                                  *)
EXTENDS Kernels

Builds == {"c", "rvv"}
Some   == {0, 1, 2, 31, 100, 255}

KemCallers == {"kpke_keygen", "kpke_encrypt", "kpke_decrypt"}
DsaCallers == {"keygen_t", "sign_w", "sign_z", "sign_w0", "sign_h", "verify"}

MCKemInputs ==
       (Builds \X KemCallers \X Some \X {2, 3})
  \cup ({"rvv"} \X {"kpke_encrypt"} \X (0..255) \X {3})

MCDsaInputs ==
       (Builds \X DsaCallers \X Some \X {3})
  \cup ({"rvv"} \X {"sign_w"} \X (0..255) \X {3})

\* Lane l holds the bits, the others are zero.
Lane(l, bits) == [n \in 0..24 |-> IF n = l THEN bits ELSE {}]

MCStarts ==
       {<<"c", Lane(l, {0})>> : l \in 0..24}
  \cup {<<b, Lane(l, bits)>> : b \in {"c", "vk128", "vk256"}, l \in {0, 17},
                               bits \in {{1, 5, 63}, 0..63}}
=============================================================================
