---------------------------- MODULE MCMlkemKem ----------------------------
(* Two key pairs, so that a ciphertext can reach the wrong one, and at most  *)
(* two ciphertexts on the way: an honest and an altered one, or two honest.  *)
EXTENDS MlkemKem

MCPars == DOMAIN mlkem_par
=============================================================================
