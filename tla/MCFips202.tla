------------------------------ MODULE MCFips202 ------------------------------
(* A rate of three bytes; messages and outputs of up to two blocks and one    *)
(* byte, so that every call can end before, at and after a block boundary.    *)
EXTENDS Fips202
=============================================================================
