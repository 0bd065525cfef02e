---------------------------- MODULE MCHostBuilds ----------------------------
(* Two sets of inputs to change between, two root file systems of three files. *)
EXTENDS HostBuilds
=============================================================================
