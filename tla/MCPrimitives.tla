---------------------------- MODULE MCPrimitives ----------------------------
(* The functions of the two schemes without a protocol around them: a behaviour *)
(* is one of Kernels or one of Codecs, from one of their inputs.                *)
EXTENDS MCKernels, MCCodecs

NoKernel ==
  /\ alg = "none" /\ build = "none" /\ caller = "none" /\ ip = 0 /\ lay = 0
  /\ deg = << >> /\ r = << >> /\ lo = 0 /\ hi = 0 /\ peak = 0 /\ wide = 0
  /\ round = 0 /\ lanes = << >> /\ group = << >> /\ ref = << >>

NoCodec ==
  /\ pc = "none" /\ given = << >> /\ sig = << >> /\ i = 0 /\ k = 0 /\ h = NoHints
  /\ fmt = "none" /\ step = "none" /\ x = << >> /\ buf = << >> /\ y = << >>

PrimitivesInit == (KernelsInit /\ NoCodec) \/ (CodecsInit /\ NoKernel)

PrimitivesNext ==
  \/ alg # "none" /\ KernelsNext /\ UNCHANGED codecVars
  \/ alg = "none" /\ CodecsNext /\ UNCHANGED kernelVars

PrimitivesSpec == PrimitivesInit /\ [][PrimitivesNext]_<<kernelVars, codecVars>>
=============================================================================
