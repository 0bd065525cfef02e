------------------------------ MODULE Samplers ------------------------------
(***************************************************************************)
(* The functions that make polynomials of a SHAKE stream: poly_challenge   *)
(* (Challenge) and the rejection samplers (Sampling).  A behaviour is one  *)
(* call of one of them; they share no state.                               *)
(***************************************************************************)
EXTENDS Challenge, Sequences

CONSTANTS
  Kinds,      \* the rejection samplers and their sizes
  MaxUnits    \* units of the stream in which candidates may be rejected

VARIABLES
  call,       \* the function called: "challenge" or "sampler"
  s, bad, rpc, buf, next, rpos, out     \* of Sampling

Rej == INSTANCE Sampling WITH Samplers <- Kinds, pc <- rpc, pos <- rpos

ASSUME SamplersAssumption == Rej!SamplingAssumption

rvars == <<s, bad, rpc, buf, next, rpos, out>>

SamplersInit ==
  /\ call \in {"challenge", "sampler"}
  /\ Init /\ Rej!Init
  /\ call = "challenge" => bad = {} /\ s = CHOOSE k \in Kinds : TRUE

poly_challenge == call = "challenge" /\ Next /\ UNCHANGED <<call, rvars>>
poly_uniform   == call = "sampler" /\ Rej!Next /\ UNCHANGED <<call, vars>>

SamplersNext == poly_challenge \/ poly_uniform

\* A function call runs to its end.
SamplersSpec == SamplersInit /\ [][SamplersNext]_<<call, vars, rvars>>
                /\ WF_<<call, vars, rvars>>(SamplersNext)

----------------------------------------------------------------------------
\* A rejection sampler never fills buf[] past its size nor a[] past its n
\* coefficients, whichever candidates are accepted at a boundary.
InBounds == Rej!TypeOK

\* Its coefficients are the first accepted candidates of the stream (see Sampling).
FirstAccepted == Rej!FirstAccepted

\* It returns with all n coefficients once the stream gives enough candidates.
SamplerReturns == call = "sampler" => Rej!SamplerReturns
=============================================================================
