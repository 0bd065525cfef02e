--------------------------------- MODULE XOF ---------------------------------
(***************************************************************************)
(* What the sponge of fips202.c promises its callers, whatever the chunks  *)
(* they use: byte i of the message is mixed into block i \div Rate at      *)
(* offset i % Rate, the padding closes the last block, and byte j of the   *)
(* output is read from the j-th byte of the blocks after it.               *)
(***************************************************************************)
EXTENDS Integers

CONSTANT Rate   \* bytes of the state that are exchanged with the caller

VARIABLES
  stage,   \* "none", "absorbing" or "squeezing"
  taken,   \* number of message bytes absorbed
  laid,    \* <<i, b, o>>: message byte i went to block b at offset o
  pads,    \* <<d, b, o>>: padding byte d went to block b at offset o
  given,   \* number of output bytes produced
  read     \* <<j, b, o>>: output byte j came from block b at offset o

xvars == <<stage, taken, laid, pads, given, read>>

MessageByte(i)     == <<i, i \div Rate, i % Rate>>
OutputByte(len, j) == <<j, len \div Rate + 1 + j \div Rate, j % Rate>>

MessageBytes(from, to) == {MessageByte(i) : i \in from..(to - 1)}

Init ==
  /\ stage = "none"
  /\ taken = 0 /\ laid = {} /\ pads = {}
  /\ given = 0 /\ read = {}

Start ==
  /\ stage' = "absorbing"
  /\ taken' = 0 /\ laid' = {} /\ pads' = {}
  /\ given' = 0 /\ read' = {}

Take ==
  /\ stage = "absorbing"
  /\ taken' \in Nat /\ taken' >= taken
  /\ laid' = laid \cup MessageBytes(taken, taken')
  /\ UNCHANGED <<stage, pads, given, read>>

\* The last message bytes (an absorb_once hands them over together with the
\* padding), the domain byte after them and the final bit of the same block.
Close ==
  /\ stage = "absorbing" /\ stage' = "squeezing"
  /\ taken' \in Nat /\ taken' >= taken
  /\ laid' = laid \cup MessageBytes(taken, taken')
  /\ \E d \in {"shake", "sha3"} :
       pads' = {<<d, taken' \div Rate, taken' % Rate>>, <<"final", taken' \div Rate, Rate - 1>>}
  /\ UNCHANGED <<given, read>>

Give ==
  /\ stage = "squeezing" /\ stage' \in {"squeezing", "none"}
  /\ given' \in Nat /\ given' >= given
  /\ read' = read \cup {OutputByte(taken, j) : j \in given..(given' - 1)}
  /\ UNCHANGED <<taken, laid, pads>>

Next == Start \/ Take \/ Close \/ Give

Spec == Init /\ [][Next]_xvars
=============================================================================
