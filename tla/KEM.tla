--------------------------------- MODULE KEM ---------------------------------
(***************************************************************************)
(* What a key encapsulation mechanism promises.  A key pair is a table of  *)
(* ciphertexts, one for each message, no two alike.  Encapsulation gives a *)
(* row of it and the secret of that row.  Decapsulation finds the row; for *)
(* any other ciphertext it returns a secret of the key and the ciphertext  *)
(* alone, which no encapsulation gives.                                    *)
(***************************************************************************)
EXTENDS Functions

CONSTANTS
  Ids,     \* owners of a key pair
  Msgs     \* what is encapsulated

VARIABLES
  enc,     \* the table of each owner, empty before there is a key pair
  out      \* the last call and what it returned

Shared(id, m)  == <<"shared", id, m>>
Reject(id, ct) == <<"reject", id, ct>>

Init == enc = [id \in Ids |-> << >>] /\ out = [call |-> "none"]

KeyGen(id) ==
  /\ enc[id] = << >>
  /\ DOMAIN enc'[id] = Msgs /\ IsInjective(enc'[id])
  /\ \A other \in Ids \ {id} : enc'[other] = enc[other]
  /\ out' = [call |-> "keygen", id |-> id]

Encaps(id, m) ==
  /\ enc[id] # << >>
  /\ out' = [call |-> "encaps", id |-> id, ct |-> enc[id][m], key |-> Shared(id, m)]
  /\ UNCHANGED enc

Decaps(id) ==
  /\ enc[id] # << >>
  /\ out'.call = "decaps" /\ out'.id = id
  /\ LET rows == {m \in Msgs : enc[id][m] = out'.ct}
     IN  IF rows = {} THEN out'.key = Reject(id, out'.ct)
         ELSE \E m \in rows : out'.key = Shared(id, m)
  /\ UNCHANGED enc

Next ==
  \E id \in Ids : KeyGen(id) \/ Decaps(id) \/ \E m \in Msgs : Encaps(id, m)

Spec == Init /\ [][Next]_<<enc, out>>
=============================================================================
