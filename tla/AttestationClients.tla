------------------------- MODULE AttestationClients -------------------------
(* The attestation service with clients that ask for any of a set of quotes. *)
EXTENDS AttestationService

CONSTANT Asked   \* bound: quotes that clients ask for, amount and moment blank

ASSUME ClientsAssumption == Asked \subseteq QuoteRecords

vars == <<quoteVars, attestVars>>

Next ==
  \/ \E r \in Requests, q \in Asked : AskQuote(r, q)
  \/ \E r \in Requests : QuoteStep(r) \/ AdminStep(r)
  \/ ApplyWrite
  \/ WriteFails
  \/ StartStep
  \/ NextBlock /\ UNCHANGED attestVars

Spec == AttestInit /\ [][Next]_vars
=============================================================================
