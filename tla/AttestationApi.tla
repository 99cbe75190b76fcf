--------------------------- MODULE AttestationApi ---------------------------
(***************************************************************************)
(* The attestation service as a process (services/attestation index.ts,    *)
(* server.ts): it starts with some settings or exits, counts quote         *)
(* requests, checks credentials, and awaits the operator's wallet before   *)
(* it signs.  Policies and prices are those of AttestationService; here a  *)
(* request is well formed or not.                                          *)
(***************************************************************************)
EXTENDS OperatorTreasury, Sequences

CONSTANTS
  Ips,            \* addresses requests come from
  Amounts,        \* bound: amounts a sweep is asked for, zero for none
  Candidates      \* bound: settings the service is started with

ASSUME ApiAssumption ==
  Candidates \subseteq Settings /\ Amounts \subseteq Nat /\ IsFiniteSet(Ips)

VARIABLES
  process,    \* down, listening, or exited for good
  tracked,    \* keys the limiter tracks, the least recently used first
  used,       \* used[k]: requests counted for key k in its window
  admitted,   \* history: admitted[k]: requests let through in the window of k
  rivals,     \* history: rivals[k]: who was counted since the last request of k
  crowded     \* history: who saw as many rivals as the limiter tracks keys, between
              \* two requests of a window

limiterVars == <<tracked, used, admitted, rivals, crowded>>
apiVars == <<process, limiterVars>>
vars == <<settings, req, treasuryVars, quoted, chainVars, apiVars>>

Keys == Ips \cup {"api_key"}

Init ==
  /\ settings \in Candidates
  /\ req = [r \in Requests |-> Free]
  /\ TreasuryInit
  /\ process = "down"
  /\ tracked = <<>>
  /\ used = [k \in Keys |-> 0]
  /\ admitted = [k \in Keys |-> 0]
  /\ rivals = [k \in Keys |-> {}] /\ crowded = {}

-----------------------------------------------------------------------------

\* main(): any failure is fatal.
Start ==
  /\ process = "down"
  /\ process' = IF ConfigLoads(settings) /\ ImmutablesVerified(settings, FpcOperator)
                THEN "listening" ELSE "exited"
  /\ UNCHANGED <<settings, req, treasuryVars, quoted, chainVars, limiterVars>>

\* The node does not know the FPC, or does not answer.
StartFails ==
  /\ process = "down"
  /\ process' = "exited"
  /\ UNCHANGED <<settings, req, treasuryVars, quoted, chainVars, limiterVars>>

\* What is in memory is lost; a wallet with a directory keeps its senders.
Crash ==
  /\ process = "listening"
  /\ process' = "down"
  /\ req' = [r \in Requests |-> Free]
  /\ init' = "none" /\ starting' = 0 /\ wallets' = 0
  /\ senderAliases' = {}
  /\ walletSenders' = IF settings.pxe THEN walletSenders ELSE {}
  /\ tracked' = <<>>
  /\ used' = [k \in Keys |-> 0]
  /\ admitted' = [k \in Keys |-> 0]
  /\ rivals' = [k \in Keys |-> {}] /\ crowded' = {}
  /\ UNCHANGED <<settings, troubled, quoted, chainVars>>

-----------------------------------------------------------------------------

\* Who a request really is from: a holder of the key, or an address.
Identity(given, ip) ==
  IF ModeNeedsApiKey(settings.mode) /\ given.apiKey = "right" THEN "api_key" ELSE ip

OverLimit(k) == settings.limited /\ used[k] >= settings.maxRequests

\* The keys but this one, each tracked once, in their order.
Without(keys, k) ==
  IF \E i \in DOMAIN keys : keys[i] = k
  THEN LET i == CHOOSE j \in DOMAIN keys : keys[j] = k
       IN SubSeq(keys, 1, i - 1) \o SubSeq(keys, i + 1, Len(keys))
  ELSE keys

\* The limiter's store: a key that is new takes the place of the least recently
\* used one, whose count is forgotten.  Counts stop where more
\* would make no difference.
TouchInPlace(k) == \* mutant: the key that was tracked first makes room
  LET known == \E i \in DOMAIN tracked : tracked[i] = k
      full == ~known /\ Len(tracked) = settings.maxTrackedKeys
  IN /\ tracked' = IF known THEN tracked
                   ELSE Append(IF full THEN Tail(tracked) ELSE tracked, k)
     /\ used' = [j \in Keys |->
          IF j = k THEN IF OverLimit(k) THEN used[k] ELSE used[k] + 1
          ELSE IF full /\ j = Head(tracked) THEN 0 ELSE used[j]]
Touch(k) ==
  LET others == Without(tracked, k)
      full == Len(others) = settings.maxTrackedKeys
  IN /\ tracked' = Append(IF full THEN Tail(others) ELSE others, k)
     /\ used' = [j \in Keys |->
          IF j = k THEN IF OverLimit(k) THEN used[k] ELSE used[k] + 1
          ELSE IF full /\ j = Head(others) THEN 0 ELSE used[j]]

\* Who was counted between the requests of the others.
Counted(who) ==
  /\ rivals' = [k \in Keys |-> IF k = who THEN {} ELSE rivals[k] \cup {who}]
  /\ crowded' = crowded \cup
       {k \in Keys \ {who} : admitted[k] > 0 /\ Cardinality(rivals'[k]) >= settings.maxTrackedKeys}

\* The hook before the quote routes: count the request, or refuse it.
Admit(r, given, ip, request) ==
  LET key == RateLimitKey(settings, given, ip)
      who == Identity(given, ip)
      over == OverLimit(key)
  IN /\ process = "listening"
     /\ req[r].at = "idle"
     /\ IF settings.limited THEN Touch(key) /\ Counted(who)
        ELSE UNCHANGED <<tracked, used, rivals, crowded>>
     /\ req' = [req EXCEPT ![r] = IF over THEN [request EXCEPT !.at = "429"] ELSE request]
     /\ admitted' = IF over \/ ~settings.limited \/ admitted[who] > settings.maxRequests
                    THEN admitted ELSE [admitted EXCEPT ![who] = @ + 1]
     /\ UNCHANGED <<settings, treasuryVars, quoted, chainVars, process>>

AskForQuote(r, route, given, ip, sender) ==
  Admit(r, given, ip,
        [Free EXCEPT !.at = "clock", !.route = route, !.given = given, !.sender = sender])

\* The window of a key is over.
WindowEnds(k) ==
  /\ used[k] > 0
  /\ used' = [used EXCEPT ![k] = 0]
  /\ admitted' = [admitted EXCEPT ![k] = 0]
  /\ crowded' = crowded \ {k}
  /\ UNCHANGED <<settings, req, treasuryVars, quoted, chainVars, process, tracked, rivals>>

-----------------------------------------------------------------------------

\* The block's time is back: credentials, query, price; then the sender.
AnswerUnauthorized(r) ==
  /\ req[r].at = "clock"
  /\ ~IsQuoteAuthorized(settings, req[r].given)
  /\ Go(r, "401")
  /\ UNCHANGED <<settings, treasuryVars, quoted, chainVars, apiVars>>

\* The block cannot be read; or the query or its price is refused.
AnswerError(r) ==
  /\ req[r].at = "clock"
  /\ \/ Go(r, "500")
     \/ IsQuoteAuthorized(settings, req[r].given) /\ Go(r, "400")
  /\ UNCHANGED <<settings, treasuryVars, quoted, chainVars, apiVars>>

WithoutWaiting(r) == \* mutant: the registration is not awaited
  Go(r, "signing") /\ UNCHANGED <<init, starting>>
EnsureSenderRegistered(r) ==
  IF NothingToRegister(req[r].sender)
  THEN Go(r, "signing") /\ UNCHANGED <<init, starting>>
  ELSE Go(r, "context") /\ GetContext

AcceptQuery(r) ==
  /\ req[r].at = "clock"
  /\ IsQuoteAuthorized(settings, req[r].given)
  /\ EnsureSenderRegistered(r)
  /\ UNCHANGED <<settings, wallets, senderAliases, walletSenders, troubled, quoted,
                 chainVars, apiVars>>

IssueQuote(r) ==
  /\ req[r].at = "signing"
  /\ Go(r, "200")
  /\ quoted' = quoted \cup {req[r].sender}
  /\ UNCHANGED <<settings, treasuryVars, chainVars, apiVars>>

SigningFails(r) ==
  /\ req[r].at = "signing"
  /\ Go(r, "500")
  /\ UNCHANGED <<settings, treasuryVars, quoted, chainVars, apiVars>>

-----------------------------------------------------------------------------

\* The balances and sweep routes, which are not limited.  An amount of zero stands for
\* none; a sweep may name no supported asset or no destination.
AskAdmin(r, route, rightKey, amount, wellFormed) ==
  LET access == AdminAccess(settings, rightKey)
      next == IF access # "ok" THEN access ELSE IF wellFormed THEN "asking" ELSE "400"
  IN /\ process = "listening"
     /\ req[r].at = "idle"
     /\ req' = [req EXCEPT ![r] = [Free EXCEPT !.at = next, !.route = route, !.amount = amount]]
     /\ UNCHANGED <<settings, treasuryVars, quoted, chainVars, apiVars>>

\* The treasury is asked for its wallet.
AskTreasury(r) ==
  /\ req[r].at = "asking"
  /\ Go(r, "context") /\ GetContext
  /\ UNCHANGED <<settings, wallets, senderAliases, walletSenders, troubled, quoted,
                 chainVars, apiVars>>

Answers == {"200", "400", "401", "429", "500", "503"}

\* The answer is sent.
Finish(r) ==
  /\ req[r].at \in Answers
  /\ req' = [req EXCEPT ![r] = Free]
  /\ UNCHANGED <<settings, treasuryVars, quoted, chainVars, apiVars>>

HandleStep(r) ==
  \/ AnswerUnauthorized(r) \/ AnswerError(r) \/ AcceptQuery(r)
  \/ IssueQuote(r) \/ SigningFails(r)
  \/ AskTreasury(r) \/ Finish(r)

\* A bound: requests carry no credential that the mode does not look at.
GivenFor(mode) ==
  {given \in Credentials :
     /\ ModeNeedsApiKey(mode) \/ given.apiKey = "absent"
     /\ ModeNeedsTrustedHeader(mode) \/ given.trusted = "absent"}

Next ==
  \/ Start \/ StartFails \/ Crash
  \/ \E r \in Requests :
       \/ \E given \in GivenFor(settings.mode), ip \in Ips :
            \/ \E u \in Users : AskForQuote(r, "quote", given, ip, u)
            \/ AskForQuote(r, "cold", given, ip, fpc)
       \/ \E rightKey, wellFormed \in BOOLEAN :
            \/ \E amount \in Amounts : AskAdmin(r, "sweep", rightKey, amount, wellFormed)
            \/ wellFormed /\ AskAdmin(r, "balances", rightKey, 0, wellFormed)
       \/ HandleStep(r)
       \/ TreasuryStep(r) /\ UNCHANGED apiVars
  \/ \E k \in Keys : WindowEnds(k)
  \/ (InitReady \/ InitFails) /\ UNCHANGED apiVars
  \/ (\E n \in Notes : Pay(n)) /\ UNCHANGED apiVars
  \/ (\E s \in Sweeps : IncludeSweep(s) \/ DropSweep(s)) /\ UNCHANGED apiVars

Spec == Init /\ [][Next]_vars

-----------------------------------------------------------------------------

\* In production a service that listens has its key from the environment or an
\* adapter, and every quote it is about to sign was asked for with a right
\* credential, with both where the mode says "and": what the settings are checked
\* for at the start is what the routes rely on later.
ProductionIsGuarded ==
  process = "listening" /\ settings.profile = "production" =>
    /\ OperatorSecret(settings) \in {"env", "kms", "hsm"}
    /\ \A r \in Requests :
         req[r].at \in {"context", "registering", "signing"} /\ req[r].route \in {"quote", "cold"}
           => /\ "right" \in {req[r].given.apiKey, req[r].given.trusted}
              /\ settings.mode = "api_key_and_trusted_header" =>
                   req[r].given = [apiKey |-> "right", trusted |-> "right"]

\* Whoever gets more requests through in a window than allowed, by whatever
\* addresses a holder of the API key asks, was given up by the limiter in favour of
\* others: at least as many of them as it tracks asked between two of its requests.
RateLimitHolds ==
  \A k \in Keys :
    settings.limited /\ admitted[k] > settings.maxRequests => k \in crowded
=============================================================================
