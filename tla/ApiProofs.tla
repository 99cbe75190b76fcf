------------------------------ MODULE ApiProofs ------------------------------
(***************************************************************************)
(* The attestation service's process: one wallet, senders registered       *)
(* before their quotes, quotes only for authorized requests, sweeps that   *)
(* are answered truly, and a rate limit that holds.  For any number of     *)
(* requests, users, addresses, payments and sweeps, and any settings.      *)
(*                                                                         *)
(* Each invariant follows a request through its awaits: what was checked   *)
(* at one place still holds at the next, because the settings do not       *)
(* change and the wallet forgets no sender while the process lives.        *)
(***************************************************************************)
EXTENDS AttestationApi, FiniteSetTheorems, TLAPS

QuoteRoutes == {"quote", "cold"}
Stations ==
  Answers \cup {"idle", "clock", "context", "registering", "signing", "asking",
                "attaching", "sending", "waiting", "reporting"}
ReqType ==
  [at : Stations, route : Routes, given : Credentials, sender : Senders \cup {NoSender},
   amount : Nat, sweep : Sweeps \cup {NoSweep}]

ApiTypeOK ==
  /\ settings \in Settings
  /\ req \in [Requests -> ReqType]
  /\ starting \in Nat /\ wallets \in Nat
  /\ quoted \subseteq Senders \cup {NoSender}
  /\ note \in [Notes -> Senders \cup {NoSender} \cup Sweeps]

\* A wallet is there, or being made, or could still be made: never two of these.
OneStart ==
  /\ starting + wallets <= 1
  /\ init = "none" => starting = 0 /\ wallets = 0

\* As long as nothing failed: who is about to get a quote is registered, and so is
\* whoever has one or has paid with one.
Trusted == settings.pxe /\ ~troubled
RegisteredFirst(request) ==
  request.at = "signing" /\ request.route \in QuoteRoutes /\ Trusted
    => request.sender \in walletSenders
Registered ==
  /\ senderAliases \subseteq walletSenders
  /\ Trusted =>
       /\ init # "failed"
       /\ quoted \subseteq walletSenders
       /\ \A n \in Notes : note[n] \in Senders => note[n] \in quoted
  /\ \A r \in Requests : RegisteredFirst(req[r])

\* A request for a quote that got past its check was authorized.
Checked == {"context", "registering", "signing"}
AuthorizedFirst(request) ==
  /\ request.at \in Checked /\ request.route \in QuoteRoutes
       => IsQuoteAuthorized(settings, request.given)
  /\ request.at \in {"clock", "registering", "signing"} => request.route \in QuoteRoutes
  /\ request.at = "asking" => request.route \notin QuoteRoutes
Guarded ==
  /\ process = "listening" => ConfigLoads(settings)
  /\ \A r \in Requests : AuthorizedFirst(req[r])

IInv == ApiTypeOK /\ OneStart /\ Registered /\ Guarded

-----------------------------------------------------------------------------

LEMMA FreeIsRequest == Free \in ReqType
  BY DEF Free, ReqType, Stations, Answers, Routes, Credentials, Values

LEMMA InitIInv == Init => IInv
  BY FreeIsRequest, ApiAssumption, TreasuryAssumption
     DEF Init, TreasuryInit, IInv, ApiTypeOK, OneStart, Registered, RegisteredFirst, Guarded,
         AuthorizedFirst, Checked, Free

\* Authorization depends on the settings and the credentials alone.
LEMMA SettingsDecide ==
  ASSUME UNCHANGED settings
  PROVE  /\ \A given : IsQuoteAuthorized(settings, given)' = IsQuoteAuthorized(settings, given)
         /\ ConfigLoads(settings)' = ConfigLoads(settings)
  OBVIOUS

\* A step that moves one request on, touching no wallet: what it moves to must keep
\* its promises.
LEMMA RequestMoves ==
  ASSUME IInv, NEW r \in Requests, NEW new \in ReqType,
         req' = [req EXCEPT ![r] = new],
         UNCHANGED <<settings, treasuryVars, quoted, note, process>>,
         RegisteredFirst(new), AuthorizedFirst(new)
  PROVE  IInv'
  <1>1. \A q \in Requests : req'[q] = IF q = r THEN new ELSE req[q]
    BY DEF IInv, ApiTypeOK
  <1>2. ApiTypeOK'
    BY DEF IInv, ApiTypeOK, treasuryVars
  <1>3. OneStart'
    BY DEF IInv, OneStart, treasuryVars
  <1>4. Registered'
    BY <1>1 DEF IInv, Registered, RegisteredFirst, Trusted, treasuryVars
  <1>5. Guarded'
    BY <1>1 DEF IInv, Guarded, AuthorizedFirst
  <1> QED
    BY <1>2, <1>3, <1>4, <1>5 DEF IInv

\* The same for a step that only changes the place.
LEMMA PlaceMoves ==
  ASSUME IInv, NEW r \in Requests, NEW place \in Stations, Go(r, place),
         UNCHANGED <<settings, treasuryVars, quoted, note, process>>,
         place = "signing" /\ req[r].route \in QuoteRoutes /\ Trusted
           => req[r].sender \in walletSenders,
         place \in Checked /\ req[r].route \in QuoteRoutes
           => IsQuoteAuthorized(settings, req[r].given),
         place \in {"clock", "registering", "signing"} => req[r].route \in QuoteRoutes,
         place # "asking"
  PROVE  IInv'
  <1> DEFINE new == [req[r] EXCEPT !.at = place]
  <1>1. req[r] \in ReqType
    BY DEF IInv, ApiTypeOK
  <1>2. new \in ReqType /\ new.at = place /\ new.route = req[r].route
          /\ new.given = req[r].given /\ new.sender = req[r].sender
    BY <1>1 DEF ReqType
  <1>3. req' = [req EXCEPT ![r] = new]
    BY DEF Go
  <1>4. RegisteredFirst(new) /\ AuthorizedFirst(new)
    BY <1>2 DEF RegisteredFirst, AuthorizedFirst
  <1> HIDE DEF new
  <1> QED
    BY <1>2, <1>3, <1>4, RequestMoves

\* A request that needs the wallet starts the initialisation when nobody has.
LEMMA ContextAsked ==
  ASSUME IInv, NEW r \in Requests, Go(r, "context"), GetContext,
         UNCHANGED <<settings, wallets, senderAliases, walletSenders, troubled, quoted, note,
                     process>>,
         req[r].route \in QuoteRoutes => IsQuoteAuthorized(settings, req[r].given)
  PROVE  IInv'
  <1> DEFINE new == [req[r] EXCEPT !.at = "context"]
  <1>1. req[r] \in ReqType
    BY DEF IInv, ApiTypeOK
  <1>2. new \in ReqType /\ new.at = "context" /\ new.route = req[r].route
          /\ new.given = req[r].given
    BY <1>1 DEF ReqType, Stations
  <1>3. req' = [req EXCEPT ![r] = new]
    BY DEF Go
  <1> HIDE DEF new
  <1>4. \A q \in Requests : req'[q] = IF q = r THEN new ELSE req[q]
    BY <1>3 DEF IInv, ApiTypeOK
  <1>5. starting' \in Nat /\ OneStart'
    BY DEF GetContext, StartOnce, IInv, ApiTypeOK, OneStart
  <1>6. init' = "failed" => init = "failed"
    BY DEF GetContext
  <1>7. ApiTypeOK'
    BY <1>2, <1>3, <1>5 DEF IInv, ApiTypeOK
  <1>8. Registered'
    BY <1>2, <1>4, <1>6 DEF IInv, Registered, RegisteredFirst, Trusted
  <1>9. Guarded'
    BY <1>2, <1>4 DEF IInv, Guarded, AuthorizedFirst
  <1> QED
    BY <1>5, <1>7, <1>8, <1>9 DEF IInv

\* A step that touches no request.
LEMMA RequestsStay ==
  ASSUME IInv, UNCHANGED <<settings, req, senderAliases, walletSenders, quoted>>,
         starting' \in Nat, wallets' \in Nat,
         note' \in [Notes -> Senders \cup {NoSender} \cup Sweeps],
         OneStart', troubled => troubled',
         Trusted' => init' # "failed",
         \A n \in Notes : note'[n] \in Senders /\ note'[n] # note[n] => note'[n] \in quoted,
         process' = "listening" => ConfigLoads(settings)
  PROVE  IInv'
  <1>1. ApiTypeOK'
    BY DEF IInv, ApiTypeOK
  <1>2. Trusted' => Trusted
    BY DEF Trusted
  <1>3. Registered'
    BY <1>2 DEF IInv, Registered, RegisteredFirst
  <1>4. Guarded'
    BY DEF IInv, Guarded, AuthorizedFirst
  <1> QED
    BY <1>1, <1>3, <1>4 DEF IInv

-----------------------------------------------------------------------------

LEMMA ProcessKeeps ==
  ASSUME IInv, Start \/ StartFails \/ Crash \/ (\E k \in Keys : WindowEnds(k))
  PROVE  IInv'
  <1>1. CASE Start \/ StartFails \/ (\E k \in Keys : WindowEnds(k))
    <2>1. UNCHANGED <<settings, req, treasuryVars, quoted, note>>
      BY <1>1 DEF Start, StartFails, WindowEnds, chainVars
    <2>2. process' = "listening" => ConfigLoads(settings)
      BY <1>1 DEF Start, StartFails, WindowEnds, IInv, Guarded
    <2> QED
      BY <2>1, <2>2, RequestsStay
         DEF treasuryVars, IInv, ApiTypeOK, OneStart, Registered, Trusted
  <1>2. CASE Crash
    <2>1. ApiTypeOK' /\ OneStart'
      BY <1>2, FreeIsRequest DEF Crash, IInv, ApiTypeOK, OneStart, chainVars
    <2>2. \A r \in Requests : req'[r].at = "idle"
      BY <1>2 DEF Crash, Free
    <2>3. Registered'
      BY <1>2, <2>2 DEF Crash, IInv, Registered, RegisteredFirst, Trusted, chainVars
    <2>4. Guarded'
      BY <1>2, <2>2 DEF Crash, IInv, Guarded, AuthorizedFirst, Checked
    <2> QED
      BY <2>1, <2>3, <2>4 DEF IInv
  <1> QED
    BY <1>1, <1>2

LEMMA AdmitKeeps ==
  ASSUME IInv, NEW r \in Requests, NEW request \in ReqType,
         req' = [req EXCEPT ![r] = request]
           \/ req' = [req EXCEPT ![r] = [request EXCEPT !.at = "429"]],
         UNCHANGED <<settings, treasuryVars, quoted, note, process>>,
         request.at \notin Checked,
         request.at = "clock" => request.route \in QuoteRoutes,
         request.at = "asking" => request.route \notin QuoteRoutes
  PROVE  IInv'
  <1>1. PICK new \in {request, [request EXCEPT !.at = "429"]} : req' = [req EXCEPT ![r] = new]
    OBVIOUS
  <1>2. new \in ReqType /\ new.at \notin Checked
          /\ (new.at = "clock" => new.route \in QuoteRoutes)
          /\ (new.at = "asking" => new.route \notin QuoteRoutes)
    BY DEF ReqType, Stations, Answers, Checked
  <1> QED
    BY <1>1, <1>2, RequestMoves DEF RegisteredFirst, AuthorizedFirst, Checked

LEMMA AskKeeps ==
  ASSUME IInv, NEW r \in Requests
  PROVE  /\ \A given \in Credentials, ip \in Ips, route \in QuoteRoutes, u \in Senders :
              AskForQuote(r, route, given, ip, u) => IInv'
         /\ \A rightKey, wellFormed \in BOOLEAN, amount \in Nat,
              route \in {"sweep", "balances"} :
              AskAdmin(r, route, rightKey, amount, wellFormed) => IInv'
  <1>1. ASSUME NEW given \in Credentials, NEW ip \in Ips, NEW route \in QuoteRoutes,
               NEW u \in Senders, AskForQuote(r, route, given, ip, u)
        PROVE  IInv'
    <2> DEFINE request ==
          [Free EXCEPT !.at = "clock", !.route = route, !.given = given, !.sender = u]
    <2>1. request \in ReqType /\ request.at = "clock" /\ request.route = route
      BY FreeIsRequest DEF ReqType, Stations, Routes, QuoteRoutes, Free
    <2>2. Admit(r, given, ip, request)
      BY <1>1 DEF AskForQuote
    <2>3. /\ UNCHANGED <<settings, treasuryVars, quoted, note, process>>
          /\ \/ req' = [req EXCEPT ![r] = request]
             \/ req' = [req EXCEPT ![r] = [request EXCEPT !.at = "429"]]
      BY <2>2 DEF Admit, chainVars
    <2> HIDE DEF request
    <2> QED
      BY <2>1, <2>3, AdmitKeeps DEF Checked
  <1>2. ASSUME NEW rightKey \in BOOLEAN, NEW wellFormed \in BOOLEAN,
               NEW amount \in Nat, NEW route \in {"sweep", "balances"},
               AskAdmin(r, route, rightKey, amount, wellFormed)
        PROVE  IInv'
    <2>1. PICK next \in {"503", "401", "asking", "400"} :
            req' = [req EXCEPT ![r] =
                      [Free EXCEPT !.at = next, !.route = route, !.amount = amount]]
      BY <1>2 DEF AskAdmin, AdminAccess
    <2>3. UNCHANGED <<settings, treasuryVars, quoted, note, process>>
      BY <1>2 DEF AskAdmin, chainVars, apiVars
    <2> DEFINE request == [Free EXCEPT !.at = next, !.route = route, !.amount = amount]
    <2>2. request \in ReqType /\ request.at = next /\ request.route = route
      BY FreeIsRequest DEF ReqType, Stations, Answers, Routes, Free
    <2> HIDE DEF request
    <2> QED
      BY <2>1, <2>2, <2>3, AdmitKeeps DEF Checked, QuoteRoutes, request
  <1> QED
    BY <1>1, <1>2

LEMMA HandleKeeps ==
  ASSUME IInv, NEW r \in Requests, HandleStep(r)
  PROVE  IInv'
  <1> USE DEF chainVars, apiVars, Stations, Answers, Checked
  <1>1. CASE AnswerUnauthorized(r)
    BY <1>1, PlaceMoves DEF AnswerUnauthorized
  <1>2. CASE AnswerError(r)
    BY <1>2, PlaceMoves DEF AnswerError
  <1>3. CASE AcceptQuery(r)
    <2>1. IsQuoteAuthorized(settings, req[r].given) /\ req[r].route \in QuoteRoutes
      BY <1>3 DEF AcceptQuery, IInv, Guarded, AuthorizedFirst
    <2>2. CASE NothingToRegister(req[r].sender)
      <3>1. Go(r, "signing") /\ UNCHANGED <<settings, treasuryVars, quoted, note, process>>
        BY <1>3, <2>2 DEF AcceptQuery, EnsureSenderRegistered, treasuryVars
      <3>2. Trusted => req[r].sender \in walletSenders
        BY <2>2 DEF NothingToRegister, Trusted, IInv, Registered
      <3> QED
        BY <2>1, <3>1, <3>2, PlaceMoves
    <2>3. CASE ~NothingToRegister(req[r].sender)
      <3>1. Go(r, "context") /\ GetContext
        BY <1>3, <2>3 DEF AcceptQuery, EnsureSenderRegistered
      <3> QED
        BY <1>3, <2>1, <3>1, ContextAsked DEF AcceptQuery
    <2> QED
      BY <2>2, <2>3
  <1>4. CASE IssueQuote(r)
    <2> DEFINE new == [req[r] EXCEPT !.at = "200"]
    <2>1. req[r] \in ReqType /\ req[r].at = "signing"
      BY <1>4 DEF IssueQuote, IInv, ApiTypeOK
    <2>2. new \in ReqType /\ new.at = "200"
      BY <2>1 DEF ReqType
    <2>3. req' = [req EXCEPT ![r] = new]
      BY <1>4 DEF IssueQuote, Go
    <2> HIDE DEF new
    <2>4. \A q \in Requests : req'[q] = IF q = r THEN new ELSE req[q]
      BY <2>3 DEF IInv, ApiTypeOK
    <2>5. ApiTypeOK' /\ OneStart'
      BY <1>4, <2>1, <2>2, <2>3
         DEF IssueQuote, IInv, ApiTypeOK, OneStart, treasuryVars, ReqType
    <2>6. Guarded'
      BY <1>4, <2>2, <2>4 DEF IssueQuote, IInv, Guarded, AuthorizedFirst
    <2>7. Trusted => req[r].sender \in walletSenders
      BY <2>1 DEF IInv, Registered, RegisteredFirst, Guarded, AuthorizedFirst
    <2>8. Registered'
      BY <1>4, <2>2, <2>4, <2>7
         DEF IssueQuote, IInv, Registered, RegisteredFirst, Trusted, treasuryVars
    <2> QED
      BY <2>5, <2>6, <2>8 DEF IInv
  <1>5. CASE SigningFails(r)
    BY <1>5, PlaceMoves DEF SigningFails
  <1>6. CASE AskTreasury(r)
    BY <1>6, ContextAsked DEF AskTreasury, IInv, Guarded, AuthorizedFirst
  <1>7. CASE Finish(r)
    <2>1. req' = [req EXCEPT ![r] = Free]
            /\ UNCHANGED <<settings, treasuryVars, quoted, note, process>>
      BY <1>7 DEF Finish
    <2> QED
      BY <2>1, FreeIsRequest, RequestMoves DEF RegisteredFirst, AuthorizedFirst, Free
  <1> QED
    BY <1>1, <1>2, <1>3, <1>4, <1>5, <1>6, <1>7 DEF HandleStep

LEMMA TreasuryKeeps ==
  ASSUME IInv, NEW r \in Requests, TreasuryStep(r), UNCHANGED apiVars
  PROVE  IInv'
  <1> USE DEF chainVars, apiVars, Stations, Answers, Checked
  <1>0. req[r] \in ReqType /\ process' = process
    BY DEF IInv, ApiTypeOK
  <1>1. CASE ContextGiven(r)
    <2>1. CASE req[r].route \in QuoteRoutes
      <3>1. Go(r, "registering")
        BY <1>1, <2>1 DEF ContextGiven, QuoteRoutes
      <3>2. IsQuoteAuthorized(settings, req[r].given)
        BY <1>1, <2>1 DEF ContextGiven, IInv, Guarded, AuthorizedFirst
      <3> QED
        BY <1>1, <2>1, <3>1, <3>2, PlaceMoves DEF ContextGiven
    <2>2. CASE req[r].route \notin QuoteRoutes
      <3>1. req[r].route \in {"sweep", "balances"}
        BY <1>0, <2>2 DEF ReqType, Routes, QuoteRoutes
      <3>2. PICK place \in {"attaching", "200"} : Go(r, place)
        BY <1>1, <3>1 DEF ContextGiven
      <3> QED
        BY <1>1, <3>2, PlaceMoves DEF ContextGiven
    <2> QED
      BY <2>1, <2>2
  <1>2. CASE ContextRefused(r)
    <2>1. ~Trusted
      BY <1>2 DEF ContextRefused, IInv, Registered
    <2>2. PICK place \in {"signing", "500"} :
            Go(r, place) /\ (place = "signing" => req[r].route \in QuoteRoutes)
      BY <1>2 DEF ContextRefused, QuoteRoutes
    <2>3. req[r].route \in QuoteRoutes => IsQuoteAuthorized(settings, req[r].given)
      BY <1>2 DEF ContextRefused, IInv, Guarded, AuthorizedFirst
    <2> QED
      BY <1>2, <2>1, <2>2, <2>3, PlaceMoves DEF ContextRefused
  <1>3. CASE RegisterSender(r)
    <2> DEFINE new == [req[r] EXCEPT !.at = "signing"]
    <2>1. new \in ReqType /\ new.at = "signing" /\ new.route = req[r].route
            /\ new.given = req[r].given /\ new.sender = req[r].sender
      BY <1>0 DEF ReqType
    <2>2. req' = [req EXCEPT ![r] = new] /\ req[r].at = "registering"
      BY <1>3 DEF RegisterSender, Go
    <2> HIDE DEF new
    <2>3. \A q \in Requests : req'[q] = IF q = r THEN new ELSE req[q]
      BY <2>2 DEF IInv, ApiTypeOK
    <2>4. ApiTypeOK' /\ OneStart'
      BY <1>3, <2>1, <2>2 DEF RegisterSender, IInv, ApiTypeOK, OneStart
    <2>5. Registered'
      BY <1>3, <2>1, <2>3 DEF RegisterSender, IInv, Registered, RegisteredFirst, Trusted
    <2>6. Guarded'
      BY <1>3, <2>1, <2>2, <2>3 DEF RegisterSender, IInv, Guarded, AuthorizedFirst
    <2> QED
      BY <2>4, <2>5, <2>6 DEF IInv
  <1>4. CASE RegisterFails(r)
    <2> DEFINE new == [req[r] EXCEPT !.at = "signing"]
    <2>1. new \in ReqType /\ new.at = "signing" /\ new.route = req[r].route
            /\ new.given = req[r].given
      BY <1>0 DEF ReqType
    <2>2. req' = [req EXCEPT ![r] = new] /\ req[r].at = "registering"
      BY <1>4 DEF RegisterFails, Go
    <2> HIDE DEF new
    <2>3. \A q \in Requests : req'[q] = IF q = r THEN new ELSE req[q]
      BY <2>2 DEF IInv, ApiTypeOK
    <2>4. ApiTypeOK' /\ OneStart'
      BY <1>4, <2>1, <2>2 DEF RegisterFails, IInv, ApiTypeOK, OneStart
    <2>5. Registered'
      BY <1>4 DEF RegisterFails, IInv, Registered, RegisteredFirst, Trusted
    <2>6. Guarded'
      BY <1>4, <2>1, <2>2, <2>3 DEF RegisterFails, IInv, Guarded, AuthorizedFirst
    <2> QED
      BY <2>4, <2>5, <2>6 DEF IInv
  <1>5. CASE ReadBalance(r)
    <2>1. Cardinality(Found) \in Nat
      BY TreasuryAssumption, FS_Subset, FS_CardinalityType DEF Found, Unspent
    <2>2. PICK amount \in Nat, place \in {"sending", "400"} :
            req' = [req EXCEPT ![r].amount = amount, ![r].at = place]
      BY <1>0, <1>5, <2>1 DEF ReadBalance, ReqType
    <2> DEFINE new == [req[r] EXCEPT !.amount = amount, !.at = place]
    <2>3. new \in ReqType /\ new.at = place
      BY <1>0 DEF ReqType
    <2>4. req' = [req EXCEPT ![r] = new]
      BY <2>2
    <2> HIDE DEF new
    <2> QED
      BY <1>5, <2>3, <2>4, RequestMoves DEF ReadBalance, RegisteredFirst, AuthorizedFirst
  <1>6. CASE SweepFails(r)
    BY <1>6, PlaceMoves DEF SweepFails
  <1>7. ASSUME NEW s \in Sweeps, NEW notes \in SUBSET Notes, SendSweep(r, s, notes)
        PROVE  IInv'
    <2> DEFINE new == [req[r] EXCEPT !.at = "waiting", !.sweep = s]
    <2>1. new \in ReqType /\ new.at = "waiting"
      BY <1>0 DEF ReqType
    <2>2. req' = [req EXCEPT ![r] = new]
      BY <1>7 DEF SendSweep
    <2> HIDE DEF new
    <2> QED
      BY <1>0, <1>7, <2>1, <2>2, RequestMoves DEF SendSweep, RegisteredFirst, AuthorizedFirst
  <1>8. CASE SweepMined(r) \/ SweepLost(r)
    BY <1>8, PlaceMoves DEF SweepMined, SweepLost
  <1>9. CASE ReportSweep(r)
    BY <1>9, PlaceMoves DEF ReportSweep
  <1> QED
    BY <1>1, <1>2, <1>3, <1>4, <1>5, <1>6, <1>7, <1>8, <1>9 DEF TreasuryStep

\* The initialisation, and the network.
LEMMA WorldKeeps ==
  ASSUME IInv, UNCHANGED apiVars,
         \/ InitReady \/ InitFails
         \/ \E n \in Notes : Pay(n)
         \/ \E s \in Sweeps : IncludeSweep(s) \/ DropSweep(s)
  PROVE  IInv'
  <1>0. process' = process /\ (process = "listening" => ConfigLoads(settings))
    BY DEF apiVars, IInv, Guarded
  <1>1. CASE InitReady
    <2>1. starting' \in Nat /\ wallets' \in Nat /\ OneStart'
      BY <1>1 DEF InitReady, IInv, ApiTypeOK, OneStart
    <2> QED
      BY <1>0, <1>1, <2>1, RequestsStay DEF InitReady, chainVars, IInv, ApiTypeOK
  <1>2. CASE InitFails
    <2>1. /\ wallets' = wallets \/ wallets' = wallets + 1
          /\ starting > 0 /\ starting' = starting - 1 /\ init' = "failed"
      BY <1>2 DEF InitFails
    <2>2. starting' \in Nat /\ wallets' \in Nat /\ OneStart'
      BY <2>1 DEF IInv, ApiTypeOK, OneStart
    <2>3. /\ UNCHANGED <<settings, req, senderAliases, walletSenders, quoted, note>>
          /\ troubled' /\ ~Trusted'
      BY <1>2 DEF InitFails, chainVars, Trusted
    <2> QED
      BY <1>0, <2>2, <2>3, RequestsStay DEF IInv, ApiTypeOK
  <1>3. ASSUME NEW n \in Notes, Pay(n)
        PROVE  IInv'
    <2>1. PICK sender \in quoted : note' = [note EXCEPT ![n] = sender]
      BY <1>3 DEF Pay
    <2>2. UNCHANGED <<settings, req, treasuryVars, quoted>>
      BY <1>3 DEF Pay
    <2>3. note' \in [Notes -> Senders \cup {NoSender} \cup Sweeps]
            /\ \A m \in Notes : note'[m] = note[m] \/ note'[m] = sender
      BY <2>1 DEF IInv, ApiTypeOK
    <2> QED
      BY <1>0, <2>1, <2>2, <2>3, RequestsStay
         DEF treasuryVars, IInv, ApiTypeOK, OneStart, Registered, Trusted
  <1>4. ASSUME NEW s \in Sweeps, IncludeSweep(s) \/ DropSweep(s)
        PROVE  IInv'
    <2>1. note' \in [Notes -> Senders \cup {NoSender} \cup Sweeps]
            /\ \A n \in Notes : note'[n] = note[n] \/ note'[n] = s
      BY <1>4 DEF IncludeSweep, DropSweep, IInv, ApiTypeOK
    <2>2. s \notin Senders
      BY TreasuryAssumption
    <2>3. UNCHANGED <<settings, req, treasuryVars, quoted>>
      BY <1>4 DEF IncludeSweep, DropSweep
    <2> QED
      BY <1>0, <2>1, <2>2, <2>3, RequestsStay
         DEF treasuryVars, IInv, ApiTypeOK, OneStart, Registered, Trusted
  <1> QED
    BY <1>1, <1>2, <1>3, <1>4

-----------------------------------------------------------------------------

LEMMA NextIInv == IInv /\ [Next]_vars => IInv'
  <1> SUFFICES ASSUME IInv, [Next]_vars
               PROVE  IInv'
    OBVIOUS
  <1>1. CASE Start \/ StartFails \/ Crash \/ (\E k \in Keys : WindowEnds(k))
    BY <1>1, ProcessKeeps
  <1>2. ASSUME NEW r \in Requests, NEW given \in GivenFor(settings.mode), NEW ip \in Ips,
               \/ \E u \in Users : AskForQuote(r, "quote", given, ip, u)
               \/ AskForQuote(r, "cold", given, ip, fpc)
        PROVE  IInv'
    BY <1>2, AskKeeps DEF GivenFor, QuoteRoutes, Senders
  <1>3. ASSUME NEW r \in Requests, NEW rightKey \in BOOLEAN, NEW wellFormed \in BOOLEAN,
               \/ \E amount \in Amounts : AskAdmin(r, "sweep", rightKey, amount, wellFormed)
               \/ AskAdmin(r, "balances", rightKey, 0, wellFormed)
        PROVE  IInv'
    BY <1>3, AskKeeps, ApiAssumption
  <1>4. ASSUME NEW r \in Requests, HandleStep(r)
        PROVE  IInv'
    BY <1>4, HandleKeeps
  <1>5. ASSUME NEW r \in Requests, TreasuryStep(r), UNCHANGED apiVars
        PROVE  IInv'
    BY <1>5, TreasuryKeeps
  <1>6. CASE /\ UNCHANGED apiVars
             /\ \/ InitReady \/ InitFails
                \/ \E n \in Notes : Pay(n)
                \/ \E s \in Sweeps : IncludeSweep(s) \/ DropSweep(s)
    BY <1>6, WorldKeeps
  <1>7. CASE UNCHANGED vars
    BY <1>7, RequestsStay
       DEF vars, treasuryVars, chainVars, apiVars, IInv, ApiTypeOK, OneStart, Registered,
           Guarded, Trusted
  <1> QED
    BY <1>1, <1>2, <1>3, <1>4, <1>5, <1>6, <1>7 DEF Next

\* However many requests need the wallet at once, and whether its initialisation
\* resolves or rejects, a process never has two (operator-treasury.ts:151-156).
THEOREM WalletIsOne == Spec => []OneWallet
  <1>1. IInv => OneWallet
    BY DEF IInv, ApiTypeOK, OneStart, OneWallet
  <1> QED
    BY InitIInv, NextIInv, <1>1, PTL DEF Spec

\* While no initialisation and no registration failed, a treasury with a directory finds
\* every payment, across restarts (server.ts:458-478, operator-treasury.ts:49-62).
THEOREM PaymentsFound == Spec => []PaymentsAreFound
  <1>1. IInv => PaymentsAreFound
    BY DEF IInv, Registered, Trusted, PaymentsAreFound, Unspent
  <1> QED
    BY InitIInv, NextIInv, <1>1, PTL DEF Spec

\* In production no quote is signed for a request without the credentials of the mode,
\* and the key is not the file's (config.ts:333-403, server.ts:74-104).
THEOREM GuardHolds == Spec => []ProductionIsGuarded
  <1>1. ASSUME IInv, process = "listening", settings.profile = "production"
        PROVE  /\ OperatorSecret(settings) \in {"env", "kms", "hsm"}
               /\ \A r \in Requests :
                    req[r].at \in Checked /\ req[r].route \in QuoteRoutes =>
                      /\ "right" \in {req[r].given.apiKey, req[r].given.trusted}
                      /\ settings.mode = "api_key_and_trusted_header" =>
                           req[r].given = [apiKey |-> "right", trusted |-> "right"]
    <2>1. ConfigLoads(settings)
      BY <1>1 DEF IInv, Guarded
    <2>2. OperatorSecret(settings) \in {"env", "kms", "hsm"}
      BY <2>1 DEF ConfigLoads, OperatorSecret, ResolveSecret, Source, Missing
    <2>3. settings.mode \in Modes \ {"disabled"}
      BY <1>1, <2>1 DEF ConfigLoads, QuoteAuthValid, QuoteAuthModeValid, IInv, ApiTypeOK,
                        Settings
    <2>4. ASSUME NEW r \in Requests, req[r].at \in Checked, req[r].route \in QuoteRoutes
          PROVE  /\ "right" \in {req[r].given.apiKey, req[r].given.trusted}
                 /\ settings.mode = "api_key_and_trusted_header" =>
                      req[r].given = [apiKey |-> "right", trusted |-> "right"]
      <3>1. IsQuoteAuthorized(settings, req[r].given)
        BY <1>1, <2>4 DEF IInv, Guarded, AuthorizedFirst
      <3>2. req[r].given \in Credentials
        BY <1>1 DEF IInv, ApiTypeOK, ReqType
      <3> QED
        BY <2>3, <3>1, <3>2 DEF IsQuoteAuthorized, ApiKeyAuthorized, TrustedHeaderAuthorized,
                                Modes, Credentials, Values
    <2> QED
      BY <2>2, <2>4
  <1>2. IInv => ProductionIsGuarded
    BY <1>1 DEF ProductionIsGuarded, Checked, QuoteRoutes
  <1> QED
    BY InitIInv, NextIInv, <1>2, PTL DEF Spec

-----------------------------------------------------------------------------
(* Sweeps.  That an answer is true is not inductive: a request is answered  *)
(* from what it sent some steps before, while other sweeps are included,    *)
(* dropped and sent.  It needs that a sweep's notes never change once it is *)
(* sent, that exactly these are its own once it is mined, and that no other *)
(* sweep is mined with a note that is spent.                                *)

SweepStates == [fate : {"none", "pooled", "mined", "dropped"}, notes : SUBSET Notes]

MinedIsExact ==
  /\ sweep \in [Sweeps -> SweepStates]
  /\ \A s \in Sweeps, n \in Notes :
       note[n] = s <=> sweep[s].fate = "mined" /\ n \in sweep[s].notes

\* What a request knows of its sweep from one await to the next.
Spending == {"waiting", "reporting"}
Answered(request) == request.at = "200" /\ request.route = "sweep"
SweepPromise(request) ==
  /\ request.at \in {"attaching", "sending"} \cup Spending => request.route = "sweep"
  /\ request.at = "sending" => request.amount > 0
  /\ request.at \in Spending \/ Answered(request) =>
       /\ request.sweep \in Sweeps
       /\ request.amount > 0
       /\ sweep[request.sweep].fate # "none"
       /\ Cardinality(sweep[request.sweep].notes) = request.amount
  /\ request.at = "reporting" \/ Answered(request) => sweep[request.sweep].fate = "mined"
  /\ request.at \notin Spending \cup {"200", "500"} => request.sweep = NoSweep

SweepInv == MinedIsExact /\ \A r \in Requests : SweepPromise(req[r])

LEMMA SweepsStart == Init => SweepInv
<1> SUFFICES ASSUME Init  PROVE SweepInv
  OBVIOUS
<1>1. MinedIsExact
  <2>1. \A s \in Sweeps : NoSender # s
    BY TreasuryAssumption
  <2> QED BY <2>1 DEF Init, TreasuryInit, MinedIsExact, SweepStates
<1>2. SweepPromise(Free)
  BY DEF SweepPromise, Free, Spending, Answered
<1> QED BY <1>1, <1>2 DEF Init, SweepInv

\* A request that moves while the sweeps stay as they are.
LEMMA SweeperMoves ==
  ASSUME IInv, SweepInv, NEW r \in Requests, NEW new, req' = [req EXCEPT ![r] = new],
         UNCHANGED chainVars, SweepPromise(new)
  PROVE  SweepInv'
<1>1. \A q \in Requests : req'[q] = IF q = r THEN new ELSE req[q]
  BY DEF IInv, ApiTypeOK
<1>2. UNCHANGED <<note, sweep>>
  BY DEF chainVars
<1>3. MinedIsExact'
  BY <1>2 DEF SweepInv, MinedIsExact
<1>4. ASSUME NEW q \in Requests  PROVE SweepPromise(req[q])'
  BY <1>1, <1>2 DEF SweepInv, SweepPromise, Answered
<1> QED BY <1>3, <1>4 DEF SweepInv

LEMMA FreePromise == SweepPromise(Free)
  BY DEF SweepPromise, Free, Spending, Answered

\* A request that moves to a place where it sends nothing and reports nothing.
LEMMA PlacePromise ==
  ASSUME IInv, SweepInv, NEW r \in Requests, NEW place, Go(r, place), UNCHANGED chainVars,
         place \notin {"sending"} \cup Spending,
         place = "attaching" => req[r].route = "sweep",
         place = "200" => req[r].route # "sweep",
         place # "500" => req[r].at \notin Spending \cup {"200", "500"}
  PROVE  SweepInv'
<1> DEFINE new == [req[r] EXCEPT !.at = place]
<1>1. req[r] \in ReqType /\ SweepPromise(req[r])
  BY DEF IInv, ApiTypeOK, SweepInv
<1>2. /\ new.at = place /\ new.route = req[r].route /\ new.amount = req[r].amount
      /\ new.sweep = req[r].sweep
  BY <1>1 DEF ReqType
<1>3. req' = [req EXCEPT ![r] = new]
  BY DEF Go
<1> HIDE DEF new
<1>4. SweepPromise(new)
  BY <1>1, <1>2 DEF SweepPromise, Spending, Answered
<1> QED BY <1>3, <1>4, SweeperMoves

\* Steps of the process and of the quote routes.
LEMMA OtherRoutesSweepNothing ==
  ASSUME IInv, SweepInv, NEW r \in Requests, HandleStep(r)
  PROVE  SweepInv'
<1> USE DEF Spending
<1>1. CASE Finish(r)
  BY <1>1, FreePromise, SweeperMoves DEF Finish
<1>2. req[r] \in ReqType /\ AuthorizedFirst(req[r])
  BY DEF IInv, ApiTypeOK, Guarded
<1>3. CASE AnswerUnauthorized(r)
  BY <1>3, PlacePromise DEF AnswerUnauthorized
<1>4. CASE AnswerError(r)
  BY <1>4, PlacePromise DEF AnswerError
<1>5. CASE AcceptQuery(r)
  <2>1. PICK place \in {"signing", "context"} : Go(r, place)
    BY <1>5 DEF AcceptQuery, EnsureSenderRegistered
  <2> QED BY <1>5, <2>1, PlacePromise DEF AcceptQuery
<1>6. CASE IssueQuote(r)
  <2>1. req[r].route # "sweep"
    BY <1>2, <1>6 DEF IssueQuote, AuthorizedFirst, QuoteRoutes
  <2> QED BY <1>6, <2>1, PlacePromise DEF IssueQuote
<1>7. CASE SigningFails(r)
  BY <1>7, PlacePromise DEF SigningFails
<1>8. CASE AskTreasury(r)
  BY <1>8, PlacePromise DEF AskTreasury
<1> QED BY <1>1, <1>3, <1>4, <1>5, <1>6, <1>7, <1>8 DEF HandleStep

LEMMA SendPromise ==
  ASSUME IInv, SweepInv, NEW r \in Requests, NEW s \in Sweeps, NEW notes \in SUBSET Notes,
         SendSweep(r, s, notes)
  PROVE  SweepInv'
<1> DEFINE new == [req[r] EXCEPT !.at = "waiting", !.sweep = s]
           sent == [fate |-> "pooled", notes |-> notes]
<1>1. req[r] \in ReqType /\ SweepPromise(req[r])
  BY DEF IInv, ApiTypeOK, SweepInv
<1>2. /\ new.at = "waiting" /\ new.route = req[r].route /\ new.amount = req[r].amount
      /\ new.sweep = s
  BY <1>1 DEF ReqType
<1>3. /\ req[r].at = "sending" /\ sweep[s].fate = "none" /\ Cardinality(notes) = req[r].amount
      /\ sweep' = [sweep EXCEPT ![s] = sent] /\ note' = note
      /\ req' = [req EXCEPT ![r] = new]
  BY DEF SendSweep
<1> HIDE DEF new
<1>4. \A q \in Requests : req'[q] = IF q = r THEN new ELSE req[q]
  BY <1>3 DEF IInv, ApiTypeOK
<1>5. /\ sent \in SweepStates /\ sent.fate = "pooled" /\ sent.notes = notes
  BY DEF SweepStates
<1> HIDE DEF sent
<1>6. \A t \in Sweeps : sweep'[t] = IF t = s THEN sent ELSE sweep[t]
  BY <1>3 DEF SweepInv, MinedIsExact
<1>7. MinedIsExact'
  <2>1. sweep' \in [Sweeps -> SweepStates]
    BY <1>3, <1>5 DEF SweepInv, MinedIsExact
  <2>2. ASSUME NEW t \in Sweeps, NEW n \in Notes
        PROVE  note'[n] = t <=> sweep'[t].fate = "mined" /\ n \in sweep'[t].notes
    BY <1>3, <1>5, <1>6 DEF SweepInv, MinedIsExact
  <2> QED BY <2>1, <2>2 DEF MinedIsExact
<1>8. ASSUME NEW q \in Requests  PROVE SweepPromise(req[q])'
  <2>1. CASE q = r
    <3>1. req'[q] = new /\ sweep'[s] = sent
      BY <1>4, <1>6, <2>1
    <3> QED BY <1>1, <1>2, <1>3, <1>5, <3>1 DEF SweepPromise, Spending, Answered
  <2>2. CASE q # r
    <3>1. req'[q] = req[q] /\ SweepPromise(req[q])
      BY <1>4, <2>2 DEF SweepInv
    <3>2. req[q].sweep # s \/ ~(req[q].at \in Spending \/ Answered(req[q]))
      BY <1>3, <3>1 DEF SweepPromise
    <3>3. req[q].at = "reporting" => req[q].at \in Spending
      BY DEF Spending
    <3> QED BY <1>6, <3>1, <3>2, <3>3 DEF SweepPromise, Answered
  <2> QED BY <2>1, <2>2
<1> QED BY <1>7, <1>8 DEF SweepInv

LEMMA TreasurySweeps ==
  ASSUME IInv, SweepInv, NEW r \in Requests, TreasuryStep(r)
  PROVE  SweepInv'
<1> USE DEF Spending
<1>1. req[r] \in ReqType /\ SweepPromise(req[r])
  BY DEF IInv, ApiTypeOK, SweepInv
<1>2. CASE ContextGiven(r)
  <2>1. PICK place \in {"registering", "attaching", "200"} :
          /\ Go(r, place)
          /\ place = "attaching" => req[r].route = "sweep"
          /\ place = "200" => req[r].route # "sweep"
    <3>1. req[r].route \in Routes
      BY <1>1 DEF ReqType
    <3>2. CASE req[r].route \in {"quote", "cold"}
      BY <1>2, <3>2 DEF ContextGiven
    <3>3. CASE req[r].route = "sweep"
      BY <1>2, <3>3 DEF ContextGiven
    <3>4. CASE req[r].route = "balances"
      BY <1>2, <3>4 DEF ContextGiven
    <3> QED BY <3>1, <3>2, <3>3, <3>4 DEF Routes
  <2> QED BY <1>2, <2>1, PlacePromise DEF ContextGiven
<1>3. CASE ContextRefused(r)
  <2>1. PICK place \in {"signing", "500"} : Go(r, place)
    BY <1>3 DEF ContextRefused
  <2> QED BY <1>3, <2>1, PlacePromise DEF ContextRefused
<1>4. CASE RegisterSender(r) \/ RegisterFails(r)
  BY <1>4, PlacePromise DEF RegisterSender, RegisterFails
<1>5. CASE ReadBalance(r)
  <2> DEFINE balance == Cardinality(Found)
             asked == IF req[r].amount = 0 THEN balance ELSE req[r].amount
             place == IF asked \in 1..balance THEN "sending" ELSE "400"
             new == [req[r] EXCEPT !.amount = asked, !.at = place]
  <2>1. /\ new.at = place /\ new.route = req[r].route /\ new.amount = asked
        /\ new.sweep = req[r].sweep
    BY <1>1 DEF ReqType
  <2>2. req' = [req EXCEPT ![r] = new] /\ req[r].at = "attaching" /\ UNCHANGED chainVars
    BY <1>5 DEF ReadBalance
  <2>3. balance \in Nat
    BY TreasuryAssumption, FS_Subset, FS_CardinalityType DEF Found, Unspent
  <2>4. place = "400" \/ (place = "sending" /\ asked > 0)
    <3> HIDE DEF balance, asked
    <3> QED BY <2>3
  <2> HIDE DEF new, place, asked
  <2>5. SweepPromise(new)
    BY <1>1, <2>1, <2>2, <2>4 DEF SweepPromise, Answered
  <2> QED BY <2>2, <2>5, SweeperMoves
<1>6. CASE SweepFails(r)
  BY <1>6, PlacePromise DEF SweepFails
<1>7. ASSUME NEW s \in Sweeps, NEW notes \in SUBSET Notes, SendSweep(r, s, notes)
      PROVE  SweepInv'
  BY <1>7, SendPromise
<1>8. CASE SweepLost(r)
  BY <1>8, PlacePromise DEF SweepLost
<1>9. ASSUME NEW place \in {"reporting", "200"}, Go(r, place), UNCHANGED chainVars,
             req[r].at \in Spending, sweep[req[r].sweep].fate = "mined"
      PROVE  SweepInv'
  <2> DEFINE new == [req[r] EXCEPT !.at = place]
  <2>1. /\ new.at = place /\ new.route = req[r].route /\ new.amount = req[r].amount
        /\ new.sweep = req[r].sweep
    BY <1>1 DEF ReqType
  <2>2. req' = [req EXCEPT ![r] = new]
    BY <1>9 DEF Go
  <2> HIDE DEF new
  <2>3. SweepPromise(new)
    BY <1>1, <1>9, <2>1 DEF SweepPromise, Answered
  <2> QED BY <1>9, <2>2, <2>3, SweeperMoves
<1>10. CASE SweepMined(r)
  BY <1>9, <1>10 DEF SweepMined, Mined
<1>11. CASE ReportSweep(r)
  <2>1. PICK place \in {"200", "500"} : Go(r, place)
    BY <1>11 DEF ReportSweep
  <2>2. CASE place = "200"
    BY <1>1, <1>9, <1>11, <2>1, <2>2 DEF ReportSweep, SweepPromise
  <2>3. CASE place = "500"
    BY <1>11, <2>1, <2>3, PlacePromise DEF ReportSweep
  <2> QED BY <2>2, <2>3
<1> QED BY <1>2, <1>3, <1>4, <1>5, <1>6, <1>7, <1>8, <1>10, <1>11 DEF TreasuryStep

\* Payments, and the sweeps in the network.
LEMMA NetworkSweeps ==
  ASSUME IInv, SweepInv,
         \/ \E n \in Notes : Pay(n)
         \/ \E s \in Sweeps : IncludeSweep(s) \/ DropSweep(s)
  PROVE  SweepInv'
<1>0. MinedIsExact /\ note \in [Notes -> Senders \cup {NoSender} \cup Sweeps]
  BY DEF SweepInv, IInv, ApiTypeOK
<1>1. ASSUME NEW n \in Notes, Pay(n)  PROVE SweepInv'
  <2>1. PICK sender \in quoted : note' = [note EXCEPT ![n] = sender]
    BY <1>1 DEF Pay
  <2>2. note[n] = NoSender /\ UNCHANGED <<req, sweep>>
    BY <1>1 DEF Pay
  <2>3. NoSender \notin Sweeps /\ sender \notin Sweeps
    BY TreasuryAssumption DEF IInv, ApiTypeOK
  <2>4. MinedIsExact'
    BY <1>0, <2>1, <2>2, <2>3 DEF MinedIsExact
  <2> QED BY <2>2, <2>4 DEF SweepInv, SweepPromise, Answered
<1>2. ASSUME NEW s \in Sweeps, NEW fate \in {"mined", "dropped"}, sweep[s].fate = "pooled",
             sweep' = [sweep EXCEPT ![s].fate = fate], req' = req,
             MinedIsExact'
      PROVE  SweepInv'
  <2>1. \A t \in Sweeps : /\ sweep'[t].notes = sweep[t].notes
                          /\ t # s => sweep'[t].fate = sweep[t].fate
    BY <1>0, <1>2 DEF MinedIsExact, SweepStates
  <2>2. sweep'[s].fate = fate
    BY <1>0, <1>2 DEF MinedIsExact, SweepStates
  <2>3. ASSUME NEW q \in Requests  PROVE SweepPromise(req[q])'
    <3>1. SweepPromise(req[q]) /\ req'[q] = req[q]
      BY <1>2 DEF SweepInv
    <3> QED BY <1>2, <2>1, <2>2, <3>1 DEF SweepPromise, Answered, Spending
  <2> QED BY <1>2, <2>3 DEF SweepInv
<1>3. ASSUME NEW s \in Sweeps, DropSweep(s)  PROVE SweepInv'
  <2>1. /\ sweep[s].fate = "pooled" /\ sweep' = [sweep EXCEPT ![s].fate = "dropped"]
        /\ UNCHANGED <<req, note>>
    BY <1>3 DEF DropSweep
  <2>2. MinedIsExact'
    BY <1>0, <2>1 DEF MinedIsExact, SweepStates
  <2> QED BY <1>2, <2>1, <2>2
<1>4. ASSUME NEW s \in Sweeps, IncludeSweep(s)  PROVE SweepInv'
  <2>1. /\ sweep[s].fate = "pooled" /\ sweep' = [sweep EXCEPT ![s].fate = "mined"]
        /\ sweep[s].notes \subseteq Unspent /\ req' = req
        /\ note' = [n \in Notes |-> IF n \in sweep[s].notes THEN s ELSE note[n]]
    BY <1>4 DEF IncludeSweep
  <2>2. /\ sweep' \in [Sweeps -> SweepStates]
        /\ sweep'[s].fate = "mined" /\ sweep'[s].notes = sweep[s].notes
        /\ \A t \in Sweeps : t # s => sweep'[t] = sweep[t]
    BY <1>0, <2>1 DEF MinedIsExact, SweepStates
  <2>3. ASSUME NEW t \in Sweeps, NEW n \in Notes
        PROVE  note'[n] = t <=> sweep'[t].fate = "mined" /\ n \in sweep'[t].notes
    <3>1. n \in sweep[s].notes => note[n] \notin Sweeps
      BY <2>1, TreasuryAssumption DEF Unspent
    <3>2. note[n] # s
      BY <1>0, <2>1 DEF MinedIsExact
    <3>3. CASE t = s
      BY <2>1, <2>2, <3>2, <3>3
    <3>4. CASE t # s
      <4>1. sweep'[t] = sweep[t] /\ (note[n] = t <=> sweep[t].fate = "mined" /\ n \in sweep[t].notes)
        BY <1>0, <2>2, <3>4 DEF MinedIsExact
      <4> QED BY <2>1, <3>1, <3>4, <4>1
    <3> QED BY <3>3, <3>4
  <2>4. MinedIsExact'
    BY <2>2, <2>3 DEF MinedIsExact
  <2> QED BY <1>2, <2>1, <2>4
<1> QED BY <1>1, <1>3, <1>4

LEMMA SweepStep == IInv /\ SweepInv /\ [Next]_vars => SweepInv'
<1> SUFFICES ASSUME IInv, SweepInv, [Next]_vars  PROVE SweepInv'
  OBVIOUS
<1>1. ASSUME UNCHANGED <<req, chainVars>>  PROVE SweepInv'
  BY <1>1 DEF chainVars, SweepInv, MinedIsExact, SweepPromise, Answered
<1>2. CASE Start \/ StartFails \/ (\E k \in Keys : WindowEnds(k)) \/ InitReady \/ InitFails
  BY <1>1, <1>2 DEF Start, StartFails, WindowEnds, InitReady, InitFails
<1>3. CASE Crash
  <2>1. UNCHANGED <<note, sweep>> /\ req' = [r \in Requests |-> Free]
    BY <1>3 DEF Crash, chainVars
  <2>2. MinedIsExact'
    BY <2>1 DEF SweepInv, MinedIsExact
  <2>3. SweepPromise(Free)'
    BY <2>1, FreePromise DEF SweepPromise, Free, Answered
  <2> QED BY <2>1, <2>2, <2>3 DEF SweepInv
<1>4. ASSUME NEW r \in Requests, NEW given, NEW ip, NEW request, Admit(r, given, ip, request),
             SweepPromise(request), SweepPromise([request EXCEPT !.at = "429"])
      PROVE  SweepInv'
  <2>1. PICK new \in {request, [request EXCEPT !.at = "429"]} : req' = [req EXCEPT ![r] = new]
    BY <1>4 DEF Admit
  <2>2. UNCHANGED chainVars
    BY <1>4 DEF Admit
  <2> QED BY <1>4, <2>1, <2>2, SweeperMoves
<1>5. ASSUME NEW r \in Requests, NEW given, NEW ip, NEW route, NEW sender,
             AskForQuote(r, route, given, ip, sender)
      PROVE  SweepInv'
  <2> DEFINE new == [Free EXCEPT !.at = "clock", !.route = route, !.given = given,
                                 !.sender = sender]
  <2>1. SweepPromise(new) /\ SweepPromise([new EXCEPT !.at = "429"])
    BY DEF SweepPromise, Free, Answered, Spending
  <2> QED BY <1>4, <1>5, <2>1 DEF AskForQuote
<1>6. ASSUME NEW r \in Requests, NEW rightKey, NEW wellFormed, NEW route, NEW amount,
             AskAdmin(r, route, rightKey, amount, wellFormed)
      PROVE  SweepInv'
  <2> DEFINE access == AdminAccess(settings, rightKey)
             next == IF access # "ok" THEN access ELSE IF wellFormed THEN "asking" ELSE "400"
             new == [Free EXCEPT !.at = next, !.route = route, !.amount = amount]
  <2>1. next \in {"503", "401", "asking", "400"}
    BY DEF AdminAccess
  <2> HIDE DEF next
  <2>2. SweepPromise(new)
    BY <2>1 DEF SweepPromise, Free, Answered, Spending
  <2>3. req' = [req EXCEPT ![r] = new] /\ UNCHANGED chainVars
    BY <1>6 DEF AskAdmin, next
  <2> QED BY <2>2, <2>3, SweeperMoves
<1>7. ASSUME NEW r \in Requests, HandleStep(r)  PROVE SweepInv'
  BY <1>7, OtherRoutesSweepNothing
<1>8. ASSUME NEW r \in Requests, TreasuryStep(r)  PROVE SweepInv'
  BY <1>8, TreasurySweeps
<1>9. CASE \/ \E n \in Notes : Pay(n)
           \/ \E s \in Sweeps : IncludeSweep(s) \/ DropSweep(s)
  BY <1>9, NetworkSweeps
<1>10. CASE UNCHANGED vars
  BY <1>1, <1>10 DEF vars
<1> QED BY <1>2, <1>3, <1>5, <1>6, <1>7, <1>8, <1>9, <1>10 DEF Next

\* A sweep answered with success moved the amount it was asked for, and one refused as a
\* bad request moved nothing, however sweeps overlap, fail and crash
\* (operator-treasury.ts, server.ts).
THEOREM SweepsAreTrue == Spec => []SweepsReportedTruly
<1>1. SweepInv => SweepsReportedTruly
  <2> SUFFICES ASSUME SweepInv, NEW r \in Requests, req[r].route = "sweep"
               PROVE  /\ req[r].at = "200" =>
                           /\ Cardinality({n \in Notes : note[n] = req[r].sweep}) = req[r].amount
                           /\ req[r].amount > 0
                      /\ req[r].at = "400" => req[r].sweep = NoSweep
    BY DEF SweepsReportedTruly
  <2>1. SweepPromise(req[r])
    BY DEF SweepInv
  <2>2. CASE req[r].at = "200"
    <3>1. /\ req[r].sweep \in Sweeps /\ sweep[req[r].sweep].fate = "mined" /\ req[r].amount > 0
          /\ Cardinality(sweep[req[r].sweep].notes) = req[r].amount
      BY <2>1, <2>2 DEF SweepPromise, Answered
    <3>2. {n \in Notes : note[n] = req[r].sweep} = sweep[req[r].sweep].notes
      BY <3>1 DEF SweepInv, MinedIsExact, SweepStates
    <3> QED BY <2>2, <3>1, <3>2
  <2>3. req[r].at = "400" => req[r].sweep = NoSweep
    BY <2>1 DEF SweepPromise, Spending
  <2> QED BY <2>2, <2>3
<1> QED BY InitIInv, NextIInv, SweepsStart, SweepStep, <1>1, PTL DEF Spec

-----------------------------------------------------------------------------
(* The rate limit.  What is let through is never more than what is counted, *)
(* because who a request is counted for is who it is from, and a count is   *)
(* forgotten with its window or when the limiter gives up the key.  It      *)
(* gives up the key that is first in its order, and whoever is behind a key *)
(* in that order asked after it: so do all it tracks, and the new one.      *)

TracksOnce(keys) ==
  /\ keys \in Seq(Keys)
  /\ \A i, j \in DOMAIN keys : keys[i] = keys[j] => i = j

\* Who is tracked behind a key was counted since.
InOrder(keys, since) ==
  \A i, j \in DOMAIN keys : i < j => keys[j] \in since[keys[i]]

Counts(k) ==
  used[k] <= settings.maxRequests /\ (admitted[k] <= used[k] \/ k \in crowded)

LimitInv ==
  /\ used \in [Keys -> Nat] /\ admitted \in [Keys -> Nat]
  /\ rivals \in [Keys -> SUBSET Keys]
  /\ settings.limited =>
       /\ TracksOnce(tracked) /\ Len(tracked) <= settings.maxTrackedKeys
       /\ InOrder(tracked, rivals)
       /\ \A k \in Keys : Counts(k)

LEMMA WithoutFacts ==
  ASSUME NEW keys, TracksOnce(keys), NEW k \in Keys
  PROVE  /\ TracksOnce(Without(keys, k)) /\ Len(Without(keys, k)) <= Len(keys)
         /\ \A i \in DOMAIN Without(keys, k) : Without(keys, k)[i] # k
         /\ \A since : InOrder(keys, since) => InOrder(Without(keys, k), since)
<1>1. keys \in Seq(Keys) /\ Len(keys) \in Nat /\ DOMAIN keys = 1..Len(keys)
  BY DEF TracksOnce
<1>2. CASE ~ \E i \in DOMAIN keys : keys[i] = k
  BY <1>2 DEF Without
<1>3. CASE \E i \in DOMAIN keys : keys[i] = k
  <2> DEFINE i == CHOOSE j \in DOMAIN keys : keys[j] = k
             rest == SubSeq(keys, 1, i - 1) \o SubSeq(keys, i + 1, Len(keys))
  <2>1. i \in 1..Len(keys) /\ keys[i] = k
    BY <1>1, <1>3
  <2> HIDE DEF i
  <2>2. /\ rest \in Seq(Keys) /\ Len(rest) = Len(keys) - 1
        /\ \A j \in 1..(Len(keys) - 1) : rest[j] = IF j < i THEN keys[j] ELSE keys[j + 1]
    <3> DEFINE before == SubSeq(keys, 1, i - 1)
               after == SubSeq(keys, i + 1, Len(keys))
    <3>1. /\ before \in Seq(Keys) /\ Len(before) = i - 1
          /\ \A j \in 1..(i - 1) : before[j] = keys[j]
      BY <1>1, <2>1
    <3>2. /\ after \in Seq(Keys) /\ Len(after) = Len(keys) - i
          /\ \A j \in 1..(Len(keys) - i) : after[j] = keys[i + j]
      <4> DEFINE first == i + 1
      <4>1. first \in 1..(Len(keys) + 1)
        BY <1>1, <2>1
      <4> HIDE DEF first
      <4>2. /\ SubSeq(keys, first, Len(keys)) \in Seq(Keys)
            /\ Len(SubSeq(keys, first, Len(keys))) = Len(keys) - first + 1
            /\ \A j \in 1..(Len(keys) - first + 1) :
                 SubSeq(keys, first, Len(keys))[j] = keys[first + j - 1]
        BY <1>1, <4>1
      <4>3. Len(keys) - first + 1 = Len(keys) - i /\ \A j \in Nat : first + j - 1 = i + j
        BY <1>1, <2>1 DEF first
      <4> QED BY <4>2, <4>3 DEF first
    <3> HIDE DEF before, after
    <3>3. /\ before \o after \in Seq(Keys)
          /\ Len(before \o after) = Len(before) + Len(after)
          /\ \A j \in 1..(Len(before) + Len(after)) :
               (before \o after)[j] = IF j <= Len(before) THEN before[j] ELSE after[j - Len(before)]
      BY <3>1, <3>2
    <3>4. rest = before \o after
      BY DEF before, after
    <3> HIDE DEF rest
    <3>5. rest \in Seq(Keys) /\ Len(rest) = Len(keys) - 1
      <4>1. rest \in Seq(Keys) /\ Len(rest) = Len(before) + Len(after)
        BY <3>3, <3>4
      <4>2. (i - 1) + (Len(keys) - i) = Len(keys) - 1
        BY <1>1, <2>1
      <4> QED BY <3>1, <3>2, <4>1, <4>2
    <3>6. ASSUME NEW j \in 1..(Len(keys) - 1)
          PROVE  rest[j] = IF j < i THEN keys[j] ELSE keys[j + 1]
      <4>1. rest[j] = IF j <= i - 1 THEN before[j] ELSE after[j - (i - 1)]
        BY <1>1, <2>1, <3>1, <3>2, <3>3, <3>4
      <4>2. CASE j < i
        BY <2>1, <3>1, <3>6, <4>1, <4>2
      <4>3. CASE ~(j < i)
        <5>1. j - (i - 1) \in 1..(Len(keys) - i) /\ i + (j - (i - 1)) = j + 1
          BY <1>1, <2>1, <4>3
        <5> QED BY <2>1, <3>2, <4>1, <4>3, <5>1
      <4> QED BY <4>2, <4>3
    <3> QED BY <3>5, <3>6
  <2>3. Without(keys, k) = rest
    BY <1>3 DEF Without, i
  <2> HIDE DEF rest
  <2>4. DOMAIN rest = 1..(Len(keys) - 1)
    BY <2>2
  <2>5. \A j \in 1..Len(keys) : j # i => keys[j] # k
    BY <1>1, <2>1 DEF TracksOnce
  <2>6. ASSUME NEW a \in DOMAIN rest, NEW b \in DOMAIN rest, rest[a] = rest[b]
        PROVE  a = b
    <3> DEFINE p(j) == IF j < i THEN j ELSE j + 1
    <3>1. /\ p(a) \in 1..Len(keys) /\ p(b) \in 1..Len(keys)
          /\ rest[a] = keys[p(a)] /\ rest[b] = keys[p(b)]
      BY <1>1, <2>1, <2>2, <2>4
    <3>2. p(a) = p(b)
      <4> HIDE DEF p
      <4> QED BY <1>1, <2>6, <3>1 DEF TracksOnce
    <3> QED BY <1>1, <2>1, <2>4, <3>2
  <2>7. \A j \in DOMAIN rest : rest[j] # k
    BY <1>1, <2>1, <2>2, <2>4, <2>5
  <2>8. ASSUME NEW since, InOrder(keys, since), NEW a \in DOMAIN rest, NEW b \in DOMAIN rest, a < b
        PROVE  rest[b] \in since[rest[a]]
    <3> DEFINE p(j) == IF j < i THEN j ELSE j + 1
    <3>1. /\ p(a) \in 1..Len(keys) /\ p(b) \in 1..Len(keys) /\ p(a) < p(b)
          /\ rest[a] = keys[p(a)] /\ rest[b] = keys[p(b)]
      BY <1>1, <2>1, <2>2, <2>4, <2>8
    <3> HIDE DEF p
    <3> QED BY <1>1, <2>8, <3>1 DEF InOrder
  <2>9. \A since : InOrder(keys, since) => InOrder(rest, since)
    BY <2>8 DEF InOrder
  <2>10. TracksOnce(rest) /\ Len(rest) <= Len(keys)
    BY <1>1, <2>2, <2>6 DEF TracksOnce
  <2> QED BY <2>3, <2>7, <2>9, <2>10
<1> QED BY <1>2, <1>3

\* Who was counted since, after a request of k.
After(since, k) == [j \in Keys |-> IF j = k THEN {} ELSE since[j] \cup {k}]

LEMMA AppendFacts ==
  ASSUME NEW keys, TracksOnce(keys), NEW k \in Keys, \A i \in DOMAIN keys : keys[i] # k,
         NEW since \in [Keys -> SUBSET Keys], InOrder(keys, since)
  PROVE  /\ TracksOnce(Append(keys, k)) /\ Len(Append(keys, k)) = Len(keys) + 1
         /\ InOrder(Append(keys, k), After(since, k))
<1> DEFINE more == Append(keys, k)
<1>1. keys \in Seq(Keys) /\ Len(keys) \in Nat /\ DOMAIN keys = 1..Len(keys)
  BY DEF TracksOnce
<1>2. /\ more \in Seq(Keys) /\ Len(more) = Len(keys) + 1
      /\ DOMAIN more = 1..(Len(keys) + 1) /\ more[Len(keys) + 1] = k
      /\ \A i \in 1..Len(keys) : more[i] = keys[i]
  BY <1>1
<1> HIDE DEF more
<1>3. TracksOnce(more)
  BY <1>1, <1>2 DEF TracksOnce
<1>4. ASSUME NEW i \in DOMAIN more, NEW j \in DOMAIN more, i < j
      PROVE  more[j] \in After(since, k)[more[i]]
  <2>1. i \in 1..Len(keys) /\ more[i] = keys[i] /\ keys[i] \in Keys /\ keys[i] # k
    BY <1>1, <1>2, <1>4
  <2>2. After(since, k)[more[i]] = since[keys[i]] \cup {k}
    BY <2>1 DEF After
  <2>3. CASE j = Len(keys) + 1
    BY <1>2, <2>2, <2>3
  <2>4. CASE j \in 1..Len(keys)
    <3>1. keys[j] \in since[keys[i]]
      BY <1>1, <1>4, <2>1, <2>4 DEF InOrder
    <3> QED BY <1>2, <2>2, <2>4, <3>1
  <2> QED BY <1>1, <1>2, <2>3, <2>4
<1> QED BY <1>2, <1>3, <1>4 DEF InOrder, more

LEMMA TailFacts ==
  ASSUME NEW keys, TracksOnce(keys), Len(keys) > 0
  PROVE  /\ TracksOnce(Tail(keys)) /\ Len(Tail(keys)) = Len(keys) - 1
         /\ \A i \in DOMAIN Tail(keys) : i + 1 \in DOMAIN keys /\ Tail(keys)[i] = keys[i + 1]
         /\ \A since : InOrder(keys, since) => InOrder(Tail(keys), since)
<1> DEFINE rest == Tail(keys)
<1>1. keys \in Seq(Keys) /\ Len(keys) \in Nat /\ DOMAIN keys = 1..Len(keys) /\ keys # <<>>
  BY DEF TracksOnce
<1>2. /\ rest \in Seq(Keys) /\ Len(rest) = Len(keys) - 1 /\ DOMAIN rest = 1..(Len(keys) - 1)
      /\ \A i \in 1..(Len(keys) - 1) : rest[i] = keys[i + 1]
  BY <1>1
<1> HIDE DEF rest
<1>3. \A i \in DOMAIN rest : i + 1 \in DOMAIN keys /\ rest[i] = keys[i + 1]
  BY <1>1, <1>2
<1>4. ASSUME NEW i \in DOMAIN rest, NEW j \in DOMAIN rest, rest[i] = rest[j]
      PROVE  i = j
  <2>1. i + 1 = j + 1
    BY <1>3, <1>4 DEF TracksOnce
  <2> QED BY <1>1, <1>2, <2>1
<1>5. ASSUME NEW since, InOrder(keys, since), NEW i \in DOMAIN rest, NEW j \in DOMAIN rest, i < j
      PROVE  rest[j] \in since[rest[i]]
  <2>1. i + 1 < j + 1
    BY <1>1, <1>2, <1>5
  <2> QED BY <1>3, <1>5, <2>1 DEF InOrder
<1>6. TracksOnce(rest)
  BY <1>2, <1>4 DEF TracksOnce
<1>7. \A since : InOrder(keys, since) => InOrder(rest, since)
  BY <1>5 DEF InOrder
<1> QED BY <1>2, <1>3, <1>6, <1>7 DEF rest

\* All that is tracked asked after the key that comes first.
LEMMA FirstIsCrowded ==
  ASSUME NEW keys, TracksOnce(keys), Len(keys) > 0, NEW k \in Keys,
         \A i \in DOMAIN keys : keys[i] # k,
         NEW since \in [Keys -> SUBSET Keys], InOrder(keys, since)
  PROVE  /\ Head(keys) \in Keys \ {k}
         /\ Cardinality(After(since, k)[Head(keys)]) >= Len(keys)
<1> DEFINE first == Head(keys)
           later == After(since, k)[first]
           place == [i \in 1..Len(keys) |-> IF i = 1 THEN k ELSE keys[i]]
<1>1. /\ keys \in Seq(Keys) /\ Len(keys) \in Nat /\ DOMAIN keys = 1..Len(keys)
      /\ keys # <<>> /\ first = keys[1]
  BY DEF TracksOnce
<1>2. first \in Keys \ {k} /\ 1 \in DOMAIN keys
  BY <1>1
<1>3. later = since[first] \cup {k} /\ later \subseteq Keys
  BY <1>2 DEF After
<1> HIDE DEF later
<1>4. \A i \in 1..Len(keys) : i # 1 => keys[i] \in since[first]
  BY <1>1, <1>2 DEF InOrder
<1>5. place \in [1..Len(keys) -> later]
  BY <1>3, <1>4
<1>6. ASSUME NEW i \in 1..Len(keys), NEW j \in 1..Len(keys), place[i] = place[j]
      PROVE  i = j
  <2>1. \A n \in 1..Len(keys) : place[n] = IF n = 1 THEN k ELSE keys[n]
    OBVIOUS
  <2> HIDE DEF place
  <2> QED BY <1>1, <1>6, <2>1 DEF TracksOnce
<1> HIDE DEF place
<1>7. IsFiniteSet(later)
  <2>1. IsFiniteSet(Keys)
    BY ApiAssumption, FS_AddElement DEF Keys
  <2> QED BY <1>3, <2>1, FS_Subset
<1>8. IsFiniteSet(1..Len(keys)) /\ Cardinality(1..Len(keys)) = Len(keys)
  <2>1. IsFiniteSet(1..Len(keys))
          /\ Cardinality(1..Len(keys)) = IF 1 > Len(keys) THEN 0 ELSE Len(keys) - 1 + 1
    <3>1. 1 \in Int /\ Len(keys) \in Int
      BY <1>1
    <3> QED BY <3>1, FS_Interval
  <2> QED BY <1>1, <2>1
<1>9. Cardinality(later) >= Len(keys)
  <2>1. Cardinality(later) \in Nat
    BY <1>7, FS_CardinalityType
  <2>2. ~(Cardinality(later) < Cardinality(1..Len(keys)))
    <3>1. SUFFICES ASSUME Cardinality(later) < Cardinality(1..Len(keys))
                   PROVE  FALSE
      OBVIOUS
    <3>2. \E i, j \in 1..Len(keys) : i # j /\ place[i] = place[j]
      BY <1>5, <1>7, <1>8, <3>1, FS_PigeonHole
    <3> QED BY <1>6, <3>2
  <2> QED BY <1>1, <1>8, <2>1, <2>2
<1> QED BY <1>2, <1>9 DEF later

\* A request is counted: the order is kept, and a key that is given up is crowded.
LEMMA TouchCounts ==
  ASSUME LimitInv, settings \in Settings, settings.limited, NEW k \in Keys, Touch(k), Counted(k)
  PROVE  /\ used' \in [Keys -> Nat] /\ rivals' \in [Keys -> SUBSET Keys]
         /\ TracksOnce(tracked') /\ Len(tracked') <= settings.maxTrackedKeys
         /\ InOrder(tracked', rivals')
         /\ used'[k] = IF OverLimit(k) THEN used[k] ELSE used[k] + 1
         /\ k \in crowded' <=> k \in crowded
         /\ \A j \in Keys \ {k} :
              /\ j \in crowded => j \in crowded'
              /\ \/ used'[j] = used[j]
                 \/ used'[j] = 0 /\ (admitted[j] > 0 => j \in crowded')
<1> DEFINE others == Without(tracked, k)
           full == Len(others) = settings.maxTrackedKeys
           kept == IF full THEN Tail(others) ELSE others
<1>0. /\ used \in [Keys -> Nat] /\ settings.maxTrackedKeys \in Nat \ {0}
      /\ rivals \in [Keys -> SUBSET Keys] /\ TracksOnce(tracked)
      /\ Len(tracked) <= settings.maxTrackedKeys /\ InOrder(tracked, rivals)
      /\ Len(tracked) \in Nat
  BY DEF LimitInv, Settings, TracksOnce
<1>1. /\ tracked' = Append(kept, k)
      /\ used' = [j \in Keys |->
           IF j = k THEN IF OverLimit(k) THEN used[k] ELSE used[k] + 1
           ELSE IF full /\ j = Head(others) THEN 0 ELSE used[j]]
  BY DEF Touch
<1>2. /\ TracksOnce(others) /\ Len(others) <= Len(tracked) /\ InOrder(others, rivals)
      /\ \A i \in DOMAIN others : others[i] # k
      /\ Len(others) \in Nat
  <2>1. TracksOnce(others) /\ Len(others) <= Len(tracked) /\ InOrder(others, rivals)
          /\ \A i \in DOMAIN others : others[i] # k
    BY <1>0, WithoutFacts
  <2> QED BY <2>1 DEF TracksOnce
<1>3. rivals' = After(rivals, k)
  BY DEF Counted, After
<1>4. crowded' = crowded \cup {j \in Keys \ {k} : admitted[j] > 0
                                 /\ Cardinality(rivals'[j]) >= settings.maxTrackedKeys}
  BY DEF Counted
<1> HIDE DEF others, full
<1>5. /\ TracksOnce(kept) /\ InOrder(kept, rivals) /\ Len(kept) < settings.maxTrackedKeys
      /\ \A i \in DOMAIN kept : kept[i] # k
      /\ Len(kept) \in Nat
  <2>1. CASE full
    <3>1. Len(others) > 0 /\ Len(others) = settings.maxTrackedKeys
      BY <1>0, <2>1 DEF full
    <3>2. /\ TracksOnce(kept) /\ InOrder(kept, rivals) /\ Len(kept) = Len(others) - 1
          /\ \A i \in DOMAIN kept : kept[i] # k
      BY <1>2, <2>1, <3>1, TailFacts
    <3> QED BY <1>0, <1>2, <3>1, <3>2
  <2>2. CASE ~full
    BY <1>0, <1>2, <2>2 DEF full
  <2> QED BY <2>1, <2>2
<1> HIDE DEF kept
<1>6. /\ TracksOnce(tracked') /\ Len(tracked') = Len(kept) + 1 /\ InOrder(tracked', rivals')
  BY <1>0, <1>1, <1>3, <1>5, AppendFacts
<1>7. used' \in [Keys -> Nat] /\ used'[k] = IF OverLimit(k) THEN used[k] ELSE used[k] + 1
  BY <1>0, <1>1
<1>8. rivals' \in [Keys -> SUBSET Keys]
  BY <1>0, <1>3 DEF After
<1>9. ASSUME NEW j \in Keys \ {k}
      PROVE  \/ used'[j] = used[j]
             \/ used'[j] = 0 /\ (admitted[j] > 0 => j \in crowded')
  <2>1. CASE full /\ j = Head(others)
    <3>1. Len(others) > 0 /\ Len(others) = settings.maxTrackedKeys
      BY <1>0, <2>1 DEF full
    <3>2. Cardinality(rivals'[j]) >= settings.maxTrackedKeys
      BY <1>0, <1>2, <1>3, <2>1, <3>1, FirstIsCrowded
    <3> QED BY <1>1, <1>4, <2>1, <3>2
  <2>2. CASE ~(full /\ j = Head(others))
    BY <1>0, <1>1, <2>2
  <2> QED BY <2>1, <2>2
<1>10. /\ k \in crowded' <=> k \in crowded
       /\ \A j \in Keys : j \in crowded => j \in crowded'
  BY <1>4
<1> QED BY <1>0, <1>5, <1>6, <1>7, <1>8, <1>9, <1>10

LEMMA AdmitCounts ==
  ASSUME IInv, LimitInv, NEW r, NEW given \in Credentials, NEW ip \in Ips, NEW request,
         Admit(r, given, ip, request)
  PROVE  LimitInv'
<1> DEFINE key == RateLimitKey(settings, given, ip)
           who == Identity(given, ip)
<1>1. /\ settings \in Settings /\ settings' = settings
      /\ used \in [Keys -> Nat] /\ admitted \in [Keys -> Nat]
      /\ settings.maxRequests \in Nat
  BY DEF IInv, ApiTypeOK, LimitInv, Admit, Settings
<1>2. key \in Keys /\ who = key
  <2>1. ConfigLoads(settings)
    BY DEF Admit, IInv, Guarded
  <2>2. ModeNeedsApiKey(settings.mode) = settings.apiKey
    BY <2>1 DEF ConfigLoads, QuoteAuthValid
  <2>3. settings.apiKey \in BOOLEAN /\ ModeNeedsApiKey(settings.mode) \in BOOLEAN
    BY <1>1 DEF Settings, ModeNeedsApiKey
  <2> QED BY <2>2, <2>3 DEF RateLimitKey, Identity, ApiKeyAuthorized, Keys
<1>3. /\ IF settings.limited THEN Touch(key) /\ Counted(who)
         ELSE UNCHANGED <<tracked, used, rivals, crowded>>
      /\ admitted' = IF OverLimit(key) \/ ~settings.limited \/ admitted[who] > settings.maxRequests
                     THEN admitted ELSE [admitted EXCEPT ![who] = @ + 1]
  BY DEF Admit
<1> HIDE DEF key, who
<1>4. admitted' \in [Keys -> Nat]
  BY <1>1, <1>2, <1>3
<1>5. CASE ~settings.limited
  BY <1>1, <1>3, <1>4, <1>5 DEF LimitInv
<1>6. CASE settings.limited
  <2>1. /\ used' \in [Keys -> Nat] /\ rivals' \in [Keys -> SUBSET Keys]
        /\ TracksOnce(tracked') /\ Len(tracked') <= settings.maxTrackedKeys
        /\ InOrder(tracked', rivals')
        /\ used'[key] = IF OverLimit(key) THEN used[key] ELSE used[key] + 1
        /\ key \in crowded' <=> key \in crowded
        /\ \A j \in Keys \ {key} :
             /\ j \in crowded => j \in crowded'
             /\ \/ used'[j] = used[j]
                \/ used'[j] = 0 /\ (admitted[j] > 0 => j \in crowded')
    BY <1>1, <1>2, <1>3, <1>6, TouchCounts
  <2>2. ASSUME NEW j \in Keys
        PROVE  /\ used'[j] <= settings.maxRequests
               /\ admitted'[j] <= used'[j] \/ j \in crowded'
    <3>1. /\ used[j] <= settings.maxRequests /\ (admitted[j] <= used[j] \/ j \in crowded)
          /\ used[j] \in Nat /\ admitted[j] \in Nat
      BY <1>1, <1>6 DEF LimitInv, Counts
    <3>2. CASE j # key
      <4>1. admitted'[j] = admitted[j]
        BY <1>1, <1>2, <1>3, <3>2
      <4>2. /\ j \in crowded => j \in crowded'
            /\ \/ used'[j] = used[j]
               \/ used'[j] = 0 /\ (admitted[j] > 0 => j \in crowded')
        BY <2>1, <3>2
      <4>3. CASE used'[j] = used[j]
        BY <3>1, <4>1, <4>2, <4>3
      <4>4. CASE used'[j] = 0 /\ (admitted[j] > 0 => j \in crowded')
        BY <1>1, <3>1, <4>1, <4>4
      <4> QED BY <4>2, <4>3, <4>4
    <3>3. CASE j = key /\ OverLimit(key)
      BY <1>3, <2>1, <3>1, <3>3
    <3>4. CASE j = key /\ ~OverLimit(key)
      <4>1. used[key] < settings.maxRequests
        BY <1>1, <1>2, <1>6, <3>4 DEF OverLimit
      <4>2. admitted'[j] = admitted[j] \/ admitted'[j] = admitted[j] + 1
        BY <1>1, <1>2, <1>3, <3>4
      <4> QED BY <1>1, <2>1, <3>1, <3>4, <4>1, <4>2
    <3> QED BY <3>2, <3>3, <3>4
  <2> QED BY <1>1, <1>4, <2>1, <2>2 DEF LimitInv, Counts
<1> QED BY <1>5, <1>6

\* The counts are gone at the start, after a crash, and for a key whose window ends.
LEMMA LimitStarts == Init => LimitInv
<1> SUFFICES ASSUME Init  PROVE LimitInv
  OBVIOUS
<1>1. TracksOnce(<<>>) /\ InOrder(<<>>, rivals) /\ Len(<<>>) = 0
  BY DEF TracksOnce, InOrder
<1>2. settings.maxRequests \in Nat /\ settings.maxTrackedKeys \in Nat
  BY ApiAssumption DEF Init, Settings
<1> QED BY <1>1, <1>2 DEF Init, LimitInv, Counts

LEMMA LimitStep == IInv /\ LimitInv /\ [Next]_vars => LimitInv'
<1> SUFFICES ASSUME IInv, LimitInv, [Next]_vars  PROVE LimitInv'
  OBVIOUS
<1>0. settings.maxRequests \in Nat /\ settings.maxTrackedKeys \in Nat
  BY DEF IInv, ApiTypeOK, Settings
<1>1. ASSUME UNCHANGED <<settings, limiterVars>>  PROVE LimitInv'
  BY <1>1 DEF LimitInv, Counts, limiterVars
<1>2. CASE Start \/ StartFails
  BY <1>1, <1>2 DEF Start, StartFails
<1>3. CASE Crash
  <2>1. /\ tracked' = <<>> /\ used' = [k \in Keys |-> 0] /\ admitted' = [k \in Keys |-> 0]
        /\ settings' = settings /\ rivals' = [k \in Keys |-> {}]
    BY <1>3 DEF Crash
  <2>2. TracksOnce(<<>>) /\ InOrder(<<>>, rivals') /\ Len(<<>>) = 0
    BY DEF TracksOnce, InOrder
  <2> QED BY <1>0, <2>1, <2>2 DEF LimitInv, Counts
<1>4. ASSUME NEW k \in Keys, WindowEnds(k)  PROVE LimitInv'
  <2>1. /\ used' = [used EXCEPT ![k] = 0] /\ admitted' = [admitted EXCEPT ![k] = 0]
        /\ UNCHANGED <<settings, tracked, rivals>> /\ crowded' = crowded \ {k}
    BY <1>4 DEF WindowEnds
  <2> QED BY <1>0, <2>1 DEF LimitInv, Counts
<1>5. ASSUME NEW r \in Requests, NEW given \in GivenFor(settings.mode), NEW ip \in Ips,
             NEW route, NEW sender, AskForQuote(r, route, given, ip, sender)
      PROVE  LimitInv'
  <2>1. given \in Credentials
    BY DEF GivenFor
  <2> QED BY <1>5, <2>1, AdmitCounts DEF AskForQuote
<1>6. ASSUME NEW r \in Requests, NEW rightKey, NEW wellFormed, NEW route, NEW amount,
             AskAdmin(r, route, rightKey, amount, wellFormed)
      PROVE  LimitInv'
  <2>1. UNCHANGED <<settings, limiterVars>>
    BY <1>6 DEF AskAdmin, apiVars
  <2> QED BY <1>1, <2>1
<1>7. ASSUME NEW r \in Requests, HandleStep(r)  PROVE LimitInv'
  <2>1. UNCHANGED <<settings, limiterVars>>
    BY <1>7 DEF HandleStep, AnswerUnauthorized, AnswerError, AcceptQuery, IssueQuote,
                SigningFails, AskTreasury, Finish, apiVars
  <2> QED BY <1>1, <2>1
<1>8. CASE UNCHANGED <<settings, apiVars>>
  BY <1>1, <1>8 DEF apiVars
<1>9. ASSUME NEW r \in Requests, TreasuryStep(r), UNCHANGED apiVars  PROVE LimitInv'
  <2>1. settings' = settings
    BY <1>9 DEF TreasuryStep, ContextGiven, ContextRefused, RegisterSender, RegisterFails,
                ReadBalance, SweepFails, SendSweep, SweepMined, SweepLost, ReportSweep
  <2> QED BY <1>8, <1>9, <2>1
<1>10. ASSUME UNCHANGED apiVars,
              \/ InitReady \/ InitFails
              \/ \E n \in Notes : Pay(n)
              \/ \E s \in Sweeps : IncludeSweep(s) \/ DropSweep(s)
       PROVE  LimitInv'
  <2>1. settings' = settings
    BY <1>10 DEF InitReady, InitFails, Pay, IncludeSweep, DropSweep
  <2> QED BY <1>8, <1>10, <2>1
<1>11. CASE UNCHANGED vars
  BY <1>8, <1>11 DEF vars
<1> QED BY <1>2, <1>3, <1>4, <1>5, <1>6, <1>7, <1>9, <1>10, <1>11 DEF Next

\* Whatever addresses and keys requests come with, and in whatever order, nobody gets more
\* through in a window than allowed, unless as many others as the limiter tracks
\* asked between two of its requests (server.ts:164-189, 825-847).
THEOREM LimitHolds == Spec => []RateLimitHolds
<1>1. IInv /\ LimitInv => RateLimitHolds
  <2> SUFFICES ASSUME IInv, LimitInv, NEW k \in Keys, settings.limited,
                      admitted[k] > settings.maxRequests
               PROVE  k \in crowded
    BY DEF RateLimitHolds
  <2>1. used[k] <= settings.maxRequests /\ (admitted[k] <= used[k] \/ k \in crowded)
    BY DEF LimitInv, Counts
  <2>2. admitted[k] \in Nat /\ used[k] \in Nat /\ settings.maxRequests \in Nat
    BY DEF LimitInv, IInv, ApiTypeOK, Settings
  <2> QED BY <2>1, <2>2
<1> QED BY InitIInv, NextIInv, LimitStarts, LimitStep, <1>1, PTL DEF Spec
=============================================================================
