------------------------- MODULE AttestationConfig -------------------------
(***************************************************************************)
(* What the attestation service makes of its settings: services/attestation *)
(* config.ts and secret-provider.ts (the top-up service has the same file), *)
(* and the decisions server.ts and index.ts take from the result.          *)
(*                                                                         *)
(* Settings are file and environment together, a record of which are set   *)
(* and to which of the values the code distinguishes.  A secret that is    *)
(* set is not blank.  A credential in a request is absent, wrong or right. *)
(***************************************************************************)
EXTENDS Integers

Profiles == {"development", "test", "production"}
Providers == {"auto", "env", "config", "kms", "hsm"}
Modes == {"disabled", "api_key", "trusted_header", "api_key_or_trusted_header",
          "api_key_and_trusted_header"}
Salts == {"zero", "other"}

\* The operator's account, by the salt it was deployed with; none is set.
NoAddress == "none"

Settings ==
  [profile : Profiles, provider : Providers, envSecret : BOOLEAN, adapter : BOOLEAN,
   secretRef : BOOLEAN, duplicateAsset : BOOLEAN,
   mode : Modes, apiKey : BOOLEAN, trustedName : BOOLEAN, trustedValue : BOOLEAN,
   sameHeader : BOOLEAN, adminKey : BOOLEAN,
   limited : BOOLEAN, maxRequests : Nat \ {0}, maxTrackedKeys : Nat \ {0},
   pxe : BOOLEAN, salt : Salts, operator_address : Salts \cup {NoAddress}]

Values == {"absent", "wrong", "right"}
Credentials == [apiKey : Values, trusted : Values]

-----------------------------------------------------------------------------

\* resolveSecret: where the secret comes from, or that there is none to use.
Missing == "missing"

Source(provider, env, conf, adapter, ref) ==
  LET available ==
        (IF env THEN {"env"} ELSE {}) \cup (IF conf THEN {"config"} ELSE {})
          \cup (IF adapter /\ ref THEN {"kms", "hsm"} ELSE {})
  IN IF provider \in available THEN provider
     ELSE IF provider # "auto" THEN Missing
     ELSE IF env THEN "env" ELSE IF conf THEN "config" ELSE Missing

ResolveSecret(profile, provider, env, conf, adapter, ref) ==
  LET source == Source(provider, env, conf, adapter, ref)
  IN IF profile = "production" /\ (conf \/ source = "config") THEN Missing ELSE source

\* The attestation service reads no secret from its file.
OperatorSecret(s) ==
  ResolveSecret(s.profile, s.provider, s.envSecret, FALSE, s.adapter, s.secretRef)

-----------------------------------------------------------------------------

ModeNeedsApiKey(mode) ==
  mode \in {"api_key", "api_key_or_trusted_header", "api_key_and_trusted_header"}

ModeNeedsTrustedHeader(mode) ==
  mode \in {"trusted_header", "api_key_or_trusted_header", "api_key_and_trusted_header"}

AnyModeValid(s) == TRUE \* mutant: production may do without authentication
QuoteAuthModeValid(s) == s.profile = "production" => s.mode # "disabled"

QuoteAuthValid(s) ==
  /\ QuoteAuthModeValid(s)
  /\ ModeNeedsApiKey(s.mode) = s.apiKey
  /\ ModeNeedsTrustedHeader(s.mode) = s.trustedName
  /\ ModeNeedsTrustedHeader(s.mode) = s.trustedValue
  /\ s.mode = "api_key_and_trusted_header" => ~s.sameHeader

\* loadConfig throws or returns.
ConfigLoads(s) ==
  /\ OperatorSecret(s) # Missing
  /\ ~s.duplicateAsset
  /\ QuoteAuthValid(s)

\* index.ts: the operator's address is the one set, or the one of salt zero.  It
\* must be the one the FPC was constructed with, whatever salt is set.
OperatorAddress(s) ==
  IF s.operator_address # NoAddress THEN s.operator_address ELSE "zero"

ImmutablesVerified(s, onChain) == OperatorAddress(s) = onChain

\* operator-treasury.ts: the account the treasury reconstructs.
TreasuryAccount(s) == s.salt
AccountMatches(s) == s.operator_address \in {NoAddress, TreasuryAccount(s)}

-----------------------------------------------------------------------------

\* headerMatchesSecret: a secret that is not set matches nothing.
ApiKeyAuthorized(s, given) == s.apiKey /\ given.apiKey = "right"
TrustedHeaderAuthorized(s, given) ==
  s.trustedName /\ s.trustedValue /\ given.trusted = "right"

IsQuoteAuthorized(s, given) ==
  CASE s.mode = "disabled" -> TRUE
    [] s.mode = "api_key" -> ApiKeyAuthorized(s, given)
    [] s.mode = "trusted_header" -> TrustedHeaderAuthorized(s, given)
    [] s.mode = "api_key_or_trusted_header" ->
         ApiKeyAuthorized(s, given) \/ TrustedHeaderAuthorized(s, given)
    [] s.mode = "api_key_and_trusted_header" ->
         ApiKeyAuthorized(s, given) /\ TrustedHeaderAuthorized(s, given)

\* The admin API is on when a key is set: 503, 401 or let in.
AdminAccess(s, rightKey) ==
  IF ~s.adminKey THEN "503" ELSE IF ~rightKey THEN "401" ELSE "ok"

\* Whom a quote request is counted for.
RateLimitKey(s, given, ip) ==
  IF ModeNeedsApiKey(s.mode) /\ ApiKeyAuthorized(s, given) THEN "api_key" ELSE ip
=============================================================================
