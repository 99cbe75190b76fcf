------------------------------- MODULE MCApi -------------------------------
(* A small instance of the attestation service's process for TLC. *)
EXTENDS AttestationApi, TLC

CONSTANTS ip1, ip2, r1, r2, n1, n2, s1, s2, u1

Symmetry ==
  Permutations(Requests) \cup Permutations(Notes) \cup Permutations(Sweeps) \cup Permutations(Ips)

Plain ==
  [profile |-> "development", provider |-> "env", envSecret |-> TRUE, adapter |-> FALSE,
   secretRef |-> FALSE, duplicateAsset |-> FALSE,
   mode |-> "disabled", apiKey |-> FALSE, trustedName |-> FALSE, trustedValue |-> FALSE,
   sameHeader |-> FALSE, adminKey |-> FALSE,
   limited |-> FALSE, maxRequests |-> 1, maxTrackedKeys |-> 3,
   pxe |-> FALSE, salt |-> "zero", operator_address |-> "none"]

\* Every combination of profile, mode and credentials, without a treasury; the
\* limiter with keys to tell apart.
Guards ==
  {[Plain EXCEPT !.profile = p, !.mode = m, !.apiKey = k, !.trustedName = t,
                 !.trustedValue = t, !.sameHeader = h] :
     p \in {"development", "production"}, m \in Modes, k, t, h \in BOOLEAN}

Limits ==
  {[Plain EXCEPT !.mode = "api_key", !.apiKey = TRUE, !.limited = TRUE,
                 !.maxTrackedKeys = n] : n \in {2, 3}}

\* Where the secret comes from.
Secrets ==
  {[Plain EXCEPT !.profile = p, !.provider = v, !.envSecret = e, !.adapter = a,
                 !.secretRef = a, !.mode = "api_key", !.apiKey = TRUE] :
     p \in {"test", "production"}, v \in Providers, e, a \in BOOLEAN}

\* A treasury with a directory, of the FPC's operator, of another account
\* and finding out, with immutables that do not match; and without a directory.
Treasury == [Plain EXCEPT !.adminKey = TRUE, !.pxe = TRUE]
Treasuries ==
  {Treasury,
   [Treasury EXCEPT !.salt = "other", !.operator_address = "zero"],
   [Treasury EXCEPT !.operator_address = "other"],
   [Treasury EXCEPT !.pxe = FALSE]}

AllCandidates == Guards \cup Limits \cup Secrets \cup Treasuries
=============================================================================
