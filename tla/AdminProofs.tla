---------------------------- MODULE AdminProofs ----------------------------
(***************************************************************************)
(* Proofs about the attestation service and its admin API                  *)
(* (AttestationClients): type correctness, prices, and what admin requests *)
(* and restarts may do to the store.                                       *)
(***************************************************************************)
EXTENDS AttestationClients, AttestationProofs, FiniteSetTheorems

\* Every removal that waits saw more than the asset it removes, and the config is
\* put only into a store that lacks it, before anything is asked of the service.
StoreInv ==
  /\ \A i \in DOMAIN writes :
       writes[i].policy = NoPolicy => \E a \in writes[i].seen : a # writes[i].asset
  /\ seeding # {} => writes = <<>>
  /\ seeding \cap Stored = {}

IInv == AttestTypeOK /\ AttestInv /\ StoreInv

-----------------------------------------------------------------------------

\* The store is empty, and no handler runs yet.
LEMMA InitInv == Spec => IInv
<1> SUFFICES ASSUME AttestInit PROVE IInv
  BY DEF Spec
<1>1. AttestTypeOK
  <2>1. managed \in BOOLEAN
    BY Zenon DEF AttestInit
  <2>2. writes \in Seq(Writes) /\ seeding \subseteq Configured /\ clock \in Clocks
    BY QuotesAssumption DEF AttestInit, Clocks
  <2>3. /\ policies \in [Assets -> Policies \cup {NoPolicy}]
        /\ handler \in [Requests -> Handlings \cup {Idle}]
    BY DEF AttestInit
  <2> QED
    BY <2>1, <2>2, <2>3 DEF AttestInit, AttestTypeOK
<1>2. AttestInv
  BY DEF AttestInit, AttestInv, HandlersSound, SignedSound, Handling
<1>3. StoreInv
  BY DEF AttestInit, StoreInv, Stored
<1> QED
  BY <1>1, <1>2, <1>3 DEF IInv

\* Admin requests and applied writes keep the types.
LEMMA AdminTypes ==
  ASSUME AttestTypeOK, NEW r \in Requests, AdminStep(r)
  PROVE  AttestTypeOK'
<1>1. PICK asset \in Assets, policy \in Policies \cup {NoPolicy} :
        /\ Write(r, asset, policy)
        /\ UNCHANGED <<quoteVars, policies, seeding, managed, basis>>
  BY DEF AdminStep, Upsert, Remove
<1>2. [by |-> r, asset |-> asset, policy |-> policy, seen |-> Stored] \in Writes
  BY DEF Writes, Stored
<1>3. [stage |-> "writing"] \in Handlings
  BY DEF Handlings
<1> QED
  BY <1>1, <1>2, <1>3 DEF Write, AttestTypeOK, quoteVars

\* What LMDB applies has the type of a store.
LEMMA ApplyTypes ==
  ASSUME AttestTypeOK, ApplyWrite \/ WriteFails
  PROVE  AttestTypeOK'
<1>1. Head(writes) \in Writes /\ Tail(writes) \in Seq(Writes)
  BY DEF AttestTypeOK, ApplyWrite, WriteFails
<1>2. /\ Head(writes).asset \in Assets /\ Head(writes).by \in Requests
      /\ Head(writes).policy \in Policies \cup {NoPolicy}
  BY <1>1 DEF Writes
<1> QED
  BY <1>1, <1>2 DEF AttestTypeOK, ApplyWrite, WriteFails, Respond, quoteVars

\* The admin API does not touch quotes.
LEMMA AdminKeepsQuotes ==
  ASSUME AttestTypeOK, AttestInv, (\E r \in Requests : AdminStep(r)) \/ ApplyWrite \/ WriteFails
  PROVE  AttestInv'
<1>1. UNCHANGED <<clock, signed, basis>>
  BY DEF AdminStep, Upsert, Remove, ApplyWrite, WriteFails, quoteVars
<1>2. \A r \in Requests :
        \/ handler'[r] = handler[r]
        \/ handler'[r] = Idle
        \/ handler'[r] = [stage |-> "writing"]
  BY DEF AdminStep, Upsert, Remove, Write, ApplyWrite, WriteFails, Respond, AttestTypeOK
<1>3. HandlersSound'
  BY <1>1, <1>2 DEF AttestInv, HandlersSound, Handling, Sound
<1>4. SignedSound'
  BY <1>1 DEF AttestInv, SignedSound, Sound
<1> QED
  BY <1>3, <1>4 DEF AttestInv

\* remove() counts more than one asset, so one other than the removed is stored.
LEMMA AnotherStored ==
  ASSUME Cardinality(Stored) > 1, NEW asset
  PROVE  \E a \in Stored : a # asset
<1> SUFFICES ASSUME Stored \subseteq {asset} PROVE FALSE
  OBVIOUS
<1>1. IsFiniteSet({asset}) /\ Cardinality({asset}) = 1
  BY FS_Singleton
<1>2. Cardinality(Stored) <= 1 /\ Cardinality(Stored) \in Nat
  BY <1>1, FS_Subset, FS_CardinalityType
<1> QED
  BY <1>2

\* Handling an admin request changes nothing in the store yet.
LEMMA AdminStore ==
  ASSUME AttestTypeOK, StoreInv, NEW r \in Requests, AdminStep(r)
  PROVE  StoreInv'
<1>1. PICK asset \in Assets, policy \in Policies \cup {NoPolicy} :
        /\ seeding = {}
        /\ Write(r, asset, policy)
        /\ UNCHANGED <<policies, seeding>>
        /\ policy = NoPolicy => Cardinality(Stored) > 1
  BY AttestationAssumption DEF AdminStep, Upsert, Remove, Free
<1> DEFINE w == [by |-> r, asset |-> asset, policy |-> policy, seen |-> Stored]
<1>2. w.policy = NoPolicy => \E a \in w.seen : a # w.asset
  BY <1>1, AnotherStored
<1>3. w \in Writes /\ writes' = Append(writes, w) /\ writes \in Seq(Writes)
  BY <1>1 DEF Write, Writes, Stored, AttestTypeOK
<1> HIDE DEF w
<1>4. \A i \in DOMAIN writes' : (i \in DOMAIN writes /\ writes'[i] = writes[i]) \/ writes'[i] = w
  BY <1>3
<1>5. Stored' = Stored
  BY <1>1 DEF Stored
<1> QED
  BY <1>1, <1>2, <1>4, <1>5 DEF StoreInv

\* What waits behind the first write is what it was.
LEMMA ApplyStore ==
  ASSUME AttestTypeOK, StoreInv, ApplyWrite \/ WriteFails
  PROVE  StoreInv'
<1>1. writes \in Seq(Writes) /\ writes # <<>> /\ writes' = Tail(writes)
  BY DEF AttestTypeOK, ApplyWrite, WriteFails
<1>2. \A i \in DOMAIN writes' : i + 1 \in DOMAIN writes /\ writes'[i] = writes[i + 1]
  BY <1>1
<1>3. seeding = {} /\ seeding' = {}
  BY <1>1 DEF StoreInv, ApplyWrite, WriteFails
<1> QED
  BY <1>2, <1>3 DEF StoreInv

\* A start puts the config into an empty store, or nothing at all.
LEMMA StartStore ==
  ASSUME AttestTypeOK, StoreInv, StartStep
  PROVE  StoreInv'
<1>1. CASE Restart
  BY <1>1 DEF Restart, ToSeed, StoreInv, Stored
<1>2. ASSUME NEW asset \in Assets, Seed(asset)
      PROVE  StoreInv'
  <2>1. Stored' \subseteq Stored \cup {asset} /\ seeding' = seeding \ {asset} /\ writes' = writes
    BY <1>2 DEF Seed, Stored, AttestTypeOK
  <2> QED
    BY <2>1 DEF StoreInv
<1> QED
  BY <1>1, <1>2 DEF StartStep

\* Quotes and blocks change neither the store nor what waits.
LEMMA OthersStore ==
  ASSUME StoreInv, UNCHANGED storeVars
  PROVE  StoreInv'
BY DEF StoreInv, Stored, storeVars

LEMMA QuotesStore ==
  ASSUME \/ \E r \in Requests, q \in Asked : AskQuote(r, q)
         \/ \E r \in Requests : QuoteStep(r)
         \/ UNCHANGED attestVars
  PROVE  UNCHANGED storeVars
<1>1. ASSUME NEW r \in Requests, NEW q \in Asked, AskQuote(r, q)
      PROVE  UNCHANGED storeVars
  BY <1>1 DEF AskQuote
<1>2. ASSUME NEW r \in Requests, QuoteStep(r)
      PROVE  UNCHANGED storeVars
  <2>1. CASE PriceQuote(r)
    BY <2>1 DEF PriceQuote
  <2>2. CASE RejectQuote(r) \/ SignFails(r)
    BY <2>2 DEF RejectQuote, SignFails
  <2>3. CASE SignQuote(r)
    BY <2>3 DEF SignQuote
  <2> QED
    BY <1>2, <2>1, <2>2, <2>3 DEF QuoteStep
<1>3. CASE UNCHANGED attestVars
  BY <1>3 DEF attestVars
<1> QED
  BY <1>1, <1>2, <1>3

\* One step for each action of AttestationClients.
LEMMA NextInv == IInv /\ [Next]_vars => IInv'
<1> SUFFICES ASSUME IInv, [Next]_vars PROVE IInv'
  OBVIOUS
<1> USE DEF IInv
<1>1. ASSUME NEW r \in Requests, NEW q \in Asked, AskQuote(r, q)
      PROVE  IInv'
  BY <1>1, ClientsAssumption, AskTypes, AskSound, QuotesStore, OthersStore
<1>2. ASSUME NEW r \in Requests, QuoteStep(r)
      PROVE  IInv'
  BY <1>2, ServiceTypes, PriceSound, SignSound, QuotesStore, OthersStore DEF QuoteStep
<1>3. ASSUME NEW r \in Requests, AdminStep(r)
      PROVE  IInv'
  BY <1>3, AdminTypes, AdminKeepsQuotes, AdminStore
<1>4. CASE ApplyWrite \/ WriteFails
  BY <1>4, ApplyTypes, AdminKeepsQuotes, ApplyStore
<1>5. CASE StartStep
  BY <1>5, StartTypes, AttestKeptByStart, StartStore
<1>6. CASE NextBlock /\ UNCHANGED attestVars
  <2>1. AttestTypeOK'
    BY <1>6, QuotesAssumption DEF NextBlock, AttestTypeOK, attestVars, storeVars, Clocks
  <2> QED
    BY <1>6, <2>1, AttestKept, QuotesStore, OthersStore DEF NextBlock
<1>7. CASE UNCHANGED vars
  <2>1. AttestTypeOK'
    BY <1>7 DEF vars, quoteVars, attestVars, storeVars, AttestTypeOK
  <2> QED
    BY <1>7, <2>1, AttestKept, QuotesStore, OthersStore DEF vars, quoteVars
<1> QED
  BY <1>1, <1>2, <1>3, <1>4, <1>5, <1>6, <1>7 DEF Next

-----------------------------------------------------------------------------

\* The service keeps its types under every interleaving of quote requests, admin
\* requests, writes and restarts (server.ts, asset-policy-store.ts).
THEOREM AttestTypeCorrect == Spec => []AttestTypeOK
<1>1. IInv => AttestTypeOK
  BY DEF IInv
<1> QED
  BY InitInv, NextInv, <1>1, PTL DEF Spec

\* With policies changing under the requests, every quote is still the least
\* whole price at the policy it was read with (computeQuotePricing of server.ts).
THEOREM QuotesPricedUp == Spec => []PricedUp
<1>1. IInv => PricedUp
  BY SoundIsPricedUp DEF IInv
<1> QED
  BY InitInv, NextInv, <1>1, PTL DEF Spec

\* The service loses its last asset only to a removal that was counted before
\* another write was applied: remove() reads the count, and LMDB applies the removal
\* later (asset-policy-store.ts: "Cannot remove the last supported asset").
THEOREM EmptiedByRacesOnly == Spec => EmptiedOnlyByStaleCount
<1>1. IInv /\ [Next]_vars =>
        [Stored # {} /\ Stored' = {} => writes # <<>> /\ Head(writes).seen # Stored]_attestVars
  <2> SUFFICES ASSUME IInv, Next, Stored # {}, Stored' = {}
               PROVE  writes # <<>> /\ Head(writes).seen # Stored
    BY DEF vars, attestVars, storeVars, Stored
  <2>1. ~UNCHANGED policies
    BY DEF Stored
  <2>2. ~(\E asset \in Assets : Seed(asset))
    BY AttestationAssumption DEF Seed, Configured, Stored, IInv, AttestTypeOK
  <2>3. ApplyWrite
    BY <2>1, <2>2, QuotesStore
       DEF Next, storeVars, attestVars, AdminStep, Upsert, Remove, WriteFails, StartStep, Restart
  <2> DEFINE w == Head(writes)
  <2>4. writes # <<>> /\ w = writes[1] /\ 1 \in DOMAIN writes /\ w.asset \in Assets
        /\ policies' = [policies EXCEPT ![w.asset] = w.policy]
    <3>1. writes # <<>> /\ policies' = [policies EXCEPT ![w.asset] = w.policy]
      BY <2>3 DEF ApplyWrite
    <3>2. writes \in Seq(Writes)
      BY DEF IInv, AttestTypeOK
    <3>3. w = writes[1] /\ 1 \in DOMAIN writes /\ w \in Writes
      BY <3>1, <3>2
    <3> QED
      BY <3>1, <3>3 DEF Writes
  <2> HIDE DEF w
  <2>5. w.policy = NoPolicy /\ Stored \subseteq {w.asset}
    BY <2>4 DEF Stored, IInv, AttestTypeOK
  <2>6. \E a \in w.seen : a # w.asset
    BY <2>4, <2>5 DEF IInv, StoreInv
  <2> QED
    BY <2>4, <2>5, <2>6 DEF w
<1> QED
  BY InitInv, NextInv, <1>1, PTL DEF Spec, EmptiedOnlyByStaleCount

\* The config never overrides what is stored, however often the process restarts,
\* and dies while it starts: the constructor of LmdbAssetPolicyStore fills empty
\* stores only.
THEOREM AdminPoliciesKept == Spec => AdminPoliciesSurvive
<1>1. IInv /\ [Next]_vars =>
        [\A a \in Stored :
           policies'[a] # policies[a] =>
             /\ writes # <<>>
             /\ Head(writes).asset = a
             /\ Head(writes).policy = policies'[a]]_attestVars
  <2> SUFFICES ASSUME IInv, Next, NEW a \in Stored, policies'[a] # policies[a]
               PROVE  writes # <<>> /\ Head(writes).asset = a /\ Head(writes).policy = policies'[a]
    BY DEF vars, attestVars, storeVars
  <2>1. ~(\E asset \in Assets : Seed(asset))
    BY DEF Seed, Stored, IInv, StoreInv, AttestTypeOK
  <2>2. ApplyWrite
    BY <2>1, QuotesStore
       DEF Next, storeVars, attestVars, AdminStep, Upsert, Remove, WriteFails, StartStep, Restart
  <2> QED
    BY <2>2 DEF ApplyWrite, IInv, AttestTypeOK, Stored
<1> QED
  BY InitInv, NextInv, <1>1, PTL DEF Spec, AdminPoliciesSurvive
=============================================================================
