------------------------ MODULE SatiAttestation_proofs ------------------------
(***************************************************************************)
(* Proofs about SatiAttestation, for any wallets, agents, schemas with any   *)
(* configuration, payloads, trees and any length of time.                    *)
(***************************************************************************)
EXTENDS SatiAttestation, TLAPS

\* Time is a natural number.
LEMMA TimeFact == MaxTime \in Nat
BY ConfigAssumption

\* What the constants say of a schema and of its payloads.
LEMMA ConfigFacts ==
    ASSUME NEW s \in Schemas
    PROVE  /\ Config[s].mode \in {"dual", "counterparty", "owner"}
           /\ Config[s].storage \in {"compressed", "regular"}
           /\ Config[s].closeable \in BOOLEAN
           /\ \A d \in Payloads[s] \cup DirectPayloads[s] :
                 d \in Data /\ d.token \in Mints /\ d.party \in Wallets \cup Mints
BY ConfigAssumption DEF Data

\* Whoever signs, signs one of the messages that can be expected.
LEMMA MessageFacts ==
    ASSUME NEW s \in Schemas, NEW d \in Payloads[s]
    PROVE  Interaction(s, d) \in Messages /\ PartyMessage(s, d) \in Messages
<1>1. {Interaction(s, d), PartyMessage(s, d)}
        \in {{Interaction(s, e), PartyMessage(s, e)} : e \in Payloads[s]}
      OBVIOUS
<1>2. UNION {{Interaction(s, e), PartyMessage(s, e)} : e \in Payloads[s]}
        \in {UNION {{Interaction(t, e), PartyMessage(t, e)} : e \in Payloads[t]}
                : t \in Schemas}
      OBVIOUS
<1> HIDE DEF Interaction, PartyMessage
<1> QED BY <1>1, <1>2 DEF Messages

\* What the signatures that come with an attestation are worth.
LEMMA AcceptedFacts ==
    ASSUME TypeOK, NEW s \in Schemas, NEW d \in Payloads[s], NEW sigs \in Accepted(s, d)
    PROVE  /\ sigs \in Seq(Signature)
           /\ Config[s].mode # "owner" => PartySigns(s, d, sigs[Len(sigs)])
           /\ Config[s].mode # "counterparty" => AgentSigns(s, d, sigs[1])
<1>1. signed \subseteq Signature
      BY DEF TypeOK
<1>2. CASE Config[s].mode = "dual"
  <2>1. sigs \in {p \in {<<a, c>> : a \in signed, c \in signed} :
                     /\ AgentSigns(s, d, p[1])
                     /\ PartySigns(s, d, p[2])
                     /\ p[1].signer # p[2].signer}
        BY <1>2 DEF Accepted
  <2>2. PICK a \in signed, c \in signed : sigs = <<a, c>>
        BY <2>1
  <2>3. AgentSigns(s, d, sigs[1]) /\ PartySigns(s, d, sigs[2]) /\ Len(sigs) = 2
        BY <2>1, <2>2
  <2> QED BY <1>1, <2>2, <2>3
<1>3. CASE Config[s].mode = "counterparty"
  <2>1. sigs \in {<<c>> : c \in {c \in signed : PartySigns(s, d, c)}}
        BY <1>3 DEF Accepted
  <2>2. PICK c \in signed : sigs = <<c>> /\ PartySigns(s, d, c)
        BY <2>1
  <2> QED BY <1>1, <1>3, <2>2
<1>4. CASE Config[s].mode = "owner"
  <2>1. sigs \in {<<a>> : a \in {a \in signed : AgentSigns(s, d, a)}}
        BY <1>4 DEF Accepted
  <2>2. PICK a \in signed : sigs = <<a>> /\ AgentSigns(s, d, a)
        BY <2>1
  <2> QED BY <1>1, <1>4, <2>2
<1> QED BY <1>2, <1>3, <1>4, ConfigFacts

-----------------------------------------------------------------------------
(* The inductive invariant                                                  *)

\* A compressed attestation is stored under its agent, where its address was
\* inserted, with its counterparty's signature.
WellStored ==
    \A a \in compressed :
        /\ a.token = a.data.token
        /\ Config[a.schema].storage = "compressed"
        /\ Address(a.schema, a.data, a.tree) \in addresses
        /\ a.data.layout = "v1"
        /\ Config[a.schema].mode # "owner" =>
              PartySigns(a.schema, a.data, a.sigs[Len(a.sigs)])

\* No two compressed attestations have one address.
OnePerAddress ==
    \A a, b \in compressed :
        Address(a.schema, a.data, a.tree) = Address(b.schema, b.data, b.tree) => a = b

IInv == TypeOK /\ WellStored /\ OnePerAddress

\* The invariant holds before anything is stored.
LEMMA InitIInv == Init => IInv
BY ConfigAssumption DEF Init, IInv, TypeOK, WellStored, OnePerAddress, NoVerdict

\* A new attestation is well stored and has its address for itself.
LEMMA CreateCompressedIInv ==
    ASSUME IInv, NEW s \in Schemas, NEW d \in Payloads[s], NEW tree \in Trees,
           NEW sigs \in Accepted(s, d), CreateCompressed(s, d, tree, sigs)
    PROVE  IInv'
<1> DEFINE new == [schema |-> s, token |-> d.token, data |-> d, tree |-> tree,
                   sigs |-> sigs]
<1>1. /\ Config[s].storage = "compressed" /\ d.layout = "v1"
      /\ Address(s, d, tree) \notin addresses
      /\ addresses' = addresses \cup {Address(s, d, tree)}
      /\ compressed' = compressed \cup {new}
      /\ verdict' = NoVerdict
      /\ UNCHANGED <<holder, clock, signed, regular>>
      BY DEF CreateCompressed, WellFormed
<1>2. /\ sigs \in Seq(Signature)
      /\ Config[s].mode # "owner" => PartySigns(s, d, sigs[Len(sigs)])
      BY AcceptedFacts DEF IInv
<1>3. d \in Data /\ d.token \in Mints
      BY ConfigFacts
<1>4. /\ new.schema = s /\ new.token = d.token /\ new.data = d /\ new.tree = tree
      /\ new.sigs = sigs
      /\ new \in [schema : Schemas, token : Mints, data : Data, tree : Trees,
                  sigs : Seq(Signature)]
      BY <1>2, <1>3
<1> HIDE DEF new
<1>5. TypeOK'
      BY <1>1, <1>4 DEF IInv, TypeOK, NoVerdict
<1>6. WellStored'
  <2> SUFFICES ASSUME NEW a \in compressed'
               PROVE  /\ a.token = a.data.token
                      /\ Config[a.schema].storage = "compressed"
                      /\ Address(a.schema, a.data, a.tree) \in addresses'
                      /\ a.data.layout = "v1"
                      /\ Config[a.schema].mode # "owner" =>
                            PartySigns(a.schema, a.data, a.sigs[Len(a.sigs)])'
      BY DEF WellStored
  <2>1. CASE a = new
        BY <2>1, <1>1, <1>2, <1>4 DEF PartySigns, Holds
  <2>2. CASE a \in compressed
        BY <2>2, <1>1 DEF IInv, WellStored, PartySigns, Holds
  <2> QED BY <2>1, <2>2, <1>1
<1>7. OnePerAddress'
  <2>1. \A a \in compressed :
           Address(a.schema, a.data, a.tree) # Address(new.schema, new.data, new.tree)
        BY <1>1, <1>4 DEF IInv, WellStored
  <2> QED BY <1>1, <2>1 DEF IInv, OnePerAddress
<1> QED BY <1>5, <1>6, <1>7 DEF IInv

\* Whatever else happens, compressed attestations at most disappear, and signatures
\* and addresses are for ever.
LEMMA ShrinkingIInv ==
    ASSUME IInv, TypeOK', compressed' \subseteq compressed, addresses' = addresses,
           signed \subseteq signed'
    PROVE  IInv'
BY DEF IInv, WellStored, OnePerAddress, PartySigns, Holds

\* Every step preserves the invariant.
LEMMA StepIInv == IInv /\ [Next]_vars => IInv'
<1> SUFFICES ASSUME IInv, [Next]_vars PROVE IInv'
    OBVIOUS
<1> USE DEF IInv
<1>1. ASSUME NEW s \in Schemas, NEW d \in Payloads[s], NEW tree \in Trees,
             NEW sigs \in Accepted(s, d), CreateCompressed(s, d, tree, sigs)
      PROVE  IInv'
      BY <1>1, CreateCompressedIInv
<1>2. ASSUME NEW s \in Schemas, NEW d \in Payloads[s], NEW expiry \in 0..MaxTime,
             CreateRegular(s, d, expiry)
      PROVE  IInv'
  <2>1. \A a \in regular' : a.schema \in Schemas /\ a.data \in Data /\ a.expiry \in 0..MaxTime
    <3>1. regular' = regular \cup {[schema |-> s, nonce |-> ReputationNonce(d), data |-> d,
                                    expiry |-> expiry]}
          BY <1>2 DEF CreateRegular
    <3>2. d \in Data
          BY ConfigFacts
    <3>3. \A a \in regular : a.schema \in Schemas /\ a.data \in Data /\ a.expiry \in 0..MaxTime
          BY DEF TypeOK
    <3> QED BY <3>1, <3>2, <3>3
  <2>2. TypeOK'
        BY <1>2, <2>1 DEF CreateRegular, TypeOK, NoVerdict
  <2> QED BY <1>2, <2>2, ShrinkingIInv DEF CreateRegular
<1>3. ASSUME NEW s \in Schemas, NEW d \in Payloads[s], NEW w \in Wallets, Sign(w, s, d)
      PROVE  IInv'
  <2>1. PICK message \in {Interaction(s, d), PartyMessage(s, d)} :
              signed' = signed \cup {[signer |-> w, message |-> message]}
        BY <1>3 DEF Sign
  <2>2. message \in Messages
        BY <2>1, MessageFacts
  <2>3. [signer |-> w, message |-> message] \in Signature
        BY <2>2 DEF Signature
  <2>4. /\ UNCHANGED <<holder, clock, compressed, addresses, regular>>
        /\ verdict' = NoVerdict
        BY <1>3 DEF Sign
  <2>5. Signature \subseteq Signature'
        BY DEF Signature
  <2>6. TypeOK'
        BY <2>1, <2>3, <2>4 DEF TypeOK, NoVerdict
  <2> QED BY <2>1, <2>4, <2>6, ShrinkingIInv
<1>4. ASSUME NEW s \in Schemas, NEW d \in DirectPayloads[s], NEW expiry \in 0..MaxTime,
             NEW nonce \in {ReputationNonce(d), DelegationNonce(s, d.party, d.token)},
             DirectIssue(s, d, nonce, expiry)
      PROVE  IInv'
  <2>1. \A a \in regular' : a.schema \in Schemas /\ a.data \in Data /\ a.expiry \in 0..MaxTime
    <3>1. regular' = regular \cup {[schema |-> s, nonce |-> nonce, data |-> d,
                                    expiry |-> expiry]}
          BY <1>4 DEF DirectIssue
    <3>2. d \in Data
          BY ConfigFacts
    <3>3. \A a \in regular : a.schema \in Schemas /\ a.data \in Data /\ a.expiry \in 0..MaxTime
          BY DEF TypeOK
    <3> QED BY <3>1, <3>2, <3>3
  <2>2. TypeOK'
        BY <1>4, <2>1 DEF DirectIssue, TypeOK, NoVerdict
  <2> QED BY <1>4, <2>2, ShrinkingIInv DEF DirectIssue
<1>5. ASSUME NEW w \in Wallets, NEW a \in compressed, CloseCompressed(w, a)
      PROVE  IInv'
  <2>1. /\ compressed' \subseteq compressed
        /\ UNCHANGED <<holder, clock, signed, addresses, regular>>
        /\ verdict' \in [signer : Wallets \cup {NoWallet},
                         result : {"none", "not closeable", "unauthorized", "proof fails",
                                   "closed"}]
        BY <1>5 DEF CloseCompressed
  <2>2. TypeOK'
        BY <2>1 DEF TypeOK
  <2> QED BY <2>1, <2>2, ShrinkingIInv
<1>6. ASSUME NEW w \in Wallets, NEW a \in regular, CloseRegular(w, a)
      PROVE  IInv'
  <2>1. /\ regular' \subseteq regular
        /\ UNCHANGED <<holder, clock, signed, addresses, compressed>>
        /\ verdict' \in [signer : Wallets \cup {NoWallet},
                         result : {"none", "not closeable", "unauthorized", "proof fails",
                                   "closed"}]
        BY <1>6 DEF CloseRegular
  <2>2. TypeOK'
        BY <2>1 DEF TypeOK
  <2> QED BY <2>1, <2>2, ShrinkingIInv
<1>7. ASSUME NEW w \in Wallets, NEW mint \in Mints, Transfer(mint, w) PROVE IInv'
  <2>1. TypeOK'
        BY <1>7 DEF Transfer, TypeOK, NoVerdict
  <2> QED BY <1>7, <2>1, ShrinkingIInv DEF Transfer
<1>8. CASE Tick
  <2>1. clock' \in 0..MaxTime
    <3>1. clock \in 0..MaxTime
          BY DEF TypeOK
    <3> QED BY <3>1, <1>8, TimeFact DEF Tick
  <2>2. TypeOK'
        BY <1>8, <2>1 DEF Tick, TypeOK, NoVerdict
  <2> QED BY <1>8, <2>2, ShrinkingIInv DEF Tick
<1>9. CASE UNCHANGED vars
  <2>1. TypeOK'
        BY <1>9 DEF vars, TypeOK
  <2> QED BY <1>9, <2>1, ShrinkingIInv DEF vars
<1> QED BY <1>1, <1>2, <1>3, <1>4, <1>5, <1>6, <1>7, <1>8, <1>9 DEF Next

\* Stored attestations are exactly what their instruction accepted, each under an
\* address of its own, in every reachable state.
THEOREM Invariance == Spec => []IInv
BY InitIInv, StepIInv, PTL DEF Spec

\* Every variable of the attestations has its type in every reachable state.
THEOREM TypeCorrect == Spec => []TypeOK
BY Invariance, PTL DEF IInv

-----------------------------------------------------------------------------
(* Consent                                                                  *)

\* Every stored statement that needs its counterparty was signed by it, with the
\* agent, task, outcome and content it shows.
THEOREM ConsentHolds == Spec => []CounterpartySaidIt
<1>1. IInv => CounterpartySaidIt
  <2> SUFFICES ASSUME IInv, NEW a \in compressed, Config[a.schema].mode # "owner"
               PROVE  LET sig == a.sigs[Len(a.sigs)]
                      IN  /\ sig \in signed
                          /\ sig.signer = a.data.party
                          /\ sig.message.outcome = a.data.outcome
                          /\ <<sig.message.token, sig.message.task>> = <<a.token, a.data.task>>
                          /\ sig.message.shown = Display(a.data.content)
      BY DEF CounterpartySaidIt
  <2> DEFINE sig == a.sigs[Len(a.sigs)]
  <2>1. /\ a.token = a.data.token
        /\ Config[a.schema].storage = "compressed"
        /\ PartySigns(a.schema, a.data, sig)
        BY DEF IInv, WellStored
  <2> HIDE DEF sig
  <2>2. sig \in signed /\ sig.signer = a.data.party /\ sig.message = Siws(a.schema, a.data)
        BY <2>1 DEF PartySigns, Holds, PartyMessage
  <2>3. /\ sig.message.outcome = a.data.outcome
        /\ sig.message.token = a.data.token /\ sig.message.task = a.data.task
        /\ sig.message.shown = Display(a.data.content)
        BY <2>2 DEF Siws
  <2> QED BY <2>1, <2>2, <2>3 DEF sig
<1> QED BY <1>1, Invariance, PTL

\* In one address tree, and under schema names that tell the schemas apart, a
\* counterparty's signature backs at most one of the stored attestations.
THEOREM OneStatementOnce ==
    ASSUME \A t, u \in Trees : t = u,
           \A s, u \in Schemas : Config[s].name = Config[u].name => s = u
    PROVE  Spec => []StatementCountsOnce
<1>1. IInv => StatementCountsOnce
  <2> SUFFICES ASSUME IInv, NEW a \in compressed, NEW b \in compressed,
                      Config[a.schema].mode # "owner", Config[b.schema].mode # "owner",
                      a.sigs[Len(a.sigs)] = b.sigs[Len(b.sigs)]
               PROVE  a = b
      BY DEF StatementCountsOnce
  <2>1. /\ a.schema \in Schemas /\ b.schema \in Schemas
        /\ a.tree \in Trees /\ b.tree \in Trees
        BY DEF IInv, TypeOK
  <2>2. /\ PartySigns(a.schema, a.data, a.sigs[Len(a.sigs)])
        /\ PartySigns(b.schema, b.data, b.sigs[Len(b.sigs)])
        /\ Config[a.schema].storage = "compressed" /\ Config[b.schema].storage = "compressed"
        BY DEF IInv, WellStored
  <2>3. a.data.party = b.data.party /\ Siws(a.schema, a.data) = Siws(b.schema, b.data)
        BY <2>2 DEF PartySigns, Holds, PartyMessage
  <2>4. /\ Config[a.schema].name = Config[b.schema].name
        /\ a.data.token = b.data.token /\ a.data.task = b.data.task
        BY <2>3 DEF Siws
  <2>5. a.schema = b.schema /\ a.tree = b.tree
        BY <2>1, <2>4
  <2>6. Address(a.schema, a.data, a.tree) = Address(b.schema, b.data, b.tree)
        BY <2>3, <2>4, <2>5 DEF Address
  <2> QED BY <2>6 DEF IInv, OnePerAddress
<1> QED BY <1>1, Invariance, PTL

\* In one address tree a task of an agent is attested once per schema and party.
THEOREM OneAttestationPerTask ==
    ASSUME \A t, u \in Trees : t = u
    PROVE  Spec => []OnePerTask
<1>1. IInv => OnePerTask
  <2> SUFFICES ASSUME IInv, NEW a \in compressed, NEW b \in compressed,
                      <<a.schema, a.token>> = <<b.schema, b.token>>,
                      <<a.data.task, a.data.party>> = <<b.data.task, b.data.party>>
               PROVE  a = b
      BY DEF OnePerTask
  <2>1. a.tree \in Trees /\ b.tree \in Trees
        BY DEF IInv, TypeOK
  <2>2. a.token = a.data.token /\ b.token = b.data.token
        BY DEF IInv, WellStored
  <2>3. Address(a.schema, a.data, a.tree) = Address(b.schema, b.data, b.tree)
        BY <2>1, <2>2 DEF Address
  <2> QED BY <2>3 DEF IInv, OnePerAddress
<1> QED BY <1>1, Invariance, PTL

-----------------------------------------------------------------------------
(* The agent's side                                                         *)

\* The bytes that parse_delegation_attestation reads are those of a delegation only
\* if the attestation has the universal layout; then they are its fields.
LEMMA DelegationFacts ==
    ASSUME TypeOK, NEW s \in Schemas, NEW w \in Wallets, NEW mint \in Mints,
           Delegated(s, w, mint)
    PROVE  \E g \in regular : Granted(g, w, mint, Config[s].delegation)
<1>1. PICK g \in regular : /\ g.schema = Config[s].delegation
                           /\ KeyAt(g.data, 65) = w
                           /\ KeyAt(g.data, 33) = mint
                           /\ KeyAt(g.data, 98) = holder[mint]
                           /\ g.expiry # 0 => g.expiry > clock
      BY DEF Delegated
<1>2. g.data \in Data
      BY DEF TypeOK
<1>3. Straddle # w /\ Straddle # mint
      BY SentinelsAssumption
<1>4. CASE g.data.layout = "v1"
  <2>1. KeyAt(g.data, 65) = g.data.party
        BY <1>4 DEF KeyAt, FieldStart
  <2>2. KeyAt(g.data, 33) = g.data.token
        BY <1>4 DEF KeyAt, FieldStart
  <2>3. KeyAt(g.data, 98) = g.data.hash
        BY <1>4 DEF KeyAt, FieldStart
  <2> QED BY <1>1, <2>1, <2>2, <2>3 DEF Granted
<1>5. CASE g.data.layout = "sas"
  <2>1. KeyAt(g.data, 33) = Straddle
        BY <1>5 DEF KeyAt, FieldStart
  <2> QED BY <1>1, <1>3, <2>1
<1> QED BY <1>2, <1>4, <1>5 DEF Data

\* A new attestation has the current holder's consent, or a current delegate's.
THEOREM AgentSideHolds == Spec => AgentSideIsCurrent
<1>1. ASSUME IInv, [Next]_vars, NEW a \in compressed' \ compressed
      PROVE  LET sig == a.sigs[1]
                 s == Config[a.schema].delegation
             IN  CASE Config[a.schema].mode = "dual" -> sig.signer = holder[a.token]
                   [] Config[a.schema].mode = "owner" ->
                         \/ sig.signer = holder[a.token]
                         \/ \E g \in regular : Granted(g, sig.signer, a.token, s)
                   [] OTHER -> TRUE
  <2>1. PICK s \in Schemas : \E d \in Payloads[s], tree \in Trees :
              \E sigs \in Accepted(s, d) : CreateCompressed(s, d, tree, sigs)
        BY <1>1 DEF Next, vars, CreateRegular, Sign, DirectIssue, CloseCompressed,
              CloseRegular, Transfer, Tick
  <2>2. PICK d \in Payloads[s], tree \in Trees :
              \E sigs \in Accepted(s, d) : CreateCompressed(s, d, tree, sigs)
        BY <2>1
  <2>3. PICK sigs \in Accepted(s, d) : CreateCompressed(s, d, tree, sigs)
        BY <2>2
  <2>4. a = [schema |-> s, token |-> d.token, data |-> d, tree |-> tree, sigs |-> sigs]
        BY <1>1, <2>3 DEF CreateCompressed
  <2>5. a.schema = s /\ a.token = d.token /\ a.sigs = sigs
        BY <2>4
  <2>6. Config[s].mode # "counterparty" => AgentSigns(s, d, sigs[1])
        BY <1>1, AcceptedFacts DEF IInv
  <2>7. ASSUME Config[s].mode = "dual" PROVE sigs[1].signer = holder[d.token]
        BY <2>6, <2>7 DEF AgentSigns
  <2>8. ASSUME Config[s].mode = "owner"
        PROVE  \/ sigs[1].signer = holder[d.token]
               \/ \E g \in regular : Granted(g, sigs[1].signer, d.token, Config[s].delegation)
    <3>1. Authorized(s, sigs[1].signer, d.token) /\ sigs[1] \in signed
          BY <2>6, <2>8 DEF AgentSigns, Holds
    <3>2. sigs[1].signer \in Wallets /\ d.token \in Mints
          BY <1>1, <3>1, <2>2, ConfigFacts DEF IInv, TypeOK, Signature
    <3> QED BY <1>1, <2>2, <3>1, <3>2, DelegationFacts DEF Authorized, IInv
  <2> QED BY <2>5, <2>7, <2>8
<1>2. IInv /\ [Next]_vars =>
        [\A a \in compressed' \ compressed :
           LET sig == a.sigs[1]
               s == Config[a.schema].delegation
           IN  CASE Config[a.schema].mode = "dual" -> sig.signer = holder[a.token]
                 [] Config[a.schema].mode = "owner" ->
                       \/ sig.signer = holder[a.token]
                       \/ \E g \in regular : Granted(g, sig.signer, a.token, s)
                 [] OTHER -> TRUE]_vars
      BY <1>1
<1> QED BY <1>2, Invariance, PTL DEF Spec, AgentSideIsCurrent

\* What create_regular_attestation accepts in "owner" mode is signed by the holder,
\* if the schema admits no delegates, as DelegateV1 does not.
THEOREM HolderDelegates ==
    ASSUME \A s \in Schemas :
              Config[s].storage = "regular" /\ Config[s].mode = "owner" =>
                 Config[s].delegation = NoSchema
    PROVE  Spec => OnlyHolderDelegates
<1>1. ASSUME IInv, [Next]_vars, NEW a \in regular' \ regular,
             Config[a.schema].mode = "owner",
             a.data \in Payloads[a.schema] \ DirectPayloads[a.schema]
      PROVE  \E sig \in signed : /\ sig.signer = holder[a.data.token]
                                 /\ sig.message = Interaction(a.schema, a.data)
  <2>1. ASSUME NEW s \in Schemas, NEW d \in DirectPayloads[s], NEW nonce,
               NEW expiry \in 0..MaxTime
        PROVE  ~DirectIssue(s, d, nonce, expiry)
    <3>1. SUFFICES ASSUME DirectIssue(s, d, nonce, expiry) PROVE FALSE
          OBVIOUS
    <3>2. a = [schema |-> s, nonce |-> nonce, data |-> d, expiry |-> expiry]
          BY <1>1, <3>1 DEF DirectIssue
    <3> QED BY <1>1, <3>2
  <2>2. PICK s \in Schemas : \E d \in Payloads[s], expiry \in 0..MaxTime :
              CreateRegular(s, d, expiry)
        BY <1>1, <2>1 DEF Next, vars, CreateCompressed, Sign, CloseCompressed,
              CloseRegular, Transfer, Tick
  <2>3. PICK d \in Payloads[s], expiry \in 0..MaxTime : CreateRegular(s, d, expiry)
        BY <2>2
  <2>4. a = [schema |-> s, nonce |-> ReputationNonce(d), data |-> d, expiry |-> expiry]
        BY <1>1, <2>3 DEF CreateRegular
  <2>5. a.schema = s /\ a.data = d
        BY <2>4
  <2>6. PICK sigs : sigs \in Accepted(s, d)
        BY <2>3 DEF CreateRegular
  <2>7. AgentSigns(s, d, sigs[1])
        BY <1>1, <2>5, <2>6, AcceptedFacts DEF IInv
  <2>8. Config[s].storage = "regular"
        BY <2>3 DEF CreateRegular
  <2>9. /\ sigs[1] \in signed /\ sigs[1].message = Interaction(s, d)
        /\ sigs[1].signer = holder[d.token]
        BY <1>1, <2>5, <2>7, <2>8 DEF AgentSigns, Holds, Authorized, Delegated
  <2> QED BY <2>5, <2>9
<1>2. IInv /\ [Next]_vars =>
        [\A a \in regular' \ regular :
              /\ Config[a.schema].mode = "owner"
              /\ a.data \in Payloads[a.schema] \ DirectPayloads[a.schema]
           => \E sig \in signed : /\ sig.signer = holder[a.data.token]
                                  /\ sig.message = Interaction(a.schema, a.data)]_vars
      BY <1>1
<1> QED BY <1>2, Invariance, PTL DEF Spec, OnlyHolderDelegates

-----------------------------------------------------------------------------
(* Closing                                                                  *)

\* A signer whose key the close instructions find where they look for the parties
\* is the party itself: bytes that cut across two fields are nobody's key.
LEMMA MayCloseFacts ==
    ASSUME TypeOK, NEW s \in Schemas, NEW w \in Wallets, NEW d \in Data,
           MayClose(w, s, KeyAt(d, 32), KeyAt(d, 64))
    PROVE  \/ Config[s].mode # "owner" /\ w = d.party
           \/ Config[s].mode # "counterparty" /\ w = holder[d.token]
<1>1. Straddle # w /\ Straddle \notin Mints
      BY SentinelsAssumption
<1>2. CASE d.layout = "v1"
  <2>1. KeyAt(d, 32) = Straddle /\ KeyAt(d, 64) = Straddle
        BY <1>2 DEF KeyAt, FieldStart
  <2> QED BY <1>1, <2>1, ConfigFacts DEF MayClose
<1>3. CASE d.layout = "sas"
  <2>1. KeyAt(d, 32) = d.token /\ KeyAt(d, 64) = d.party
        BY <1>3 DEF KeyAt, FieldStart
  <2> QED BY <2>1, ConfigFacts DEF MayClose
<1> QED BY <1>2, <1>3 DEF Data

\* Only the close instructions take anything out of the stores.
LEMMA StoresGrow ==
    ASSUME [Next]_vars
    PROVE  \/ compressed \subseteq compressed' /\ regular \subseteq regular'
           \/ \E w \in Wallets : \E b \in compressed : CloseCompressed(w, b)
           \/ \E w \in Wallets : \E b \in regular : CloseRegular(w, b)
<1> DEFINE Grow == compressed \subseteq compressed' /\ regular \subseteq regular'
<1>1. ASSUME NEW s, NEW d, NEW tree, NEW sigs, CreateCompressed(s, d, tree, sigs) PROVE Grow
      BY <1>1 DEF CreateCompressed
<1>2. ASSUME NEW s, NEW d, NEW expiry, CreateRegular(s, d, expiry) PROVE Grow
      BY <1>2 DEF CreateRegular
<1>3. ASSUME NEW w, NEW s, NEW d, Sign(w, s, d) PROVE Grow
      BY <1>3 DEF Sign
<1>4. ASSUME NEW s, NEW d, NEW nonce, NEW expiry, DirectIssue(s, d, nonce, expiry) PROVE Grow
      BY <1>4 DEF DirectIssue
<1>5. ASSUME NEW mint, NEW w, Transfer(mint, w) PROVE Grow
      BY <1>5 DEF Transfer
<1>6. ASSUME Tick \/ UNCHANGED vars PROVE Grow
      BY <1>6 DEF Tick, vars
<1> HIDE DEF Grow
<1>7. \/ Grow
      \/ \E w \in Wallets : \E b \in compressed : CloseCompressed(w, b)
      \/ \E w \in Wallets : \E b \in regular : CloseRegular(w, b)
      BY <1>1, <1>2, <1>3, <1>4, <1>5, <1>6 DEF Next
<1> QED BY <1>7 DEF Grow

\* Attestations vanish only by the hand of a signing party, under a closeable schema.
THEOREM ClosingHolds == Spec => SigningPartyCloses
<1> DEFINE Closed(a) ==
             /\ Config[a.schema].closeable
             /\ verdict'.result = "closed"
             /\ \/ Config[a.schema].mode # "owner" /\ verdict'.signer = a.data.party
                \/ Config[a.schema].mode # "counterparty"
                      /\ verdict'.signer = holder[a.data.token]
<1>1. ASSUME IInv, [Next]_vars, NEW a \in (compressed \ compressed') \cup (regular \ regular')
      PROVE  Closed(a)
  <2>1. a.schema \in Schemas /\ a.data \in Data
        BY <1>1 DEF IInv, TypeOK
  <2>2. CASE \E w \in Wallets : \E b \in compressed : CloseCompressed(w, b)
    <3>1. PICK w \in Wallets, b \in compressed : CloseCompressed(w, b)
          BY <2>2
    <3>2. /\ a = b /\ Config[a.schema].closeable
          /\ MayClose(w, a.schema, KeyAt(a.data, 32), KeyAt(a.data, 64))
          /\ verdict' = [signer |-> w, result |-> "closed"]
          BY <1>1, <3>1 DEF CloseCompressed
    <3>3. verdict'.signer = w /\ verdict'.result = "closed"
          BY <3>2
    <3> QED BY <1>1, <2>1, <3>2, <3>3, MayCloseFacts DEF IInv
  <2>3. CASE \E w \in Wallets : \E b \in regular : CloseRegular(w, b)
    <3>1. PICK w \in Wallets, b \in regular : CloseRegular(w, b)
          BY <2>3
    <3>2. /\ a = b /\ Config[a.schema].closeable
          /\ MayClose(w, a.schema, KeyAt(a.data, 32), KeyAt(a.data, 64))
          /\ verdict' = [signer |-> w, result |-> "closed"]
          BY <1>1, <3>1 DEF CloseRegular
    <3>3. verdict'.signer = w /\ verdict'.result = "closed"
          BY <3>2
    <3> QED BY <1>1, <2>1, <3>2, <3>3, MayCloseFacts DEF IInv
  <2> QED BY <1>1, <2>2, <2>3, StoresGrow
<1>2. IInv /\ [Next]_vars =>
        [\A a \in (compressed \ compressed') \cup (regular \ regular') :
           /\ Config[a.schema].closeable
           /\ verdict'.result = "closed"
           /\ \/ Config[a.schema].mode # "owner" /\ verdict'.signer = a.data.party
              \/ Config[a.schema].mode # "counterparty"
                    /\ verdict'.signer = holder[a.data.token]]_vars
      BY <1>1
<1> QED BY <1>2, Invariance, PTL DEF Spec, SigningPartyCloses

-----------------------------------------------------------------------------
(* Refinement of AttestationBook                                            *)

CompressedEntry(a) == [store |-> "compressed", key |-> Address(a.schema, a.data, a.tree),
                       schema |-> a.schema, body |-> a]
RegularEntry(a) == [store |-> "regular", key |-> <<a.schema, a.nonce>>,
                    schema |-> a.schema, body |-> a]
Entries == {CompressedEntry(a) : a \in compressed} \cup {RegularEntry(a) : a \in regular}

\* What the two kinds of entries are made of.
LEMMA EntryFacts ==
    /\ \A a : /\ CompressedEntry(a).store = "compressed"
             /\ CompressedEntry(a).key = Address(a.schema, a.data, a.tree)
             /\ CompressedEntry(a).schema = a.schema /\ CompressedEntry(a).body = a
    /\ \A a : /\ RegularEntry(a).store = "regular"
             /\ RegularEntry(a).key = <<a.schema, a.nonce>>
             /\ RegularEntry(a).schema = a.schema /\ RegularEntry(a).body = a
BY DEF CompressedEntry, RegularEntry

\* A new attestation is a new entry, under a key that was never used.
LEMMA CreateCompressedPosts ==
    ASSUME IInv, NEW s \in Schemas, NEW d \in Payloads[s], NEW tree \in Trees,
           NEW sigs \in Accepted(s, d), CreateCompressed(s, d, tree, sigs)
    PROVE  Book!Next
<1> DEFINE new == [schema |-> s, token |-> d.token, data |-> d, tree |-> tree,
                   sigs |-> sigs]
<1>1. /\ Address(s, d, tree) \notin addresses
      /\ addresses' = addresses \cup {Address(s, d, tree)}
      /\ compressed' = compressed \cup {new} /\ regular' = regular
      BY DEF CreateCompressed
<1>2. new.schema = s /\ new.data = d /\ new.tree = tree
      OBVIOUS
<1> HIDE DEF new
<1> DEFINE e == CompressedEntry(new)
<1>3. e.store = "compressed" /\ e.key = Address(s, d, tree)
      BY <1>2, EntryFacts
<1>4. Entries' = Entries \cup {e}
      BY <1>1 DEF Entries, CompressedEntry, RegularEntry
<1> HIDE DEF e
<1>5. \A f \in Entries : <<f.store, f.key>> # <<e.store, e.key>>
  <2>1. \A a \in compressed : CompressedEntry(a).key # e.key
        BY <1>1, <1>3, EntryFacts DEF IInv, WellStored
  <2>2. \A a \in regular : RegularEntry(a).store # e.store
        BY <1>3, EntryFacts
  <2> QED BY <2>1, <2>2 DEF Entries
<1>6. Book!Post(e)
      BY <1>1, <1>3, <1>4, <1>5 DEF Book!Post, Entries, CompressedEntry, RegularEntry
<1> QED BY <1>4, <1>6 DEF Book!Next, Entries, CompressedEntry, RegularEntry

\* So is a SAS attestation, created by the program or by another signer.
LEMMA RegularPosts ==
    ASSUME NEW a, regular' = regular \cup {a}, UNCHANGED <<compressed, addresses>>,
           \A b \in regular : <<b.schema, b.nonce>> # <<a.schema, a.nonce>>
    PROVE  Book!Next
<1> DEFINE e == RegularEntry(a)
<1>1. e.store = "regular" /\ e.key = <<a.schema, a.nonce>>
      BY EntryFacts
<1>2. Entries' = Entries \cup {e}
      BY DEF Entries, CompressedEntry, RegularEntry
<1> HIDE DEF e
<1>3. \A f \in Entries : <<f.store, f.key>> # <<e.store, e.key>>
  <2>1. \A b \in compressed : CompressedEntry(b).store # e.store
        BY <1>1, EntryFacts
  <2>2. \A b \in regular : RegularEntry(b).key # e.key
        BY <1>1, EntryFacts
  <2> QED BY <2>1, <2>2 DEF Entries
<1>4. Book!Post(e)
      BY <1>1, <1>2, <1>3 DEF Book!Post, Entries, CompressedEntry, RegularEntry
<1> QED BY <1>2, <1>4 DEF Book!Next, Entries, CompressedEntry, RegularEntry

\* Closing withdraws the one entry of the attestation, or nothing.
LEMMA ClosingWithdraws ==
    ASSUME TypeOK, NEW w,
           \/ \E a \in compressed : CloseCompressed(w, a)
           \/ \E a \in regular : CloseRegular(w, a)
    PROVE  Book!Next \/ UNCHANGED <<compressed, regular, addresses>>
<1>1. CASE \E a \in compressed : CloseCompressed(w, a)
  <2>1. PICK a \in compressed : CloseCompressed(w, a)
        BY <1>1
  <2>2. /\ UNCHANGED <<addresses, regular>>
        /\ \/ compressed' = compressed
           \/ compressed' = compressed \ {a} /\ Config[a.schema].closeable
        BY <2>1 DEF CloseCompressed
  <2>3. CASE compressed' = compressed \ {a} /\ Config[a.schema].closeable
    <3>1. Entries' = Entries \ {CompressedEntry(a)}
      <4>1. ASSUME NEW b \in compressed, CompressedEntry(b) = CompressedEntry(a)
            PROVE  b = a
        <5>1. CompressedEntry(b).body = b /\ CompressedEntry(a).body = a
              BY DEF CompressedEntry
        <5> QED BY <4>1, <5>1
      <4>2. \A b \in regular : RegularEntry(b) # CompressedEntry(a)
            BY EntryFacts
      <4>3. Entries' = {CompressedEntry(b) : b \in compressed \ {a}}
                         \cup {RegularEntry(b) : b \in regular}
            BY <2>2, <2>3 DEF Entries, CompressedEntry, RegularEntry
      <4> QED BY <4>1, <4>2, <4>3 DEF Entries
    <3>2. CompressedEntry(a).schema \in {s \in Schemas : Config[s].closeable}
          BY <2>3, EntryFacts DEF TypeOK
    <3>3. Book!Withdraw(CompressedEntry(a))
          BY <2>2, <3>1, <3>2 DEF Book!Withdraw, Entries, CompressedEntry, RegularEntry
    <3>4. CompressedEntry(a) \in Entries
          BY DEF Entries
    <3> QED BY <3>3, <3>4 DEF Book!Next, Entries, CompressedEntry, RegularEntry
  <2> QED BY <2>2, <2>3
<1>2. CASE \E a \in regular : CloseRegular(w, a)
  <2>1. PICK a \in regular : CloseRegular(w, a)
        BY <1>2
  <2>2. /\ UNCHANGED <<addresses, compressed>>
        /\ \/ regular' = regular
           \/ regular' = regular \ {a} /\ Config[a.schema].closeable
        BY <2>1 DEF CloseRegular
  <2>3. CASE regular' = regular \ {a} /\ Config[a.schema].closeable
    <3>1. Entries' = Entries \ {RegularEntry(a)}
      <4>1. ASSUME NEW b \in regular, RegularEntry(b) = RegularEntry(a)
            PROVE  b = a
        <5>1. RegularEntry(b).body = b /\ RegularEntry(a).body = a
              BY DEF RegularEntry
        <5> QED BY <4>1, <5>1
      <4>2. \A b \in compressed : CompressedEntry(b) # RegularEntry(a)
            BY EntryFacts
      <4>3. Entries' = {CompressedEntry(b) : b \in compressed}
                         \cup {RegularEntry(b) : b \in regular \ {a}}
            BY <2>2, <2>3 DEF Entries, CompressedEntry, RegularEntry
      <4> QED BY <4>1, <4>2, <4>3 DEF Entries
    <3>2. RegularEntry(a).schema \in {s \in Schemas : Config[s].closeable}
          BY <2>3, EntryFacts DEF TypeOK
    <3>3. Book!Withdraw(RegularEntry(a))
          BY <2>2, <3>1, <3>2 DEF Book!Withdraw, Entries, CompressedEntry, RegularEntry
    <3>4. RegularEntry(a) \in Entries
          BY DEF Entries
    <3> QED BY <3>3, <3>4 DEF Book!Next, Entries, CompressedEntry, RegularEntry
  <2> QED BY <2>2, <2>3
<1> QED BY <1>1, <1>2

\* Every step of the attestations is a step of the book or leaves the book alone.
LEMMA StepBook ==
    IInv /\ [Next]_vars => Book!Next \/ UNCHANGED <<compressed, regular, addresses>>
<1> DEFINE Result == Book!Next \/ UNCHANGED <<compressed, regular, addresses>>
<1> SUFFICES ASSUME IInv, [Next]_vars PROVE Result
    OBVIOUS
<1>1. ASSUME NEW s \in Schemas, NEW d \in Payloads[s], NEW tree \in Trees,
             NEW sigs \in Accepted(s, d), CreateCompressed(s, d, tree, sigs)
      PROVE  Result
      BY <1>1, CreateCompressedPosts
<1>2. ASSUME NEW s, NEW d, NEW expiry, CreateRegular(s, d, expiry) PROVE Result
  <2> DEFINE a == [schema |-> s, nonce |-> ReputationNonce(d), data |-> d, expiry |-> expiry]
  <2>1. a.schema = s /\ a.nonce = ReputationNonce(d)
        OBVIOUS
  <2>2. regular' = regular \cup {a} /\ UNCHANGED <<compressed, addresses>>
        BY <1>2 DEF CreateRegular
  <2>3. \A b \in regular : <<b.schema, b.nonce>> # <<s, ReputationNonce(d)>>
        BY <1>2 DEF CreateRegular
  <2> HIDE DEF a
  <2> QED BY <2>1, <2>2, <2>3, RegularPosts
<1>3. ASSUME NEW s, NEW d, NEW nonce, NEW expiry, DirectIssue(s, d, nonce, expiry)
      PROVE  Result
  <2> DEFINE a == [schema |-> s, nonce |-> nonce, data |-> d, expiry |-> expiry]
  <2>1. a.schema = s /\ a.nonce = nonce
        OBVIOUS
  <2>2. regular' = regular \cup {a} /\ UNCHANGED <<compressed, addresses>>
        BY <1>3 DEF DirectIssue
  <2>3. \A b \in regular : <<b.schema, b.nonce>> # <<s, nonce>>
        BY <1>3 DEF DirectIssue
  <2> HIDE DEF a
  <2> QED BY <2>1, <2>2, <2>3, RegularPosts
<1>4. ASSUME NEW w, NEW a \in compressed, CloseCompressed(w, a) PROVE Result
      BY <1>4, ClosingWithdraws DEF IInv
<1>5. ASSUME NEW w, NEW a \in regular, CloseRegular(w, a) PROVE Result
      BY <1>5, ClosingWithdraws DEF IInv
<1>6. ASSUME NEW w, NEW s, NEW d, Sign(w, s, d) PROVE Result
      BY <1>6 DEF Sign
<1>7. ASSUME NEW mint, NEW w, Transfer(mint, w) PROVE Result
      BY <1>7 DEF Transfer
<1>8. ASSUME Tick \/ UNCHANGED vars PROVE Result
      BY <1>8 DEF Tick, vars
<1> HIDE DEF Result
<1> QED BY <1>1, <1>2, <1>3, <1>4, <1>5, <1>6, <1>7, <1>8 DEF Next

\* The two stores are one book: one entry per key, never rewritten, withdrawn only
\* under a closeable schema, and a key of the compressed store is spent for ever.
THEOREM Refinement == Spec => ImplementsBook
<1>1. Init => Book!Init
      BY DEF Init, Book!Init
<1>2. IInv /\ [Next]_vars => [Book!Next]_<<Entries, addresses>>
  <2>1. UNCHANGED <<compressed, regular, addresses>> => UNCHANGED <<Entries, addresses>>
        BY DEF Entries, CompressedEntry, RegularEntry
  <2> QED BY <2>1, StepBook
<1>3. IInv /\ [Next]_vars =>
        [Book!Next]_<<{[store |-> "compressed", key |-> Address(a.schema, a.data, a.tree),
                        schema |-> a.schema, body |-> a] : a \in compressed} \cup
                      {[store |-> "regular", key |-> <<a.schema, a.nonce>>,
                        schema |-> a.schema, body |-> a] : a \in regular}, addresses>>
      BY <1>2 DEF Entries, CompressedEntry, RegularEntry
<1> QED BY <1>1, <1>3, Invariance, PTL DEF Spec, ImplementsBook, Book!Spec
=============================================================================
