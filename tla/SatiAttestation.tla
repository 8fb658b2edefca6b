--------------------------- MODULE SatiAttestation ---------------------------
(***************************************************************************)
(* Attestations of programs/sati: create_compressed_attestation,            *)
(* create_regular_attestation and the two close instructions, with the      *)
(* signature checks of signature.rs, under every order of signing,          *)
(* submitting, transferring the agent NFT, expiry and closing.              *)
(*                                                                          *)
(* Compressed attestations live in Light Protocol trees, regular ones in    *)
(* accounts of the Solana Attestation Service (SAS).  Hashes and PDAs are   *)
(* injective: the nonce, address or message is the tuple of what it hashes. *)
(* An instruction is one transaction: a failing create changes nothing and  *)
(* is no step; the verdict of a close is kept, because its caller sees it.  *)
(* Callers pass the accounts the SDK derives: one SATI credential, the      *)
(* SchemaConfig and SAS schema of the attestation, the holder's ATA.        *)
(***************************************************************************)
EXTENDS Naturals, FiniteSets, Sequences

CONSTANTS Wallets, Mints, Tasks, Hashes, Contents,
          Opaque,         \* contents that a SIWS message does not spell out
          Rejected,       \* contents over a size or content_type limit
          OpaqueLabel,    \* what it shows for them: "(encrypted)", "(n bytes)"
          Straddle,       \* 32 bytes that cut across two fields
          NoWallet,       \* nobody
          Schemas,        \* SAS schemas with a SchemaConfig
          DelegationSchemas, \* SAS schemas of delegations, configured or not
          NoSchema,       \* delegation_schema: None
          Config,         \* the SchemaConfig of each: written once (SatiRegistry)
          Payloads,       \* the data that clients submit under each schema
          DirectPayloads, \* the data that other authorized signers of the SAS
                          \* credential issue under each schema, without this program
          Trees,          \* Light address trees
          MaxTime         \* bound of the clock

ASSUME SentinelsAssumption ==
    /\ NoSchema \notin DelegationSchemas
    /\ NoWallet \notin Wallets
    /\ Straddle \notin Wallets \cup Mints

\* Attestation data.  "v1" is the universal layout of constants.rs, "sas" the one
\* that packages/sdk/src/sas.ts declares to SAS: task_ref first, no version byte.
Data == [layout : {"v1", "sas"}, task : Tasks, token : Mints,
         party : Wallets \cup Mints, outcome : Nat, hash : Hashes \cup Wallets,
         content : Contents]

ASSUME ConfigAssumption ==
    /\ Config \in [Schemas -> [name : STRING, mode : {"dual", "counterparty", "owner"},
                               storage : {"compressed", "regular"},
                               delegation : DelegationSchemas \cup {NoSchema},
                               closeable : BOOLEAN]]
    /\ \A s \in Schemas : Payloads[s] \subseteq Data /\ DirectPayloads[s] \subseteq Data
    /\ MaxTime \in Nat

VARIABLES holder,      \* the wallet whose ATA holds each agent's token
          clock,       \* Clock.unix_timestamp
          signed,      \* the Ed25519 signatures that exist
          compressed,  \* CompressedAttestation accounts
          addresses,   \* addresses inserted in the trees, for good
          regular,     \* SAS attestation accounts
          verdict      \* how the latest close instruction ended, and for whom

vars == <<holder, clock, signed, compressed, addresses, regular, verdict>>

-----------------------------------------------------------------------------
(* Messages, nonces and addresses                                           *)

\* decode_content_for_display
Display(content) == IF content \in Opaque THEN OpaqueLabel ELSE content

\* compute_interaction_hash: neither the agent nor the counterparty is hashed.
Interaction(s, d) ==
    [kind |-> "interaction", schema |-> s, task |-> d.task, hash |-> d.hash]

\* build_siws_message, and buildCounterpartyMessage of the SDK.
Siws(s, d) ==
    [kind |-> "siws", name |-> Config[s].name, token |-> d.token, task |-> d.task,
     outcome |-> d.outcome, shown |-> Display(d.content)]

\* The message expected from the counterparty: create_regular_attestation builds
\* no SIWS message, it expects the interaction hash from its single signer.
PartyMessage(s, d) ==
    IF Config[s].storage = "compressed" THEN Siws(s, d) ELSE Interaction(s, d)

Messages == UNION {UNION {{Interaction(s, d), PartyMessage(s, d)} : d \in Payloads[s]}
                      : s \in Schemas}

Signature == [signer : Wallets, message : Messages]

\* Mutant: the address is derived from the whole data.
AddressOfData(s, d, tree) == <<s, d.token, d, tree>>

\* compute_attestation_nonce and derive_address.
Address(s, d, tree) ==
    <<s, d.token, <<d.task, s, d.token, d.party>>, tree>>

ReputationNonce(d) == <<"reputation", d.party, d.token>>
DelegationNonce(s, delegate, mint) == <<"delegation", s, delegate, mint>>

\* The 32 bytes of data at an offset, as the instructions slice them.
FieldStart(layout) ==
    IF layout = "v1" THEN [token |-> 33, party |-> 65, hash |-> 98]
                     ELSE [token |-> 32, party |-> 64, hash |-> 96]

KeyAt(d, offset) ==
    CASE offset = FieldStart(d.layout).token -> d.token
      [] offset = FieldStart(d.layout).party -> d.party
      [] offset = FieldStart(d.layout).hash  -> d.hash
      [] OTHER -> Straddle

-----------------------------------------------------------------------------
(* Authorization                                                            *)

\* Mutant: the delegator is not compared with the current holder.
DelegatedByAnyHolder(s, signer, mint) ==
    /\ Config[s].delegation # NoSchema
    /\ \E a \in regular :
          /\ a.schema = Config[s].delegation
          /\ a.nonce = DelegationNonce(a.schema, signer, mint)
          /\ a.expiry # 0 => a.expiry > clock

\* verify_agent_authorization, and parse_delegation_attestation under it: the
\* holder, or a delegate with an unexpired delegation of the current holder.
Delegated(s, signer, mint) ==
    /\ Config[s].delegation # NoSchema
    /\ \E a \in regular :
          /\ a.schema = Config[s].delegation
          /\ a.nonce = DelegationNonce(a.schema, signer, mint)
          /\ KeyAt(a.data, 65) = signer
          /\ KeyAt(a.data, 33) = mint
          /\ KeyAt(a.data, 98) = holder[mint]
          /\ a.expiry # 0 => a.expiry > clock

Authorized(s, signer, mint) ==
    signer = holder[mint] \/ Delegated(s, signer, mint)

\* The base layout checks, common to both create instructions.
WellFormed(d) ==
    /\ d.layout = "v1"
    /\ d.token # d.party
    /\ d.content \notin Rejected
    /\ d.outcome <= 2

Holds(sig, message) == sig \in signed /\ sig.message = message

\* Mutant: the signature is found by its message and its signer never compared.
AgentSignsUnbound(s, d, sig) == Holds(sig, Interaction(s, d))

\* Mutant: any SIWS message of the counterparty will do.
PartySignsAnything(s, d, sig) ==
    sig \in signed /\ sig.message.kind = "siws" /\ sig.signer = d.party

\* extract_ed25519_signatures: what a transaction can carry for d that the
\* instruction accepts.  In "owner" mode the signer is checked afterwards.
AgentSigns(s, d, sig) ==
    /\ Holds(sig, Interaction(s, d))
    /\ IF Config[s].mode = "dual" THEN sig.signer = holder[d.token]
                                  ELSE Authorized(s, sig.signer, d.token)

PartySigns(s, d, sig) ==
    Holds(sig, PartyMessage(s, d)) /\ sig.signer = d.party

Accepted(s, d) ==
    CASE Config[s].mode = "dual" ->
            {p \in {<<a, c>> : a \in signed, c \in signed} :
                /\ AgentSigns(s, d, p[1])
                /\ PartySigns(s, d, p[2])
                /\ p[1].signer # p[2].signer}
      [] Config[s].mode = "counterparty" ->
            {<<c>> : c \in {c \in signed : PartySigns(s, d, c)}}
      [] Config[s].mode = "owner" ->
            {<<a>> : a \in {a \in signed : AgentSigns(s, d, a)}}

\* Mutant: either party may close, whatever the mode.
EitherMayClose(w, s, token, party) ==
    w = party \/ (token \in Mints /\ holder[token] = w)

\* The authorization of both close instructions, with the keys they read.
MayClose(w, s, token, party) ==
    LET isCounterparty == w = party
        isAgentOwner == token \in Mints /\ holder[token] = w
    IN  CASE Config[s].mode = "dual" -> isCounterparty \/ isAgentOwner
          [] Config[s].mode = "counterparty" -> isCounterparty
          [] Config[s].mode = "owner" -> isAgentOwner

-----------------------------------------------------------------------------
(* Instructions                                                             *)

NoVerdict == [signer |-> NoWallet, result |-> "none"]

Init ==
    /\ holder \in [Mints -> Wallets]
    /\ clock = 0
    /\ signed = {}
    /\ compressed = {}
    /\ addresses = {}
    /\ regular = {}
    /\ verdict = NoVerdict

\* Mutant: the account's token_account is filled from the counterparty's slice.
CreateCompressedSwapped(s, d, tree, sigs) ==
    /\ Config[s].storage = "compressed"
    /\ WellFormed(d)
    /\ sigs \in Accepted(s, d)
    /\ Address(s, d, tree) \notin addresses
    /\ addresses' = addresses \cup {Address(s, d, tree)}
    /\ compressed' = compressed \cup
          {[schema |-> s, token |-> d.party, data |-> d, tree |-> tree, sigs |-> sigs]}
    /\ verdict' = NoVerdict
    /\ UNCHANGED <<holder, clock, signed, regular>>

CreateCompressed(s, d, tree, sigs) ==
    /\ Config[s].storage = "compressed"
    /\ WellFormed(d)
    /\ sigs \in Accepted(s, d)
    /\ Address(s, d, tree) \notin addresses
    /\ addresses' = addresses \cup {Address(s, d, tree)}
    /\ compressed' = compressed \cup
          {[schema |-> s, token |-> d.token, data |-> d, tree |-> tree, sigs |-> sigs]}
    /\ verdict' = NoVerdict
    /\ UNCHANGED <<holder, clock, signed, regular>>

\* Mutant: an existing attestation does not prevent another one.
CreateRegularAgain(s, d, expiry) ==
    /\ Config[s].storage = "regular"
    /\ WellFormed(d)
    /\ Accepted(s, d) # {}
    /\ regular' = regular \cup
          {[schema |-> s, nonce |-> ReputationNonce(d), data |-> d, expiry |-> expiry]}
    /\ verdict' = NoVerdict
    /\ UNCHANGED <<holder, clock, signed, compressed, addresses>>

\* The SAS program creates the attestation at the PDA of schema and nonce, which
\* must not exist; a "dual" schema is refused.
CreateRegular(s, d, expiry) ==
    /\ Config[s].storage = "regular"
    /\ Config[s].mode # "dual"
    /\ WellFormed(d)
    /\ Accepted(s, d) # {}
    /\ \A a \in regular : <<a.schema, a.nonce>> # <<s, ReputationNonce(d)>>
    /\ regular' = regular \cup
          {[schema |-> s, nonce |-> ReputationNonce(d), data |-> d, expiry |-> expiry]}
    /\ verdict' = NoVerdict
    /\ UNCHANGED <<holder, clock, signed, compressed, addresses>>

\* Mutant: the offsets are those of the universal layout, and nothing asks whether
\* the schema is closeable.
CloseCompressedAlways(w, a) ==
    /\ a \in compressed
    /\ MayClose(w, a.schema, KeyAt(a.data, 33), KeyAt(a.data, 65))
    /\ verdict' = [signer |-> w, result |-> "closed"]
    /\ compressed' = compressed \ {a}
    /\ UNCHANGED <<holder, clock, signed, addresses, regular>>

\* The signer presents the data; Light accepts the account rebuilt from it only
\* if it hashes to the one in the state tree.
CloseCompressed(w, a) ==
    LET token == KeyAt(a.data, 32)
        party == KeyAt(a.data, 64)
        result == IF ~Config[a.schema].closeable THEN "not closeable"
                  ELSE IF ~MayClose(w, a.schema, token, party) THEN "unauthorized"
                  ELSE IF token # a.token THEN "proof fails" ELSE "closed"
    IN  /\ a \in compressed
        /\ verdict' = [signer |-> w, result |-> result]
        /\ compressed' = IF result = "closed" THEN compressed \ {a} ELSE compressed
        /\ UNCHANGED <<holder, clock, signed, addresses, regular>>

CloseRegular(w, a) ==
    LET result == IF ~Config[a.schema].closeable THEN "not closeable"
                  ELSE IF ~MayClose(w, a.schema, KeyAt(a.data, 32), KeyAt(a.data, 64))
                  THEN "unauthorized" ELSE "closed"
    IN  /\ a \in regular
        /\ verdict' = [signer |-> w, result |-> result]
        /\ regular' = IF result = "closed" THEN regular \ {a} ELSE regular
        /\ UNCHANGED <<holder, clock, signed, compressed, addresses>>

-----------------------------------------------------------------------------
(* Around the program                                                       *)

\* The SDK asks the holder, a delegate or the counterparty for a signature; it is
\* given once and stays valid whatever happens next.
Sign(w, s, d) ==
    \E message \in {Interaction(s, d), PartyMessage(s, d)} :
        /\ \/ message = Interaction(s, d) /\ Config[s].mode # "counterparty"
              /\ (w = holder[d.token] \/ \E a \in regular : a.data.party = w)
           \/ message = PartyMessage(s, d) /\ Config[s].mode # "owner" /\ w = d.party
        /\ [signer |-> w, message |-> message] \notin signed
        /\ signed' = signed \cup {[signer |-> w, message |-> message]}
        /\ verdict' = NoVerdict
        /\ UNCHANGED <<holder, clock, compressed, addresses, regular>>

\* SATIClient.transferAgent, or any other transfer of the token.
Transfer(mint, to) ==
    /\ holder[mint] # to
    /\ holder' = [holder EXCEPT ![mint] = to]
    /\ verdict' = NoVerdict
    /\ UNCHANGED <<clock, signed, compressed, addresses, regular>>

\* Another authorized signer of the credential issues through SAS itself, at a
\* nonce and in a layout of its choice.
DirectIssue(s, d, nonce, expiry) ==
    /\ \A a \in regular : <<a.schema, a.nonce>> # <<s, nonce>>
    /\ regular' = regular \cup {[schema |-> s, nonce |-> nonce, data |-> d, expiry |-> expiry]}
    /\ verdict' = NoVerdict
    /\ UNCHANGED <<holder, clock, signed, compressed, addresses>>

Tick ==
    /\ clock < MaxTime
    /\ clock' = clock + 1
    /\ verdict' = NoVerdict
    /\ UNCHANGED <<holder, signed, compressed, addresses, regular>>

Next ==
    \/ \E s \in Schemas : \E d \in Payloads[s] :
          \/ \E tree \in Trees : \E sigs \in Accepted(s, d) : CreateCompressed(s, d, tree, sigs)
          \/ \E expiry \in 0..MaxTime : CreateRegular(s, d, expiry)
          \/ \E w \in Wallets : Sign(w, s, d)
    \/ \E s \in Schemas : \E d \in DirectPayloads[s], expiry \in 0..MaxTime :
          \E nonce \in {ReputationNonce(d), DelegationNonce(s, d.party, d.token)} :
             DirectIssue(s, d, nonce, expiry)
    \/ \E w \in Wallets : \/ \E a \in compressed : CloseCompressed(w, a)
                          \/ \E a \in regular : CloseRegular(w, a)
                          \/ \E mint \in Mints : Transfer(mint, w)
    \/ Tick

Spec == Init /\ [][Next]_vars

-----------------------------------------------------------------------------
(* Properties                                                               *)

\* Every variable has the type its comment says.
TypeOK ==
    /\ holder \in [Mints -> Wallets]
    /\ clock \in 0..MaxTime
    /\ signed \subseteq Signature
    /\ compressed \subseteq [schema : Schemas, token : Mints, data : Data, tree : Trees,
                             sigs : Seq(Signature)]
    /\ \A a \in regular : a.schema \in Schemas /\ a.data \in Data /\ a.expiry \in 0..MaxTime
    /\ verdict \in [signer : Wallets \cup {NoWallet},
                    result : {"none", "not closeable", "unauthorized", "proof fails",
                              "closed"}]

\* Nobody puts words in a counterparty's mouth: every compressed attestation that
\* needs its counterparty carries that wallet's signature of a message that shows
\* the stored agent, task, outcome and content, whoever submitted it and when.
CounterpartySaidIt ==
    \A a \in compressed :
        Config[a.schema].mode # "owner" =>
            LET sig == a.sigs[Len(a.sigs)]
            IN  /\ sig \in signed
                /\ sig.signer = a.data.party
                /\ sig.message.outcome = a.data.outcome
                /\ <<sig.message.token, sig.message.task>> = <<a.token, a.data.task>>
                /\ sig.message.shown = Display(a.data.content)

\* A statement counts once: one signature of a counterparty never backs two
\* attestations, however often, by whomever and with whatever agent signature,
\* data hash or opaque content it is submitted.
StatementCountsOnce ==
    \A a, b \in compressed :
          /\ Config[a.schema].mode # "owner"
          /\ Config[b.schema].mode # "owner"
          /\ a.sigs[Len(a.sigs)] = b.sigs[Len(b.sigs)]
       => a = b

\* Duplicate prevention (docs/specification.md): there is one attestation of a
\* schema by a counterparty about an agent's task.
OnePerTask ==
    \A a, b \in compressed :
          /\ <<a.schema, a.token>> = <<b.schema, b.token>>
          /\ <<a.data.task, a.data.party>> = <<b.data.task, b.data.party>>
       => a = b

Granted(a, w, mint, s) ==
    /\ a.schema = s
    /\ <<a.data.party, a.data.token, a.data.hash>> = <<w, mint, holder[mint]>>
    /\ a.expiry = 0 \/ a.expiry > clock

\* The agent's side of a new attestation is signed by the wallet that holds the
\* agent when it is created, or by a delegate of that wallet: a signature or a
\* delegation of an earlier holder is worth nothing after a transfer, and an
\* expired or closed delegation nothing either.
AgentSideIsCurrent ==
    [][\A a \in compressed' \ compressed :
         LET sig == a.sigs[1]
             s == Config[a.schema].delegation
         IN  CASE Config[a.schema].mode = "dual" -> sig.signer = holder[a.token]
               [] Config[a.schema].mode = "owner" ->
                     \/ sig.signer = holder[a.token]
                     \/ \E g \in regular : Granted(g, sig.signer, a.token, s)
               [] OTHER -> TRUE]_vars

\* Only the holder grants a delegation: a delegate cannot pass it on. (A grant made
\* by another signer of the credential is not the program's.)
OnlyHolderDelegates ==
    [][\A a \in regular' \ regular :
            /\ Config[a.schema].mode = "owner"
            /\ a.data \in Payloads[a.schema] \ DirectPayloads[a.schema]
         => \E sig \in signed : /\ sig.signer = holder[a.data.token]
                                /\ sig.message = Interaction(a.schema, a.data)]_vars

\* Only the signing party closes: an attestation disappears in a step signed by
\* its counterparty or by the holder of its agent, as its schema's mode says, and
\* only if the schema is closeable.
SigningPartyCloses ==
    [][\A a \in (compressed \ compressed') \cup (regular \ regular') :
         /\ Config[a.schema].closeable
         /\ verdict'.result = "closed"
         /\ \/ Config[a.schema].mode # "owner" /\ verdict'.signer = a.data.party
            \/ Config[a.schema].mode # "counterparty" /\ verdict'.signer = holder[a.data.token]
      ]_vars

\* The attestations implement the book they promise.
Book == INSTANCE AttestationBook WITH
            Closeable <- {s \in Schemas : Config[s].closeable},
            book <-
               {[store |-> "compressed", key |-> Address(a.schema, a.data, a.tree),
                 schema |-> a.schema, body |-> a] : a \in compressed} \cup
               {[store |-> "regular", key |-> <<a.schema, a.nonce>>,
                 schema |-> a.schema, body |-> a] : a \in regular},
            spent <- addresses

ImplementsBook == Book!Spec

\* What the close instructions document: "Signing party controls closure".  Whoever
\* signed an attestation of a closeable schema is entitled to close it.
SigningParties(a) ==
    CASE Config[a.schema].mode = "dual" -> {a.data.party, holder[a.data.token]}
      [] Config[a.schema].mode = "counterparty" -> {a.data.party}
      [] Config[a.schema].mode = "owner" -> {holder[a.data.token]}

SigningPartyMayClose ==
    \A a \in compressed \cup regular :
        Config[a.schema].closeable =>
            \A w \in SigningParties(a) :
                MayClose(w, a.schema, KeyAt(a.data, 32), KeyAt(a.data, 64))
=============================================================================
