------------------------------- MODULE SatiWire -------------------------------
(***************************************************************************)
(* A call across the wire: a caller fills in the arguments and accounts of   *)
(* an instruction of the generated client, with its synchronous or its       *)
(* asynchronous builder; an attestation is laid out, signed and packed the   *)
(* way createFeedback does; the program admits the instruction and writes    *)
(* an account and an event; and both, and the instruction itself, are read   *)
(* back by the SDK.  What a builder writes and what the program reads were   *)
(* written by two hands, in two languages: nothing but this run sets one     *)
(* against the other.                                                       *)
(***************************************************************************)
EXTENDS PhotonClient, SatiProgramInterface

CONSTANTS TextLengths,   \* lengths of the contents that are written as text
          PlainLengths   \* lengths of the contents that are encrypted

ASSUME LengthsAssumption == TextLengths \subseteq Nat /\ PlainLengths \subseteq Nat

VARIABLES draft,      \* the attestation that is meant
          call,       \* the instruction that is meant: its accounts and arguments
          sent,       \* the transaction
          account,    \* the compressed account that the program made
          outcome     \* what became of the transaction

vars == <<draft, call, sent, account, outcome>>

Nil == [status |-> "nil"]

-----------------------------------------------------------------------------
(* What a caller may give the builders                                      *)

Owner == <<"owner">>
Client == <<"client">>
Mint == <<"mint">>
SchemaName == <<"FeedbackV1">>
AgentAta == Ata(Owner, Token2022Program, Mint)

AccountsOf(ix) ==
    CASE ix = "closeCompressedAttestation"  -> CloseCompressedAccounts
      [] ix = "closeRegularAttestation"     -> CloseRegularAccounts
      [] ix = "createCompressedAttestation" -> CreateCompressedAccounts
      [] ix = "createRegularAttestation"    -> CreateRegularAccounts
      [] ix = "initialize"                  -> InitializeAccounts
      [] ix = "linkEvmAddress"              -> LinkEvmAccounts
      [] ix = "registerAgent"               -> RegisterAgentAccounts
      [] ix = "registerSchemaConfig"        -> RegisterSchemaConfigAccounts
      [] ix = "updateRegistryAuthority"     -> UpdateAuthorityAccounts

Required(ix, style) ==
    CASE ix = "closeCompressedAttestation" ->
            IF style = "async" THEN CloseCompressedAsyncInput ELSE CloseCompressedInput
      [] ix = "closeRegularAttestation" ->
            IF style = "async" THEN CloseRegularAsyncInput ELSE CloseRegularInput
      [] ix = "createCompressedAttestation" ->
            IF style = "async" THEN CreateCompressedAsyncInput ELSE CreateCompressedInput
      [] ix = "createRegularAttestation" ->
            IF style = "async" THEN CreateRegularAsyncInput ELSE CreateRegularInput
      [] ix = "initialize" -> IF style = "async" THEN InitializeAsyncInput ELSE InitializeInput
      [] ix = "linkEvmAddress" -> IF style = "async" THEN LinkEvmAsyncInput ELSE LinkEvmInput
      [] ix = "registerAgent" -> IF style = "async" THEN RegisterAgentAsyncInput ELSE RegisterAgentInput
      [] ix = "registerSchemaConfig" ->
            IF style = "async" THEN RegisterSchemaConfigAsyncInput ELSE RegisterSchemaConfigInput
      [] ix = "updateRegistryAuthority" ->
            IF style = "async" THEN UpdateAuthorityAsyncInput ELSE UpdateAuthorityInput

Built(ix, style, given, args) ==
    LET p == SATI_PROGRAM_ADDRESS
        Of(async, sync) == IF style = "async" THEN async ELSE sync
    IN  CASE ix = "closeCompressedAttestation" ->
                Of(GetCloseCompressedAsync(given, args, p), GetCloseCompressed(given, args, p))
          [] ix = "closeRegularAttestation" ->
                Of(GetCloseRegularAsync(given, args, p), GetCloseRegular(given, args, p))
          [] ix = "createCompressedAttestation" ->
                Of(GetCreateCompressedAsync(given, args, p), GetCreateCompressed(given, args, p))
          [] ix = "createRegularAttestation" ->
                Of(GetCreateRegularAsync(given, args, p), GetCreateRegular(given, args, p))
          [] ix = "initialize" -> Of(GetInitializeAsync(given, args, p), GetInitialize(given, args, p))
          [] ix = "linkEvmAddress" -> Of(GetLinkEvmAsync(given, args, p), GetLinkEvm(given, args, p))
          [] ix = "registerAgent" ->
                Of(GetRegisterAgentAsync(given, args, p), GetRegisterAgent(given, args, p))
          [] ix = "registerSchemaConfig" ->
                Of(GetRegisterSchemaConfigAsync(given, args, p), GetRegisterSchemaConfig(given, args, p))
          [] ix = "updateRegistryAuthority" ->
                Of(GetUpdateAuthorityAsync(given, args, p), GetUpdateAuthority(given, args, p))

\* The address a caller who knows the program gives for an account, as a signer where
\* the type of the input asks for one.
Signers(ix) ==
    CASE ix \in {"initialize", "updateRegistryAuthority"} -> {"authority"}
      [] ix = "registerAgent" -> {"payer", "agentMint"}
      [] ix = "linkEvmAddress" -> {"owner"}
      [] ix = "registerSchemaConfig" -> {"payer", "authority"}
      [] ix \in {"createCompressedAttestation", "createRegularAttestation"} -> {"payer"}
      [] ix = "closeCompressedAttestation" -> {"signer"}
      [] ix = "closeRegularAttestation" -> {"payer", "signer"}
Known ==
    [authority |-> RegistryAuthority, owner |-> Owner, agentMint |-> Mint, groupMint |-> GroupMint,
     registryConfig |-> RegistryConfigPda, agentTokenAccount |-> AgentAta, ata |-> AgentAta,
     agentAta |-> AgentAta, agentIndex |-> Pda(SATI_PROGRAM_ADDRESS, <<"agent_index", ToString(TotalAgents + 1)>>),
     tokenProgram |-> Token2022Program, program |-> SATI_PROGRAM_ADDRESS,
     eventAuthority |-> Pda(SATI_PROGRAM_ADDRESS, <<"__event_authority">>),
     schemaConfig |-> SchemaConfigPda, satiPda |-> SatiAttestationPda, clock |-> ClockSysvar]
Value(ix, name) ==
    LET address == IF name \in DOMAIN Known THEN Known[name] ELSE <<name>>
    IN  IF name \in Signers(ix) THEN Signer(address) ELSE Plain(address)

\* What may be given besides: the optional accounts, and a token program.
Extras(ix) ==
    {AccountsOf(ix)[i].name : i \in {j \in DOMAIN AccountsOf(ix) : AccountsOf(ix)[j].optional}}
    \cup (IF ix = "linkEvmAddress" THEN {"tokenProgram"} ELSE {})
Given(ix, style, extras) == [n \in Required(ix, style) \cup extras |-> Value(ix, n)]

Maybe1(x) == {<<>>, <<x>>}
Proof == [a |-> <<"a">>, b |-> <<"b">>, c |-> <<"c">>]
Entries(n) == [i \in 1..n |-> [key |-> <<"key", ToString(i)>>, value |-> <<"value", ToString(i)>>]]
NoArgs == [none \in {} |-> Garbage]
AddressTreeInfo == [addressMerkleTreePubkeyIndex |-> Number(7), addressQueuePubkeyIndex |-> Number(8),
                    rootIndex |-> <<"rootIndex">>]
AccountMeta ==
    [treeInfo |-> [rootIndex |-> <<"rootIndex">>, proveByIndex |-> <<"true">>,
                   merkleTreePubkeyIndex |-> Number(5), queuePubkeyIndex |-> Number(6),
                   leafIndex |-> <<"leafIndex">>],
     address |-> <<"compressed">>, outputStateTreeIndex |-> Number(9)]

\* Data of the universal layout, whole and damaged.
Laid(version, outc, contentType, length) ==
    <<Number(version)>> \o addressToBytes(<<"task">>) \o addressToBytes(Mint) \o addressToBytes(Client)
    \o <<Number(outc)>> \o addressToBytes(<<"hash">>) \o <<Number(contentType)>>
    \o [i \in 1..length |-> <<"x">>]
Datas == {SubSeq(Laid(1, 0, 0, 0), 1, 130), Laid(1, 2, 15, 512), Laid(1, 2, 2, 513), Laid(2, 2, 2, 4),
          Laid(1, 3, 2, 4), Laid(1, 1, 16, 4), Laid(1, 0, 2, 4)}

ArgsOf(ix) ==
    CASE ix \in {"initialize", "closeRegularAttestation"} -> {NoArgs}
      [] ix = "registerAgent" ->
            [name : {<<"name">>}, symbol : {<<"symbol">>}, uri : {<<"uri">>},
             additionalMetadata : {<<>>} \cup {<<Entries(n)>> : n \in 0..2},
             nonTransferable : {<<"false">>, <<"true">>}]
      [] ix = "updateRegistryAuthority" -> [newAuthority : Maybe1(<<"newAuthority">>)]
      [] ix = "linkEvmAddress" ->
            [evmAddress : {<<"evm">>}, chainId : {<<"chain">>},
             signature : {EvmSignature(wallet, computeEvmLinkHash(Mint, <<"evm">>, <<"chain">>)) :
                            wallet \in {<<"evm">>, <<"another">>}},
             recoveryId : {Number(0), Number(1)}]
      [] ix = "registerSchemaConfig" ->
            [sasSchema : {SasSchema}, signatureMode : {Number(n) : n \in 0..2},
             storageType : {Number(n) : n \in 0..1}, delegationSchema : Maybe1(<<"delegationSchema">>),
             closeable : {<<"false">>, <<"true">>}, name : {<<"name">>}]
      [] ix = "createCompressedAttestation" ->
            [data : Datas, outputStateTreeIndex : {Number(9)}, proof : Maybe1(Proof),
             addressTreeInfo : {AddressTreeInfo}]
      [] ix = "createRegularAttestation" -> [data : Datas, expiry : {<<"expiry">>}]
      [] ix = "closeCompressedAttestation" ->
            [currentData : {Laid(1, 0, 2, 4)}, numSignatures : {Number(2)}, signature1 : {<<"sig1">>},
             signature2 : {<<"sig2">>}, address : {<<"closed">>}, proof : Maybe1(Proof),
             accountMeta : {AccountMeta}]

-----------------------------------------------------------------------------
(* Sending                                                                  *)

Send(ix, style, given, args, remaining, signatures) ==
    LET built == Built(ix, style, given, args)
    IN  /\ call' = [ix |-> ix, style |-> style, given |-> given, args |-> args]
        /\ sent' = [signatures |-> signatures,
                    instruction |-> [built EXCEPT !.accounts = @ \o remaining]]

\* A caller of the generated client.
CallInstruction(ix, style) ==
    /\ call = Nil
    /\ \E extras \in SUBSET Extras(ix), args \in ArgsOf(ix) :
          Send(ix, style, Given(ix, style, extras), args, <<>>, <<>>)
    /\ UNCHANGED <<draft, account, outcome>>

\* The attestations there are to make: every kind of content for every mode and party,
\* every outcome with every mode and with a hash of zeros.
TextOf(n) == [i \in 1..n |-> <<"text", ToString(i)>>]
Payload(n) == serializeEncryptedPayload(encryptContent(TextOf(n), deriveEncryptionPublicKey(Owner)))
Written(type, content) == [contentType |-> type, content |-> content]
Writings ==
    {Written(UTF8, TextOf(n)) : n \in TextLengths}
    \cup {Written(type, TextOf(3)) : type \in {None, JSON, IPFS, Arweave, 7}}
    \cup {Written(Encrypted, Payload(n)) : n \in {k \in PlainLengths : Encryptable(TextOf(k))}}
    \cup {Written(type, ByteOrderMark \o TextOf(2)) : type \in {JSON, UTF8}}
    \cup {Written(UTF8, TextOf(2) \o <<NotUtf8>>)}
Draft(mode, party, outc, hash, written) ==
    [mode |-> mode, counterparty |-> party, outcome |-> outc, dataHash |-> hash,
     taskRef |-> addressToBytes(<<"task">>), tokenAccount |-> Mint,
     contentType |-> written.contentType, content |-> written.content]
Modes == {DualSignature, CounterpartySigned, AgentOwnerSigned}
Drafts ==
    {Draft(mode, party, 2, addressToBytes(<<"hash">>), w) : mode \in Modes, party \in {Client, Owner}, w \in Writings}
    \cup {Draft(mode, Client, outc, Zeros(32), Written(UTF8, TextOf(3))) : mode \in Modes, outc \in 0..2}
    \cup {Draft(DualSignature, Mint, 2, addressToBytes(<<"hash">>), Written(UTF8, TextOf(3)))}

\* Whose signature goes first, as createFeedback's agentSignature: the counterparty's
\* where it is the only one that signs.
FirstSigner(d) == IF d.mode = CounterpartySigned THEN d.counterparty ELSE Owner
Ed25519Signature(signer) == [i \in 1..64 |-> <<"signature">> \o signer \o Number(i)]
Entry(signer, message) ==
    [publicKey |-> addressToBytes(signer), message |-> message, signature |-> Ed25519Signature(signer)]
Ed25519Entries(d, data) ==
    LET interactionHash == computeInteractionHash(SasSchema, d.taskRef, d.dataHash)
        counterpartyMessage == buildCounterpartyMessage(SchemaName, data)
    IN  CASE d.mode = DualSignature ->
                <<Entry(Owner, interactionHash), Entry(d.counterparty, counterpartyMessage)>>
          [] d.mode = CounterpartySigned -> <<Entry(d.counterparty, counterpartyMessage)>>
          [] d.mode = AgentOwnerSigned -> <<Entry(Owner, interactionHash)>>

\* The signature modes createFeedback knows: with a counterparty's signature, and without.
FitsMode(d) ==
    validateContentSize(d.content, IF d.mode = DualSignature THEN DualSignature ELSE CounterpartySigned)

\* What the indexer answers to the light client's request for a proof.
CreationProof == [compressedProof |-> <<Proof>>, rootIndices |-> <<3>>, leafIndices |-> <<0>>]
RoleOf(meta) ==
    LET isSigner == meta.role \in {READONLY_SIGNER, WRITABLE_SIGNER}
        isWritable == meta.role \in {WRITABLE, WRITABLE_SIGNER}
    IN  Meta(meta.address, IF isWritable THEN (IF isSigner THEN 3 ELSE 1) ELSE IF isSigner THEN 2 ELSE 0)
Remaining(metas) == [i \in DOMAIN metas |-> RoleOf(metas[i])]

\* One instruction carries all the signatures, or each of them has its own.
CreateFeedback(d, batched) ==
    LET data == serializeUniversalLayout(d)
        entries == Ed25519Entries(d, data)
        prepared == prepareCreate(AttestationSeeds(d, SasSchema), SATI_PROGRAM_ADDRESS, CreationProof)
        given == [payer |-> Signer(<<"payer">>), schemaConfig |-> Plain(SchemaConfigPda),
                  agentAta |-> Plain(Ata(FirstSigner(d), Token2022Program, d.tokenAccount)),
                  tokenProgram |-> Plain(Token2022Program), program |-> Plain(SATI_PROGRAM_ADDRESS)]
    IN  /\ call = Nil
        /\ FitsMode(d)
        /\ draft' = d
        /\ Send("createCompressedAttestation", "async", given,
                [data |-> data, outputStateTreeIndex |-> prepared.outputStateTreeIndex,
                 proof |-> <<prepared.proof>>, addressTreeInfo |-> prepared.addressTreeInfo],
                Remaining(prepared.remainingAccounts),
                IF batched THEN <<createBatchEd25519Instruction(entries)>>
                ELSE [i \in DOMAIN entries |-> createEd25519Instruction(entries[i])])
        /\ UNCHANGED <<account, outcome>>

-----------------------------------------------------------------------------
(* The program                                                              *)

Rejected == [status |-> "rejected"]     \* by Anchor, before the handler
Refused == [status |-> "refused"]       \* by the handler
AdmittedOnly == [status |-> "admitted"] \* the handler is another module's
Threw == [status |-> "threw"]           \* in the SDK, and nothing was sent
Wrote(state, event) == [status |-> "written", state |-> state, event |-> event]
NoState == <<>>

\* The token accounts there are, by their addresses; one that is not there makes Anchor
\* reject the instruction.
TokenAccountOwner(ata) == IF ata = AgentAta THEN Owner ELSE Absent
CanLoad(accounts) ==
    "agentAta" \in DOMAIN accounts =>
        accounts.agentAta = Absent \/ TokenAccountOwner(accounts.agentAta) # Absent

Got == Received(call.ix, sent.instruction)
Enters(instructions) ==
    /\ sent # Nil /\ outcome = Nil /\ call.ix \in instructions
    /\ Admitted(call.ix, sent.instruction) /\ CanLoad(Got.accounts)

Reject ==
    /\ sent # Nil /\ outcome = Nil
    /\ ~Admitted(call.ix, sent.instruction) \/ ~CanLoad(Got.accounts)
    /\ outcome' = Rejected
    /\ UNCHANGED <<draft, call, sent, account>>

\* What the instructions of the registry write.
Effect(ix, got) ==
    CASE ix = "initialize" -> Wrote(RegistryConfigState(got), RegistryInitializedEvent(got))
      [] ix = "registerAgent" -> Wrote(AgentIndexState(got), AgentRegisteredEvent(got))
      [] ix = "updateRegistryAuthority" ->
            Wrote(RegistryConfigAfter(got.args.newAuthority), RegistryAuthorityUpdatedEvent(got))
      [] ix = "registerSchemaConfig" -> Wrote(SchemaConfigState(got), SchemaConfigRegisteredEvent(got))

ExecuteRegistry ==
    /\ Enters({"initialize", "registerAgent", "updateRegistryAuthority", "registerSchemaConfig"})
    /\ outcome' = Effect(call.ix, Got)
    /\ UNCHANGED <<draft, call, sent, account>>

ExecuteLinkEvm ==
    LET args == Got.args
        hash == compute_evm_link_hash(Got.accounts.agentMint, args.evmAddress, args.chainId)
    IN  /\ Enters({"linkEvmAddress"})
        /\ outcome' = IF verify_secp256k1_signature(hash, args.signature, args.recoveryId, args.evmAddress)
                      THEN Wrote(NoState, EvmAddressLinkedEvent(Got)) ELSE Refused
        /\ UNCHANGED <<draft, call, sent, account>>

\* Of an attestation that nobody signed, whether its data are looked at any further.
CheckData ==
    /\ Enters({"createCompressedAttestation", "createRegularAttestation"}) /\ draft = Nil
    /\ outcome' = IF validate_universal_base(Got.args.data) THEN AdmittedOnly ELSE Refused
    /\ UNCHANGED <<draft, call, sent, account>>

ExecuteClose ==
    /\ Enters({"closeCompressedAttestation", "closeRegularAttestation"})
    /\ outcome' = AdmittedOnly
    /\ UNCHANGED <<draft, call, sent, account>>

\* create_compressed_attestation, of a schema with the draft's mode.
ExecuteCreate ==
    LET data == Got.args.data
        token_account == bytesToAddress(Slice(data, ProgramOffsets.TOKEN_ACCOUNT, ProgramOffsets.COUNTERPARTY))
        counterparty == bytesToAddress(Slice(data, ProgramOffsets.COUNTERPARTY, ProgramOffsets.OUTCOME))
        owner == TokenAccountOwner(Got.accounts.agentAta)
        signatures == extract_ed25519_signatures(sent.signatures, owner, counterparty, draft.mode,
                        build_expected_messages(SasSchema, SchemaName, draft.mode, data))
        address_tree == TreeAt(Got.remaining, Got.args.addressTreeInfo.addressMerkleTreePubkeyIndex).address
        address == derive_address(Slice(data, ProgramOffsets.TASK_REF, ProgramOffsets.TOKEN_ACCOUNT),
                                  SasSchema, token_account, counterparty, address_tree)
        accepted == /\ validate_universal_base(data)
                    /\ token_account # counterparty
                    /\ signatures # <<>>
                    /\ draft.mode = AgentOwnerSigned => signatures[1].pubkey = owner
    IN  /\ Enters({"createCompressedAttestation"}) /\ draft # Nil
        /\ IF accepted
           THEN /\ account' = [address |-> address,
                               tree |-> TreeAt(Got.remaining, Got.args.outputStateTreeIndex).address,
                               data |-> CompressedAttestation(SasSchema, token_account, data, signatures)]
                /\ outcome' = Wrote(NoState, AttestationCreatedEvent(SasSchema, token_account, counterparty,
                                                                     Number(0), Spell(address)))
           ELSE outcome' = Refused /\ UNCHANGED account
        /\ UNCHANGED <<draft, call, sent>>

-----------------------------------------------------------------------------
(* The account, as the indexer returns it, and the instruction that would     *)
(* close it                                                                 *)

Leaf == 5
RawAccount ==
    [owner |-> SATI_PROGRAM_ADDRESS, address |-> account.address, hash |-> account.address,
     data |-> <<[discriminator |-> Zeros(8), data |-> account.data, dataHash |-> account.address]>>,
     tree |-> <<account.tree>>, merkleContext |-> <<TreeInfo(account.tree, NULLIFIER_QUEUE_PUBKEY)>>,
     leafIndex |-> Leaf, proveByIndex |-> <<>>]
MutationProof(version) ==
    parseValidityProof(
        IF version = V2
        THEN [compressedProof |-> <<Proof>>, accounts |-> <<[rootIndex |-> 4, leafIndex |-> Leaf]>>,
              addresses |-> <<>>]
        ELSE [compressedProof |-> <<Proof>>, accounts |-> <<>>, addresses |-> <<>>,
              rootIndices |-> <<4>>, leafIndices |-> <<Leaf>>])

SendClose(version) ==
    LET parsed == parseCompressedAccount(version, RawAccount)
        attestation == getAttestationByAddress(parsed)
        mutation == getMutationProof(parsed, SATI_PROGRAM_ADDRESS, MutationProof(version))
        given == [signer |-> Signer(draft.counterparty), schemaConfig |-> Plain(SchemaConfigPda),
                  program |-> Plain(SATI_PROGRAM_ADDRESS)]
        accountMeta == [treeInfo |-> mutation.stateTreeInfo ++ [proveByIndex |-> <<"true">>],
                        address |-> Spell(parsed.address),
                        outputStateTreeIndex |-> mutation.outputStateTreeIndex]
    IN  /\ Send("closeCompressedAttestation", "async", given,
                [currentData |-> attestation.data, numSignatures |-> Number(attestation.numSignatures),
                 signature1 |-> Spell(attestation.signature1), signature2 |-> Spell(attestation.signature2),
                 address |-> Spell(parsed.address), proof |-> <<mutation.proof>>,
                 accountMeta |-> accountMeta],
                Remaining(mutation.remainingAccounts), <<>>)
        /\ outcome' = Nil
        /\ UNCHANGED <<draft, account>>

\* The client compares the signer with the bytes from 64, one before the counterparty's.
CloseCompressedAttestation(version) ==
    /\ account # Nil /\ call.ix = "createCompressedAttestation" /\ outcome # Nil
    /\ LET attestation == getAttestationByAddress(parseCompressedAccount(version, RawAccount))
       IN  IF Slice(attestation.data, 64, 96) = addressToBytes(draft.counterparty)
           THEN SendClose(version)
           ELSE outcome' = Threw /\ UNCHANGED <<draft, call, sent, account>>

\* A caller who puts the same together from the light client and the builder.
CloseByHand(version) ==
    /\ account # Nil /\ call.ix = "createCompressedAttestation" /\ outcome # Nil
    /\ SendClose(version)

Return ==
    /\ outcome # Nil
    /\ draft' = Nil /\ call' = Nil /\ sent' = Nil /\ account' = Nil /\ outcome' = Nil

Init == draft = Nil /\ call = Nil /\ sent = Nil /\ account = Nil /\ outcome = Nil

Next ==
    \/ \E ix \in Instructions, style \in {"async", "sync"} : CallInstruction(ix, style)
    \/ \E d \in Drafts, batched \in BOOLEAN : CreateFeedback(d, batched)
    \/ Reject
    \/ ExecuteRegistry
    \/ ExecuteLinkEvm
    \/ CheckData
    \/ ExecuteClose
    \/ ExecuteCreate
    \/ \E version \in {V1, V2} : CloseCompressedAttestation(version)
    \/ \E version \in {V1, V2} : CloseByHand(version)
    \/ Return

Spec == Init /\ [][Next]_vars

-----------------------------------------------------------------------------
(* Properties                                                               *)

\* What stands in for an optional account the caller left out.
LeftOut(name) == IF name = "clock" THEN ClockSysvar ELSE Absent

\* The handler gets each account in the field the caller named it for, whichever builder
\* was used and whatever was left out, and the arguments the caller gave: the generated
\* order of accounts and fields is that of the Accounts structs and the parameters.
ArrivesAsMeant ==
    sent # Nil =>
        /\ \A name \in DOMAIN Got.accounts :
              /\ name \in DOMAIN call.given => Got.accounts[name] = call.given[name].address
              /\ name \in Extras(call.ix) \ DOMAIN call.given /\ name # "tokenProgram"
                    => Got.accounts[name] = LeftOut(name)
        /\ DOMAIN call.given \subseteq DOMAIN Got.accounts
        /\ Got.args = call.args

\* Anchor turns back only a link to an EVM address for which no token program was given,
\* and an attestation whose first signer holds no token of the agent: every other default
\* the builders derive (seeds, system accounts, privileges) is what the program demands.
RejectedForCause ==
    outcome = Rejected =>
        \/ call.ix = "linkEvmAddress" /\ "tokenProgram" \notin DOMAIN call.given
        \/ draft # Nil /\ FirstSigner(draft) # Owner

\* Text that TextDecoder does not give back as it is.
Altered(content) == TextDecode(content) # content
Unsound ==
    IF draft # Nil
    THEN \/ draft.tokenAccount = draft.counterparty
         \/ draft.mode = DualSignature /\ draft.counterparty = Owner
         \/ /\ draft.mode # AgentOwnerSigned
            /\ draft.contentType \in {JSON, UTF8} /\ Altered(draft.content)
            \* the display of text that is not UTF-8 is its length
    ELSE IF call.ix = "linkEvmAddress"
    THEN call.args.signature # EvmSignature(<<"evm">>, computeEvmLinkHash(Mint, <<"evm">>, <<"chain">>))
         \/ call.args.recoveryId # Number(0)
    ELSE call.ix \in {"createCompressedAttestation", "createRegularAttestation"}
         /\ ~validateBaseLayout(call.args.data)

\* A handler refuses what the SDK laid out, hashed, signed and packed for exactly these
\* causes: one key in two roles, text that the two sides display differently, a wrong
\* Ethereum signature, or data that the SDK's own check would have stopped.
RefusedForCause ==
    sent # Nil /\ outcome # Nil /\ outcome.status \in {"refused", "admitted", "written"} =>
        (outcome = Refused <=> Unsound)

\* The fields of accounts and events, as what was sent determines them.
ConfigMeant(groupMint, authority, total) ==
    [discriminator |-> <<"RegistryConfig">>, groupMint |-> groupMint, authority |-> authority,
     totalAgents |-> Number(total), bump |-> Bump]
StateReads(given, args, state) ==
    CASE call.ix = "initialize" ->
            /\ DecodeRegistryConfig(state) = ConfigMeant(given.groupMint.address, given.authority.address, 0)
            /\ IdentifySatiAccount(state) = "RegistryConfig"
      [] call.ix = "updateRegistryAuthority" ->
            DecodeRegistryConfig(state) = ConfigMeant(GroupMint,
                IF args.newAuthority = <<>> THEN RenouncedAuthority ELSE args.newAuthority[1], TotalAgents)
      [] call.ix = "registerAgent" ->
            /\ DecodeAgentIndex(state) = [discriminator |-> <<"AgentIndex">>, bump |-> Bump,
                                          mint |-> given.agentMint.address]
            /\ IdentifySatiAccount(state) = "AgentIndex"
      [] call.ix = "registerSchemaConfig" ->
            /\ DecodeSchemaConfig(state) = [discriminator |-> <<"SchemaConfig">>, bump |-> Bump] ++ args
            /\ IdentifySatiAccount(state) = "SchemaConfig"
      [] OTHER -> state = NoState
EventReads(given, args, event) ==
    CASE call.ix = "initialize" ->
            Decode(RegistryInitialized, event).value =
                [authority |-> given.authority.address, groupMint |-> given.groupMint.address]
      [] call.ix = "updateRegistryAuthority" ->
            Decode(RegistryAuthorityUpdated, event).value =
                [oldAuthority |-> given.authority.address, newAuthority |-> args.newAuthority]
      [] call.ix = "registerAgent" ->
            Decode(AgentRegistered, event).value =
                [mint |-> given.agentMint.address, owner |-> given.owner.address,
                 memberNumber |-> Number(TotalAgents + 1), name |-> args.name, uri |-> args.uri,
                 nonTransferable |-> args.nonTransferable]
      [] call.ix = "registerSchemaConfig" ->
            Decode(SchemaConfigRegistered, event).value =
                [schema |-> args.sasSchema, signatureMode |-> args.signatureMode,
                 storageType |-> args.storageType, delegationSchema |-> args.delegationSchema,
                 closeable |-> args.closeable, name |-> args.name]
      [] call.ix = "linkEvmAddress" ->
            Decode(EvmAddressLinked, event).value =
                [agentMint |-> given.agentMint.address, evmAddress |-> args.evmAddress,
                 chainId |-> args.chainId, linkedAt |-> Now]
      [] call.ix = "createCompressedAttestation" ->
            Decode(AttestationCreated, event).value =
                [sasSchema |-> SasSchema, tokenAccount |-> draft.tokenAccount,
                 counterparty |-> draft.counterparty, storageType |-> Number(0),
                 address |-> Spell(account.address)]

\* identifySatiInstruction and the parsers, an account that was left out included.
InstructionReads ==
    LET parsed == ParsedSatiInstruction(sent.instruction)
    IN  /\ IdentifySatiInstruction(sent.instruction) = call.ix
        /\ parsed.args = [discriminator |-> <<call.ix>>] ++ call.args
        /\ \A name \in DOMAIN call.given \ {"program"} :
              parsed.accounts[name].address = call.given[name].address
        /\ \A name \in Extras(call.ix) \ (DOMAIN call.given \cup {"clock", "tokenProgram"}) :
              name \notin DOMAIN parsed.accounts

\* The SDK reads out of instructions, accounts and events, by the parsers and codecs of
\* instructions/, accounts/ and types/, what the caller gave and made the program write.
ReadsWhatWasWritten ==
    /\ sent # Nil => InstructionReads
    /\ outcome # Nil /\ outcome.status = "written" =>
          /\ StateReads(call.given, call.args, outcome.state)
          /\ EventReads(call.given, call.args, outcome.event)

Parsed(version) == getAttestationByAddress(parseCompressedAccount(version, RawAccount))

\* Encrypted content opens with the key derived from the reader's wallet, and with nobody
\* else's.
ReaderDecrypts(attestation) ==
    LET payload == deserializeEncryptedPayload(deserializeUniversalLayout(attestation.data).content)
        openedBy(wallet) == decryptContent(payload, deriveEncryptionKeypair(wallet).privateKey)
    IN  /\ openedBy(Owner) = TextOf(Len(draft.content) - MIN_ENCRYPTED_SIZE)
        /\ openedBy(Client) = Undecryptable

\* An attestation comes back from the indexer as it was drafted: every field of the
\* layout, the signatures in the order of their roles, not of the instructions, and an
\* encrypted content for its reader alone.
StoredIsMeant ==
    account # Nil =>
        \A version \in {V1, V2} :
            LET attestation == Parsed(version)
                entries == Ed25519Entries(draft, serializeUniversalLayout(draft))
            IN  /\ attestation.sasSchema = SasSchema
                /\ attestation.tokenAccount = draft.tokenAccount
                /\ deserializeUniversalLayout(attestation.data) =
                      [f \in DOMAIN draft \ {"mode"} |-> draft[f]]
                /\ attestation.numSignatures = Len(entries)
                /\ attestation.signature1 = entries[1].signature
                /\ attestation.signature2 = IF Len(entries) = 2 THEN entries[2].signature ELSE Zeros(64)
                /\ draft.contentType = Encrypted => ReaderDecrypts(attestation)

\* The address the SDK announces before it sends (deriveAttestationAddress), and has proved
\* to be new, is the one the program derives, in the address tree the indexes point at;
\* the attestation goes to the state tree.
AddressIsForetold ==
    account # Nil =>
        /\ account.address = deriveAttestationAddress(AttestationSeeds(draft, SasSchema), SATI_PROGRAM_ADDRESS)
        /\ CreationRequest(AttestationSeeds(draft, SasSchema), SATI_PROGRAM_ADDRESS).newAddressesWithTrees =
              <<[address |-> account.address, tree |-> ADDRESS_TREE]>>
        /\ account.tree = MERKLE_TREE_PUBKEY

\* A close names, by its packed indexes, the tree and the leaf the attestation lies in, has
\* that leaf proved, and passes the data and address that were stored (getMutationProof).
ClosesWhatIsStored ==
    account # Nil /\ call.ix = "closeCompressedAttestation" =>
        LET info == Got.args.accountMeta.treeInfo
        IN  /\ TreeAt(Got.remaining, info.merkleTreePubkeyIndex) = Meta(account.tree, WRITABLE)
            /\ TreeAt(Got.remaining, info.queuePubkeyIndex) \in
                  {Meta(NULLIFIER_QUEUE_PUBKEY, WRITABLE), Meta(account.tree, WRITABLE)}
            /\ TreeAt(Got.remaining, Got.args.accountMeta.outputStateTreeIndex) = Meta(MERKLE_TREE_PUBKEY, WRITABLE)
            /\ info.leafIndex = Number(Leaf) /\ info.rootIndex = Number(4)
            /\ Got.args.accountMeta.address = Spell(account.address)
            /\ Got.args.currentData = serializeUniversalLayout(draft)
        /\ \A version \in {V1, V2} :
              MutationRequest(parseCompressedAccount(version, RawAccount)).hashes = <<RawAccount.hash>>

\* With the deployment's lookup table a transaction spells out only the payer, the token
\* account of an agent that is not in the table, and the clock.
TableCovers ==
    draft # Nil /\ sent # Nil /\ call.ix = "createCompressedAttestation" =>
        LET table == getLookupTableAddresses(SATI_PROGRAM_ADDRESS, <<SasSchema>>, <<[owner |-> Owner, mint |-> Mint]>>)
            named == {sent.instruction.accounts[i].address : i \in DOMAIN sent.instruction.accounts}
        IN  named \ ToSet(table) \subseteq
                {call.given.payer.address, ClockSysvar}
                \cup (IF FirstSigner(draft) = Owner THEN {} ELSE {call.given.agentAta.address})

\* linkEvmAddress gives the builder the owner's account under Token-2022 and no token
\* program; the parameter is documented as the "Token-2022 program for ATA verification".
\* Violated: the default is the older program, whose account this is not.
OwnerMayLink ==
    outcome # Nil /\ call.ix = "linkEvmAddress" /\ call.style = "sync" => outcome # Rejected

\* The program's message "Must match the SDK's buildCounterpartyMessage() exactly".
\* Violated by text with a byte order mark, which TextDecoder drops, and by text that is
\* not UTF-8.
MessagesAgree ==
    draft # Nil /\ sent # Nil /\ call.ix = "createCompressedAttestation" =>
        buildCounterpartyMessage(SchemaName, call.args.data) = build_siws_message(SchemaName, call.args.data)
=============================================================================
