------------------------- MODULE SatiProgramInterface -------------------------
(***************************************************************************)
(* What the on-chain program expects of an instruction and what it writes:   *)
(* the Accounts structs and their constraints, the parameters of the         *)
(* handlers, the accounts they create and the events they emit, as Anchor    *)
(* and Borsh read and write them.  Only the wire is here; what the handlers  *)
(* decide is in SatiRegistry and SatiAttestation.                           *)
(***************************************************************************)
EXTENDS SatiInstructions

\* A field of an Accounts struct.
Field(name, signer, mut, option) ==
    [name |-> name, signer |-> signer, mut |-> mut, option |-> option]
Info(name) == Field(name, FALSE, FALSE, FALSE)
Mut(name) == Field(name, FALSE, TRUE, FALSE)
Sig(name) == Field(name, TRUE, FALSE, FALSE)
MutSig(name) == Field(name, TRUE, TRUE, FALSE)
Maybe(name) == Field(name, FALSE, FALSE, TRUE)

\* #[event_cpi] appends these to the struct.
EventCpi == <<Info("eventAuthority"), Info("program")>>

InitializeStruct == <<MutSig("authority"), Mut("registryConfig"), Mut("groupMint"), Info("systemProgram")>>
RegisterAgentStruct ==
    <<MutSig("payer"), Info("owner"), Mut("registryConfig"), Mut("groupMint"), MutSig("agentMint"),
      Mut("agentTokenAccount"), Info("token2022Program"), Mut("agentIndex"),
      Info("associatedTokenProgram"), Info("systemProgram")>>
UpdateAuthorityStruct == <<Sig("authority"), Mut("registryConfig")>>
LinkEvmStruct == <<Sig("owner"), Info("agentMint"), Info("ata"), Info("tokenProgram")>>
RegisterSchemaConfigStruct ==
    <<MutSig("payer"), Info("registryConfig"), Sig("authority"), Mut("schemaConfig"), Info("systemProgram")>>
CreateCompressedStruct ==
    <<MutSig("payer"), Info("schemaConfig"), Info("instructionsSysvar"), Maybe("agentAta"),
      Maybe("tokenProgram"), Maybe("delegationAttestation"), Maybe("satiCredential"),
      Maybe("clock")>> \o EventCpi
CreateRegularStruct ==
    <<MutSig("payer"), Info("schemaConfig"), Info("satiPda"), Info("satiCredential"),
      Info("sasSchema"), Mut("attestation"), Info("instructionsSysvar"), Maybe("agentAta"),
      Maybe("tokenProgram"), Maybe("delegationAttestation"), Maybe("clock"), Info("sasProgram"),
      Info("systemProgram")>> \o EventCpi
CloseCompressedStruct ==
    <<MutSig("signer"), Info("schemaConfig"), Maybe("agentAta"), Maybe("tokenProgram")>> \o EventCpi
CloseRegularStruct ==
    <<MutSig("payer"), Sig("signer"), Info("schemaConfig"), Info("satiPda"), Info("satiCredential"),
      Mut("attestation"), Info("sasProgram"), Maybe("agentAta"), Maybe("tokenProgram")>> \o EventCpi

Structs ==
    [initialize |-> InitializeStruct, registerAgent |-> RegisterAgentStruct,
     updateRegistryAuthority |-> UpdateAuthorityStruct, linkEvmAddress |-> LinkEvmStruct,
     registerSchemaConfig |-> RegisterSchemaConfigStruct,
     createCompressedAttestation |-> CreateCompressedStruct,
     createRegularAttestation |-> CreateRegularStruct,
     closeCompressedAttestation |-> CloseCompressedStruct,
     closeRegularAttestation |-> CloseRegularStruct]

\* The handlers' parameters, in order.
RegisterAgentParams ==
    << <<"name", Text>>, <<"symbol", Text>>, <<"uri", Text>>,
       <<"additionalMetadata", Option(Vector(Struct(<< <<"key", Text>>, <<"value", Text>> >>)))>>,
       <<"nonTransferable", Bool>> >>
LinkEvmAddressParams ==
    << <<"evmAddress", FixedBytes(20)>>, <<"chainId", Text>>, <<"signature", FixedBytes(64)>>,
       <<"recoveryId", U8>> >>
RegisterSchemaConfigParams ==
    << <<"sasSchema", Pubkey>>, <<"signatureMode", U8>>, <<"storageType", U8>>,
       <<"delegationSchema", Option(Pubkey)>>, <<"closeable", Bool>>, <<"name", Text>> >>

\* Of the Light SDK (v1): Option<CompressedProof>, and packed indexes.
LightProof == Option(Struct(<< <<"a", FixedBytes(32)>>, <<"b", FixedBytes(64)>>, <<"c", FixedBytes(32)>> >>))
LightAddressTree == Struct(<< <<"addressMerkleTreePubkeyIndex", U8>>, <<"addressQueuePubkeyIndex", U8>>,
                              <<"rootIndex", U16>> >>)
LightAccountMeta ==
    Struct(<< <<"treeInfo", Struct(<< <<"rootIndex", U16>>, <<"proveByIndex", Bool>>,
                                      <<"merkleTreePubkeyIndex", U8>>, <<"queuePubkeyIndex", U8>>,
                                      <<"leafIndex", U32>> >>)>>,
              <<"address", FixedBytes(32)>>, <<"outputStateTreeIndex", U8>> >>)

CreateParams ==
    << <<"data", Sized>>, <<"outputStateTreeIndex", U8>>, <<"proof", LightProof>>,
       <<"addressTreeInfo", LightAddressTree>> >>
CreateRegularParams == << <<"data", Sized>>, <<"expiry", I64>> >>
CloseParams ==
    << <<"currentData", Sized>>, <<"numSignatures", U8>>, <<"signature1", FixedBytes(64)>>,
       <<"signature2", FixedBytes(64)>>, <<"address", Pubkey>>, <<"proof", LightProof>>,
       <<"accountMeta", LightAccountMeta>> >>

Params ==
    [initialize |-> <<>>, registerAgent |-> RegisterAgentParams,
     updateRegistryAuthority |-> << <<"newAuthority", Option(Pubkey)>> >>,
     linkEvmAddress |-> LinkEvmAddressParams, registerSchemaConfig |-> RegisterSchemaConfigParams,
     createCompressedAttestation |-> CreateParams, createRegularAttestation |-> CreateRegularParams,
     closeCompressedAttestation |-> CloseParams, closeRegularAttestation |-> <<>>]

-----------------------------------------------------------------------------
(* The chain the instructions meet: a registry of three agents, the schema    *)
(* configuration of one schema, and agents of Token-2022.                    *)

GroupMint == <<"groupMint">>
RegistryAuthority == <<"authority">>
TotalAgents == 3
SasSchema == <<"schema">>
RegistryConfigPda == Pda(SATI_PROGRAM_ADDRESS, <<"registry">>)
SchemaConfigPda == Pda(SATI_PROGRAM_ADDRESS, <<"schema_config">> \o SasSchema)
SatiAttestationPda == Pda(SATI_PROGRAM_ADDRESS, <<"sati_attestation">>)

Absent == <<"absent">>      \* None

\* The addresses that seeds, address, has_one and associated_token constraints and the
\* types Program, Sysvar and Interface demand.  An account that was left out has none.
Demanded ==
    [eventAuthority |-> {Pda(SATI_PROGRAM_ADDRESS, <<"__event_authority">>)},
     program |-> {SATI_PROGRAM_ADDRESS},
     systemProgram |-> {SystemProgram},
     instructionsSysvar |-> {InstructionsSysvar},
     sasProgram |-> {SasProgram},
     token2022Program |-> {Token2022Program},
     associatedTokenProgram |-> {AssociatedTokenProgram},
     registryConfig |-> {RegistryConfigPda},
     satiPda |-> {SatiAttestationPda},
     clock |-> {ClockSysvar, Absent},
     tokenProgram |-> {TokenProgram, Token2022Program, Absent}]

ConstraintsHold(ix, acc, args) ==
    /\ \A n \in DOMAIN acc \cap DOMAIN Demanded : acc[n] \in Demanded[n]
    /\ CASE ix = "registerAgent" ->
              /\ acc.groupMint = GroupMint
              /\ acc.agentIndex = Pda(SATI_PROGRAM_ADDRESS, <<"agent_index", ToString(TotalAgents + 1)>>)
              /\ acc.agentTokenAccount = Ata(acc.owner, Token2022Program, acc.agentMint)
         [] ix = "updateRegistryAuthority" -> acc.authority = RegistryAuthority
         [] ix = "registerSchemaConfig" ->
              /\ acc.authority = RegistryAuthority
              /\ acc.schemaConfig = Pda(SATI_PROGRAM_ADDRESS, <<"schema_config">> \o args.sasSchema)
         [] ix = "linkEvmAddress" ->
              \* the agent's token account belongs to Token-2022
              /\ acc.tokenProgram = Token2022Program
              /\ acc.ata = Ata(acc.owner, acc.tokenProgram, acc.agentMint)
         [] ix \in {"createCompressedAttestation", "createRegularAttestation",
                    "closeCompressedAttestation", "closeRegularAttestation"} ->
              acc.schemaConfig = SchemaConfigPda
         [] OTHER -> TRUE

\* A transaction grants an address the privileges of every place it is named in.
IsSigner(metas, a) ==
    \E i \in DOMAIN metas : metas[i].address = a /\ metas[i].role \in {READONLY_SIGNER, WRITABLE_SIGNER}
IsWritable(metas, a) ==
    \E i \in DOMAIN metas : metas[i].address = a /\ metas[i].role \in {WRITABLE, WRITABLE_SIGNER}

\* The program's own address in an optional field is None.
TakeAccounts(struct, metas) ==
    [n \in {struct[i].name : i \in DOMAIN struct} |->
        LET i == CHOOSE i \in DOMAIN struct : struct[i].name = n
        IN  IF struct[i].option /\ metas[i].address = SATI_PROGRAM_ADDRESS THEN Absent ELSE metas[i].address]

\* What the handler gets: its accounts, the accounts after them, and its parameters.
Received(ix, instruction) ==
    [accounts |-> TakeAccounts(Structs[ix], instruction.accounts),
     remaining |-> SubSeq(instruction.accounts, Len(Structs[ix]) + 1, Len(instruction.accounts)),
     args |-> Decode(Struct(Params[ix]), Tail(instruction.data)).value]

\* Anchor admits the instruction and calls the handler.
Admitted(ix, instruction) ==
    LET struct == Structs[ix] metas == instruction.accounts
        got == Received(ix, instruction)
    IN  /\ Head(instruction.data) = Cell(8, <<ix>>)
        /\ Len(metas) >= Len(struct)
        /\ \A i \in DOMAIN struct :
              /\ struct[i].signer => IsSigner(metas, metas[i].address)
              /\ struct[i].mut => IsWritable(metas, metas[i].address)
        /\ ConstraintsHold(ix, got.accounts, got.args)

-----------------------------------------------------------------------------
(* What the handlers write                                                  *)

Bump == <<"255">>
Now == <<"now">>

AgentIndexState(got) ==
    Encode(FixedBytes(8), <<"AgentIndex">>) \o Encode(Pubkey, got.accounts.agentMint) \o Encode(U8, Bump)
RegistryConfigState(got) ==
    Encode(FixedBytes(8), <<"RegistryConfig">>) \o Encode(Pubkey, got.accounts.groupMint)
    \o Encode(Pubkey, got.accounts.authority) \o Encode(U64, Number(0)) \o Encode(U8, Bump)
RenouncedAuthority == <<"default">>
RegistryConfigAfter(new_authority) ==
    Encode(FixedBytes(8), <<"RegistryConfig">>) \o Encode(Pubkey, GroupMint)
    \o Encode(Pubkey, IF new_authority = <<>> THEN RenouncedAuthority ELSE new_authority[1])
    \o Encode(U64, Number(TotalAgents)) \o Encode(U8, Bump)
SchemaConfigState(got) ==
    Encode(FixedBytes(8), <<"SchemaConfig">>) \o Encode(Pubkey, got.args.sasSchema)
    \o Encode(U8, got.args.signatureMode) \o Encode(U8, got.args.storageType)
    \o Encode(Option(Pubkey), got.args.delegationSchema) \o Encode(Bool, got.args.closeable)
    \o Encode(Text, got.args.name) \o Encode(U8, Bump)

AgentRegisteredEvent(got) ==
    Encode(Pubkey, got.accounts.agentMint) \o Encode(Pubkey, got.accounts.owner)
    \o Encode(U64, Number(TotalAgents + 1)) \o Encode(Text, got.args.name)
    \o Encode(Text, got.args.uri) \o Encode(Bool, got.args.nonTransferable)
RegistryInitializedEvent(got) ==
    Encode(Pubkey, got.accounts.authority) \o Encode(Pubkey, got.accounts.groupMint)
RegistryAuthorityUpdatedEvent(got) ==
    Encode(Pubkey, got.accounts.authority) \o Encode(Option(Pubkey), got.args.newAuthority)
EvmAddressLinkedEvent(got) ==
    Encode(Pubkey, got.accounts.agentMint) \o Encode(FixedBytes(20), got.args.evmAddress)
    \o Encode(Text, got.args.chainId) \o Encode(I64, Now)
AttestationCreatedEvent(sas_schema, token_account, counterparty, storage_type, address) ==
    Encode(Pubkey, sas_schema) \o Encode(Pubkey, token_account) \o Encode(Pubkey, counterparty)
    \o Encode(U8, storage_type) \o Encode(Pubkey, address)
SchemaConfigRegisteredEvent(got) ==
    Encode(Pubkey, got.args.sasSchema) \o Encode(U8, got.args.signatureMode)
    \o Encode(U8, got.args.storageType) \o Encode(Option(Pubkey), got.args.delegationSchema)
    \o Encode(Bool, got.args.closeable) \o Encode(Text, got.args.name)
=============================================================================
