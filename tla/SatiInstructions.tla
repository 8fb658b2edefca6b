--------------------------- MODULE SatiInstructions ---------------------------
(***************************************************************************)
(* The generated client of the SATI program: what each instruction builder   *)
(* makes of the accounts and arguments it is given, with and without the     *)
(* defaults that take an asynchronous derivation, and what the parsers read  *)
(* out of an instruction, an account and an event.                          *)
(***************************************************************************)
EXTENDS Codecs, SequencesExt

\* Addresses are tuples of strings; a program derived address is the program
\* followed by the seeds.
SATI_PROGRAM_ADDRESS == <<"sati">>
SystemProgram == <<"system">>
TokenProgram == <<"token">>
Token2022Program == <<"token2022">>
AssociatedTokenProgram == <<"associatedToken">>
SasProgram == <<"sas">>
InstructionsSysvar == <<"instructionsSysvar">>
ClockSysvar == <<"clockSysvar">>

Pda(program, seeds) == program \o seeds
Ata(owner, tokenProgram, mint) == Pda(AssociatedTokenProgram, owner \o tokenProgram \o mint)

\* AccountRole of @solana/kit
READONLY == 0
WRITABLE == 1
READONLY_SIGNER == 2
WRITABLE_SIGNER == 3

\* An account of an instruction, in the order in which the program expects them.
Account(name, writable, optional) == [name |-> name, writable |-> writable, optional |-> optional]
Ro(name) == Account(name, FALSE, FALSE)
Wr(name) == Account(name, TRUE, FALSE)
Opt(name) == Account(name, FALSE, TRUE)

\* What a caller gives for an account: an address, or a signer.
Plain(address) == [address |-> address, signer |-> FALSE]
Signer(address) == [address |-> address, signer |-> TRUE]

\* An account for which there is no value is passed as the program's own address.
GetAccountMeta(account, values, program) ==
    IF account.name \notin DOMAIN values
    THEN [address |-> program, role |-> READONLY]
    ELSE [address |-> values[account.name].address,
          role |-> (IF account.writable THEN WRITABLE ELSE READONLY)
                   + (IF values[account.name].signer THEN READONLY_SIGNER ELSE READONLY)]

\* What every builder does with the accounts it was given and its defaults.
Build(name, accounts, codec, given, defaults, args, program) ==
    LET values == given ++ [a \in DOMAIN defaults |-> Plain(defaults[a])]
    IN  [programAddress |-> program,
         accounts |-> [i \in DOMAIN accounts |-> GetAccountMeta(accounts[i], values, program)],
         data |-> Encode(codec, [discriminator |-> <<name>>] ++ args)]

\* What every parser does.  An account whose address is the constant
\* SATI_PROGRAM_ADDRESS in an optional place was left out.
TooShort == [error |-> "Not enough accounts"]
Parse(accounts, codec, ix) ==
    IF Len(ix.accounts) < Len(accounts) THEN TooShort
    ELSE LET present == {i \in DOMAIN accounts :
                            ~(accounts[i].optional /\ ix.accounts[i].address = SATI_PROGRAM_ADDRESS)}
         IN  [accounts |-> [n \in {accounts[i].name : i \in present} |->
                               ix.accounts[CHOOSE i \in present : accounts[i].name = n]],
              args |-> Decode(codec, ix.data).value]

WithDiscriminator(fields) == Struct(<< <<"discriminator", FixedBytes(8)>> >> \o fields)

EventAuthority(program) == [eventAuthority |-> Pda(program, <<"__event_authority">>)]
RegistryPda(program) == [registryConfig |-> Pda(program, <<"registry">>)]
\* Mutant: the seed of another program.
OtherSatiPda(program) == [satiPda |-> Pda(program, <<"attestation">>)]
SatiPda(program) == [satiPda |-> Pda(program, <<"sati_attestation">>)]
SystemDefault == [systemProgram |-> SystemProgram]
NoDefault == [none \in {} |-> SystemProgram]

-----------------------------------------------------------------------------
(* types/                                                                   *)

MetadataEntry == Struct(<< <<"key", Text>>, <<"value", Text>> >>)
SignatureMode == Scalar(1)
StorageType == Scalar(1)
CompressedProof == Struct(<< <<"a", FixedBytes(32)>>, <<"b", FixedBytes(64)>>,
                             <<"c", FixedBytes(32)>> >>)
ValidityProof == Option(CompressedProof)
PackedAddressTreeInfo == Struct(<< <<"addressMerkleTreePubkeyIndex", U8>>,
                                   <<"addressQueuePubkeyIndex", U8>>, <<"rootIndex", U16>> >>)
PackedStateTreeInfo == Struct(<< <<"rootIndex", U16>>, <<"proveByIndex", Bool>>,
                                 <<"merkleTreePubkeyIndex", U8>>, <<"queuePubkeyIndex", U8>>,
                                 <<"leafIndex", U32>> >>)
CompressedAccountMeta == Struct(<< <<"treeInfo", PackedStateTreeInfo>>,
                                   <<"address", FixedBytes(32)>>, <<"outputStateTreeIndex", U8>> >>)

\* Mutant: the mint and the owner swapped.
AgentRegisteredSwapped == Struct(<< <<"owner", Pubkey>>, <<"mint", Pubkey>>, <<"memberNumber", U64>>,
                             <<"name", Text>>, <<"uri", Text>>, <<"nonTransferable", Bool>> >>)
AgentRegistered == Struct(<< <<"mint", Pubkey>>, <<"owner", Pubkey>>, <<"memberNumber", U64>>,
                             <<"name", Text>>, <<"uri", Text>>, <<"nonTransferable", Bool>> >>)
AttestationCreated == Struct(<< <<"sasSchema", Pubkey>>, <<"tokenAccount", Pubkey>>,
                                <<"counterparty", Pubkey>>, <<"storageType", StorageType>>,
                                <<"address", Pubkey>> >>)
EvmAddressLinked == Struct(<< <<"agentMint", Pubkey>>, <<"evmAddress", FixedBytes(20)>>,
                              <<"chainId", Text>>, <<"linkedAt", I64>> >>)
RegistryAuthorityUpdated == Struct(<< <<"oldAuthority", Pubkey>>, <<"newAuthority", Option(Pubkey)>> >>)
RegistryInitialized == Struct(<< <<"authority", Pubkey>>, <<"groupMint", Pubkey>> >>)
SchemaConfigRegistered == Struct(<< <<"schema", Pubkey>>, <<"signatureMode", SignatureMode>>,
                                    <<"storageType", StorageType>>,
                                    <<"delegationSchema", Option(Pubkey)>>,
                                    <<"closeable", Bool>>, <<"name", Text>> >>)

-----------------------------------------------------------------------------
(* accounts/                                                                *)

AgentIndexFields == WithDiscriminator(<< <<"mint", Pubkey>>, <<"bump", U8>> >>)
RegistryConfigFields == WithDiscriminator(<< <<"groupMint", Pubkey>>, <<"authority", Pubkey>>,
                                             <<"totalAgents", U64>>, <<"bump", U8>> >>)
SchemaConfigFields == WithDiscriminator(<< <<"sasSchema", Pubkey>>, <<"signatureMode", SignatureMode>>,
                                           <<"storageType", StorageType>>,
                                           <<"delegationSchema", Option(Pubkey)>>,
                                           <<"closeable", Bool>>, <<"name", Text>>, <<"bump", U8>> >>)

\* The decoders take the bytes as they come: none compares the discriminator.
DecodeAgentIndex(bytes) == Decode(AgentIndexFields, bytes).value
DecodeRegistryConfig(bytes) == Decode(RegistryConfigFields, bytes).value
DecodeSchemaConfig(bytes) == Decode(SchemaConfigFields, bytes).value

Unidentified == "unidentified"
IdentifySatiAccount(bytes) ==
    LET kind == Take(8, bytes).value[1]
    IN  IF kind \in {"AgentIndex", "RegistryConfig", "SchemaConfig"} THEN kind ELSE Unidentified

-----------------------------------------------------------------------------
(* closeCompressedAttestation.ts                                            *)

CloseCompressedAccounts ==
    <<Wr("signer"), Ro("schemaConfig"), Opt("agentAta"), Opt("tokenProgram"),
      Ro("eventAuthority"), Ro("program")>>
CloseCompressedData == WithDiscriminator(
    << <<"currentData", Sized>>, <<"numSignatures", U8>>, <<"signature1", FixedBytes(64)>>,
       <<"signature2", FixedBytes(64)>>, <<"address", Pubkey>>, <<"proof", ValidityProof>>,
       <<"accountMeta", CompressedAccountMeta>> >>)
CloseCompressedAsyncInput == {"signer", "schemaConfig", "program"}
CloseCompressedInput == CloseCompressedAsyncInput \cup {"eventAuthority"}
GetCloseCompressedAsync(given, args, program) ==
    Build("closeCompressedAttestation", CloseCompressedAccounts, CloseCompressedData,
          given, EventAuthority(program), args, program)
GetCloseCompressed(given, args, program) ==
    Build("closeCompressedAttestation", CloseCompressedAccounts, CloseCompressedData,
          given, NoDefault, args, program)
ParseCloseCompressed(ix) == Parse(CloseCompressedAccounts, CloseCompressedData, ix)

(* closeRegularAttestation.ts                                               *)

CloseRegularAccounts ==
    <<Wr("payer"), Ro("signer"), Ro("schemaConfig"), Ro("satiPda"), Ro("satiCredential"),
      Wr("attestation"), Ro("sasProgram"), Opt("agentAta"), Opt("tokenProgram"),
      Ro("eventAuthority"), Ro("program")>>
CloseRegularData == WithDiscriminator(<<>>)
CloseRegularAsyncInput ==
    {"payer", "signer", "schemaConfig", "satiCredential", "attestation", "program"}
CloseRegularInput == CloseRegularAsyncInput \cup {"satiPda", "eventAuthority"}
CloseRegularConstants == [sasProgram |-> SasProgram]
GetCloseRegularAsync(given, args, program) ==
    Build("closeRegularAttestation", CloseRegularAccounts, CloseRegularData, given,
          SatiPda(program) ++ EventAuthority(program) ++ CloseRegularConstants, args, program)
GetCloseRegular(given, args, program) ==
    Build("closeRegularAttestation", CloseRegularAccounts, CloseRegularData, given,
          CloseRegularConstants, args, program)
ParseCloseRegular(ix) == Parse(CloseRegularAccounts, CloseRegularData, ix)

(* createCompressedAttestation.ts                                           *)

CreateCompressedAccounts ==
    <<Wr("payer"), Ro("schemaConfig"), Ro("instructionsSysvar"), Opt("agentAta"),
      Opt("tokenProgram"), Opt("delegationAttestation"), Opt("satiCredential"), Opt("clock"),
      Ro("eventAuthority"), Ro("program")>>
CreateCompressedData == WithDiscriminator(
    << <<"data", Sized>>, <<"outputStateTreeIndex", U8>>, <<"proof", ValidityProof>>,
       <<"addressTreeInfo", PackedAddressTreeInfo>> >>)
CreateCompressedAsyncInput == {"payer", "schemaConfig", "program"}
CreateCompressedInput == CreateCompressedAsyncInput \cup {"eventAuthority"}
CreateCompressedConstants == [instructionsSysvar |-> InstructionsSysvar, clock |-> ClockSysvar]
GetCreateCompressedAsync(given, args, program) ==
    Build("createCompressedAttestation", CreateCompressedAccounts, CreateCompressedData, given,
          CreateCompressedConstants ++ EventAuthority(program), args, program)
GetCreateCompressed(given, args, program) ==
    Build("createCompressedAttestation", CreateCompressedAccounts, CreateCompressedData, given,
          CreateCompressedConstants, args, program)
ParseCreateCompressed(ix) == Parse(CreateCompressedAccounts, CreateCompressedData, ix)

(* createRegularAttestation.ts                                              *)

\* Mutant: the credential and the schema swapped.
CreateRegularSwapped ==
    <<Wr("payer"), Ro("schemaConfig"), Ro("satiPda"), Ro("sasSchema"), Ro("satiCredential"),
      Wr("attestation"), Ro("instructionsSysvar"), Opt("agentAta"), Opt("tokenProgram"),
      Opt("delegationAttestation"), Opt("clock"), Ro("sasProgram"), Ro("systemProgram"),
      Ro("eventAuthority"), Ro("program")>>
CreateRegularAccounts ==
    <<Wr("payer"), Ro("schemaConfig"), Ro("satiPda"), Ro("satiCredential"), Ro("sasSchema"),
      Wr("attestation"), Ro("instructionsSysvar"), Opt("agentAta"), Opt("tokenProgram"),
      Opt("delegationAttestation"), Opt("clock"), Ro("sasProgram"), Ro("systemProgram"),
      Ro("eventAuthority"), Ro("program")>>
CreateRegularData == WithDiscriminator(<< <<"data", Sized>>, <<"expiry", I64>> >>)
CreateRegularAsyncInput ==
    {"payer", "schemaConfig", "satiCredential", "sasSchema", "attestation", "program"}
CreateRegularInput == CreateRegularAsyncInput \cup {"satiPda", "eventAuthority"}
CreateRegularConstants ==
    [instructionsSysvar |-> InstructionsSysvar, clock |-> ClockSysvar, sasProgram |-> SasProgram,
     systemProgram |-> SystemProgram]
GetCreateRegularAsync(given, args, program) ==
    Build("createRegularAttestation", CreateRegularAccounts, CreateRegularData, given,
          SatiPda(program) ++ EventAuthority(program) ++ CreateRegularConstants, args, program)
GetCreateRegular(given, args, program) ==
    Build("createRegularAttestation", CreateRegularAccounts, CreateRegularData, given,
          CreateRegularConstants, args, program)
ParseCreateRegular(ix) == Parse(CreateRegularAccounts, CreateRegularData, ix)

(* initialize.ts                                                            *)

InitializeAccounts ==
    <<Wr("authority"), Wr("registryConfig"), Wr("groupMint"), Ro("systemProgram")>>
InitializeData == WithDiscriminator(<<>>)
InitializeAsyncInput == {"authority", "groupMint"}
InitializeInput == InitializeAsyncInput \cup {"registryConfig"}
GetInitializeAsync(given, args, program) ==
    Build("initialize", InitializeAccounts, InitializeData, given,
          RegistryPda(program) ++ SystemDefault, args, program)
GetInitialize(given, args, program) ==
    Build("initialize", InitializeAccounts, InitializeData, given, SystemDefault, args, program)
ParseInitialize(ix) == Parse(InitializeAccounts, InitializeData, ix)

(* linkEvmAddress.ts: the default token program is the older one            *)

LinkEvmAccounts == <<Ro("owner"), Ro("agentMint"), Ro("ata"), Ro("tokenProgram")>>
LinkEvmData == WithDiscriminator(
    << <<"evmAddress", FixedBytes(20)>>, <<"chainId", Text>>, <<"signature", FixedBytes(64)>>,
       <<"recoveryId", U8>> >>)
LinkEvmAsyncInput == {"owner", "agentMint"}
LinkEvmInput == LinkEvmAsyncInput \cup {"ata"}
LinkEvmConstants == [tokenProgram |-> TokenProgram]
GetLinkEvmAsync(given, args, program) ==
    LET with == given ++ [tokenProgram |-> Plain(TokenProgram)]
    IN  Build("linkEvmAddress", LinkEvmAccounts, LinkEvmData, given,
              LinkEvmConstants ++ [ata |-> Ata(with["owner"].address, with["tokenProgram"].address,
                                               with["agentMint"].address)], args, program)
GetLinkEvm(given, args, program) ==
    Build("linkEvmAddress", LinkEvmAccounts, LinkEvmData, given, LinkEvmConstants, args, program)
ParseLinkEvm(ix) == Parse(LinkEvmAccounts, LinkEvmData, ix)

(* registerAgent.ts                                                         *)

RegisterAgentAccounts ==
    <<Wr("payer"), Ro("owner"), Wr("registryConfig"), Wr("groupMint"), Wr("agentMint"),
      Wr("agentTokenAccount"), Ro("token2022Program"), Wr("agentIndex"),
      Ro("associatedTokenProgram"), Ro("systemProgram")>>
RegisterAgentData == WithDiscriminator(
    << <<"name", Text>>, <<"symbol", Text>>, <<"uri", Text>>,
       <<"additionalMetadata", Option(Vector(MetadataEntry))>>, <<"nonTransferable", Bool>> >>)
RegisterAgentAsyncInput ==
    {"payer", "owner", "groupMint", "agentMint", "agentTokenAccount", "agentIndex"}
RegisterAgentInput == RegisterAgentAsyncInput \cup {"registryConfig"}
RegisterAgentConstants ==
    [token2022Program |-> Token2022Program, associatedTokenProgram |-> AssociatedTokenProgram,
     systemProgram |-> SystemProgram]
GetRegisterAgentAsync(given, args, program) ==
    Build("registerAgent", RegisterAgentAccounts, RegisterAgentData, given,
          RegistryPda(program) ++ RegisterAgentConstants, args, program)
GetRegisterAgent(given, args, program) ==
    Build("registerAgent", RegisterAgentAccounts, RegisterAgentData, given,
          RegisterAgentConstants, args, program)
ParseRegisterAgent(ix) == Parse(RegisterAgentAccounts, RegisterAgentData, ix)

(* registerSchemaConfig.ts                                                  *)

RegisterSchemaConfigAccounts ==
    <<Wr("payer"), Ro("registryConfig"), Ro("authority"), Wr("schemaConfig"), Ro("systemProgram")>>
RegisterSchemaConfigData == WithDiscriminator(
    << <<"sasSchema", Pubkey>>, <<"signatureMode", SignatureMode>>, <<"storageType", StorageType>>,
       <<"delegationSchema", Option(Pubkey)>>, <<"closeable", Bool>>, <<"name", Text>> >>)
RegisterSchemaConfigAsyncInput == {"payer", "authority"}
RegisterSchemaConfigInput == RegisterSchemaConfigAsyncInput \cup {"registryConfig", "schemaConfig"}
GetRegisterSchemaConfigAsync(given, args, program) ==
    Build("registerSchemaConfig", RegisterSchemaConfigAccounts, RegisterSchemaConfigData, given,
          RegistryPda(program) ++ SystemDefault
          ++ [schemaConfig |-> Pda(program, <<"schema_config">> \o args.sasSchema)], args, program)
GetRegisterSchemaConfig(given, args, program) ==
    Build("registerSchemaConfig", RegisterSchemaConfigAccounts, RegisterSchemaConfigData, given,
          SystemDefault, args, program)
ParseRegisterSchemaConfig(ix) == Parse(RegisterSchemaConfigAccounts, RegisterSchemaConfigData, ix)

(* updateRegistryAuthority.ts                                               *)

UpdateAuthorityAccounts == <<Ro("authority"), Wr("registryConfig")>>
UpdateAuthorityData == WithDiscriminator(<< <<"newAuthority", Option(Pubkey)>> >>)
UpdateAuthorityAsyncInput == {"authority"}
UpdateAuthorityInput == UpdateAuthorityAsyncInput \cup {"registryConfig"}
GetUpdateAuthorityAsync(given, args, program) ==
    Build("updateRegistryAuthority", UpdateAuthorityAccounts, UpdateAuthorityData, given,
          RegistryPda(program), args, program)
GetUpdateAuthority(given, args, program) ==
    Build("updateRegistryAuthority", UpdateAuthorityAccounts, UpdateAuthorityData, given,
          NoDefault, args, program)
ParseUpdateAuthority(ix) == Parse(UpdateAuthorityAccounts, UpdateAuthorityData, ix)

-----------------------------------------------------------------------------
(* programs/sati.ts                                                         *)

Instructions ==
    {"closeCompressedAttestation", "closeRegularAttestation", "createCompressedAttestation",
     "createRegularAttestation", "initialize", "linkEvmAddress", "registerAgent",
     "registerSchemaConfig", "updateRegistryAuthority"}

IdentifySatiInstruction(ix) ==
    LET kind == Take(8, ix.data).value[1]
    IN  IF kind \in Instructions THEN kind ELSE Unidentified

\* The parser of the instruction that identifySatiInstruction names.
ParsedSatiInstruction(ix) ==
    CASE IdentifySatiInstruction(ix) = "closeCompressedAttestation"  -> ParseCloseCompressed(ix)
      [] IdentifySatiInstruction(ix) = "closeRegularAttestation"     -> ParseCloseRegular(ix)
      [] IdentifySatiInstruction(ix) = "createCompressedAttestation" -> ParseCreateCompressed(ix)
      [] IdentifySatiInstruction(ix) = "createRegularAttestation"    -> ParseCreateRegular(ix)
      [] IdentifySatiInstruction(ix) = "initialize"                  -> ParseInitialize(ix)
      [] IdentifySatiInstruction(ix) = "linkEvmAddress"              -> ParseLinkEvm(ix)
      [] IdentifySatiInstruction(ix) = "registerAgent"               -> ParseRegisterAgent(ix)
      [] IdentifySatiInstruction(ix) = "registerSchemaConfig"        -> ParseRegisterSchemaConfig(ix)
      [] IdentifySatiInstruction(ix) = "updateRegistryAuthority"     -> ParseUpdateAuthority(ix)
=============================================================================
