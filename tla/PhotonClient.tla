----------------------------- MODULE PhotonClient -----------------------------
(***************************************************************************)
(* The compression kit and the SDK's light client: how the address of an     *)
(* attestation is derived, what is asked of the Photon indexer and read out   *)
(* of its answers, and how the accounts the Light program needs are packed    *)
(* behind an instruction's own.  Version is that of the kit's feature flags.  *)
(***************************************************************************)
EXTENDS AttestationLayout, SatiInstructions

V1 == "V1"
V2 == "V2"

LIGHT_SYSTEM_PROGRAM == <<"lightSystem">>
ACCOUNT_COMPRESSION_PROGRAM == <<"accountCompression">>
NOOP_PROGRAM == <<"noop">>
REGISTERED_PROGRAM_PDA == <<"registeredProgram">>
ADDRESS_TREE == <<"addressTree">>
ADDRESS_QUEUE == <<"addressQueue">>
MERKLE_TREE_PUBKEY == <<"merkleTree">>
NULLIFIER_QUEUE_PUBKEY == <<"nullifierQueue">>
ED25519_PROGRAM == <<"ed25519">>
COMPUTE_BUDGET_PROGRAM == <<"computeBudget">>

-----------------------------------------------------------------------------
(* state/bn254.ts, utils/conversion.ts, utils/address.ts                     *)

\* A number below the field's size, by its digits in base 256, highest first.
createBN254(bytes) ==
    LET significant == {i \in DOMAIN bytes : bytes[i] # Number(0)}
    IN  IF significant = {} THEN <<>> ELSE SubSeq(bytes, Min(significant), Len(bytes))
encodeBN254(value) == Zeros(32 - Len(value)) \o value
base58ToBytesLE(text) == Reverse(encodeBN254(createBN254(text)))

hashvToBn254FieldSizeBe(parts) == Put(Keccak(parts), 0, <<Number(0)>>)
\* With the first byte zero, the first bump is below the size of the field.
hashToBn254FieldSizeBe(bytes) == hashvToBn254FieldSizeBe(Append(bytes, <<Number(255)>>))
deriveAddressSeed(seeds, programId) ==
    hashvToBn254FieldSizeBe(<<addressToBytes(programId)>> \o seeds)
deriveAddress(seed, tree) == hashToBn254FieldSizeBe(<<addressToBytes(tree), seed>>)

AttestationSeeds(attestation, sasSchema) ==
    << << <<"attestation">> >>, addressToBytes(sasSchema), addressToBytes(attestation.tokenAccount),
       computeAttestationNonce(attestation.taskRef, sasSchema, attestation.tokenAccount,
                               attestation.counterparty)>>
deriveAttestationAddress(seeds, programId) ==
    deriveAddress(deriveAddressSeed(seeds, programId), ADDRESS_TREE)

-----------------------------------------------------------------------------
(* rpc.ts: the answers of the indexer                                       *)

TreeInfo(tree, queue) == [tree |-> tree, queue |-> queue]

\* A V1 answer names no queue: the tree stands for it.
parseTreeInfo(version, raw) ==
    IF version = V2 /\ raw.merkleContext # <<>>
    THEN TreeInfo(raw.merkleContext[1].tree, raw.merkleContext[1].queue)
    ELSE TreeInfo(raw.tree[1], raw.tree[1])

parseCompressedAccount(version, raw) ==
    [owner |-> raw.owner, address |-> raw.address, hash |-> createBN254(raw.hash),
     data |-> IF raw.data = <<>> THEN <<>>
              ELSE <<[discriminator |-> Reverse(raw.data[1].discriminator), data |-> raw.data[1].data,
                      dataHash |-> base58ToBytesLE(raw.data[1].dataHash)]>>,
     treeInfo |-> parseTreeInfo(version, raw), leafIndex |-> raw.leafIndex,
     proveByIndex |-> IF raw.proveByIndex = <<>> THEN FALSE ELSE raw.proveByIndex[1]]

\* The roots of the proven accounts come before those of the new addresses.
parseValidityProof(raw) ==
    IF raw.accounts # <<>> \/ raw.addresses # <<>>
    THEN [compressedProof |-> raw.compressedProof,
          rootIndices |-> [i \in DOMAIN raw.accounts |-> raw.accounts[i].rootIndex]
                          \o [i \in DOMAIN raw.addresses |-> raw.addresses[i].rootIndex],
          leafIndices |-> [i \in DOMAIN raw.accounts |-> raw.accounts[i].leafIndex]
                          \o [i \in DOMAIN raw.addresses |-> 0]]
    ELSE [compressedProof |-> raw.compressedProof, rootIndices |-> raw.rootIndices,
          leafIndices |-> raw.leafIndices]

\* What the request asks for: hashes, and addresses with their tree but not its queue.
getValidityProofParams(hashes, newAddresses) ==
    [hashes |-> [i \in DOMAIN hashes |-> encodeBN254(hashes[i])],
     newAddressesWithTrees |->
        [i \in DOMAIN newAddresses |-> [address |-> encodeBN254(newAddresses[i].address),
                                        tree |-> newAddresses[i].tree]]]

-----------------------------------------------------------------------------
(* utils/instruction.ts                                                     *)

Meta(address, role) == [address |-> address, role |-> role]
CpiAuthority(program) == Pda(program, <<"cpi_authority">>)

getLightSystemAccountMetas(selfProgram) ==
    <<Meta(LIGHT_SYSTEM_PROGRAM, READONLY), Meta(CpiAuthority(selfProgram), READONLY),
      Meta(REGISTERED_PROGRAM_PDA, READONLY), Meta(NOOP_PROGRAM, READONLY),
      Meta(CpiAuthority(LIGHT_SYSTEM_PROGRAM), READONLY),
      Meta(ACCOUNT_COMPRESSION_PROGRAM, READONLY), Meta(selfProgram, READONLY),
      Meta(SystemProgram, READONLY)>>

\* PackedAccounts: an account keeps the index and the role it was first inserted with.
insertOrGet(packed, pubkey) ==
    IF \E i \in DOMAIN packed : packed[i].address = pubkey THEN packed
    ELSE Append(packed, Meta(pubkey, WRITABLE))
IndexIn(packed, pubkey) == (CHOOSE i \in DOMAIN packed : packed[i].address = pubkey) - 1
toAccountMetas(selfProgram, packed) == getLightSystemAccountMetas(selfProgram) \o packed

-----------------------------------------------------------------------------
(* compression.ts                                                           *)

Insert(first, second, third) ==
    insertOrGet(insertOrGet(insertOrGet(<<>>, first), second), third)

\* A proof there is not becomes one of empty arrays, which the builder then sends.
convertProof(compressedProof) ==
    IF compressedProof # <<>> THEN compressedProof[1]
    ELSE [a |-> Number(0), b |-> Number(0), c |-> Number(0)]

prepareCreate(seeds, programId, proofResult) ==
    LET packed == Insert(ADDRESS_TREE, ADDRESS_QUEUE, MERKLE_TREE_PUBKEY)
    IN  [address |-> deriveAttestationAddress(seeds, programId),
         proof |-> convertProof(proofResult.compressedProof),
         addressTreeInfo |-> [addressMerkleTreePubkeyIndex |-> Number(IndexIn(packed, ADDRESS_TREE)),
                              addressQueuePubkeyIndex |-> Number(IndexIn(packed, ADDRESS_QUEUE)),
                              rootIndex |-> Number(proofResult.rootIndices[1])],
         outputStateTreeIndex |-> Number(IndexIn(packed, MERKLE_TREE_PUBKEY)),
         remainingAccounts |-> toAccountMetas(programId, packed)]

\* What the indexer is asked to prove: that the address is new, that the account is there.
CreationRequest(seeds, programId) ==
    getValidityProofParams(<<>>, <<[address |-> createBN254(deriveAttestationAddress(seeds, programId)),
                                    tree |-> ADDRESS_TREE]>>)
MutationRequest(account) == getValidityProofParams(<<account.hash>>, <<>>)

\* Mutant: the leaf's index and its root's swapped.
MutationSwapped(account, programId, proofResult) ==
    LET packed == Insert(account.treeInfo.tree, account.treeInfo.queue, MERKLE_TREE_PUBKEY)
    IN  [proof |-> convertProof(proofResult.compressedProof),
         stateTreeInfo |-> [merkleTreePubkeyIndex |-> Number(IndexIn(packed, account.treeInfo.tree)),
                            queuePubkeyIndex |-> Number(IndexIn(packed, account.treeInfo.queue)),
                            leafIndex |-> Number(proofResult.rootIndices[1]),
                            rootIndex |-> Number(account.leafIndex)],
         outputStateTreeIndex |-> Number(IndexIn(packed, MERKLE_TREE_PUBKEY)),
         remainingAccounts |-> toAccountMetas(programId, packed)]

getMutationProof(account, programId, proofResult) ==
    LET packed == Insert(account.treeInfo.tree, account.treeInfo.queue, MERKLE_TREE_PUBKEY)
    IN  [proof |-> convertProof(proofResult.compressedProof),
         stateTreeInfo |-> [merkleTreePubkeyIndex |-> Number(IndexIn(packed, account.treeInfo.tree)),
                            queuePubkeyIndex |-> Number(IndexIn(packed, account.treeInfo.queue)),
                            leafIndex |-> Number(account.leafIndex),
                            rootIndex |-> Number(proofResult.rootIndices[1])],
         outputStateTreeIndex |-> Number(IndexIn(packed, MERKLE_TREE_PUBKEY)),
         remainingAccounts |-> toAccountMetas(programId, packed)]

\* Mutant: a table without the registered program's account.
TableWithoutRegistered(programId, schemaAddresses, agentAtas) ==
    <<LIGHT_SYSTEM_PROGRAM, ACCOUNT_COMPRESSION_PROGRAM, NOOP_PROGRAM,
      ADDRESS_TREE, ADDRESS_QUEUE, MERKLE_TREE_PUBKEY, NULLIFIER_QUEUE_PUBKEY,
      CpiAuthority(programId), CpiAuthority(LIGHT_SYSTEM_PROGRAM), programId,
      Pda(programId, <<"__event_authority">>)>>
    \o [i \in DOMAIN schemaAddresses |-> Pda(programId, <<"schema_config">> \o schemaAddresses[i])]
    \o [i \in DOMAIN agentAtas |-> Ata(agentAtas[i].owner, Token2022Program, agentAtas[i].mint)]
    \o <<SystemProgram, ED25519_PROGRAM, InstructionsSysvar, COMPUTE_BUDGET_PROGRAM, Token2022Program>>

getLookupTableAddresses(programId, schemaAddresses, agentAtas) ==
    <<LIGHT_SYSTEM_PROGRAM, ACCOUNT_COMPRESSION_PROGRAM, NOOP_PROGRAM, REGISTERED_PROGRAM_PDA,
      ADDRESS_TREE, ADDRESS_QUEUE, MERKLE_TREE_PUBKEY, NULLIFIER_QUEUE_PUBKEY,
      CpiAuthority(programId), CpiAuthority(LIGHT_SYSTEM_PROGRAM), programId,
      Pda(programId, <<"__event_authority">>)>>
    \o [i \in DOMAIN schemaAddresses |-> Pda(programId, <<"schema_config">> \o schemaAddresses[i])]
    \o [i \in DOMAIN agentAtas |-> Ata(agentAtas[i].owner, Token2022Program, agentAtas[i].mint)]
    \o <<SystemProgram, ED25519_PROGRAM, InstructionsSysvar, COMPUTE_BUDGET_PROGRAM, Token2022Program>>

getAttestationByAddress(account) ==
    IF account.data = <<>> THEN NoAttestation ELSE parseAttestation(account.data[1].data)

-----------------------------------------------------------------------------
(* The Light SDK of the program: the trees follow its eight accounts.        *)

LightAccounts == 8
TreeAt(remaining, index) == remaining[LightAccounts + Count(index) + 1]

derive_address(task_ref, sas_schema, token_account, counterparty, tree) ==
    deriveAddress(deriveAddressSeed(
        << << <<"attestation">> >>, addressToBytes(sas_schema), addressToBytes(token_account),
           compute_attestation_nonce(task_ref, sas_schema, token_account, counterparty)>>,
        SATI_PROGRAM_ADDRESS), tree)
=============================================================================
