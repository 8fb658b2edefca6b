--------------------------- MODULE AttestationLayout ---------------------------
(***************************************************************************)
(* The bytes of an attestation: the universal layout as the SDK writes and   *)
(* reads it and as the program checks it, the message a counterparty signs   *)
(* as each of the two builds it, the Ed25519 instruction that carries the    *)
(* signatures, the encrypted content, and the compressed account.            *)
(*                                                                          *)
(* A byte is a tuple of strings, a word (an address, a hash, a key) is the   *)
(* tuple its thirty-two bytes carry, and offsets count from 0 as in the code. *)
(***************************************************************************)
EXTENDS Cells, SequencesExt

Zeros(n) == [i \in 1..n |-> Number(0)]

\* Uint8Array.slice and Uint8Array.set
Slice(bytes, from, to) == SubSeq(bytes, from + 1, IF to <= Len(bytes) THEN to ELSE Len(bytes))
From(bytes, from) == Slice(bytes, from, Len(bytes))
Put(bytes, at, part) ==
    [i \in DOMAIN bytes |-> IF i \in at + 1..at + Len(part) THEN part[i - at] ELSE bytes[i]]

addressToBytes(address) == [i \in 1..32 |-> address \o Number(i)]
bytesToAddress(bytes) ==
    LET address == Front(bytes[1])
    IN  IF bytes = addressToBytes(address) THEN address ELSE Garbage

\* What bytes say, in one tuple: of a word (its first byte may be zero) its name.
Spell(bytes) ==
    LET name == IF Len(bytes) = 32 THEN Front(bytes[2]) ELSE Garbage
    IN  IF Len(bytes) = 32 /\ Tail(bytes) = Tail(addressToBytes(name)) THEN name ELSE FlattenSeq(bytes)

-----------------------------------------------------------------------------
(* schemas.ts                                                               *)

MIN_BASE_LAYOUT_SIZE == 131
MAX_CONTENT_SIZE == 512
MAX_DUAL_SIGNATURE_CONTENT_SIZE == 70
MAX_SINGLE_SIGNATURE_CONTENT_SIZE == 240
CURRENT_LAYOUT_VERSION == 1

OFFSETS == [LAYOUT_VERSION |-> 0, TASK_REF |-> 1, TOKEN_ACCOUNT |-> 33, COUNTERPARTY |-> 65,
            OUTCOME |-> 97, DATA_HASH |-> 98, CONTENT_TYPE |-> 130, CONTENT |-> 131]

\* ContentType and SignatureMode
None == 0
JSON == 1
UTF8 == 2
IPFS == 3
Arweave == 4
Encrypted == 5
DualSignature == 0
CounterpartySigned == 1
AgentOwnerSigned == 2

serializeUniversalLayout(data) ==
    <<Number(CURRENT_LAYOUT_VERSION)>> \o data.taskRef \o addressToBytes(data.tokenAccount)
    \o addressToBytes(data.counterparty) \o <<Number(data.outcome)>> \o data.dataHash
    \o <<Number(data.contentType)>> \o Slice(data.content, 0, MAX_CONTENT_SIZE)

Unreadable == [error |-> "Data too small"]
deserializeUniversalLayout(bytes) ==
    IF Len(bytes) < MIN_BASE_LAYOUT_SIZE THEN Unreadable
    ELSE [taskRef |-> Slice(bytes, 1, 33),
          tokenAccount |-> bytesToAddress(Slice(bytes, 33, 65)),
          counterparty |-> bytesToAddress(Slice(bytes, 65, 97)),
          outcome |-> Count(bytes[98]),
          dataHash |-> Slice(bytes, 98, 130),
          contentType |-> Count(bytes[131]),
          content |-> From(bytes, 131)]

\* The byte at an offset, as a number.
At(data, offset) == Count(data[offset + 1])

validateBaseLayout(data) ==
    /\ Len(data) >= MIN_BASE_LAYOUT_SIZE
    /\ At(data, OFFSETS.LAYOUT_VERSION) = CURRENT_LAYOUT_VERSION
    /\ At(data, OFFSETS.OUTCOME) <= 2
    /\ At(data, OFFSETS.CONTENT_TYPE) <= 15
    /\ Len(data) - OFFSETS.CONTENT <= MAX_CONTENT_SIZE

getMaxContentSize(signatureMode) ==
    IF signatureMode = DualSignature THEN MAX_DUAL_SIGNATURE_CONTENT_SIZE
    ELSE MAX_SINGLE_SIGNATURE_CONTENT_SIZE
validateContentSize(content, signatureMode) == Len(content) <= getMaxContentSize(signatureMode)

-----------------------------------------------------------------------------
(* encryption.ts                                                            *)

NONCE_SIZE == 24
PUBKEY_SIZE == 32
TAG_SIZE == 16
MIN_ENCRYPTED_SIZE == 1 + PUBKEY_SIZE + NONCE_SIZE + TAG_SIZE
MAX_PLAINTEXT_SIZE == MAX_CONTENT_SIZE - MIN_ENCRYPTED_SIZE
ENCRYPTION_VERSION == 1

\* A wallet's X25519 keys, from its private key and from its address alone.
deriveEncryptionKeypair(wallet) ==
    [publicKey |-> <<"x25519">> \o wallet, privateKey |-> <<"x25519 secret">> \o wallet]
deriveEncryptionPublicKey(wallet) == <<"x25519">> \o wallet

\* The key that both ends of an exchange come to: of the ephemeral public key and of the
\* wallet that the other key belongs to.
EncryptionKey(ephemeralPubkey, key) == <<"key">> \o ephemeralPubkey \o Tail(key)
Seal(plaintext, key) == [i \in 1..Len(plaintext) |-> key \o plaintext[i]] \o [i \in 1..TAG_SIZE |-> key]
Undecryptable == << <<"invalid tag">> >>
Open(ciphertext, key) ==
    IF Last(ciphertext) # key THEN Undecryptable
    ELSE [i \in 1..Len(ciphertext) - TAG_SIZE |-> From(ciphertext[i], Len(key))]

Encryptable(plaintext) == Len(plaintext) <= MAX_PLAINTEXT_SIZE
encryptContent(plaintext, recipientPubkey) ==
    LET ephemeral == <<"ephemeral">>
    IN  [version |-> ENCRYPTION_VERSION, ephemeralPubkey |-> addressToBytes(ephemeral),
         nonce |-> [i \in 1..NONCE_SIZE |-> <<"nonce">>],
         ciphertext |-> Seal(plaintext, EncryptionKey(ephemeral, recipientPubkey))]
decryptContent(payload, privateKey) ==
    IF payload.version # ENCRYPTION_VERSION THEN Undecryptable
    ELSE Open(payload.ciphertext,
              EncryptionKey(bytesToAddress(payload.ephemeralPubkey), privateKey))

serializeEncryptedPayload(payload) ==
    <<Number(payload.version)>> \o payload.ephemeralPubkey \o payload.nonce \o payload.ciphertext
deserializeEncryptedPayload(bytes) ==
    IF Len(bytes) < MIN_ENCRYPTED_SIZE \/ At(bytes, 0) # ENCRYPTION_VERSION
    THEN [version |-> 0]
    ELSE [version |-> At(bytes, 0), ephemeralPubkey |-> Slice(bytes, 1, 33),
          nonce |-> Slice(bytes, 33, 57), ciphertext |-> From(bytes, 57)]

-----------------------------------------------------------------------------
(* hashes.ts and offchain-signing.ts                                        *)

Keccak(parts) == addressToBytes(<<"keccak">> \o FlattenSeq([i \in DOMAIN parts |-> Spell(parts[i])]))
computeInteractionHash(sasSchema, taskRef, dataHash) ==
    Keccak(<< << <<"SATI:interaction:v1">> >>, addressToBytes(sasSchema), taskRef, dataHash>>)
\* Mutant: the schema before the task.
NonceSwapped(taskRef, sasSchema, tokenAccount, counterparty) ==
    Keccak(<<addressToBytes(sasSchema), taskRef, addressToBytes(tokenAccount),
             addressToBytes(counterparty)>>)
computeAttestationNonce(taskRef, sasSchema, tokenAccount, counterparty) ==
    Keccak(<<taskRef, addressToBytes(sasSchema), addressToBytes(tokenAccount),
             addressToBytes(counterparty)>>)
computeEvmLinkHash(agentMint, evmAddress, chainId) ==
    Keccak(<< << <<"SATI:evm_link:v1">> >>, addressToBytes(agentMint), <<evmAddress>>, <<chainId>> >>)

Base58(bytes) == << <<"base58">> \o Spell(bytes)>>
ByteCount(content) == << <<ToString(Len(content)), "bytes">> >>
Nothing == << <<"(none)">> >>
Opaque == << <<"(encrypted)">> >>
OutcomeLabel(value) == << <<CASE value = 0 -> "Negative" [] value = 1 -> "Neutral" [] value = 2 -> "Positive">> >>
Siws(schemaName, agent, task, label, details) ==
    << <<"SATI">> \o schemaName>> \o Base58(agent) \o Base58(task) \o label \o details
    \o << <<"Sign to create this attestation.">> >>

\* Bytes that are no UTF-8, what TextDecoder puts in their place, and the byte order
\* mark, which it leaves out.
NotUtf8 == <<"0xFF">>
Replacement == <<"U+FFFD">>
ByteOrderMark == << <<"0xEF">>, <<"0xBB">>, <<"0xBF">> >>
TextDecode(content) ==
    LET text == IF Slice(content, 0, 3) = ByteOrderMark THEN From(content, 3) ELSE content
    IN  [i \in 1..Len(text) |-> IF text[i] = NotUtf8 THEN Replacement ELSE text[i]]

decodeContentForDisplay(content, contentType) ==
    CASE content = <<>> \/ contentType = None -> Nothing
      [] content # <<>> /\ contentType \in {JSON, UTF8} -> TextDecode(content)
      [] content # <<>> /\ contentType = IPFS -> << <<"ipfs://">> >> \o Base58(content)
      [] content # <<>> /\ contentType = Arweave -> << <<"ar://">> >> \o Base58(content)
      [] content # <<>> /\ contentType = Encrypted -> Opaque
      [] OTHER -> ByteCount(content)

buildCounterpartyMessage(schemaName, data) ==
    Siws(schemaName, Slice(data, OFFSETS.TOKEN_ACCOUNT, OFFSETS.COUNTERPARTY),
         Slice(data, OFFSETS.TASK_REF, OFFSETS.TOKEN_ACCOUNT),
         OutcomeLabel(At(data, OFFSETS.OUTCOME)),
         decodeContentForDisplay(From(data, OFFSETS.CONTENT), At(data, OFFSETS.CONTENT_TYPE)))

-----------------------------------------------------------------------------
(* ed25519.ts                                                               *)

OFFSETS_SIZE == 14
U16Bytes(n) == <<Number(n % 256), Number(n \div 256)>>
SameInstruction == U16Bytes(65535)

\* One signature's offsets at offsetsAt, and its key, signature and message at dataAt.
WriteEntry(data, entry, offsetsAt, dataAt) ==
    LET signatureOffset == dataAt + 32
        messageOffset == signatureOffset + 64
        offsets == U16Bytes(signatureOffset) \o SameInstruction \o U16Bytes(dataAt) \o SameInstruction
                   \o U16Bytes(messageOffset) \o U16Bytes(Len(entry.message)) \o SameInstruction
    IN  Put(Put(Put(Put(data, offsetsAt, offsets), dataAt, entry.publicKey),
                signatureOffset, entry.signature), messageOffset, entry.message)

createEd25519Instruction(entry) ==
    WriteEntry(<<Number(1)>> \o Zeros(1 + OFFSETS_SIZE + 32 + 64 + Len(entry.message)),
               entry, 2, 2 + OFFSETS_SIZE)

\* Mutant: the data of a batch start after the offsets of one signature.
BatchOverlapping(entries) ==
    LET dataStart == 2 + OFFSETS_SIZE
        dataAt[i \in 1..Len(entries) + 1] ==
            IF i = 1 THEN dataStart ELSE dataAt[i - 1] + 32 + 64 + Len(entries[i - 1].message)
        data[i \in 0..Len(entries)] ==
            IF i = 0 THEN <<Number(Len(entries))>> \o Zeros(dataAt[Len(entries) + 1] - 1)
            ELSE WriteEntry(data[i - 1], entries[i], 2 + (i - 1) * OFFSETS_SIZE, dataAt[i])
    IN  data[Len(entries)]

\* Where the data of each entry begin, and after all of them where the instruction ends.
DataAt(entries) ==
    LET dataAt[i \in 1..Len(entries) + 1] ==
            IF i = 1 THEN 2 + Len(entries) * OFFSETS_SIZE
            ELSE dataAt[i - 1] + 32 + 64 + Len(entries[i - 1].message)
    IN  dataAt
createBatchEd25519Instruction(entries) ==
    LET n == Len(entries)
        data[i \in 0..n] ==
            IF i = 0 THEN <<Number(n)>> \o Zeros(DataAt(entries)[n + 1] - 1)
            ELSE WriteEntry(data[i - 1], entries[i], 2 + (i - 1) * OFFSETS_SIZE, DataAt(entries)[i])
    IN  data[n]

-----------------------------------------------------------------------------
(* The program: constants.rs, create_compressed_attestation.rs, signature.rs *)

MAX_ATTESTATION_DATA_SIZE == 768
ProgramOffsets == [LAYOUT_VERSION |-> 0, TASK_REF |-> 1, TOKEN_ACCOUNT |-> 33, COUNTERPARTY |-> 65,
             OUTCOME |-> 97, DATA_HASH |-> 98, CONTENT_TYPE |-> 130, CONTENT |-> 131]

validate_universal_base(data) ==
    /\ Len(data) \in MIN_BASE_LAYOUT_SIZE..MAX_ATTESTATION_DATA_SIZE
    /\ At(data, ProgramOffsets.LAYOUT_VERSION) = CURRENT_LAYOUT_VERSION
    /\ At(data, ProgramOffsets.OUTCOME) <= 2
    /\ At(data, ProgramOffsets.CONTENT_TYPE) <= 15
    /\ Len(data) - ProgramOffsets.CONTENT <= MAX_CONTENT_SIZE

decode_content_for_display(content, content_type) ==
    CASE content = <<>> \/ content_type = None -> Nothing
      [] content # <<>> /\ content_type \in {JSON, UTF8} ->
            IF NotUtf8 \in ToSet(content) THEN ByteCount(content) ELSE content
      [] content # <<>> /\ content_type = IPFS -> << <<"ipfs://">> >> \o Base58(content)
      [] content # <<>> /\ content_type = Arweave -> << <<"ar://">> >> \o Base58(content)
      [] content # <<>> /\ content_type = Encrypted -> Opaque
      [] OTHER -> ByteCount(content)

build_siws_message(schema_name, data) ==
    Siws(schema_name, Slice(data, ProgramOffsets.TOKEN_ACCOUNT, ProgramOffsets.COUNTERPARTY),
         Slice(data, ProgramOffsets.TASK_REF, ProgramOffsets.TOKEN_ACCOUNT),
         OutcomeLabel(At(data, ProgramOffsets.OUTCOME)),
         decode_content_for_display(From(data, ProgramOffsets.CONTENT), At(data, ProgramOffsets.CONTENT_TYPE)))

\* signature.rs
compute_interaction_hash(sas_schema, task_ref, data_hash) ==
    Keccak(<< << <<"SATI:interaction:v1">> >>, addressToBytes(sas_schema), task_ref, data_hash>>)
compute_attestation_nonce(task_ref, sas_schema, token_account, counterparty) ==
    Keccak(<<task_ref, addressToBytes(sas_schema), addressToBytes(token_account),
             addressToBytes(counterparty)>>)
compute_evm_link_hash(agent_mint, evm_address, chain_id) ==
    Keccak(<< << <<"SATI:evm_link:v1">> >>, addressToBytes(agent_mint), <<evm_address>>, <<chain_id>> >>)

\* What an Ethereum wallet signs recovers, with the right recovery id, to its address.
EvmSignature(evmAddress, hash) == <<"secp256k1">> \o evmAddress \o Spell(hash)
verify_secp256k1_signature(hash, signature, recovery_id, evm_address) ==
    signature = EvmSignature(evm_address, hash) /\ recovery_id = Number(0)

build_expected_messages(sas_schema, schema_name, mode, data) ==
    LET interaction_hash == compute_interaction_hash(sas_schema,
                                Slice(data, ProgramOffsets.TASK_REF, ProgramOffsets.TOKEN_ACCOUNT),
                                Slice(data, ProgramOffsets.DATA_HASH, ProgramOffsets.CONTENT_TYPE))
    IN  CASE mode = DualSignature -> <<interaction_hash, build_siws_message(schema_name, data)>>
          [] mode = CounterpartySigned -> <<build_siws_message(schema_name, data)>>
          [] mode = AgentOwnerSigned -> <<interaction_hash>>

U16At(data, at) == At(data, at) + 256 * At(data, at + 1)
SignatureAt(data, offset_pos) ==
    LET sig == U16At(data, offset_pos) pubkey == U16At(data, offset_pos + 4)
        msg == U16At(data, offset_pos + 8) size == U16At(data, offset_pos + 10)
    IN  [pubkey |-> bytesToAddress(Slice(data, pubkey, pubkey + 32)),
         sig |-> Slice(data, sig, sig + 64), message |-> Slice(data, msg, msg + size)]
SignaturesOf(data) == [i \in 1..At(data, 0) |-> SignatureAt(data, 2 + (i - 1) * 14)]

\* The signatures in the order of their roles; none if one is missing or not its party's.
extract_ed25519_signatures(instructions, agent, counterparty, mode, expected) ==
    LET all == FlattenSeq([i \in DOMAIN instructions |-> SignaturesOf(instructions[i])])
        With(message) == {i \in DOMAIN all : all[i].message = message}
        found == [i \in DOMAIN expected |-> all[Min(With(expected[i]))]]
        bound == CASE mode = DualSignature ->
                          /\ found[1].pubkey = agent
                          /\ found[2].pubkey = counterparty
                          /\ found[1].pubkey # found[2].pubkey
                   [] mode = CounterpartySigned -> found[1].pubkey = counterparty
                   [] mode = AgentOwnerSigned -> TRUE
    IN  IF (\A i \in DOMAIN expected : With(expected[i]) # {}) /\ bound THEN found ELSE <<>>

-----------------------------------------------------------------------------
(* The compressed account: Borsh on chain, compression.ts off it             *)

CompressedAttestation(sas_schema, token_account, data, signatures) ==
    addressToBytes(sas_schema) \o addressToBytes(token_account) \o U16Bytes(Len(data)) \o Zeros(2)
    \o data \o <<Number(Len(signatures))>> \o signatures[1].sig
    \o (IF Len(signatures) > 1 THEN signatures[2].sig ELSE Zeros(64))

NoAttestation == [error |-> "no attestation"]
DATA_LEN == 64
DATA_START == 68
\* Mutant: the second signature from where the first one ends, less one.
ParseOffByOne(bytes) ==
    LET end == DATA_START + U16At(bytes, DATA_LEN)
    IN  IF Len(bytes) < DATA_START \/ Len(bytes) < end + 129 THEN NoAttestation
        ELSE [sasSchema |-> bytesToAddress(Slice(bytes, 0, 32)),
              tokenAccount |-> bytesToAddress(Slice(bytes, 32, 64)),
              numSignatures |-> At(bytes, end),
              data |-> Slice(bytes, DATA_START, end),
              signature1 |-> Slice(bytes, end + 1, end + 65),
              signature2 |-> IF At(bytes, end) > 1 THEN Slice(bytes, end + 64, end + 128) ELSE Zeros(64)]
parseAttestation(bytes) ==
    LET end == DATA_START + U16At(bytes, DATA_LEN)
    IN  IF Len(bytes) < DATA_START \/ Len(bytes) < end + 129 THEN NoAttestation
        ELSE [sasSchema |-> bytesToAddress(Slice(bytes, 0, 32)),
              tokenAccount |-> bytesToAddress(Slice(bytes, 32, 64)),
              numSignatures |-> At(bytes, end),
              data |-> Slice(bytes, DATA_START, end),
              signature1 |-> Slice(bytes, end + 1, end + 65),
              signature2 |-> IF At(bytes, end) > 1 THEN Slice(bytes, end + 65, end + 129) ELSE Zeros(64)]
=============================================================================
