# A verification development of SATI

SATI is a registry of agents and of attestations about them on Solana: an Anchor
program (`programs/sati`), a TypeScript SDK over it (`packages/sdk`), a client for
compressed accounts (`packages/compression-kit`), a deployment script
(`packages/sdk/scripts/deploy-and-initialize.ts`) and a demonstration dashboard
(`apps/dashboard`). This directory holds TLA+ models of the parts whose correctness
depends on the order in which things happen, the TLC configurations that check
them, and proofs that TLAPS checks.

| Module | Models | Proved about in |
|---|---|---|
| `SatiRegistry` | registry instructions, agent NFTs, `SATIClient.registerAgent` | `SatiRegistry_proofs` |
| `AgentLedger` | what the registry promises to its readers (abstract) | refined by `SatiRegistry` |
| `SatiAttestation` | the four attestation instructions, signatures, delegations | `SatiAttestation_proofs` |
| `AttestationBook` | what the attestation stores promise (abstract) | refined by `SatiAttestation` and by `FeedbackSubmission` |
| `AgentReads` | the calls of `SATIClient` that load and list agents, request by request | `AgentReads_proofs` |
| `FeedbackSubmission` | the calls of `SATIClient`, and of the dashboard's worker, that submit attestations | `FeedbackSubmission_proofs` |
| `DeployScript` | the deployment script, rerun after failures | `DeployScript_proofs` |
| `SatiWire` | a call across the wire, composed from the modules below | `SatiWire_proofs` |
| `Cells` | bytes, and what describes a type | |
| `CodecLayer` | one layer of the codecs of @solana/kit, and of Borsh, over any codec of its parts | `CodecLayer_proofs` |
| `Codecs` | four such layers, one above the other | `WireMessages_proofs` |
| `SatiInstructions` | the generated clients: builders, parsers, account and event codecs | `WireMessages_proofs` |
| `SatiProgramInterface` | the program's own account structs, arguments, states and events | `WireMessages_proofs` |
| `AttestationLayout` | the universal layout, messages, hashes, Ed25519 instructions, encrypted content | `WireMessages_proofs` |
| `PhotonClient` | compression-kit and the SDK's light client: addresses, proofs, packed accounts | `SatiWire_proofs` |
| `MC...` | the small instances TLC checks | |

`tlc -config X.cfg M` runs a configuration (the module of each is in `PROJECT.json`),
`tlapm M_proofs.tla` checks the proofs.

## 1. Inventory

### The registry (`programs/sati/src/instructions/registry`, `state.rs`)

State: `RegistryConfig` (group_mint, authority, total_agents), one `AgentIndex` PDA
per member number, one `SchemaConfig` PDA per SAS schema, and, in the Token-2022
program, the group mint with its `TokenGroup` and one NFT mint per agent with its
`TokenGroupMember`.

Operations: `initialize`, `register_agent`, `update_registry_authority`,
`register_schema_config`; `link_evm_address`, which keeps no state.

Hard: every client that registers an agent has to name the `AgentIndex` PDA of
`total_agents + 1` before its transaction executes, so that clients race for numbers;
Token-2022 numbers the members of the group itself, and the two numberings are never
compared; `initialize` accepts any signer and any group with the right authorities;
`registerAgent` is a read, a send, a wait and another read, any of which may fail
while the transaction still lands.

Correct if: the index is gapless, free of duplicates and complete whatever the
interleaving; one transaction per number gets in; the numbers agree; a renounced
registry is frozen; configurations are written once; the SDK returns a number that is
right for its agent.

### Attestations (`instructions/attestation`, `signature.rs`)

State: compressed attestations in Light Protocol trees, with the addresses inserted
there for good; SAS attestation accounts; and, off chain, the Ed25519 signatures that
exist, which stay valid whatever happens.

Operations: `create_compressed_attestation`, `create_regular_attestation`,
`close_compressed_attestation`, `close_regular_attestation`; around them signing,
transferring the agent, the passing of time, and attestations issued by another signer
of the SAS credential directly.

Hard: signatures are collected from several wallets at different times and submitted by
anyone, in any order, after the agent may have been transferred and a delegation have
expired or been closed; fields are sliced from bytes at offsets that several places
repeat; an attestation's address, nonce and messages hash different parts of its data.

Correct if: what is stored was agreed to by its counterparty and, for the agent, by its
present holder or a present delegate; a statement counts once; a task is attested once;
the party that signed closes, and nobody else; addresses are never reused.

### The deployment script (`packages/sdk/scripts/deploy-and-initialize.ts`)

State: the chain's registry, credential, schemas, configurations and lookup tables; the
file `deployed/<network>.json`; the position of the run.

Operations: per resource look, skip or create and wait; save the file; and, from
outside, deaths, expired or late transactions, another run, another wallet's
`initialize`.

Hard: crash and rerun at every await, transactions of a dead run landing under the next,
an RPC error taken for an absent registry.

Correct if: the file never names half a deployment; nothing is built on another wallet's
registry; rerunning the script gets through.

### SDK: loading and listing agents (`packages/sdk/src/client.ts`)

State: none beyond a call's local variables. Operations: `loadAgent`, `loadAgents`,
`getAgentOwner`, `getAgentByMemberNumber`, `listAllAgents`, `listAgentsByOwner`, and
`transferAgent`, which writes.

Hard: each call is a row of RPC requests, and the chain moves between any two of them:
`getAgentOwner` finds an account by one request and reads its owner by another;
`listAllAgents` reads a counter, then indexes, then agents, and its caller turns pages
while agents are registered and burned; `loadAgents` mixes one batch request with single
ones and must keep its nulls in place.

Correct if: an owner that is named was one during the call; an agent that stays put is
found, in its place; pages neither overlap nor leave a gap; no race makes a call throw.

### SDK: collecting and submitting feedback (`client.ts`, `dashboard/src/worker`)

State: a call's proof, blockhash and transaction; the Light address tree, and how much of
it the Photon indexer has seen. Operations: `createFeedback`, `createValidation`,
`createReputationScore`, `buildFeedbackTransaction` with a payer who signs later, and the
worker's `/api/build-feedback-tx`, which calls one of the two.

Hard: the proof that an address is free is true of an old root, from an indexer that lags;
the tree remembers few roots and is shared with all programs; a blockhash ages; the wait
for a confirmation may fail while the transaction still lands, and the caller tries again;
the agent may be transferred between the signature and the transaction; which account,
which signature and which message are sent depends on which arguments are given.

Correct if: a call that returns has stored what it submitted, whoever else submits the
same; one that fails has a cause its caller can act on; none waits for ever.

### The wire (`generated`, `schemas.ts`, `hashes.ts`, `ed25519.ts`, `encryption.ts`, `compression.ts`, compression-kit)

State: none. The same bytes are written by one language and sliced by the other: account
lists and argument fields, the universal layout, interaction hash, SIWS message, nonce and
address, offsets of Ed25519 signatures, packed accounts and their indexes, events, the
compressed account as the indexer returns it.

Hard: nothing in the repository but tests against a validator sets the two sides against
each other; defaults, optional accounts and indexes into remaining accounts fail silently.

Correct if: each account and argument arrives where it was meant; what is stored, emitted
and read back is what was given; the program refuses only for a reason.

### The rest

Registration files, conversions of text and the pages of the dashboard. Not modelled;
reasons below and in `PROJECT.json`.

### How the parts interact

The SDK and the script build transactions from what they have read; the program checks
them when they execute, against the state of that moment. The program calls Token-2022
(mints, group), Light (compressed accounts) and SAS (regular attestations), all within
the transaction: an instruction happens as a whole or not at all. `SatiRegistry` hands
`SatiAttestation` its schema configurations, as the constant `Config`: that they are
written once is what `AgentLedger` and `RenouncedForever` say. `AgentReads` reads the
registry as `AgentLedger` describes it, an append-only list. `FeedbackSubmission` has
`create_compressed_attestation` reduced to what decides over a submission, and promises
the same `AttestationBook` that `SatiAttestation` implements. `SatiWire` checks the bytes
that all of these take for granted. `DeployScript` uses the registry only through
`initialize` and `register_schema_config`.

## 2. The models

### SatiRegistry

| State | Code |
|---|---|
| `groupMint`, `authority`, `totalAgents` | `RegistryConfig`, state.rs |
| `agentIndex[n]` | the `AgentIndex` PDA of member number n, `NoMint` if absent |
| `schemaConfig[s]` | the `SchemaConfig` PDA, `NoConfig` if absent |
| `groupSize[g]` | `TokenGroup.size` of a Token-2022 group |
| `account[m]` | the agent's mint account with member number, supply and holder |
| `pending` | register_agent transactions that were sent and have not executed |
| `call[c]` | the `registerAgent` call of client c |

`Initialize`, `UpdateAuthority`, `RegisterSchemaConfig` and `RegisterAgent` are the
handlers with their account constraints; a handler that fails changes nothing, so a
registration that fails is `TransactionFails`, which also stands for a transaction that
expires. `SendRegistration`, `SendThrows` and `ReturnMemberNumber` are the steps of
`SATIClient.registerAgent` (client.ts:513-584). `Transfer` and `Burn` are Token-2022
instructions that owners use directly. A client that threw may call again with a fresh
mint, while its first transaction is still pending.

`Metadata` says whether a registration has extra metadata entries, none, or is over a
limit: with entries, Token-2022 wants the owner's signature. Names, URIs and their lengths
are abstracted to that.

### SatiAttestation

| State | Code |
|---|---|
| `holder[m]` | the wallet whose ATA holds the agent's token |
| `signed` | the Ed25519 signatures that exist, each a signer and a message |
| `compressed`, `addresses` | `CompressedAttestation` accounts; addresses inserted in trees |
| `regular` | SAS attestation accounts, by schema and nonce |
| `clock` | `Clock.unix_timestamp`, bounded by `MaxTime` |
| `verdict` | how the last close instruction ended: its caller sees it |

Hashes, nonces and PDAs are the tuples of what the code hashes: they are taken to be
injective, and which fields they contain (or leave out, as `compute_interaction_hash`
leaves out the agent) is what the model keeps. Data is a record with a layout: "v1" is
the universal layout of constants.rs, "sas" the one that `sas.ts` declares, and `KeyAt`
gives the 32 bytes that an instruction slices at an offset: a field if one starts there,
or `Straddle`, bytes that cut across fields and are nobody's key. `Accepted(s, d)` is
the set of signature lists that `extract_ed25519_signatures` and the checks that follow
it accept for data d under schema s, in each of the three signature modes;
`Delegated` is `verify_agent_authorization` with `parse_delegation_attestation`.

Assumed of callers: they pass the accounts that the SDK derives (the schema's own
`SchemaConfig`, the one SATI credential, the holder's ATA). `DirectIssue` is external: the
credential has other authorized signers, and what they may write is decided by SAS, not by
this program.

### AgentReads

| State | Code |
|---|---|
| `members` | the `AgentIndex` PDAs, in order of member number |
| `token[m][w]` | the associated token account of wallet w for mint m: absent, empty or with the token |
| `kind`, `phase` | which call runs, and the request it makes next |
| `todo`, `next`, `exist`, `account` | its local variables between requests |
| `result`, `offset`, `walk` | what it returns; the page asked for, and the pages before |
| `held`, `kept` | history: who has held each mint at some time, and at all times, since the call began |

An action of the reader is one RPC request together with the code up to the next one:
`ReadStats` (getRegistryStats), `ReadIndexes`, `ReadMints` and `ReadGroup`
(getMultipleAccounts of `loadAgents` and of `listAgentsByOwner`), `ReadTokens`,
`FindHolder` and `ReadOwner` (the two requests of `getAgentOwner`). The chain's actions are
`Register`, `TransferAgent`, `Burn`, `OpenAccount`, `CloseAccount`, between any two
requests. One call runs at a time: calls keep nothing that another could see. The chunks
of `getMultipleAccounts` are one request.

### FeedbackSubmission

| State | Code |
|---|---|
| `holder[a]`, `accounts[a]` | the wallet with the agent's token; the wallets with a token account of it |
| `tree`, `indexed` | Light's address tree; how much of it Photon has seen |
| `pc[c]`, `request[c]` | where call c is, and its parameters |
| `root[c]`, `age[c]` | the root its validity proof is for; slots since its blockhash |
| `tx[c]` | none, sent, landed or failed |
| `disturbed[c]`, `faulted[c]` | history: its agent or its signer's account moved, one of its requests failed |

`Request` has the parameters that decide a call's fate: the api, whose signature of which
message is given as `agentSignature`, whether a counterparty's signature and message come
with it, and which of the content limits hold. `Refused` is the checks before the first
request, `LoadAgent`, `PrepareCreate`, `TakeBlockhash` and `Confirm` what follows each
answer, `Fault` a request that fails, `SendBuilt` the payer of a built transaction,
`Land` its execution: `Admitted` is the Ed25519 precompile, the mode's signatures, the
account the SDK passes as `agent_ata` and the address of a score; `Accepted` adds what
Light demands of the proof. Nothing forces a transaction to land.

### SatiWire and the modules below it

A byte is a tuple of strings and a word of 32 bytes carries its name, so that lengths and
offsets are the code's and a slice one byte off spells nobody's name. `Cells` describes
types (width, prefix, option, vector, struct), `CodecLayer` encodes and decodes a value
whose parts some other codec encodes and decodes, and `Codecs` puts four of these layers
on top of each other, as deep as any type of the program nests.
`SatiInstructions` and `SatiProgramInterface` are the two sides of every instruction: the
generated builders (asynchronous and synchronous), parsers and codecs, and the Anchor
structs, parameters and constraints. `AttestationLayout` and `PhotonClient` are the
hand-written code of both sides. Hashes are the tuples of what is hashed.

`CallInstruction` builds one of the nine instructions with either builder and any subset
of the optional accounts; `CreateFeedback` lays out, signs and packs an attestation. Then
`Reject` is Anchor, `ExecuteRegistry`, `ExecuteLinkEvm`, `CheckData`, `ExecuteCreate` and
`ExecuteClose` the handler as far as the wire determines it; `CloseCompressedAttestation`
is the SDK's close of what the indexer returned (always refused, see section 5) and
`CloseByHand` the same put together without the check that refuses.

### DeployScript

`Plan` is the script's list of operations (registry, credential, schemas,
configurations, lookup table); `step` and `phase` say where the run is. `CheckRegistry`,
`CheckExisting` and `CheckTable` are the reads that decide whether to skip; `Send`,
`Confirmed` and `Throws` the transaction and the two ways its wait ends; `Save` the write
of the file. `Dies` ends the process at any point, `Expires` and a late `Lands` are what
may become of its transactions, `RivalInitializes` is another wallet's `initialize`, and
`Redeploy` runs a finished deployment again. That a missing account is `null` for
`fetchMaybeCredential` follows the comment at `packages/sdk/src/sas.ts:49`.

### Abstract specifications

`AgentLedger` has an append-only sequence of agents without repetition, an administrator
who can hand over or step down once, and pages that are written once. `SatiRegistry`
implements it with `members` as the `AgentIndex` PDAs from 1 to `total_agents`.

`AttestationBook` is a set of entries, one per key of a store, never rewritten and
withdrawn only under closeable schemas; a key of the compressed store is spent for ever.
`SatiAttestation` implements it with both stores as one book, `FeedbackSubmission` with
the calls that stored something as its entries: retries and rivals included, what
callers of the SDK submit is a book of that kind.

## 3. The runs

| Run | Instance | Shows |
|---|---|---|
| `registry` | 2 clients, 3 mints, 2 wallets, one group of its own and one with a member and room for 1 more, 2 configurations, `CountMax` = 2 | `Enumeration`, `MemberNumbersAgree`, `ReturnedNumberCoversAgent`, `RenouncedForever`, `ImplementsLedger` |
| `feedback` | FeedbackV1 and FeedbackPublicV1, 3 wallets, drafts that differ in outcome, data hash, opaque content, layout and party | `CounterpartySaidIt`, `StatementCountsOnce`, `OnePerTask`, `AgentSideIsCurrent`, `ImplementsBook` |
| `delegation` | DelegateV1 and an "owner" schema that admits delegates, direct issue, two instants | `AgentSideIsCurrent`, `OnlyHolderDelegates`, `SigningPartyCloses`, `ImplementsBook` |
| `reputation` | ReputationScoreV1, two drafts, one direct issue | `SigningPartyCloses` |
| `reads` | 2 agents, one NFT outside the group, 2 wallets, pages of 1, 3 changes of the chain per call | `ListedInOrder`, `OwnerHeldIt`, `KeptAgentsAreFound`, `ThrowsOnlyOnBurned` |
| `submission` | 2 calls of 7 requests about one agent, one insertion by others, one move or fault | `ReturnedIsStored`, `FailsForCause`, `EveryCallEnds`, `CreatedIsFound`, `ImplementsBook` |
| `deploy` | 2 schemas, 3 faults, 7 runs, a rival | `SavedIsComplete`, `NothingUnderRival`, `Completes` |
| `wire` | the nine instructions with both builders, over 100 drafts and both versions of the indexer | `ArrivesAsMeant`, `RejectedForCause`, `RefusedForCause`, `ReadsWhatWasWritten`, `StoredIsMeant`, `AddressIsForetold`, `ClosesWhatIsStored`, `TableCovers` |

Most also check their module's `TypeOK`; in `wire` a value without its type would not
decode. Four more runs, `close`, `public`, `link_evm` and `siws`, end in a violation: see
section 5.

Bounds. A race for a number needs two transactions built from one reading, and a third
mint lets a client that threw try again while both are pending; one client more adds
only another loser. The constraint `TwoInFlight` bounds the transactions that wait at one
time; a third could only lose the same race again. In one group of `registry` the counter
reaches its limit (`CountMax` stands for u64::MAX) and in the other the group fills up,
while transactions are pending; the other starts with a member, so that the two
numberings differ. The attestation runs fix one agent and one task, because addresses,
nonces and messages of different agents or tasks are different tuples; three wallets are a
holder, a next holder or delegate, and a counterparty. The payloads of each schema are the
drafts that differ in exactly one field from another, so that a signature of one could be
mistaken for one of the other. One instant passes (`MaxTime` = 1) between a delegation's
expiry and its use.

In `reads`, pages of one agent are the shortest that have a boundary between two agents,
the batch has a stranger between them, and three changes (`MaxMoves`) are what it takes to
move a token away and close the account it left, or to bring it back, between the two
requests of `getAgentOwner`. In `submission` two calls are a caller and a rival, or an
attempt and its retry; `RootHistory` = 2 with one insertion by others (`MaxTree` = 1)
makes a proof stale while both calls are under way; `Lifetime` = 0 makes a blockhash
expire after the slot it was taken in, so that every order of landing, expiring and
confirming occurs; one trouble (`MaxTroubles`) is a transfer, a burn, an account opened
or closed, or a failing request, at any point. In `wire` the lengths of contents stand on
both sides of every limit: 70 and 71, 240 and 241 for the two content limits, and
plaintexts of 167 and 168 bytes, the last that fits with one signature and the first that
does not; 440 is beyond what can be encrypted. In `deploy`, `MaxFaults` = 3 allows a
death, a late transaction and a redeployment in one behaviour, and `MaxRuns` = 7 is what
three faults can cost: a death wastes one run, the transaction it leaves behind can waste
another by landing first. With `MaxRuns` = 6 `Completes` fails.

`registry` is reduced by symmetry of mints, clients, wallets and configurations, `reads`
by symmetry of wallets; their properties are safety properties. Deadlock is checked in the
attestation runs, `reads` and `wire`; the registry may stop when mints are used up,
submissions and the deployment when they are done, so those runs say
`CHECK_DEADLOCK FALSE`.

Fairness. `Completes` assumes `WF(Start)`, because the operator reruns a script that
reported a failure; `WF(Step)`, because a process that lives goes on; and weak fairness of
landing, because a cluster executes what it does not drop. `EveryCallEnds` and
`CreatedIsFound` assume that a request is answered if it does not fail (`WF(Await(c))`, an
`await` in the code), that Photon goes on indexing (`WF(Index)`) and that slots pass
(`WF(Tick)`). Nothing is assumed of landing there: `sendAndConfirm` ends because the
blockhash grows too old. Nor of a payer who was given a transaction to sign: a call that has
built one counts as ended. Nothing fair is assumed of deaths, drops, errors, transfers and
rivals. The other specifications are safety only: no agent of the system is obliged to
act.

## 4. What is proved

For all values of the constants, under the named ASSUMEs of each module (sentinels are
distinct from what they stand beside, counters and bounds are natural numbers, `Config`
and `Payloads` are well typed, `Order` is a sequence, lengths are natural numbers, and
numbers that differ are written differently). TLC evaluates these in every run.

**SatiRegistry** (`SatiRegistry_proofs`). `IInv` adds four facts to the properties
themselves: the counter is at most `CountMax` and 0 before `initialize` (so that
`initialize` setting it to 0 forgets nothing); every group but the registry's own has its
original size (so that choosing a group fixes the offset between the numberings);
pending transactions have mints of their own (so that the loser of a race does not share
the winner's mint); and a call that returned is covered by a number the counter has had.
From it follow `EnumerationHolds`, `MemberNumbersHold`, `ReturnedNumberCovers`,
`EmptyGroupNumbers` (which assumes that the offered groups are empty, as the one the
deployment creates is), `OneWinner`, `RenouncingIsForever` and `Refinement`.

**SatiAttestation** (`SatiAttestation_proofs`). `IInv` says that a compressed attestation
was stored under its own agent, at an address that was inserted for it, with its
counterparty's signature, and that no two have one address. `ConsentHolds` reads
`CounterpartySaidIt` off it. `OneStatementOnce` and `OneAttestationPerTask` assume one
address tree: with two, the second is false (section 5). `OneStatementOnce` also assumes
that schema names are distinct: the message a counterparty signs names the schema only by
its name, and `register_schema_config` accepts any name, so that the registry authority
has to keep them apart. `AgentSideHolds` and `ClosingHolds` are about steps and need
that `Straddle` is nobody's key. `HolderDelegates` assumes that delegation schemas
("owner" mode, regular storage) have no delegation schema themselves, as DelegateV1.
`Refinement` shows that both stores implement the book.

**DeployScript** (`DeployScript_proofs`). `PlanFacts` says of the plan, for any number of
schemas, that the registry is first and the table last. `IInv` says that what lies behind
the run's position is done; that a run has at most one transaction of its own in flight,
the one it waits for, unless it has failed; that "confirmed" means done; and that nothing
but attempts to initialize exists before the registry is the deployer's. `SavedHolds` and
`NothingUnderRivalHolds` follow.

**AgentReads** (`AgentReads_proofs`). The invariant adds to the properties what a call
relies on between two requests. `OneHolder`: every agent has at most one account with its
token, from its registration on. `Remembered`: `held` and `kept` bound the present holder
from both sides, so that what was true since the call began can be used now. `Position`: at
which request which call can be. `Seen`: the account that was found belongs to a wallet
that has held the token, and to the only one that can have kept it. `Listing`: the page
holds the agents numbered from `offset` on, all listed so far have smaller numbers than
the next one, and an agent that kept its holder is among those behind `next` or before
it. `Batch` is the same for `loadAgents`, position by position. Changes of the chain are
proved once (`Grows`: the list grows at its end, mints that join have had no holder, each
mint has one). `PagesInOrder`, `OwnersHeldIt`, `StayingAgentsAreFound` and
`OnlyBurnedThrow` follow for any number of agents, wallets, changes and pages.

**FeedbackSubmission** (`FeedbackSubmission_proofs`). `OneEntryEach`: an entry of the tree is
that of a call whose transaction has landed, under its request's address, no address of
ours is there twice, and what landed is there. `Progress`: a call that returned has a
transaction that landed. `Reasons`: a call that threw, or a transaction that failed, has a
cause, and causes stay. They give `CreatedIsStored`, `OneWinner` (of all attempts at one
address one at most returns), `NoFailureByChance` and `Refinement`, for any number of
calls, any lifetime and history of roots.

**SatiWire** (`CodecLayer_proofs`, `WireMessages_proofs`, `SatiWire_proofs`).
`RoundTrip` says of one layer of codecs, for values of any length, that it reads what it
has written and leaves the bytes that follow, if the codec of its parts does
(`PartsReturn`). It takes an induction along the parts, since each is read where the one
before was found to end. The module is instantiated once per layer, with operators, and
the library's induction theorem takes an operator itself: the induction is therefore an
assumption about sets of numbers (`InductionHolds`), which `WireMessages_proofs` takes from
the library's theorem on the well-foundedness of the natural numbers and hands to every
instance. `CodecsRoundTrip` is the four layers together.

`InstructionArrives` is about any call of any of the nine builders that names accounts of
its instruction and arguments its codec can lay out: the handler gets the arguments, each
account in the field it was named for, the defaults of the builder for those left out,
and the privileges its struct asks for. The account lists of the client and of the
program are compared position by position (`Aligned`). `InstructionIsRead` is the way
back: the client's parsers find the instruction, its arguments and exactly the accounts
that were given. Of the accounts and events the handlers write there is a lemma for each
(`RegistryConfigRead`, `AgentRegisteredRead` and seven more), for any contents of their
fields: the client's codec of it reads back what the program's struct spelled out.

The rest follows the bytes of an attestation, for contents of any lengths the constants
allow: where each field of the layout lies (`Located`), that SDK and program compute one
interaction hash, nonce and address and, for text both decode alike, one message; that
the program's parser finds in the Ed25519 instruction the signatures the SDK put there,
one or two, in one instruction or several; that trees and queues are found again through
their indexes among the remaining accounts; that a number of BN254's field comes back as
the bytes it was made of; that encrypted content opens for its reader and nobody else.

`IInv` then says of a state which call is under way and that its bytes, its account and
its outcome are those of this call: `Idle`, `Generated` (a call of the generated client),
`Feedback` (a draft, its feedback, its account), `Closed` (the close of what a draft
became). Without it an outcome could belong to another call's bytes. It gives all eight
invariants of the run `wire`: `ArriveAsMeant`, `RejectForCause`, `RefuseForCause`,
`WhatWasWrittenIsRead`, `StoredAsMeant`, `AddressForetold`, `ClosesTheStored` and
`TableHolds`.

Only model-checked: `Completes`, `EveryCallEnds` and `CreatedIsFound` (liveness is beyond
the prover) and the runs that end in a violation. Every other property of a passing run
is a theorem.

## 5. Where the code and its documents disagree

Four are runs that check one property and find it violated; `PROJECT.json` quotes the lines.

- `close`: both close instructions read the agent at byte 32 and the counterparty at 64,
  the create instructions write them at 33 and 65. No party can close what the program
  created ("Signing party controls closure"). `SigningPartyCloses` holds nevertheless:
  the wrong party cannot either. The SDK's own check (client.ts:1858) slices the same way,
  so that `closeCompressedAttestation` never gets as far as sending.
- `public`: `createFeedback` passes the visitor's token account of the agent even where
  only the visitor signs; if it does not exist, Anchor rejects the instruction, though the
  program "does not validate" it and public feedback is for anyone.
- `link_evm`: `linkEvmAddress` derives the owner's account under Token-2022 and lets the
  builder fill in the older Token program: it always fails.
- `siws`: `TextDecoder` drops a byte order mark and replaces bytes that are not UTF-8; the
  message signed is then not the one the program looks for.

Met while modelling, and part of the models as the code has them, without a run of their own:

- `registerAgent` returns the counter as it is after confirmation (client.ts:575):
  another registration in between makes it another agent's number. What does hold
  (`ReturnedNumberCoversAgent`, proved) is that it is an upper bound.
- `create_regular_attestation` stores a DelegateV1 attestation at the reputation nonce (:214);
  `verify_agent_authorization` looks at the delegation nonce (signature.rs:459). Delegates
  act only on delegations issued directly through SAS.
- In DualSignature mode the agent's signer is compared with the holder (signature.rs:177), so
  that FeedbackV1's delegation schema has no effect.
- The address of an attestation depends on the tree the submitter names: a task can be
  attested once per tree.
- A deployment run that dies between creating its lookup table and saving forgets the table.
- `deriveReputationAttestationPda` (sas-pdas.ts) names another credential and schema than the
  deployment creates: `createReputationScore` fails (`ScoreAddressFits`), and
  `getReputationScore` finds nothing.
- Light's address tree, not the SDK, is what stops a retry from posting twice; the
  dashboard's dialog draws a new task reference per attempt, so that its retry does.
- The worker passes `counterpartyMessage` on in one branch only; a request with a
  `counterpartySignature` to build for another payer is refused by the SDK (`Refused`).
- `getAgentOwner`'s error for a burned agent is not one that `loadAgent` recognises: one burned
  agent makes its whole page of `listAllAgents` throw (`ThrowsOnlyOnBurned` says: nothing
  else does).
- `transferAgent` needs the recipient's token account and never creates it.
- Answers of Photon's V1 interface name no queue; the packed close instruction then has the
  tree in the queue's place (`ClosesWhatIsStored` allows for it).
- An encrypted content takes at least 73 bytes and a dual signature leaves room for 70.

## 6. What is not modelled

- Transaction sizes and compute units, except that `TableCovers` says which accounts the
  lookup table covers; fees and rent.
- What a hash, a cipher or a signature computes: they are tuples of what goes in, taken to
  be injective. The field arithmetic of BN254 is reduced to the byte that is cleared.
- Light's and SAS's own checks beyond existence, uniqueness of addresses and roots.
- Photon's other queries (signatures, balances, health), which the SDK does not use, and the
  SDK's queries that filter what the indexer returns: selections without state.
- The upload of the program, the search for a vanity key and the chunked extension of the
  lookup table in the deployment script.
- Registration files (`registration.ts`) and `helpers.ts`: validation and formatting.
- The pages of the dashboard, which show what the SDK reads; its listing from the last
  hundred transactions is noted as a hazard.
- Deletion of accounts by Light or the cluster, forks: a transaction that landed stays.

## 7. Plan

Done: the registry, the attestations, the reading and submitting calls of the SDK, the
wire and the deployment script; their abstract specifications, refinements and safety
proofs. What would come next, in this order:

1. The dashboard's listing (`lib/sati.ts`, `listAllAgents`): agents drop out of the last
   hundred transactions and pages shift under a reader.
2. The chunked creation and extension of the lookup table in `DeployScript`.
3. The composition of `FeedbackSubmission` with `SatiAttestation` at the level of
   signatures, in place of the common abstract specification.
