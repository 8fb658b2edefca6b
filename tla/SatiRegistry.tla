---------------------------- MODULE SatiRegistry ----------------------------
(***************************************************************************)
(* The registry of programs/sati: RegistryConfig, the AgentIndex PDAs, the  *)
(* SchemaConfig PDAs and the agent NFT mints, with the instructions that    *)
(* change them (instructions/registry, register_schema_config) and the SDK  *)
(* call SATIClient.registerAgent that drives register_agent.                *)
(*                                                                          *)
(* An instruction is one transaction: it happens as a whole or leaves the   *)
(* chain as it was.  A registerAgent call is several steps: it reads the    *)
(* counter, sends a transaction that names one AgentIndex PDA, waits for    *)
(* its confirmation and reads the counter again; other transactions land in *)
(* between, and a transaction may land after its caller has given up.       *)
(***************************************************************************)
EXTENDS Naturals, FiniteSets

CONSTANTS Wallets,      \* keys that sign and own tokens
          NoWallet,     \* Pubkey::default(), and COption::None of a mint authority
          Mints,        \* keypairs that registerAgent may generate
          NoMint,       \* content of an AgentIndex PDA that does not exist
          NoAccount,    \* a mint address without an account
          Groups,       \* Token-2022 mints offered to initialize as group_mint
          PdaGroups,    \* those that pass its checks: a 0-decimals mint with a
                        \* TokenGroup, both authorities being the registry PDA
          NoGroup,      \* the registry PDA does not exist yet
          GroupSize0,   \* TokenGroup.size of each group before initialize
          GroupMax,     \* TokenGroup.max_size of each group
          Schemas,      \* SAS schema addresses
          Configs,      \* contents of a SchemaConfig
          NoConfig,     \* the SchemaConfig PDA does not exist yet
          Clients,      \* concurrent callers of SATIClient.registerAgent
          CountMax      \* the largest total_agents (u64::MAX in the code)

ASSUME SentinelsAssumption ==
    /\ NoWallet \notin Wallets
    /\ NoMint \notin Mints
    /\ NoGroup \notin Groups
    /\ NoConfig \notin Configs

ASSUME GroupAssumption ==
    /\ PdaGroups \subseteq Groups
    /\ GroupSize0 \in [Groups -> Nat]
    /\ GroupMax \in [Groups -> Nat]

ASSUME CountAssumption == CountMax \in Nat

VARIABLES groupMint,    \* RegistryConfig.group_mint
          authority,    \* RegistryConfig.authority
          totalAgents,  \* RegistryConfig.total_agents
          agentIndex,   \* the AgentIndex PDA of every member number
          schemaConfig, \* the SchemaConfig PDA of every schema
          groupSize,    \* TokenGroup.size of every group mint
          account,      \* the mint account (and its one token) of every agent
          pending,      \* register_agent transactions sent and not yet executed
          call          \* the registerAgent call each client is in

config == <<groupMint, authority, schemaConfig>>
roll == <<totalAgents, agentIndex, groupSize>>
vars == <<groupMint, authority, totalAgents, agentIndex, schemaConfig,
          groupSize, account, pending, call>>

\* An agent's mint account: its mint authority, supply, TokenGroupMember number,
\* the NonTransferable extension, and the wallet whose ATA holds the token.
AgentMint == [mintAuthority : Wallets \cup {NoWallet}, supply : Nat, member : Nat,
              nonTransferable : BOOLEAN, holder : Wallets \cup {NoWallet}]

\* What a caller passes in: name, symbol, uri and the optional entries are
\* within the limits and without entries, with entries, or over a limit.
Metadata == {"plain", "entries", "oversized"}

ASSUME AccountAssumption == NoAccount \notin AgentMint

Transaction == [mint : Mints, number : Nat, owner : Wallets, ownerSigns : BOOLEAN,
                metadata : Metadata, nonTransferable : BOOLEAN]

\* A call has sent its transaction, returned a member number, or thrown.
Calls == [phase : {"idle", "sent", "returned", "threw"}, mint : Mints \cup {NoMint},
          number : Nat]

Idle == [phase |-> "idle", mint |-> NoMint, number |-> 0]

TypeOK ==
    /\ groupMint \in Groups \cup {NoGroup}
    /\ authority \in Wallets \cup {NoWallet}
    /\ totalAgents \in Nat
    /\ agentIndex \in [1..CountMax -> Mints \cup {NoMint}]
    /\ schemaConfig \in [Schemas -> Configs \cup {NoConfig}]
    /\ groupSize \in [Groups -> Nat]
    /\ account \in [Mints -> AgentMint \cup {NoAccount}]
    /\ pending \subseteq Transaction
    /\ call \in [Clients -> Calls]

Init ==
    /\ groupMint = NoGroup
    /\ authority = NoWallet
    /\ totalAgents = 0
    /\ agentIndex = [n \in 1..CountMax |-> NoMint]
    /\ schemaConfig = [s \in Schemas |-> NoConfig]
    /\ groupSize = GroupSize0
    /\ account = [m \in Mints |-> NoAccount]
    /\ pending = {}
    /\ call = [c \in Clients |-> Idle]

Initialized == groupMint # NoGroup

\* RegistryConfig::is_immutable: the authority is the default pubkey.
IsImmutable == authority = NoWallet

-----------------------------------------------------------------------------
(* Instructions                                                             *)

\* Mutant: init_if_needed.
InitializeAgain(w, g) ==
    /\ g \in PdaGroups
    /\ groupMint' = g
    /\ authority' = w
    /\ totalAgents' = 0
    /\ UNCHANGED <<agentIndex, schemaConfig, groupSize, account, pending, call>>

\* initialize: the registry PDA is `init`, so it succeeds once, for any signer.
Initialize(w, g) ==
    /\ ~Initialized
    /\ g \in PdaGroups
    /\ groupMint' = g
    /\ authority' = w
    /\ totalAgents' = 0
    /\ UNCHANGED <<agentIndex, schemaConfig, groupSize, account, pending, call>>

\* update_registry_authority: new = NoWallet is both None and Some(default).
UpdateAuthority(w, new) ==
    /\ Initialized
    /\ w = authority
    /\ ~IsImmutable
    /\ authority' = new
    /\ UNCHANGED <<groupMint, schemaConfig, roll, account, pending, call>>

\* Mutant: a configuration can be replaced.
RegisterSchemaConfigAgain(w, s, cfg) ==
    /\ Initialized
    /\ w = authority
    /\ schemaConfig' = [schemaConfig EXCEPT ![s] = cfg]
    /\ UNCHANGED <<groupMint, authority, roll, account, pending, call>>

\* register_schema_config: the PDA is `init`, nothing ever rewrites it.
RegisterSchemaConfig(w, s, cfg) ==
    /\ Initialized
    /\ w = authority
    /\ ~IsImmutable
    /\ schemaConfig[s] = NoConfig
    /\ schemaConfig' = [schemaConfig EXCEPT ![s] = cfg]
    /\ UNCHANGED <<groupMint, authority, roll, account, pending, call>>

\* Mutant: any number up to the next one, whether its PDA exists or not.
IndexSeedsMatchLoosely(tx) ==
    totalAgents < CountMax /\ tx.number <= totalAgents + 1

\* The AgentIndex account of a transaction has to be the PDA of total_agents + 1
\* at the time it executes, and `init` needs it to be absent.
IndexSeedsMatch(tx) ==
    /\ totalAgents < CountMax
    /\ tx.number = totalAgents + 1
    /\ agentIndex[tx.number] = NoMint

\* Every condition of register_agent and of the Token-2022 calls it makes: the
\* metadata entries are written with the owner as update authority, so the
\* owner has to sign the transaction (the SDK has it sign only as the payer).
RegisterSucceeds(tx) ==
    /\ Initialized
    /\ IndexSeedsMatch(tx)
    /\ tx.metadata # "oversized"
    /\ tx.metadata = "entries" => tx.ownerSigns
    /\ account[tx.mint] = NoAccount
    /\ groupSize[groupMint] < GroupMax[groupMint]

\* Mutant: the counter is not incremented when the metadata has entries.
RegisterAgentMiscounted(tx) ==
    /\ RegisterSucceeds(tx)
    /\ account' = [account EXCEPT ![tx.mint] =
                     [mintAuthority |-> NoWallet, supply |-> 1,
                      member |-> groupSize[groupMint] + 1,
                      nonTransferable |-> tx.nonTransferable,
                      holder |-> tx.owner]]
    /\ groupSize' = [groupSize EXCEPT ![groupMint] = @ + 1]
    /\ totalAgents' = IF tx.metadata = "entries" THEN totalAgents ELSE totalAgents + 1
    /\ agentIndex' = [agentIndex EXCEPT ![tx.number] = tx.mint]
    /\ pending' = pending \ {tx}
    /\ UNCHANGED <<config, call>>

\* register_agent.  The payer is the mint authority until the last call to
\* Token-2022 renounces it; Token-2022 numbers the member and counts it.
RegisterAgent(tx) ==
    /\ RegisterSucceeds(tx)
    /\ account' = [account EXCEPT ![tx.mint] =
                     [mintAuthority |-> NoWallet, supply |-> 1,
                      member |-> groupSize[groupMint] + 1,
                      nonTransferable |-> tx.nonTransferable,
                      holder |-> tx.owner]]
    /\ groupSize' = [groupSize EXCEPT ![groupMint] = @ + 1]
    /\ totalAgents' = totalAgents + 1
    /\ agentIndex' = [agentIndex EXCEPT ![tx.number] = tx.mint]
    /\ pending' = pending \ {tx}
    /\ UNCHANGED <<config, call>>

\* A transaction that does not succeed changes nothing: one of the conditions
\* fails when it executes, or its blockhash expires before it does.
TransactionFails(tx) ==
    /\ pending' = pending \ {tx}
    /\ UNCHANGED <<config, roll, account, call>>

-----------------------------------------------------------------------------
(* SATIClient.registerAgent                                                 *)

\* Keypairs are generated: no two calls share one.
Fresh(m) ==
    /\ account[m] = NoAccount
    /\ \A tx \in pending : tx.mint # m
    /\ \A c \in Clients : call[c].mint # m

\* The call reads the registry, builds its transaction from what it read and
\* sends it.  A call that threw may be tried again by its caller.
SendRegistration(c, m, owner, ownerSigns, metadata, nonTransferable) ==
    /\ call[c].phase # "sent"
    /\ Initialized
    /\ Fresh(m)
    /\ pending' = pending \cup
          {[mint |-> m, number |-> totalAgents + 1, owner |-> owner,
            ownerSigns |-> ownerSigns, metadata |-> metadata,
            nonTransferable |-> nonTransferable]}
    /\ call' = [call EXCEPT ![c] = [phase |-> "sent", mint |-> m, number |-> 0]]
    /\ UNCHANGED <<config, roll, account>>

\* sendAndConfirm throws: the transaction failed or expired, or the connection
\* to the RPC node did, whatever becomes of the transaction.
SendThrows(c) ==
    /\ call[c].phase = "sent"
    /\ call' = [call EXCEPT ![c] = [Idle EXCEPT !.phase = "threw"]]
    /\ UNCHANGED <<config, roll, account, pending>>

\* Mutant: the call returns before its transaction is confirmed.
ReturnUnconfirmed(c) ==
    /\ call[c].phase = "sent"
    /\ call' = [call EXCEPT ![c].phase = "returned", ![c].number = totalAgents]
    /\ UNCHANGED <<config, roll, account, pending>>

\* Confirmed: the call reads the registry again and returns total_agents.
ReturnMemberNumber(c) ==
    /\ call[c].phase = "sent"
    /\ account[call[c].mint] # NoAccount
    /\ call' = [call EXCEPT ![c].phase = "returned", ![c].number = totalAgents]
    /\ UNCHANGED <<config, roll, account, pending>>

-----------------------------------------------------------------------------
(* Token-2022, used directly by the owners of agents                        *)

Transfer(m, to) ==
    /\ account[m] # NoAccount
    /\ account[m].supply > 0
    /\ ~account[m].nonTransferable
    /\ account' = [account EXCEPT ![m].holder = to]
    /\ UNCHANGED <<config, roll, pending, call>>

\* Mutant: unchecked subtraction.
BurnUnchecked(m) ==
    /\ account[m] # NoAccount
    /\ account' = [account EXCEPT ![m].supply = @ - 1, ![m].holder = NoWallet]
    /\ UNCHANGED <<config, roll, pending, call>>

Burn(m) ==
    /\ account[m] # NoAccount
    /\ account[m].supply > 0
    /\ account' = [account EXCEPT ![m].supply = @ - 1, ![m].holder = NoWallet]
    /\ UNCHANGED <<config, roll, pending, call>>

-----------------------------------------------------------------------------
Next ==
    \/ \E w \in Wallets, g \in Groups : Initialize(w, g)
    \/ \E w \in Wallets, new \in Wallets \cup {NoWallet} : UpdateAuthority(w, new)
    \/ \E w \in Wallets, s \in Schemas, cfg \in Configs : RegisterSchemaConfig(w, s, cfg)
    \/ \E tx \in pending : RegisterAgent(tx) \/ TransactionFails(tx)
    \/ \E c \in Clients, m \in Mints, owner \in Wallets, ownerSigns \in BOOLEAN,
          metadata \in Metadata, nonTransferable \in BOOLEAN :
            SendRegistration(c, m, owner, ownerSigns, metadata, nonTransferable)
    \/ \E c \in Clients : SendThrows(c) \/ ReturnMemberNumber(c)
    \/ \E m \in Mints, to \in Wallets : Transfer(m, to)
    \/ \E m \in Mints : Burn(m)

Spec == Init /\ [][Next]_vars

-----------------------------------------------------------------------------
(* Properties                                                               *)

Registered(m) == \E n \in 1..totalAgents : agentIndex[n] = m

\* Enumeration: walking the AgentIndex PDAs from 1 to total_agents meets every
\* registered agent exactly once, with no gap and nothing beyond the end, however
\* many transactions were built for the same number.
Enumeration ==
    /\ \A n \in 1..CountMax : agentIndex[n] # NoMint <=> n <= totalAgents
    /\ \A n, k \in 1..totalAgents : agentIndex[n] = agentIndex[k] => n = k
    /\ \A m \in Mints : account[m] # NoAccount <=> Registered(m)

\* The number Token-2022 wrote in an agent's TokenGroupMember extension is its
\* AgentIndex number, shifted by what the group held before initialize.
MemberNumbersAgree ==
    Initialized =>
        /\ groupSize[groupMint] = GroupSize0[groupMint] + totalAgents
        /\ \A n \in 1..totalAgents :
              account[agentIndex[n]].member = GroupSize0[groupMint] + n

\* Transactions built from the same reading of the counter compete for one
\* AgentIndex PDA: the step that lets one of them in shuts out all the others,
\* which can only fail from then on.
RaceHasOneWinner ==
    [][\A t, u \in pending :
         t # u /\ t.number = u.number /\ ~Registered(t.mint) /\ Registered(t.mint)'
            => ~RegisterSucceeds(u)']_vars

\* registerAgent returns a number at which enumeration has already reached the
\* caller's agent: what it returns is an upper bound of the agent's own number.
ReturnedNumberCoversAgent ==
    \A c \in Clients :
        call[c].phase = "returned" =>
            \E n \in 1..call[c].number : agentIndex[n] = call[c].mint

\* Where the group was empty at initialize, the number under which AgentIndex files an
\* agent is its member number.
IndexIsMemberNumber ==
    Initialized /\ GroupSize0[groupMint] = 0 =>
        \A n \in 1..totalAgents : account[agentIndex[n]].member = n

\* An immutable registry stays immutable, its schema configurations are frozen,
\* and its list of agents can only grow: renouncing removes the authority's
\* powers and nothing else.
RenouncedForever ==
    [][Initialized /\ IsImmutable =>
         /\ IsImmutable' /\ UNCHANGED <<groupMint, schemaConfig>>
         /\ \A n \in 1..totalAgents : agentIndex'[n] = agentIndex[n]]_vars

\* The registry implements the ledger it promises: what a reader sees through
\* total_agents, the AgentIndex PDAs, the authority and the schema configurations.
Ledger == INSTANCE AgentLedger WITH
              Agents <- Mints, Admins <- Wallets, NoAdmin <- NoWallet,
              Pages <- Schemas, Contents <- Configs, Blank <- NoConfig,
              members <- [n \in 1..totalAgents |-> agentIndex[n]],
              open <- Initialized, admin <- authority, book <- schemaConfig

ImplementsLedger == Ledger!Spec
=============================================================================
