----------------------------- MODULE AgentReads -----------------------------
(***************************************************************************)
(* How SATIClient reads agents (loadAgent, loadAgents, getAgentOwner,        *)
(* getAgentByMemberNumber, listAllAgents, listAgentsByOwner) while agents    *)
(* are registered, transferred and burned, and token accounts are opened     *)
(* and closed.                                                               *)
(*                                                                          *)
(* Each read is an RPC request, and others act between two of them.  The     *)
(* registry is what AgentLedger specifies and SatiRegistry implements: an    *)
(* append-only list.                                                         *)
(***************************************************************************)
EXTENDS Naturals, Sequences, FiniteSets

CONSTANTS Wallets,
          NoWallet,     \* no token account found yet
          Agents,       \* mints that register_agent may create
          Foreign,      \* Token-2022 NFTs with metadata outside the registry's group
          Null,         \* what loadAgents puts where it found no agent
          Limit,        \* options.limit
          MaxMoves      \* bound: changes of the chain during one call

Mints == Agents \cup Foreign

ASSUME WalletAssumption == NoWallet \notin Wallets
ASSUME MintAssumption == Agents \cap Foreign = {} /\ IsFiniteSet(Mints)
ASSUME LimitAssumption == Limit \in Nat \ {0} /\ MaxMoves \in Nat

VARIABLES members,      \* the AgentIndex PDAs, in order of member number
          token,        \* every wallet's associated token account of every mint
          kind, phase,  \* the call, and the request it makes next
          todo,         \* the mints it loads,
          next,         \* how far it is with them,
          exist,        \* the mints that one request for many has found
          account,      \* the owner of the token account getAgentOwner has found
          result,       \* what it returns
          offset,       \* options.offset of a page
          walk,         \* the agents of the pages before
          asked,        \* the wallet listAgentsByOwner was called with
          held, kept,   \* the wallets that have held each mint at some time, and at
                        \* all times, since the call began
          moves         \* changes of the chain since the call began

chain == <<members, token>>
page == <<offset, walk>>
seen == <<held, kept, moves>>
reader == <<kind, phase, todo, next, exist, account, result, page, asked>>
vars == <<chain, reader, seen>>

Kinds == {"one", "number", "mints", "list", "owner"}
Reading == phase \in {"stats", "index", "batch", "tokens", "mints", "holder", "account"}

\* AgentIdentity: the fields that other transactions can change or confuse.
AgentIdentity == [mint : Mints, owner : Wallets]

TypeOK ==
    /\ members \in Seq(Agents)
    /\ token \in [Mints -> [Wallets -> {"none", "empty", "full"}]]
    /\ kind \in Kinds
    /\ Reading \/ phase \in {"idle", "returned", "threw"}
    /\ todo \in Seq(Mints) /\ next \in Nat /\ exist \subseteq Mints
    /\ account \in Wallets \cup {NoWallet}
    /\ result \in Seq(AgentIdentity \cup {Null}) /\ walk \in Seq(AgentIdentity \cup {Null})
    /\ offset \in Nat
    /\ asked \in Wallets \cup {NoWallet}
    /\ held \in [Mints -> SUBSET Wallets] /\ kept \in [Mints -> SUBSET Wallets]
    /\ moves \in 0..MaxMoves

ASSUME NullAssumption == Null \notin AgentIdentity

Registered(m) == \E n \in 1..Len(members) : members[n] = m
Holders(m) == {w \in Wallets : token[m][w] = "full"}
HoldersNow == [m \in Mints |-> Holders(m)]
Nobody == [m \in Mints |-> {}]

\* The mint account exists; nothing closes it.
Exists(m) == m \in Foreign \/ Registered(m)

\* Foreign NFTs are there from the beginning, each with some wallet.
Init ==
    /\ members = <<>>
    /\ \E h \in [Foreign -> Wallets] :
          token = [m \in Mints |-> [w \in Wallets |->
                     IF m \in Foreign /\ h[m] = w THEN "full" ELSE "none"]]
    /\ kind = "one" /\ phase = "idle"
    /\ todo = <<>> /\ next = 1 /\ exist = {} /\ account = NoWallet
    /\ result = <<>> /\ walk = <<>> /\ offset = 0
    /\ asked = NoWallet
    /\ held = Nobody /\ kept = Nobody
    /\ moves = 0

-----------------------------------------------------------------------------
(* The chain                                                                *)

\* What holds of every change of the chain: readers do not notice, but the model
\* remembers who has held what while a call runs.
Moving ==
    /\ Reading \/ phase = "idle"
    /\ IF Reading
       THEN /\ moves < MaxMoves
            /\ moves' = moves + 1
            /\ held' = [m \in Mints |-> held[m] \cup Holders(m)']
            /\ kept' = [m \in Mints |-> kept[m] \cap Holders(m)']
       ELSE UNCHANGED seen
    /\ UNCHANGED reader

\* register_agent, as readers see it (AgentLedger's Admit): the next AgentIndex, the
\* agent's one token.
Register(m, w) ==
    /\ ~Registered(m)
    /\ members' = Append(members, m)
    /\ token' = [token EXCEPT ![m][w] = "full"]
    /\ Moving

\* transferAgent: from one associated token account to another, which must be there.
\* transferAgentWithAuthority also hands over the metadata, which no call looks at.
TransferAgent(m, from, to) ==
    /\ token[m][from] = "full"
    /\ token[m][to] = "empty"
    /\ token' = [token EXCEPT ![m][from] = "empty", ![m][to] = "full"]
    /\ Moving
    /\ UNCHANGED members

\* Owners burn with Token-2022 directly.
Burn(m, w) ==
    /\ token[m][w] = "full"
    /\ token' = [token EXCEPT ![m][w] = "empty"]
    /\ Moving
    /\ UNCHANGED members

\* Anybody opens a token account, its owner closes it once it is empty.
OpenAccount(m, w) ==
    /\ Exists(m) /\ token[m][w] = "none"
    /\ token' = [token EXCEPT ![m][w] = "empty"]
    /\ Moving
    /\ UNCHANGED members

CloseAccount(m, w) ==
    /\ token[m][w] = "empty"
    /\ token' = [token EXCEPT ![m][w] = "none"]
    /\ Moving
    /\ UNCHANGED members

-----------------------------------------------------------------------------
(* The calls                                                                *)

\* What the calls have in common.
Begin(k, first, mints) ==
    /\ kind' = k /\ phase' = first
    /\ todo' = mints /\ next' = 1
    /\ exist' = {} /\ account' = NoWallet /\ result' = <<>>
    /\ held' = HoldersNow /\ kept' = HoldersNow /\ moves' = 0
    /\ UNCHANGED chain

\* loadAgent reads the mint account, which is null if it does not exist, and
\* then asks getAgentOwner.
LoadAgent(m) ==
    /\ phase = "idle"
    /\ Begin("one", IF Exists(m) THEN "holder" ELSE "returned", <<m>>)
    /\ UNCHANGED <<page, asked>>

GetAgentByMemberNumber(n) ==
    /\ phase = "idle"
    /\ Begin("number", IF n < 1 THEN "returned" ELSE "index", <<>>)
    /\ offset' = n /\ walk' = <<>>
    /\ UNCHANGED asked

LoadAgents(mints) ==
    /\ phase = "idle"
    /\ Begin("mints", IF mints = <<>> THEN "returned" ELSE "batch", mints)
    /\ UNCHANGED <<page, asked>>

ListAllAgents(o) ==
    /\ phase = "idle"
    /\ Begin("list", IF o < 1 THEN "returned" ELSE "stats", <<>>)
    /\ offset' = o /\ walk' = <<>>
    /\ UNCHANGED asked

\* Mutant: the next page begins with the last agent of this one.
NextPageOverlapping ==
    /\ kind = "list" /\ phase = "returned" /\ Len(result) = Limit
    /\ Begin("list", "stats", <<>>)
    /\ offset' = offset + Limit - 1 /\ walk' = walk \o result
    /\ UNCHANGED asked

\* "Get next page": a caller whose page came back full goes on behind it.
NextPage ==
    /\ kind = "list" /\ phase = "returned" /\ Len(result) = Limit
    /\ Begin("list", "stats", <<>>)
    /\ offset' = offset + Limit /\ walk' = walk \o result
    /\ UNCHANGED asked

ListAgentsByOwner(w) ==
    /\ phase = "idle"
    /\ Begin("owner", "stats", <<>>)
    /\ asked' = w
    /\ UNCHANGED page

\* The caller has seen what was returned or thrown.
Done ==
    /\ phase \in {"returned", "threw"}
    /\ kind' = "one" /\ phase' = "idle"
    /\ todo' = <<>> /\ next' = 1 /\ exist' = {} /\ account' = NoWallet
    /\ result' = <<>> /\ walk' = <<>> /\ offset' = 0
    /\ asked' = NoWallet
    /\ held' = Nobody /\ kept' = Nobody
    /\ moves' = 0
    /\ UNCHANGED chain

-----------------------------------------------------------------------------
(* The requests                                                             *)

Request == UNCHANGED <<chain, kind, page, asked, seen>>

\* The end of the page: the last member number if there are not Limit more.
End == IF offset + Limit - 1 > Len(members) THEN Len(members) ELSE offset + Limit - 1

\* Mutant: the last agent of the registry is out of range.
ReadStatsExclusive ==
    /\ phase = "stats"
    /\ IF kind = "owner"
       THEN phase' = "tokens" /\ UNCHANGED todo
       ELSE IF offset >= Len(members)
            THEN phase' = "returned" /\ UNCHANGED todo
            ELSE phase' = "index" /\ todo' = SubSeq(members, offset, End)
    /\ Request
    /\ UNCHANGED <<next, exist, account, result>>

\* getRegistryStats.  What listAllAgents does with the counter: which indexes it will
\* read.  What those contain is settled now, because they are written once.
ReadStats ==
    /\ phase = "stats"
    /\ IF kind = "owner"
       THEN phase' = "tokens" /\ UNCHANGED todo
       ELSE IF offset > Len(members)
            THEN phase' = "returned" /\ UNCHANGED todo
            ELSE phase' = "index" /\ todo' = SubSeq(members, offset, End)
    /\ Request
    /\ UNCHANGED <<next, exist, account, result>>

\* The AgentIndex accounts: all of the page at once, or the one of a number.
ReadIndexes ==
    /\ phase = "index"
    /\ IF kind = "list"
       THEN phase' = "holder" /\ UNCHANGED todo
       ELSE IF offset > Len(members)
            THEN phase' = "returned" /\ UNCHANGED todo
            ELSE phase' = "holder" /\ todo' = <<members[offset]>>
    /\ Request
    /\ UNCHANGED <<next, exist, account, result>>

\* getMultipleAccounts of loadAgents.
ReadMints ==
    /\ phase = "batch"
    /\ exist' = {m \in Mints : Exists(m)}
    /\ phase' = "holder"
    /\ Request
    /\ UNCHANGED <<todo, next, account, result>>

\* getTokenAccountsByOwner: the NFTs of the wallet.
ReadTokens ==
    /\ phase = "tokens"
    /\ exist' = {m \in Mints : token[m][asked] = "full"}
    /\ phase' = IF exist' = {} THEN "returned" ELSE "mints"
    /\ Request
    /\ UNCHANGED <<todo, next, account, result>>

\* getMultipleAccounts of listAgentsByOwner: members of the registry's group remain,
\* in the node's order.
ReadGroup ==
    /\ phase = "mints"
    /\ LET ours == exist \cap Agents
       IN  \E order \in [1..Cardinality(ours) -> ours] :
              /\ \A m \in ours : \E i \in DOMAIN order : order[i] = m
              /\ result' = [i \in DOMAIN order |-> [mint |-> order[i], owner |-> asked]]
    /\ phase' = "returned"
    /\ Request
    /\ UNCHANGED <<todo, next, exist, account>>

\* On to the next mint, or the end of the call.
Advance(res) ==
    /\ result' = res
    /\ account' = NoWallet
    /\ next' = next + 1
    /\ phase' = IF next = Len(todo) THEN "returned" ELSE "holder"

\* Mutant: an agent without a holder is returned without one.
NoHolderNamed ==
    Advance(Append(result, [mint |-> todo[next], owner |-> NoWallet]))

\* An agent without a holder is an Error: loadAgents puts null in its place, the
\* other calls throw, because loadAgent's catch does not know its message.
NoHolder ==
    IF kind = "mints" THEN Advance(Append(result, Null))
                      ELSE phase' = "threw" /\ UNCHANGED <<next, account, result>>

\* Mutant: the first of the largest accounts will do.
FindAnyAccount ==
    /\ phase = "holder"
    /\ LET m == todo[next]
           accounts == {w \in Wallets : token[m][w] # "none"}
       IN  IF kind = "mints" /\ m \notin exist THEN Advance(Append(result, Null))
           ELSE IF accounts = {} THEN NoHolder
           ELSE /\ account' \in accounts
                /\ phase' = "account"
                /\ UNCHANGED <<next, result>>
    /\ Request
    /\ UNCHANGED <<todo, exist>>

\* getAgentOwner, first request: the account with a token among the largest ones.
FindHolder ==
    /\ phase = "holder"
    /\ LET m == todo[next]
       IN  IF kind = "mints" /\ m \notin exist THEN Advance(Append(result, Null))
           ELSE IF Holders(m) = {} THEN NoHolder
           ELSE /\ account' \in Holders(m)
                /\ phase' = "account"
                /\ UNCHANGED <<next, result>>
    /\ Request
    /\ UNCHANGED <<todo, exist>>

\* Mutant: a closed account is an error.
ReadOwnerOrThrow ==
    /\ phase = "account"
    /\ LET m == todo[next]
       IN  IF token[m][account] = "none"
           THEN phase' = "threw" /\ UNCHANGED <<next, account, result>>
           ELSE Advance(Append(result, [mint |-> m, owner |-> account]))
    /\ Request
    /\ UNCHANGED <<todo, exist>>

\* getAgentOwner, second request: the owner of that account, whatever has become of
\* its token.  If it has been closed meanwhile loadAgent returns null: listAllAgents
\* leaves the agent out, loadAgents puts null in its place.
ReadOwner ==
    /\ phase = "account"
    /\ LET m == todo[next]
       IN  IF token[m][account] = "none"
           THEN Advance(IF kind = "mints" THEN Append(result, Null) ELSE result)
           ELSE Advance(Append(result, [mint |-> m, owner |-> account]))
    /\ Request
    /\ UNCHANGED <<todo, exist>>

-----------------------------------------------------------------------------
Change ==
    \/ \E m \in Agents, w \in Wallets : Register(m, w)
    \/ \E m \in Mints, w \in Wallets : Burn(m, w) \/ OpenAccount(m, w) \/ CloseAccount(m, w)
    \/ \E m \in Mints, from, to \in Wallets : TransferAgent(m, from, to)

\* Queries is what loadAgents may be asked for.
CONSTANT Queries
ASSUME QueryAssumption == Queries \subseteq Seq(Mints)

Call ==
    \/ \E m \in Mints : LoadAgent(m)
    \/ \E n \in 0..Cardinality(Agents) : GetAgentByMemberNumber(n) \/ ListAllAgents(n)
    \/ \E q \in Queries : LoadAgents(q)
    \/ NextPage \/ Done
    \/ \E w \in Wallets : ListAgentsByOwner(w)

Read == ReadStats \/ ReadIndexes \/ ReadMints \/ ReadTokens \/ ReadGroup
        \/ FindHolder \/ ReadOwner

Next == Change \/ Call \/ Read

Spec == Init /\ [][Next]_vars

-----------------------------------------------------------------------------
(* Properties                                                               *)

Returned(k) == kind = k /\ phase = "returned"
Listed == walk \o result
Found(m) == \E i \in 1..Len(result) : result[i] # Null /\ result[i].mint = m

\* However the registry grows between two pages and whatever drops out of them, the
\* agents of a walk through listAllAgents come in the order of their member
\* numbers, none of them twice.
ListedInOrder ==
    kind = "list" =>
        \A i, j \in 1..Len(Listed) : i < j =>
            \E n, k \in 1..Len(members) : /\ n < k
                                          /\ members[n] = Listed[i].mint
                                          /\ members[k] = Listed[j].mint

\* The owner that any of the calls names has held the agent at some time while the
\* call ran, though the account is found by one request and read by another.
OwnerHeldIt ==
    \A i \in 1..Len(result) :
        result[i] # Null => result[i].owner \in held[result[i].mint]

\* An agent that kept its holder while the call ran is in the answer: in its page of
\* listAllAgents, at its place in the answer of loadAgents, and among its owner's
\* agents, which are agents of the registry; what others do meanwhile never hides it.
KeptAgentsAreFound ==
    /\ Returned("list") =>
          \A n \in 1..Len(members) :
              offset <= n /\ n < offset + Limit /\ 1 <= offset /\ kept[members[n]] # {}
                  => Found(members[n])
    /\ Returned("mints") =>
          /\ Len(result) = Len(todo)
          /\ \A i \in 1..Len(todo) :
                IF kept[todo[i]] # {}
                THEN result[i] # Null /\ result[i].mint = todo[i]
                ELSE result[i] = Null \/ result[i].mint = todo[i]
    /\ Returned("owner") =>
          /\ \A n \in 1..Len(members) : asked \in kept[members[n]] => Found(members[n])
          /\ \A i \in 1..Len(result) : Registered(result[i].mint)

\* Calls throw only on account of a mint that exists and has been burned; loadAgents
\* and listAgentsByOwner never do.
ThrowsOnlyOnBurned ==
    phase = "threw" =>
        /\ kind \in {"one", "number", "list"}
        /\ \E i \in 1..Len(todo) : Exists(todo[i]) /\ Holders(todo[i]) = {}
=============================================================================
