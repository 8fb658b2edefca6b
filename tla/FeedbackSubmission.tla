------------------------- MODULE FeedbackSubmission -------------------------
(***************************************************************************)
(* How attestations get to the chain: createFeedback, createValidation,     *)
(* createReputationScore and buildFeedbackTransaction of SATIClient, called *)
(* directly or by the dashboard's worker for a visitor.                      *)
(*                                                                          *)
(* A call reads the agent, asks Photon, an indexer that lags behind the     *)
(* chain, for a proof that the attestation's address is new, takes a         *)
(* blockhash, and sends one transaction.  In between the agent changes       *)
(* hands, others insert addresses into the same Light tree or submit the     *)
(* same attestation, requests fail, and transactions are dropped.            *)
(* What the program does with the transaction is SatiAttestation's           *)
(* create_compressed_attestation, with the accounts the SDK passes.          *)
(***************************************************************************)
EXTENDS Naturals, Sequences, FiniteSets

CONSTANTS Wallets, Nobody, Agents, Tasks,
          Schemas,        \* SAS schemas with a SchemaConfig
          Mode,           \* the signature_mode of each
          NumCalls,       \* bound: calls
          Requests,       \* what they may be called with
          Elsewhere,      \* addresses of other programs
          Lifetime,       \* slots for which a blockhash is good
          RootHistory,    \* roots that the address tree remembers
          MaxTree, MaxTroubles    \* bounds: insertions by others; moves of agents and
                                  \* accounts, and failing requests, together

\* CreateFeedbackParams, CreateValidationParams, CreateReputationScoreParams and the
\* body of /api/build-feedback-tx, as far as their fate depends on it.  signer is
\* agentSignature.pubkey, signs what that signature is of; cosigned says that the
\* counterparty's signature is given, message that counterpartyMessage is; fits is
\* the strictest of the two content limits that the content meets.
Request ==
    [api : {"create", "build", "validate", "score", "worker"},
     schema : Schemas, agent : Agents, task : Tasks, party : Wallets,
     signer : Wallets, signs : {"interaction", "siws"},
     cosigned : BOOLEAN, message : BOOLEAN, fits : {"dual", "single", "none"}]

ASSUME RequestAssumption ==
    /\ Mode \in [Schemas -> {"dual", "counterparty", "owner"}]
    /\ Requests \subseteq Request /\ Requests # {}
    /\ Nobody \notin Wallets
    /\ Elsewhere \notin Schemas \X Agents \X Tasks \X Wallets
\* Calls are numbered as they begin.
Calls == 1..NumCalls

ASSUME BoundAssumption ==
    /\ NumCalls \in Nat
    /\ Lifetime \in Nat /\ RootHistory \in Nat \ {0}
    /\ MaxTree \in Nat /\ MaxTroubles \in Nat

VARIABLES holder,       \* the wallet with each agent's token
          accounts,     \* the wallets with a token account of each agent
          tree,         \* Light's address tree: what was inserted, in order
          indexed,      \* how much of it Photon has seen
          pc,           \* what each call is waiting for
          request,      \* what it was called with
          root,         \* the root of its validity proof
          age,          \* slots since its blockhash
          tx,           \* its transaction
          disturbed,    \* its agent's token or its signer's account has moved,
          faulted,      \* or a request of its has failed, since it began
          troubles

owners == <<holder, accounts>>
calls == <<pc, request, root, age, tx, disturbed, faulted>>
vars == <<owners, tree, indexed, calls, troubles>>

Waiting == {"load", "prove", "blockhash", "sending"}
Running == Waiting \cup {"built"}

-----------------------------------------------------------------------------
(* What a call sends                                                        *)

\* computeAttestationNonce and deriveAttestationAddress.
Address(r) == <<r.schema, r.agent, r.task, r.party>>

\* The worker passes counterpartyMessage on only if it pays itself, without a
\* counterpartySignature; what it builds for others to pay never has the message.
Worker(r) ==
    IF r.message THEN [r EXCEPT !.api = "create", !.cosigned = FALSE]
                 ELSE [r EXCEPT !.api = "build"]

Params(r) == IF r.api = "worker" THEN Worker(r) ELSE r

\* validateContentSize: the limit is that of the signatures given.
ContentFits(r) ==
    \/ r.api = "score"
    \/ IF r.cosigned \/ r.api = "validate" THEN r.fits = "dual" ELSE r.fits # "none"

\* The arguments are refused before anything is read.
Refused(r) ==
    LET p == Params(r)
    IN  \/ r.api = "worker" /\ r.fits = "none"
        \/ p.cosigned /\ ~p.message
        \/ p.api = "validate" /\ ~p.message
        \/ ~ContentFits(p)

\* The Ed25519 instruction: the agent's signature over the interaction hash and the
\* counterparty's over the SIWS message, or one signature over one of them.
Entries(p) ==
    LET entry(w, m, s) == [signer |-> w, message |-> m, signed |-> s]
    IN  IF p.api # "score" /\ (p.cosigned \/ p.api = "validate")
        THEN {entry(p.signer, "interaction", p.signs), entry(p.party, "siws", "siws")}
        ELSE {entry(p.signer,
                    IF p.api # "score" /\ p.message THEN "siws" ELSE "interaction", p.signs)}

Signed(p, w, m) == \E e \in Entries(p) : e.signer = w /\ e.message = m

\* The precompile refuses the whole transaction for one signature that does not
\* match its message.
Precompile(p) == \A e \in Entries(p) : e.message = e.signed

\* The signatures that the schema's mode asks for.
SignedForMode(p) ==
    CASE Mode[p.schema] = "dual" ->
            /\ Signed(p, p.signer, "interaction") /\ Signed(p, p.party, "siws")
            /\ p.signer # p.party
      [] Mode[p.schema] = "counterparty" -> Signed(p, p.party, "siws")
      [] Mode[p.schema] = "owner" -> Signed(p, p.signer, "interaction")

Proper(r) == ~Refused(r) /\ Precompile(Params(r)) /\ SignedForMode(Params(r))

\* agent_ata, which the SDK always passes: the ATA of agentSignature.pubkey must be a
\* token account in every mode, and hold the token unless only the counterparty signs.
AccountsFit(p) ==
    /\ p.signer \in accounts[p.agent]
    /\ Mode[p.schema] = "counterparty" \/ holder[p.agent] = p.signer

\* deriveReputationAttestationPda: SAS looks for the score under the credential and
\* the schema it is given, which are those of the deployment.
ScorePda(credential, schema, p) == <<credential, schema, p.party, p.agent>>
ScoreAddressFits(p) ==
    p.api # "score" \/
    ScorePda("SATI of the program's PDA", "ReputationScore", p) =
    ScorePda("SATI of the deployer", "SATIReputationScoreV1", p)

-----------------------------------------------------------------------------
(* The chain and the indexer                                                *)

Inserted == {tree[i].address : i \in 1..Len(tree)}
Indexed == {tree[i].address : i \in 1..indexed}
Stale(c) == Len(tree) - root[c] >= RootHistory
NoRequest == CHOOSE r \in Requests : TRUE

Init ==
    /\ holder \in [Agents -> Wallets]
    /\ accounts \in [Agents -> SUBSET Wallets]
    /\ \A a \in Agents : holder[a] \in accounts[a]
    /\ tree = <<>>
    /\ indexed = 0
    /\ pc = [c \in Calls |-> "idle"]
    /\ request = [c \in Calls |-> NoRequest]
    /\ root = [c \in Calls |-> 0]
    /\ age = [c \in Calls |-> 0]
    /\ tx = [c \in Calls |-> "none"]
    /\ disturbed = [c \in Calls |-> FALSE]
    /\ faulted = [c \in Calls |-> FALSE]
    /\ troubles = 0

Concerned(c, a, w) ==
    /\ pc[c] # "idle"
    /\ request[c].agent = a
    /\ w \in {request[c].signer, holder[a]}

\* The token of a or an account of w is about to change.
Disturb(a, w) ==
    /\ troubles < MaxTroubles
    /\ troubles' = troubles + 1
    /\ disturbed' = [c \in Calls |-> disturbed[c] \/ Concerned(c, a, w)]
    /\ UNCHANGED <<tree, indexed, pc, request, root, age, tx, faulted>>

Transfer(a, to) ==
    /\ holder[a] \in Wallets \ {to}
    /\ to \in accounts[a]
    /\ holder' = [holder EXCEPT ![a] = to]
    /\ Disturb(a, holder[a])
    /\ UNCHANGED accounts

Burn(a) ==
    /\ holder[a] \in Wallets
    /\ holder' = [holder EXCEPT ![a] = Nobody]
    /\ Disturb(a, holder[a])
    /\ UNCHANGED accounts

OpenAccount(a, w) ==
    /\ w \notin accounts[a]
    /\ accounts' = [accounts EXCEPT ![a] = @ \cup {w}]
    /\ Disturb(a, w)
    /\ UNCHANGED holder

CloseAccount(a, w) ==
    /\ w \in accounts[a] /\ holder[a] # w
    /\ accounts' = [accounts EXCEPT ![a] = @ \ {w}]
    /\ Disturb(a, w)
    /\ UNCHANGED holder

\* All programs share the address tree.
InsertElsewhere ==
    /\ Len(tree) < MaxTree
    /\ tree' = Append(tree, [address |-> Elsewhere])
    /\ UNCHANGED <<owners, indexed, calls, troubles>>

\* Mutant: Photon counts one entry too many.
IndexAhead ==
    /\ indexed <= Len(tree)
    /\ indexed' = indexed + 1
    /\ UNCHANGED <<owners, tree, calls, troubles>>

Index ==
    /\ indexed < Len(tree)
    /\ indexed' = indexed + 1
    /\ UNCHANGED <<owners, tree, calls, troubles>>

\* Slots pass for every blockhash that still counts.
Tick ==
    /\ \E c \in Calls : pc[c] \in {"built", "sending"} /\ age[c] <= Lifetime
    /\ age' = [c \in Calls |-> IF pc[c] \in {"built", "sending"} /\ age[c] <= Lifetime
                               THEN age[c] + 1 ELSE age[c]]
    /\ UNCHANGED <<owners, tree, indexed, pc, request, root, tx, disturbed, faulted, troubles>>

\* What the precompile, create_compressed_attestation and SAS require.
Admitted(p) ==
    /\ Precompile(p) /\ SignedForMode(p)
    /\ AccountsFit(p) /\ ScoreAddressFits(p)

\* Light wants a root that it remembers and an address that is not in the tree.
Accepted(c) ==
    /\ Admitted(Params(request[c]))
    /\ ~Stale(c)
    /\ Address(request[c]) \notin Inserted

\* Mutant: the address that is inserted leaves out the counterparty of the one that
\* was proved to be new.
StoreByTask(c) ==
    LET r == request[c]
    IN  tree' = Append(tree, [address |-> <<r.schema, r.agent, r.task>>, call |-> c])

Store(c) == tree' = Append(tree, [address |-> Address(request[c]), call |-> c])

\* Mutant: what has been stored already counts as stored.
LandOrFind(c) ==
    /\ tx[c] = "sent" /\ age[c] <= Lifetime
    /\ \/ Accepted(c) /\ Store(c) /\ tx' = [tx EXCEPT ![c] = "landed"]
       \/ /\ ~Accepted(c)
          /\ tx' = [tx EXCEPT ![c] = IF Address(request[c]) \in Inserted
                                     THEN "landed" ELSE "failed"]
          /\ UNCHANGED tree
    /\ UNCHANGED <<owners, indexed, pc, request, root, age, disturbed, faulted, troubles>>

\* A validator executes the transaction, all of it or nothing.
Land(c) ==
    /\ tx[c] = "sent" /\ age[c] <= Lifetime
    /\ \/ Accepted(c) /\ Store(c) /\ tx' = [tx EXCEPT ![c] = "landed"]
       \/ ~Accepted(c) /\ tx' = [tx EXCEPT ![c] = "failed"] /\ UNCHANGED tree
    /\ UNCHANGED <<owners, indexed, pc, request, root, age, disturbed, faulted, troubles>>

-----------------------------------------------------------------------------
(* The calls                                                                *)

Client == UNCHANGED <<owners, tree, indexed, disturbed, faulted, troubles>>
Goes(c, phase) == pc' = [pc EXCEPT ![c] = phase]

Start(c, r) ==
    /\ pc[c] = "idle"
    /\ \A d \in Calls : d < c => pc[d] # "idle"
    /\ request' = [request EXCEPT ![c] = r]
    /\ Goes(c, IF Refused(r) THEN "threw" ELSE "load")
    /\ Client
    /\ UNCHANGED <<root, age, tx>>

\* Mutant: an agent is loaded for its holder only.
LoadOwnAgent(c) ==
    /\ pc[c] = "load"
    /\ Goes(c, IF holder[request[c].agent] # request[c].signer THEN "threw"
               ELSE IF request[c].api = "score" THEN "blockhash" ELSE "prove")
    /\ Client
    /\ UNCHANGED <<request, root, age, tx>>

\* validateTokenAccountIsRegisteredAgent: loadAgent throws on a burned agent.
LoadAgent(c) ==
    /\ pc[c] = "load"
    /\ Goes(c, IF holder[request[c].agent] = Nobody THEN "threw"
               ELSE IF request[c].api = "score" THEN "blockhash" ELSE "prove")
    /\ Client
    /\ UNCHANGED <<request, root, age, tx>>

\* prepareCreate: Photon proves nothing about an address that it knows.
PrepareCreate(c) ==
    /\ pc[c] = "prove"
    /\ IF Address(request[c]) \in Indexed
       THEN Goes(c, "threw") /\ UNCHANGED root
       ELSE Goes(c, "blockhash") /\ root' = [root EXCEPT ![c] = indexed]
    /\ Client
    /\ UNCHANGED <<request, age, tx>>

\* buildAndSendTransaction, up to sendAndConfirm; buildFeedbackTransaction returns
\* the transaction instead.
TakeBlockhash(c) ==
    /\ pc[c] = "blockhash"
    /\ IF Params(request[c]).api = "build"
       THEN Goes(c, "built") /\ UNCHANGED tx
       ELSE Goes(c, "sending") /\ tx' = [tx EXCEPT ![c] = "sent"]
    /\ Client
    /\ UNCHANGED <<request, root, age>>

\* The payer signs what was built and sends it, whenever that is.
SendBuilt(c) ==
    /\ pc[c] = "built"
    /\ Goes(c, "sending")
    /\ tx' = [tx EXCEPT ![c] = "sent"]
    /\ Client
    /\ UNCHANGED <<request, root, age>>

\* Mutants: sendAndConfirm waits for ever, or trusts that what was sent arrives.
ConfirmLanded(c) ==
    /\ pc[c] = "sending"
    /\ tx[c] \in {"landed", "failed"}
    /\ Goes(c, IF tx[c] = "landed" THEN "returned" ELSE "threw")
    /\ Client
    /\ UNCHANGED <<request, root, age, tx>>

ConfirmSent(c) ==
    /\ pc[c] = "sending"
    /\ Goes(c, IF tx[c] = "failed" THEN "threw" ELSE "returned")
    /\ Client
    /\ UNCHANGED <<request, root, age, tx>>

\* sendAndConfirm: the transaction has landed or failed, or its blockhash is too old.
Confirm(c) ==
    /\ pc[c] = "sending"
    /\ tx[c] \in {"landed", "failed"} \/ age[c] > Lifetime
    /\ Goes(c, IF tx[c] = "landed" THEN "returned" ELSE "threw")
    /\ Client
    /\ UNCHANGED <<request, root, age, tx>>

\* A request fails: the call throws, and what it has sent may land all the same.
Fault(c) ==
    /\ pc[c] \in Waiting
    /\ troubles < MaxTroubles
    /\ troubles' = troubles + 1
    /\ faulted' = [faulted EXCEPT ![c] = TRUE]
    /\ Goes(c, "threw")
    /\ UNCHANGED <<owners, tree, indexed, request, root, age, tx, disturbed>>

Await(c) == LoadAgent(c) \/ PrepareCreate(c) \/ TakeBlockhash(c) \/ Confirm(c)

Next ==
    \/ \E c \in Calls : \/ \E r \in Requests : Start(c, r)
                        \/ Await(c) \/ SendBuilt(c) \/ Fault(c) \/ Land(c)
    \/ \E a \in Agents, w \in Wallets :
          Transfer(a, w) \/ OpenAccount(a, w) \/ CloseAccount(a, w)
    \/ \E a \in Agents : Burn(a)
    \/ InsertElsewhere \/ Index \/ Tick

\* Requests are answered or fail, Photon catches up, slots pass.  Nothing makes a
\* transaction land and nothing makes a payer sign.
Fairness ==
    /\ \A c \in Calls : WF_vars(Await(c))
    /\ WF_vars(Index) /\ WF_vars(Tick)

Spec == Init /\ [][Next]_vars /\ Fairness

-----------------------------------------------------------------------------
(* Properties                                                               *)

TypeOK ==
    /\ holder \in [Agents -> Wallets \cup {Nobody}]
    /\ accounts \in [Agents -> SUBSET Wallets]
    /\ \A i \in 1..Len(tree) : tree[i].address = Elsewhere \/ tree[i].call \in Calls
    /\ indexed \in 0..Len(tree)
    /\ pc \in [Calls -> Running \cup {"idle", "returned", "threw"}]
    /\ request \in [Calls -> Requests]
    /\ root \in [Calls -> Nat] /\ age \in [Calls -> 0..(Lifetime + 1)]
    /\ tx \in [Calls -> {"none", "sent", "landed", "failed"}]
    /\ disturbed \in [Calls -> BOOLEAN] /\ faulted \in [Calls -> BOOLEAN]
    /\ troubles \in 0..MaxTroubles

Stored(c) ==
    \E i \in 1..Len(tree) : tree[i] = [address |-> Address(request[c]), call |-> c]

\* Whoever got an address from createFeedback finds his own attestation there, not
\* the one that somebody else, or an earlier attempt, stored at the same address.
ReturnedIsStored == \A c \in Calls : pc[c] = "returned" => Stored(c)

\* Of all attempts to submit the same attestation, at the same time or one after the
\* other, however far the indexer lags, one at most is told that it succeeded.
OneAttemptReturns ==
    \A c, d \in Calls :
        pc[c] = "returned" /\ pc[d] = "returned" /\ Address(request[c]) = Address(request[d])
            => c = d

OtherCause(c) ==
    LET r == request[c]
    IN  \/ faulted[c] \/ disturbed[c]
        \/ ~Proper(r) \/ ~ScoreAddressFits(Params(r))
        \/ Address(r) \in Inserted
        \/ Stale(c)
        \/ age[c] > Lifetime
        \/ holder[r.agent] = Nobody
        \/ Mode[r.schema] # "counterparty" /\ holder[r.agent] # r.signer

\* A call does not fail by chance: its arguments are not what the schema's mode wants,
\* somebody has stored the attestation, the agent or the accounts have moved, the
\* proof or the blockhash is too old, or a request failed.  The indexer's lag and
\* what others store in the tree do no harm.
FailsForCause ==
    \A c \in Calls :
        pc[c] = "threw" => OtherCause(c) \/ ~AccountsFit(Params(request[c]))

\* "FeedbackPublic (CounterpartySigned) works for ALL registered agents": a visitor
\* who signs the message needs no token account of the agent.
AnyVisitorMayPost ==
    \A c \in Calls :
        pc[c] = "threw" /\ Mode[request[c].schema] = "counterparty" => OtherCause(c)

\* Every call comes to an end: nothing waits for ever for a transaction that was dropped.
EveryCallEnds ==
    \A c \in Calls : pc[c] \in Waiting ~> pc[c] \in {"built", "returned", "threw"}

\* What was created is found by getAttestationByAddress in the end.
CreatedIsFound ==
    \A c \in Calls : pc[c] = "returned" ~> Address(request[c]) \in Indexed

\* The attestations that the calls have stored, as AttestationBook sees them.
Attestations ==
    {[store |-> "compressed", key |-> tree[i].address,
      schema |-> request[tree[i].call].schema, body |-> tree[i].call]
        : i \in {i \in 1..Len(tree) : tree[i].address # Elsewhere}}

Book == INSTANCE AttestationBook WITH
            Closeable <- {}, book <- Attestations, spent <- Inserted \ {Elsewhere}

\* Submission through the SDK implements the book of attestations.
ImplementsBook == Book!Spec
=============================================================================
