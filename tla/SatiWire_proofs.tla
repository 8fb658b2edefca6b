--------------------------- MODULE SatiWire_proofs ---------------------------
(***************************************************************************)
(* Proofs about SatiWire, for contents of any lengths.                      *)
(*                                                                          *)
(* IInv, the inductive invariant, says that what is called, sent, stored    *)
(* and answered belongs together: nothing has been called (Idle), or one    *)
(* call of the generated client (Generated), one feedback (Feedback) or the *)
(* close of what a feedback became (Closed) is under way, with the bytes it *)
(* sends and the outcome it must have.  What each property says of such a   *)
(* call is shown before the temporal theorems, from WireMessages_proofs.    *)
(***************************************************************************)
EXTENDS WireMessages_proofs

-----------------------------------------------------------------------------
(* The accounts behind an instruction's own                                  *)

LEMMA MetaIs ==
    ASSUME NEW a
    PROVE  /\ Meta(a, WRITABLE).address = a /\ Meta(a, WRITABLE).role = WRITABLE
           /\ RoleOf(Meta(a, WRITABLE)) = Meta(a, WRITABLE)
           /\ \A r : RoleOf(Meta(a, r)).address = a
BY DEF Meta, RoleOf, WRITABLE, READONLY_SIGNER, WRITABLE_SIGNER

LEMMA FirstInserted ==
    ASSUME NEW a
    PROVE  insertOrGet(<<>>, a) = <<Meta(a, WRITABLE)>>
<1>1. DOMAIN <<>> = {} /\ \A x : Append(<<>>, x) = <<x>> OBVIOUS
<1> QED BY <1>1, Zenon DEF insertOrGet

LEMMA InsertedAgain ==
    ASSUME NEW p, NEW a, \E i \in DOMAIN p : p[i].address = a
    PROVE  insertOrGet(p, a) = p
BY Zenon DEF insertOrGet

LEMMA InsertedNew ==
    ASSUME NEW p, NEW a, \A i \in DOMAIN p : p[i].address # a
    PROVE  insertOrGet(p, a) = Append(p, Meta(a, WRITABLE))
BY Zenon DEF insertOrGet

\* The only place of an address.
LEMMA OnlyIndex ==
    ASSUME NEW p, NEW a, NEW n, n \in DOMAIN p, p[n].address = a, \A i \in DOMAIN p : p[i].address = a => i = n
    PROVE  IndexIn(p, a) = n - 1
<1>1. (CHOOSE i \in DOMAIN p : p[i].address = a) = n OBVIOUS
<1> QED BY <1>1, Zenon DEF IndexIn

LEMMA InsertedOne ==
    ASSUME NEW a, NEW p, p = <<Meta(a, WRITABLE)>>
    PROVE  /\ DOMAIN p = {1} /\ Len(p) = 1 /\ p[1] = Meta(a, WRITABLE) /\ p[1].address = a
           /\ Insert(a, a, a) = p /\ IndexIn(p, a) = 0
<1>1. DOMAIN p = {1} /\ Len(p) = 1 /\ p[1] = Meta(a, WRITABLE) OBVIOUS
<1>2. p[1].address = a BY <1>1, MetaIs
<1>3. insertOrGet(p, a) = p BY <1>1, <1>2, InsertedAgain
<1>4. insertOrGet(<<>>, a) = p BY FirstInserted
<1>5. Insert(a, a, a) = p BY <1>3, <1>4, Zenon DEF Insert
<1>6. IndexIn(p, a) = 1 - 1 BY <1>1, <1>2, OnlyIndex
<1> QED BY <1>1, <1>2, <1>5, <1>6

LEMMA InsertedTwo ==
    ASSUME NEW a, NEW b, a # b, NEW p, p = <<Meta(a, WRITABLE), Meta(b, WRITABLE)>>
    PROVE  /\ DOMAIN p = {1, 2} /\ Len(p) = 2 /\ p[1] = Meta(a, WRITABLE) /\ p[2] = Meta(b, WRITABLE)
           /\ p[1].address = a /\ p[2].address = b
           /\ insertOrGet(insertOrGet(<<>>, a), b) = p
           /\ Insert(a, b, a) = p /\ IndexIn(p, a) = 0 /\ IndexIn(p, b) = 1
<1>1. DOMAIN p = {1, 2} /\ Len(p) = 2 /\ p[1] = Meta(a, WRITABLE) /\ p[2] = Meta(b, WRITABLE) OBVIOUS
<1>2. p[1].address = a /\ p[2].address = b BY <1>1, MetaIs
<1>3. PICK q : q = <<Meta(a, WRITABLE)>> OBVIOUS
<1>4. DOMAIN q = {1} /\ q[1].address = a BY <1>3, InsertedOne
<1>5. insertOrGet(q, b) = Append(q, Meta(b, WRITABLE)) BY <1>4, InsertedNew
<1>6. insertOrGet(q, b) = p BY <1>3, <1>5
<1>7. insertOrGet(<<>>, a) = q BY <1>3, FirstInserted
<1>8. insertOrGet(p, a) = p
  <2>1. \E i \in DOMAIN p : p[i].address = a BY <1>1, <1>2
  <2> QED BY <2>1, InsertedAgain
<1>9. Insert(a, b, a) = p BY <1>6, <1>7, <1>8, Zenon DEF Insert
<1>10. IndexIn(p, a) = 1 - 1 BY <1>1, <1>2, OnlyIndex
<1>11. IndexIn(p, b) = 2 - 1 BY <1>1, <1>2, OnlyIndex
<1> QED BY <1>1, <1>2, <1>6, <1>7, <1>9, <1>10, <1>11

LEMMA InsertedThree ==
    ASSUME NEW a, NEW b, NEW c, a # b, a # c, b # c,
           NEW p, p = <<Meta(a, WRITABLE), Meta(b, WRITABLE), Meta(c, WRITABLE)>>
    PROVE  /\ DOMAIN p = {1, 2, 3} /\ Len(p) = 3
           /\ p[1] = Meta(a, WRITABLE) /\ p[2] = Meta(b, WRITABLE) /\ p[3] = Meta(c, WRITABLE)
           /\ Insert(a, b, c) = p /\ IndexIn(p, a) = 0 /\ IndexIn(p, b) = 1 /\ IndexIn(p, c) = 2
<1>1. /\ DOMAIN p = {1, 2, 3} /\ Len(p) = 3
      /\ p[1] = Meta(a, WRITABLE) /\ p[2] = Meta(b, WRITABLE) /\ p[3] = Meta(c, WRITABLE)
  OBVIOUS
<1>2. p[1].address = a /\ p[2].address = b /\ p[3].address = c BY <1>1, MetaIs
<1>3. PICK q : q = <<Meta(a, WRITABLE), Meta(b, WRITABLE)>> OBVIOUS
<1>4. DOMAIN q = {1, 2} /\ q[1].address = a /\ q[2].address = b /\ insertOrGet(insertOrGet(<<>>, a), b) = q
  BY <1>3, InsertedTwo
<1>5. insertOrGet(q, c) = Append(q, Meta(c, WRITABLE))
  <2>1. \A i \in DOMAIN q : q[i].address # c BY <1>4
  <2> QED BY <2>1, InsertedNew
<1>6. insertOrGet(q, c) = p BY <1>3, <1>5
<1>7. Insert(a, b, c) = p BY <1>4, <1>6, Zenon DEF Insert
<1>8. IndexIn(p, a) = 1 - 1 BY <1>1, <1>2, OnlyIndex
<1>9. IndexIn(p, b) = 2 - 1 BY <1>1, <1>2, OnlyIndex
<1>10. IndexIn(p, c) = 3 - 1 BY <1>1, <1>2, OnlyIndex
<1> QED BY <1>1, <1>7, <1>8, <1>9, <1>10

\* What is packed comes after the accounts of the Light system, with its role.
RemainingOf(p) == Remaining(toAccountMetas(SATI_PROGRAM_ADDRESS, p))
Packed(p) == Sequence(p) /\ Len(p) \in 1..3 /\ \A i \in 1..Len(p) : p[i] = Meta(p[i].address, WRITABLE)
Behind(p, r) ==
    /\ Sequence(r) /\ Len(r) = 8 + Len(p)
    /\ \A i \in 1..8 : r[i].address = getLightSystemAccountMetas(SATI_PROGRAM_ADDRESS)[i].address
    /\ \A i \in 1..Len(p) : r[8 + i] = p[i]

LEMMA LightMetas ==
    LET l == getLightSystemAccountMetas(SATI_PROGRAM_ADDRESS)
    IN  Sequence(l) /\ Len(l) = 8 /\ \A i \in 1..8 : \E a, r : l[i] = Meta(a, r)
<1>1. PICK l : l = getLightSystemAccountMetas(SATI_PROGRAM_ADDRESS) OBVIOUS
<1>2. l \in Seq({l[i] : i \in 1..8}) /\ Len(l) = 8 BY <1>1 DEF getLightSystemAccountMetas
<1>3. \A i \in 1..8 : \E a, r : l[i] = Meta(a, r) BY <1>1 DEF getLightSystemAccountMetas
<1>4. Sequence(l) BY <1>2, Zenon DEF Sequence
<1> QED BY <1>1, <1>2, <1>3, <1>4

LEMMA RemainingIs ==
    ASSUME NEW p, Packed(p)
    PROVE  Behind(p, RemainingOf(p))
<1>1. PICK l, m, r : /\ l = getLightSystemAccountMetas(SATI_PROGRAM_ADDRESS)
                     /\ m = toAccountMetas(SATI_PROGRAM_ADDRESS, p) /\ r = RemainingOf(p)
  OBVIOUS
<1>2. Sequence(l) /\ Len(l) = 8 /\ \A i \in 1..8 : \E a, t : l[i] = Meta(a, t) BY <1>1, LightMetas, Zenon
<1>3. Sequence(p) /\ Len(p) \in 1..3 /\ \A i \in 1..Len(p) : p[i] = Meta(p[i].address, WRITABLE)
  BY Zenon DEF Packed
<1>4. m = l \o p BY <1>1, Zenon DEF toAccountMetas
<1>5. Joined(m, l, p) BY <1>2, <1>3, <1>4, Joining, Zenon
<1>6. Sequence(m) /\ Len(m) = 8 + Len(p) /\ (\A i \in 1..8 : m[i] = l[i]) /\ \A i \in 1..Len(p) : m[8 + i] = p[i]
  BY <1>2, <1>5, Zenon DEF Joined
<1>7. DOMAIN m = 1..Len(m) /\ Len(m) \in Nat BY <1>6, Length, Zenon
<1>8. r = [i \in DOMAIN m |-> RoleOf(m[i])] BY <1>1, Zenon DEF RemainingOf, Remaining
<1>9. \A i \in DOMAIN m : r[i] = RoleOf(m[i]) BY <1>8, Zenon
<1>10. r = [i \in 1..Len(m) |-> r[i]] BY <1>7, <1>8, <1>9
<1>11. Sequence(r) /\ Len(r) = Len(m) BY <1>7, <1>10, Tabulated, Zenon
<1>12. \A i \in 1..8 : i \in 1..Len(m) BY <1>3, <1>6
<1>13. \A i \in 1..Len(p) : 8 + i \in 1..Len(m) BY <1>3, <1>6
<1>14. \A i \in 1..8 : r[i].address = l[i].address
  <2> TAKE i \in 1..8
  <2>1. PICK a, t : l[i] = Meta(a, t) BY <1>2
  <2>2. r[i] = RoleOf(Meta(a, t)) BY <1>6, <1>7, <1>9, <1>12, <2>1, Zenon
  <2>3. RoleOf(Meta(a, t)).address = a BY MetaIs
  <2>4. Meta(a, t).address = a BY DEF Meta
  <2> QED BY <2>1, <2>2, <2>3, <2>4
<1>15. \A i \in 1..Len(p) : r[8 + i] = p[i]
  <2> TAKE i \in 1..Len(p)
  <2>1. PICK a : a = p[i].address OBVIOUS
  <2>2. p[i] = Meta(a, WRITABLE) BY <1>3, <2>1, Zenon
  <2>3. r[8 + i] = RoleOf(p[i]) BY <1>6, <1>7, <1>9, <1>13, Zenon
  <2>4. RoleOf(Meta(a, WRITABLE)) = Meta(a, WRITABLE) BY MetaIs
  <2> QED BY <2>2, <2>3, <2>4
<1> QED BY <1>1, <1>6, <1>11, <1>14, <1>15, Zenon DEF Behind

\* A packed index names the account that was inserted there.
LEMMA TreeIs ==
    ASSUME NEW p, NEW r, Behind(p, r), NEW n \in 0..2, n + 1 \in 1..Len(p)
    PROVE  TreeAt(r, Number(n)) = p[n + 1]
<1>1. Count(Number(n)) = n
  <2>1. n \in 0..255 OBVIOUS
  <2> QED BY <2>1, CountedByte
<1>2. r[8 + (n + 1)] = p[n + 1] BY Zenon DEF Behind
<1>3. 8 + (n + 1) = 8 + n + 1 OBVIOUS
<1> QED BY <1>1, <1>2, <1>3, Zenon DEF TreeAt, LightAccounts

LEMMA TreesDiffer ==
    /\ ADDRESS_TREE # ADDRESS_QUEUE /\ ADDRESS_TREE # MERKLE_TREE_PUBKEY /\ ADDRESS_QUEUE # MERKLE_TREE_PUBKEY
    /\ MERKLE_TREE_PUBKEY # NULLIFIER_QUEUE_PUBKEY
BY DEF ADDRESS_TREE, ADDRESS_QUEUE, MERKLE_TREE_PUBKEY, NULLIFIER_QUEUE_PUBKEY

-----------------------------------------------------------------------------
(* The call that createFeedback makes                                        *)

FeedbackGiven(d) ==
    [payer |-> Signer(<<"payer">>), schemaConfig |-> Plain(SchemaConfigPda),
     agentAta |-> Plain(Ata(FirstSigner(d), Token2022Program, d.tokenAccount)),
     tokenProgram |-> Plain(Token2022Program), program |-> Plain(SATI_PROGRAM_ADDRESS)]
CreationTrees == <<Meta(ADDRESS_TREE, WRITABLE), Meta(ADDRESS_QUEUE, WRITABLE), Meta(MERKLE_TREE_PUBKEY, WRITABLE)>>
FeedbackTreeInfo ==
    [addressMerkleTreePubkeyIndex |-> Number(0), addressQueuePubkeyIndex |-> Number(1), rootIndex |-> Number(3)]
FeedbackArgs(d) ==
    [data |-> serializeUniversalLayout(d), outputStateTreeIndex |-> Number(2), proof |-> <<Proof>>,
     addressTreeInfo |-> FeedbackTreeInfo]
FeedbackCall(d) ==
    [ix |-> "createCompressedAttestation", style |-> "async", given |-> FeedbackGiven(d), args |-> FeedbackArgs(d)]
FeedbackMessage(d) ==
    Sending("createCompressedAttestation", "async", FeedbackGiven(d), FeedbackArgs(d), RemainingOf(CreationTrees))
FeedbackSent(d, batched) ==
    [signatures |-> Carried(d, serializeUniversalLayout(d), batched), instruction |-> FeedbackMessage(d)]

\* What is prepared of a creation.
PreparedAs(seeds, p) ==
    /\ p.address = deriveAttestationAddress(seeds, SATI_PROGRAM_ADDRESS)
    /\ p.proof = Proof /\ p.addressTreeInfo = FeedbackTreeInfo /\ p.outputStateTreeIndex = Number(2)
    /\ p.remainingAccounts = toAccountMetas(SATI_PROGRAM_ADDRESS, CreationTrees)

LEMMA PreparedIs ==
    ASSUME NEW seeds, NEW p, p = prepareCreate(seeds, SATI_PROGRAM_ADDRESS, CreationProof)
    PROVE  PreparedAs(seeds, p)
<1>1. PICK t : t = CreationTrees OBVIOUS
<1>2. /\ Insert(ADDRESS_TREE, ADDRESS_QUEUE, MERKLE_TREE_PUBKEY) = t
      /\ IndexIn(t, ADDRESS_TREE) = 0 /\ IndexIn(t, ADDRESS_QUEUE) = 1 /\ IndexIn(t, MERKLE_TREE_PUBKEY) = 2
  BY <1>1, InsertedThree, TreesDiffer DEF CreationTrees
<1>3. CreationProof.compressedProof = <<Proof>> /\ CreationProof.rootIndices[1] = 3 BY DEF CreationProof
<1>4. convertProof(<<Proof>>) = Proof
  <2>1. \A x : <<x>> # <<>> /\ <<x>>[1] = x OBVIOUS
  <2> QED BY <2>1, Zenon DEF convertProof
<1>5. p = [address |-> deriveAttestationAddress(seeds, SATI_PROGRAM_ADDRESS), proof |-> Proof,
           addressTreeInfo |-> FeedbackTreeInfo, outputStateTreeIndex |-> Number(2),
           remainingAccounts |-> toAccountMetas(SATI_PROGRAM_ADDRESS, t)]
  BY <1>2, <1>3, <1>4, Zenon DEF prepareCreate, FeedbackTreeInfo
<1>6. /\ p.address = deriveAttestationAddress(seeds, SATI_PROGRAM_ADDRESS) /\ p.proof = Proof
      /\ p.addressTreeInfo = FeedbackTreeInfo /\ p.outputStateTreeIndex = Number(2)
      /\ p.remainingAccounts = toAccountMetas(SATI_PROGRAM_ADDRESS, t)
  <2>1. PICK a, f, i, o, r : /\ a = deriveAttestationAddress(seeds, SATI_PROGRAM_ADDRESS) /\ f = Proof
                             /\ i = FeedbackTreeInfo /\ o = Number(2)
                             /\ r = toAccountMetas(SATI_PROGRAM_ADDRESS, t)
    OBVIOUS
  <2>2. PICK q : q = [address |-> a, proof |-> f, addressTreeInfo |-> i, outputStateTreeIndex |-> o,
                      remainingAccounts |-> r]
    OBVIOUS
  <2>3. q.address = a /\ q.proof = f /\ q.addressTreeInfo = i /\ q.outputStateTreeIndex = o
        /\ q.remainingAccounts = r
    BY <2>2
  <2>4. p = q BY <1>5, <2>1, <2>2
  <2> QED BY <2>1, <2>3, <2>4
<1> QED BY <1>1, <1>6, Zenon DEF PreparedAs

LEMMA TreesPacked == Packed(CreationTrees)
<1>1. PICK t : t = CreationTrees OBVIOUS
<1>2. /\ DOMAIN t = {1, 2, 3} /\ Len(t) = 3
      /\ t[1] = Meta(ADDRESS_TREE, WRITABLE) /\ t[2] = Meta(ADDRESS_QUEUE, WRITABLE)
      /\ t[3] = Meta(MERKLE_TREE_PUBKEY, WRITABLE)
  BY <1>1, InsertedThree, TreesDiffer DEF CreationTrees
<1>3. Sequence(t)
  <2>1. t \in Seq({t[i] : i \in 1..3}) BY <1>1 DEF CreationTrees
  <2> QED BY <2>1, Zenon DEF Sequence
<1>4. \A i \in 1..3 : t[i] = Meta(t[i].address, WRITABLE)
  <2>1. \A i \in 1..3 : i = 1 \/ i = 2 \/ i = 3 OBVIOUS
  <2> QED BY <1>2, <2>1, MetaIs
<1>5. 3 \in 1..3 OBVIOUS
<1> QED BY <1>1, <1>2, <1>3, <1>4, <1>5, Zenon DEF Packed

\* A token account is not the program.
LEMMA AtaElsewhere ==
    ASSUME NEW a, Sequence(a), NEW m, Sequence(m)
    PROVE  Ata(a, Token2022Program, m) # SATI_PROGRAM_ADDRESS
<1>1. PICK k, t, s : k = <<"associatedToken">> /\ t = Token2022Program /\ s = a \o t \o m OBVIOUS
<1>2. Sequence(t) BY <1>1, Singleton DEF Token2022Program
<1>3. Sequence(a \o t) BY <1>2, Concatenated, Zenon
<1>4. Sequence((a \o t) \o m) BY <1>3, Concatenated, Zenon
<1>5. Sequence(s) BY <1>1, <1>4
<1>6. Ata(a, Token2022Program, m) = k \o s BY <1>1, Zenon DEF Ata, Pda, AssociatedTokenProgram
<1>7. (<<"associatedToken">> \o s)[1] = "associatedToken" BY <1>5, Prepended, Zenon
<1>8. SATI_PROGRAM_ADDRESS[1] = "sati" BY DEF SATI_PROGRAM_ADDRESS
<1> QED BY <1>1, <1>6, <1>7, <1>8

LEMMA CreateNames ==
    /\ {"payer", "schemaConfig", "agentAta", "tokenProgram", "program"} \subseteq NamesOf(CreateCompressedAccounts)
    /\ \A i \in 1..Len(CreateCompressedAccounts) : CreateCompressedAccounts[i].optional =>
          CreateCompressedAccounts[i].name \notin {"payer", "schemaConfig", "program"}
<1>1. PICK A : A = CreateCompressedAccounts OBVIOUS
<1>2. Len(A) = 10 /\ \A m \in {"payer", "schemaConfig", "agentAta", "tokenProgram", "program"} :
                        \E i \in 1..10 : A[i].name = m
  BY <1>1 DEF CreateCompressedAccounts, Ro, Wr, Opt, Account
<1>3. \A i \in 1..10 : A[i].optional => A[i].name \notin {"payer", "schemaConfig", "program"}
  BY <1>1 DEF CreateCompressedAccounts, Ro, Wr, Opt, Account
<1> QED BY <1>1, <1>2, <1>3 DEF NamesOf

LEMMA FirstSignerIs ==
    ASSUME NEW d, DraftFine(d)
    PROVE  FirstSigner(d) \in {Client, Owner, Mint} /\ Sequence(FirstSigner(d)) /\ Sequence(d.tokenAccount)
<1>1. d.counterparty \in {Client, Owner, Mint} /\ d.tokenAccount = Mint BY Zenon DEF DraftFine
<1>2. PICK a : a = FirstSigner(d) OBVIOUS
<1>3. a \in {Client, Owner, Mint} BY <1>1, <1>2, Zenon DEF FirstSigner
<1>4. a \in {Client, Owner, Mint, SasSchema, <<"task">>, <<"ephemeral">>} BY <1>3, Zenon
<1>5. Mint \in {Client, Owner, Mint, SasSchema, <<"task">>, <<"ephemeral">>} BY Zenon
<1> QED BY <1>1, <1>2, <1>3, <1>4, <1>5, PartiesBack

LEMMA FeedbackIsProper ==
    ASSUME NEW d, DraftFine(d)
    PROVE  Proper("createCompressedAttestation", "async", FeedbackGiven(d))
<1>1. PICK ata : ata = Ata(FirstSigner(d), Token2022Program, d.tokenAccount) OBVIOUS
<1>2. PICK g : g = FeedbackGiven(d) OBVIOUS
<1>3. DOMAIN g = {"payer", "schemaConfig", "agentAta", "tokenProgram", "program"} BY <1>2 DEF FeedbackGiven
<1>4. /\ g["payer"] = Signer(<<"payer">>) /\ g["schemaConfig"] = Plain(SchemaConfigPda) /\ g["agentAta"] = Plain(ata)
      /\ g["tokenProgram"] = Plain(Token2022Program) /\ g["program"] = Plain(SATI_PROGRAM_ADDRESS)
  BY <1>1, <1>2 DEF FeedbackGiven
<1>5. AccountsOf("createCompressedAttestation") = CreateCompressedAccounts BY DEF AccountsOf
<1>6. DOMAIN g \subseteq NamesOf(CreateCompressedAccounts) BY <1>3, CreateNames
<1>7. Required("createCompressedAttestation", "async") \subseteq DOMAIN g
  BY <1>3 DEF Required, CreateCompressedAsyncInput
<1>8. Signers("createCompressedAttestation") = {"payer"} BY DEF Signers
<1>9. \A n \in DOMAIN g : /\ g[n].signer \in BOOLEAN /\ (n \in {"payer"} => g[n].signer)
                          /\ n \in DOMAIN Demanded => g[n].address \in Demanded[n]
  <2>a. \A a : Plain(a).signer = FALSE /\ Signer(a).signer = TRUE BY Zenon DEF Signer, Plain
  <2>1. g["payer"].signer /\ \A n \in DOMAIN g : g[n].signer \in BOOLEAN BY <1>3, <1>4, <2>a, Zenon
  <2>2. "payer" \notin DOMAIN Demanded /\ "schemaConfig" \notin DOMAIN Demanded /\ "agentAta" \notin DOMAIN Demanded
    BY DEF Demanded
  <2>3. g["tokenProgram"].address \in Demanded["tokenProgram"] BY <1>4 DEF Demanded, Plain
  <2>4. g["program"].address \in Demanded["program"] BY <1>4 DEF Demanded, Plain
  <2> QED BY <1>3, <2>1, <2>2, <2>3, <2>4, Zenon
<1>10. ata # SATI_PROGRAM_ADDRESS BY <1>1, FirstSignerIs, AtaElsewhere
<1>11. g["agentAta"].address # SATI_PROGRAM_ADDRESS /\ g["tokenProgram"].address # SATI_PROGRAM_ADDRESS
  BY <1>4, <1>10, DerivedElsewhere DEF Plain
<1>12. \A i \in 1..Len(CreateCompressedAccounts) :
          LET a == CreateCompressedAccounts[i]
          IN  a.optional /\ a.name \in DOMAIN g => g[a.name].address # SATI_PROGRAM_ADDRESS
  BY <1>3, <1>11, CreateNames
<1>13. Proper("createCompressedAttestation", "async", g)
  BY <1>5, <1>6, <1>7, <1>8, <1>9, <1>12, Zenon DEF Proper
<1> QED BY <1>2, <1>13

LEMMA DataLength ==
    ASSUME NEW d, DraftFine(d), FitsMode(d), NEW data, data = serializeUniversalLayout(d)
    PROVE  Sequence(data) /\ Len(data) \in 131..371 /\ Len(data) <= MaxLength
<1>1. DraftReads(d, data) BY DraftRead, Zenon
<1>2. PICK n : n = Len(data) OBVIOUS
<1>3. Sequence(data) /\ n \in 131..371 BY <1>1, <1>2, Zenon DEF DraftReads, ReadsAs
<1>4. n <= MaxLength BY <1>3, SMT DEF MaxLength
<1> QED BY <1>2, <1>3, <1>4, Zenon

LEMMA FeedbackFits ==
    ASSUME NEW d, DraftFine(d), FitsMode(d)
    PROVE  Fits(Struct(Params["createCompressedAttestation"]), FeedbackArgs(d))
<1>1. PICK v : v = FeedbackArgs(d) OBVIOUS
<1>2. v = [data |-> v.data, outputStateTreeIndex |-> v.outputStateTreeIndex, proof |-> v.proof,
           addressTreeInfo |-> v.addressTreeInfo]
  BY <1>1 DEF FeedbackArgs
<1>3. v.data = serializeUniversalLayout(d) /\ v.proof = <<Proof>> /\ v.addressTreeInfo = FeedbackTreeInfo
  BY <1>1 DEF FeedbackArgs
<1>4. O!Fits(Sized, v.data) BY <1>3, DataLength, SizedFits
<1>5. O!Fits(LightProof, v.proof) BY <1>3, ProvedFits DEF Maybe1
<1>6. O!Fits(LightAddressTree, v.addressTreeInfo)
  <2>1. PICK t : t = v.addressTreeInfo OBVIOUS
  <2>2. t = [addressMerkleTreePubkeyIndex |-> t.addressMerkleTreePubkeyIndex,
             addressQueuePubkeyIndex |-> t.addressQueuePubkeyIndex, rootIndex |-> t.rootIndex]
    BY <1>3, <2>1 DEF FeedbackTreeInfo
  <2> QED BY <2>1, <2>2, AddressTreeFits
<1>7. Fits(Struct(CreateParams), v) BY <1>2, <1>4, <1>5, <1>6, CreateFits
<1>8. Params["createCompressedAttestation"] = CreateParams BY DEF Params
<1> QED BY <1>1, <1>7, <1>8

\* What createFeedback sends is what it was meant to send, and arrives.
LEMMA FeedbackArrives ==
    ASSUME NEW d, DraftFine(d), FitsMode(d)
    PROVE  Arrived("createCompressedAttestation", FeedbackGiven(d),
                   Defaults("createCompressedAttestation", "async", FeedbackGiven(d), FeedbackArgs(d)),
                   FeedbackArgs(d), RemainingOf(CreationTrees), FeedbackMessage(d))
<1>1. "createCompressedAttestation" \in Instructions BY DEF Instructions
<1>2. Sequence(RemainingOf(CreationTrees))
  <2>1. Behind(CreationTrees, RemainingOf(CreationTrees)) BY TreesPacked, RemainingIs, Zenon
  <2> QED BY <2>1, Zenon DEF Behind
<1>3. PICK m, g, v, r : /\ m = FeedbackMessage(d) /\ g = FeedbackGiven(d) /\ v = FeedbackArgs(d)
                        /\ r = RemainingOf(CreationTrees)
  OBVIOUS
<1>4. m = Sending("createCompressedAttestation", "async", g, v, r) BY <1>3, Zenon DEF FeedbackMessage
<1>5. Proper("createCompressedAttestation", "async", g) BY <1>3, FeedbackIsProper, Zenon
<1>6. Fits(Struct(Params["createCompressedAttestation"]), v) BY <1>3, FeedbackFits, Zenon
<1>7. Arrived("createCompressedAttestation", g, Defaults("createCompressedAttestation", "async", g, v), v, r, m)
  BY <1>1, <1>2, <1>3, <1>4, <1>5, <1>6, InstructionArrives, Zenon
<1> QED BY <1>3, <1>7, Zenon

LEMMA FeedbackStep ==
    ASSUME NEW d, NEW batched, CreateFeedback(d, batched)
    PROVE  /\ call = Nil /\ FitsMode(d) /\ draft' = d /\ call' = FeedbackCall(d)
           /\ sent' = FeedbackSent(d, batched) /\ account' = account /\ outcome' = outcome
<1>1. PICK p : p = prepareCreate(AttestationSeeds(d, SasSchema), SATI_PROGRAM_ADDRESS, CreationProof) OBVIOUS
<1>2. PreparedAs(AttestationSeeds(d, SasSchema), p) BY <1>1, PreparedIs, Zenon
<1>3. /\ p.proof = Proof /\ p.addressTreeInfo = FeedbackTreeInfo /\ p.outputStateTreeIndex = Number(2)
      /\ p.remainingAccounts = toAccountMetas(SATI_PROGRAM_ADDRESS, CreationTrees)
  BY <1>2, Zenon DEF PreparedAs
<1>4. /\ call = Nil /\ FitsMode(d) /\ draft' = d /\ UNCHANGED <<account, outcome>>
      /\ Send("createCompressedAttestation", "async", FeedbackGiven(d), FeedbackArgs(d), RemainingOf(CreationTrees),
              Carried(d, serializeUniversalLayout(d), batched))
  BY <1>1, <1>3, Zenon DEF CreateFeedback, FeedbackGiven, FeedbackArgs, RemainingOf, Carried
<1>5. call' = FeedbackCall(d) BY <1>4, Zenon DEF Send, FeedbackCall
<1>6. sent' = FeedbackSent(d, batched) BY <1>4, Zenon DEF Send, FeedbackSent, FeedbackMessage, Sending
<1> QED BY <1>4, <1>5, <1>6, Zenon

-----------------------------------------------------------------------------
(* What the program makes of a feedback                                      *)

AddressOf(d) == deriveAttestationAddress(AttestationSeeds(d, SasSchema), SATI_PROGRAM_ADDRESS)
AccountOf(d) ==
    [address |-> AddressOf(d), tree |-> MERKLE_TREE_PUBKEY,
     data |-> CompressedAttestation(SasSchema, d.tokenAccount, serializeUniversalLayout(d),
                                    Pledged(d, serializeUniversalLayout(d)))]
CreatedOutcome(d) ==
    Wrote(NoState, AttestationCreatedEvent(SasSchema, d.tokenAccount, d.counterparty, Number(0), Spell(AddressOf(d))))

\* What the program refuses to attest.
Flawed(d) == d.tokenAccount = d.counterparty \/ Misread(d)

\* What the handler gets of a feedback.
FeedbackGot(d, got) ==
    /\ got.args = FeedbackArgs(d) /\ got.remaining = RemainingOf(CreationTrees)
    /\ "agentAta" \in DOMAIN got.accounts
    /\ got.accounts.agentAta = Ata(FirstSigner(d), Token2022Program, d.tokenAccount)

LEMMA FeedbackReceived ==
    ASSUME NEW d, DraftFine(d), FitsMode(d)
    PROVE  FeedbackGot(d, Received("createCompressedAttestation", FeedbackMessage(d)))
<1>1. PICK got, g, D, A : /\ got = Received("createCompressedAttestation", FeedbackMessage(d))
                          /\ g = FeedbackGiven(d) /\ A = CreateCompressedAccounts
                          /\ D = Defaults("createCompressedAttestation", "async", FeedbackGiven(d), FeedbackArgs(d))
  OBVIOUS
<1>2. Arrived("createCompressedAttestation", g, D, FeedbackArgs(d), RemainingOf(CreationTrees), FeedbackMessage(d))
  BY <1>1, FeedbackArrives, Zenon
<1>3. AccountsOf("createCompressedAttestation") = A BY <1>1 DEF AccountsOf
<1>4. /\ got.args = FeedbackArgs(d) /\ got.remaining = RemainingOf(CreationTrees)
      /\ DOMAIN got.accounts = NamesOf(A)
      /\ \A i \in 1..Len(A) : SeenAsMeant(A[i], g, D, got.accounts[A[i].name])
  BY <1>1, <1>2, <1>3, Zenon DEF Arrived
<1>5. 4 \in 1..Len(A) /\ A[4].name = "agentAta" BY <1>1 DEF CreateCompressedAccounts, Opt, Account
<1>6. "agentAta" \in DOMAIN g /\ g["agentAta"] = Plain(Ata(FirstSigner(d), Token2022Program, d.tokenAccount))
  BY <1>1 DEF FeedbackGiven
<1>7. got.accounts["agentAta"] = g["agentAta"].address BY <1>4, <1>5, <1>6, Zenon DEF SeenAsMeant
<1>8. \A a : Plain(a).address = a BY Zenon DEF Plain
<1>9. "agentAta" \in DOMAIN got.accounts
  <2>1. "agentAta" \in NamesOf(CreateCompressedAccounts) BY CreateNames
  <2> QED BY <1>1, <1>4, <2>1
<1>10. got.accounts["agentAta"] = Ata(FirstSigner(d), Token2022Program, d.tokenAccount)
  BY <1>6, <1>7, <1>8, Zenon
<1>11. FeedbackGot(d, got) BY <1>4, <1>9, <1>10, Zenon DEF FeedbackGot
<1> QED BY <1>1, <1>11

\* The token account of a draft's first signer.
LEMMA AtaFirst ==
    ASSUME NEW a \in {Client, Owner, Mint}
    PROVE  /\ Ata(a, Token2022Program, Mint) # Absent
           /\ Ata(a, Token2022Program, Mint) = AgentAta <=> a = Owner
<1>1. AgentAta = Ata(Owner, Token2022Program, Mint) BY DEF AgentAta
<1>3. \A u \in {"client", "owner", "mint"} :
         LET t == Ata(<<u>>, Token2022Program, Mint) IN Len(t) = 4 /\ t[2] = u
  <2> SUFFICES ASSUME NEW u
               PROVE  Len(Ata(<<u>>, Token2022Program, Mint)) = 4 /\ Ata(<<u>>, Token2022Program, Mint)[2] = u
    BY Zenon
  <2>1. PICK t : t = Ata(<<u>>, Token2022Program, Mint) OBVIOUS
  <2>2. t = <<"associatedToken">> \o (<<u>> \o <<"token2022">> \o <<"mint">>)
    BY <2>1, Zenon DEF Ata, Pda, AssociatedTokenProgram, Token2022Program, Mint
  <2>3. Len(t) = 4 /\ t[2] = u BY <2>2
  <2> QED BY <2>1, <2>3, Zenon
<1>4. /\ Len(Ata(Client, Token2022Program, Mint)) = 4 /\ Ata(Client, Token2022Program, Mint)[2] = "client"
      /\ Len(Ata(Owner, Token2022Program, Mint)) = 4 /\ Ata(Owner, Token2022Program, Mint)[2] = "owner"
      /\ Len(Ata(Mint, Token2022Program, Mint)) = 4 /\ Ata(Mint, Token2022Program, Mint)[2] = "mint"
  <2>1. Client = <<"client">> /\ Owner = <<"owner">> /\ Mint = <<"mint">> BY Zenon DEF Client, Owner, Mint
  <2>2. "client" \in {"client", "owner", "mint"} /\ "owner" \in {"client", "owner", "mint"}
        /\ "mint" \in {"client", "owner", "mint"} OBVIOUS
  <2> QED BY <1>3, <2>1, <2>2, Zenon
<1>5. Client # Owner /\ Mint # Owner BY DEF Client, Mint, Owner
<1>6. Len(Absent) # 4 BY DEF Absent
<1>7. PICK c, o, m : c = Ata(Client, Token2022Program, Mint) /\ o = Ata(Owner, Token2022Program, Mint)
                     /\ m = Ata(Mint, Token2022Program, Mint)
  OBVIOUS
<1>8. c # Absent /\ o # Absent /\ m # Absent /\ c # o /\ m # o
  <2>1. Len(c) = 4 /\ c[2] = "client" /\ Len(o) = 4 /\ o[2] = "owner" /\ Len(m) = 4 /\ m[2] = "mint"
    BY <1>4, <1>7, Zenon
  <2> QED BY <1>6, <2>1
<1>9. AgentAta = o BY <1>1, <1>7, Zenon
<1>10. CASE a = Client BY <1>5, <1>7, <1>8, <1>9, <1>10, Zenon
<1>11. CASE a = Owner BY <1>5, <1>7, <1>8, <1>9, <1>11, Zenon
<1>12. CASE a = Mint BY <1>5, <1>7, <1>8, <1>9, <1>12, Zenon
<1> QED BY <1>10, <1>11, <1>12, Zenon

\* Anchor loads the token account if the first signer is the agent's owner.
LEMMA Loaded ==
    ASSUME NEW d, DraftFine(d), NEW got, FeedbackGot(d, got)
    PROVE  CanLoad(got.accounts) <=> FirstSigner(d) = Owner
<1>1. d.tokenAccount = Mint BY Zenon DEF DraftFine
<1>2. PICK f : f = FirstSigner(d) OBVIOUS
<1>3. f \in {Client, Owner, Mint} BY <1>2, FirstSignerIs
<1>4. got.accounts.agentAta = Ata(f, Token2022Program, Mint) /\ "agentAta" \in DOMAIN got.accounts
  BY <1>1, <1>2, Zenon DEF FeedbackGot
<1>5. Owner # Absent BY DEF Owner, Absent
<1> QED BY <1>2, <1>3, <1>4, <1>5, AtaFirst, Zenon DEF CanLoad, TokenAccountOwner

LEMMA AddressDerived ==
    ASSUME NEW d
    PROVE  derive_address(d.taskRef, SasSchema, d.tokenAccount, d.counterparty, ADDRESS_TREE) = AddressOf(d)
BY Zenon DEF derive_address, AddressOf, deriveAttestationAddress, AttestationSeeds,
   compute_attestation_nonce, computeAttestationNonce

\* The decision of the handler.
AcceptedIs(d, data, signatures) ==
    /\ validate_universal_base(data)
    /\ d.tokenAccount # d.counterparty
    /\ signatures # <<>>
    /\ d.mode = AgentOwnerSigned => signatures[1].pubkey = Owner

LEMMA Decision ==
    ASSUME NEW d, DraftFine(d), FitsMode(d), NEW data, data = serializeUniversalLayout(d),
           NEW signatures, ExtractedAs(d, data, signatures)
    PROVE  AcceptedIs(d, data, signatures) <=> ~Flawed(d)
<1>1. validate_universal_base(data) BY LayoutValid, Zenon
<1>2. CASE Misread(d)
  <2>1. signatures = <<>> BY <1>2, Zenon DEF ExtractedAs
  <2> QED BY <1>2, <2>1, Zenon DEF AcceptedIs, Flawed
<1>3. CASE ~Misread(d)
  <2>1. signatures = Pledged(d, data) BY <1>3, Zenon DEF ExtractedAs
  <2>2. signatures # <<>> /\ (d.mode = AgentOwnerSigned => signatures[1].pubkey = Owner)
    BY <2>1, PledgesAre
  <2> QED BY <1>1, <1>3, <2>2, Zenon DEF AcceptedIs, Flawed
<1> QED BY <1>2, <1>3

\* The parts of the data that the handler reads.
HandlerReads(d, data) ==
    /\ bytesToAddress(Slice(data, 33, 65)) = d.tokenAccount
    /\ bytesToAddress(Slice(data, 65, 97)) = d.counterparty
    /\ Slice(data, 1, 33) = d.taskRef

LEMMA HandlerRead ==
    ASSUME NEW d, DraftFine(d), FitsMode(d), NEW data, data = serializeUniversalLayout(d)
    PROVE  HandlerReads(d, data)
<1>1. DraftReads(d, data) BY DraftRead, Zenon
<1>2. /\ Slice(data, 1, 33) = d.taskRef /\ Slice(data, 33, 65) = addressToBytes(d.tokenAccount)
      /\ Slice(data, 65, 97) = addressToBytes(d.counterparty)
  BY <1>1, Zenon DEF DraftReads, ReadsAs
<1>3. d.tokenAccount = Mint /\ d.counterparty \in {Client, Owner, Mint} BY Zenon DEF DraftFine
<1>4. bytesToAddress(addressToBytes(d.tokenAccount)) = d.tokenAccount
      /\ bytesToAddress(addressToBytes(d.counterparty)) = d.counterparty
  <2>1. d.tokenAccount \in {Client, Owner, Mint, SasSchema, <<"task">>, <<"ephemeral">>} BY <1>3, Zenon
  <2>2. d.counterparty \in {Client, Owner, Mint, SasSchema, <<"task">>, <<"ephemeral">>} BY <1>3, Zenon
  <2> QED BY <2>1, <2>2, PartiesBack
<1> QED BY <1>2, <1>4, Zenon DEF HandlerReads

LEMMA CreationTreesRead ==
    /\ TreeAt(RemainingOf(CreationTrees), Number(0)).address = ADDRESS_TREE
    /\ TreeAt(RemainingOf(CreationTrees), Number(2)).address = MERKLE_TREE_PUBKEY
<1>1. PICK t, r : t = CreationTrees /\ r = RemainingOf(CreationTrees) OBVIOUS
<1>2. Behind(t, r) BY <1>1, TreesPacked, RemainingIs, Zenon
<1>3. Len(t) = 3 /\ t[1] = Meta(ADDRESS_TREE, WRITABLE) /\ t[3] = Meta(MERKLE_TREE_PUBKEY, WRITABLE)
  BY <1>1 DEF CreationTrees
<1>4. 0 \in 0..2 /\ 2 \in 0..2 /\ 0 + 1 = 1 /\ 2 + 1 = 3 /\ 1 \in 1..3 /\ 3 \in 1..3 OBVIOUS
<1>5. TreeAt(r, Number(0)) = t[0 + 1] BY <1>2, <1>3, <1>4, TreeIs
<1>6. TreeAt(r, Number(2)) = t[2 + 1] BY <1>2, <1>3, <1>4, TreeIs
<1> QED BY <1>1, <1>3, <1>4, <1>5, <1>6, MetaIs

\* What becomes of a feedback.
Judged(d) ==
    /\ FirstSigner(d) = Owner /\ outcome = Nil
    /\ Flawed(d) => outcome' = Refused /\ account' = account
    /\ ~Flawed(d) => account' = AccountOf(d) /\ outcome' = CreatedOutcome(d)
    /\ draft' = draft /\ call' = call /\ sent' = sent

\* The handler's decision, once it has read the data.
Judging(data, tokenAccount, counterparty, owner, signatures, address, tree) ==
    /\ IF /\ validate_universal_base(data)
          /\ tokenAccount # counterparty
          /\ signatures # <<>>
          /\ draft.mode = AgentOwnerSigned => signatures[1].pubkey = owner
       THEN /\ account' = [address |-> address, tree |-> tree,
                           data |-> CompressedAttestation(SasSchema, tokenAccount, data, signatures)]
            /\ outcome' = Wrote(NoState, AttestationCreatedEvent(SasSchema, tokenAccount, counterparty, Number(0),
                                                                 Spell(address)))
       ELSE outcome' = Refused /\ account' = account
    /\ draft' = draft /\ call' = call /\ sent' = sent

LEMMA CreateStep ==
    ASSUME NEW d, DraftFine(d), FitsMode(d), NEW batched \in BOOLEAN,
           draft = d, call = FeedbackCall(d), sent = FeedbackSent(d, batched), ExecuteCreate
    PROVE  Judged(d)
<1>1. PICK data, x, got : /\ data = serializeUniversalLayout(d) /\ x = Extracted(d, data, batched) /\ got = Got
  OBVIOUS
<1>2. call.ix = "createCompressedAttestation" /\ sent.instruction = FeedbackMessage(d)
      /\ sent.signatures = Carried(d, data, batched)
  BY <1>1, Zenon DEF FeedbackCall, FeedbackSent
<1>3. FeedbackGot(d, got)
  <2>1. got = Received("createCompressedAttestation", FeedbackMessage(d)) BY <1>1, <1>2, Zenon DEF Got
  <2> QED BY <2>1, FeedbackReceived, Zenon
<1>4. got.args = FeedbackArgs(d) /\ got.remaining = RemainingOf(CreationTrees)
      /\ got.accounts.agentAta = Ata(FirstSigner(d), Token2022Program, d.tokenAccount)
  BY <1>3, Zenon DEF FeedbackGot
<1>5. CanLoad(got.accounts) /\ outcome = Nil BY <1>1, Zenon DEF ExecuteCreate, Enters
<1>6. FirstSigner(d) = Owner BY <1>3, <1>5, Loaded, Zenon
<1>7. TokenAccountOwner(got.accounts.agentAta) = Owner
  <2>1. d.tokenAccount = Mint BY Zenon DEF DraftFine
  <2>2. got.accounts.agentAta = AgentAta BY <1>4, <1>6, <2>1, Zenon DEF AgentAta
  <2> QED BY <2>2, Zenon DEF TokenAccountOwner
<1>8. /\ got.args.data = data /\ got.args.outputStateTreeIndex = Number(2)
      /\ got.args.addressTreeInfo.addressMerkleTreePubkeyIndex = Number(0)
  <2>1. PICK a, i : a = FeedbackArgs(d) /\ i = FeedbackTreeInfo OBVIOUS
  <2>2. a.data = data /\ a.outputStateTreeIndex = Number(2) /\ a.addressTreeInfo = i
    BY <1>1, <2>1, Zenon DEF FeedbackArgs
  <2>3. i.addressMerkleTreePubkeyIndex = Number(0) BY <2>1, Zenon DEF FeedbackTreeInfo
  <2> QED BY <1>4, <2>1, <2>2, <2>3, Zenon
<1>9. /\ bytesToAddress(Slice(data, 33, 65)) = d.tokenAccount
      /\ bytesToAddress(Slice(data, 65, 97)) = d.counterparty /\ Slice(data, 1, 33) = d.taskRef
  <2>1. HandlerReads(d, data) BY <1>1, HandlerRead, Zenon
  <2> QED BY <2>1, Zenon DEF HandlerReads
<1>10. ExtractedAs(d, data, x) BY <1>1, PledgesExtracted, Zenon
<1>11. Judging(data, d.tokenAccount, d.counterparty, Owner, x, AddressOf(d), MERKLE_TREE_PUBKEY)
  <2>1. Judging(Got.args.data,
                bytesToAddress(Slice(Got.args.data, ProgramOffsets.TOKEN_ACCOUNT, ProgramOffsets.COUNTERPARTY)),
                bytesToAddress(Slice(Got.args.data, ProgramOffsets.COUNTERPARTY, ProgramOffsets.OUTCOME)),
                TokenAccountOwner(Got.accounts.agentAta),
                extract_ed25519_signatures(sent.signatures, TokenAccountOwner(Got.accounts.agentAta),
                    bytesToAddress(Slice(Got.args.data, ProgramOffsets.COUNTERPARTY, ProgramOffsets.OUTCOME)),
                    draft.mode, build_expected_messages(SasSchema, SchemaName, draft.mode, Got.args.data)),
                derive_address(Slice(Got.args.data, ProgramOffsets.TASK_REF, ProgramOffsets.TOKEN_ACCOUNT), SasSchema,
                    bytesToAddress(Slice(Got.args.data, ProgramOffsets.TOKEN_ACCOUNT, ProgramOffsets.COUNTERPARTY)),
                    bytesToAddress(Slice(Got.args.data, ProgramOffsets.COUNTERPARTY, ProgramOffsets.OUTCOME)),
                    TreeAt(Got.remaining, Got.args.addressTreeInfo.addressMerkleTreePubkeyIndex).address),
                TreeAt(Got.remaining, Got.args.outputStateTreeIndex).address)
    BY Zenon DEF ExecuteCreate, Judging
  <2>2. Got.args.data = data /\ TokenAccountOwner(Got.accounts.agentAta) = Owner /\ draft.mode = d.mode
    BY <1>1, <1>7, <1>8, Zenon
  <2>3. /\ bytesToAddress(Slice(Got.args.data, ProgramOffsets.TOKEN_ACCOUNT, ProgramOffsets.COUNTERPARTY)) = d.tokenAccount
        /\ bytesToAddress(Slice(Got.args.data, ProgramOffsets.COUNTERPARTY, ProgramOffsets.OUTCOME)) = d.counterparty
        /\ Slice(Got.args.data, ProgramOffsets.TASK_REF, ProgramOffsets.TOKEN_ACCOUNT) = d.taskRef
    BY <1>9, <2>2, TheOffsets, SMT
  <2>4. /\ TreeAt(Got.remaining, Got.args.addressTreeInfo.addressMerkleTreePubkeyIndex).address = ADDRESS_TREE
        /\ TreeAt(Got.remaining, Got.args.outputStateTreeIndex).address = MERKLE_TREE_PUBKEY
    BY <1>1, <1>4, <1>8, CreationTreesRead, Zenon
  <2>5. x = extract_ed25519_signatures(sent.signatures, Owner, d.counterparty, d.mode,
                build_expected_messages(SasSchema, SchemaName, d.mode, data))
    BY <1>1, <1>2, Zenon DEF Extracted
  <2>6. derive_address(d.taskRef, SasSchema, d.tokenAccount, d.counterparty, ADDRESS_TREE) = AddressOf(d)
    BY AddressDerived, Zenon
  <2> QED BY <2>1, <2>2, <2>3, <2>4, <2>5, <2>6, Zenon
<1>12. AcceptedIs(d, data, x) <=> ~Flawed(d) BY <1>1, <1>10, Decision, Zenon
<1>13. AcceptedIs(d, data, x) => x = Pledged(d, data) BY <1>10, <1>12, Zenon DEF ExtractedAs, Flawed
<1>14. draft' = draft /\ call' = call /\ sent' = sent BY <1>11, Zenon DEF Judging
<1>15. CASE AcceptedIs(d, data, x)
  <2>1. /\ account' = [address |-> AddressOf(d), tree |-> MERKLE_TREE_PUBKEY,
                       data |-> CompressedAttestation(SasSchema, d.tokenAccount, data, x)]
        /\ outcome' = Wrote(NoState, AttestationCreatedEvent(SasSchema, d.tokenAccount, d.counterparty, Number(0),
                                                             Spell(AddressOf(d))))
    BY <1>11, <1>15, Zenon DEF Judging, AcceptedIs
  <2>2. account' = AccountOf(d) /\ outcome' = CreatedOutcome(d)
    BY <1>1, <1>13, <1>15, <2>1, Zenon DEF AccountOf, CreatedOutcome
  <2> QED BY <1>5, <1>6, <1>12, <1>14, <1>15, <2>2, Zenon DEF Judged
<1>16. CASE ~AcceptedIs(d, data, x)
  <2>1. outcome' = Refused /\ account' = account BY <1>11, <1>16, Zenon DEF Judging, AcceptedIs
  <2> QED BY <1>5, <1>6, <1>12, <1>14, <1>16, <2>1, Zenon DEF Judged
<1> QED BY <1>15, <1>16

-----------------------------------------------------------------------------
(* The account, as the SDK reads it                                          *)

\* The pieces of a compressed attestation.
Pieces9(u, a, b, l, x, n, s, t) ==
    /\ Sequence(u) /\ Len(u) = 197 + Len(x)
    /\ Located(u, 0, a) /\ Located(u, 32, b) /\ Located(u, 64, l) /\ Located(u, 68, x)
    /\ Located(u, 68 + Len(x), <<n>>) /\ Located(u, 69 + Len(x), s) /\ Located(u, 133 + Len(x), t)

LEMMA Nine ==
    ASSUME NEW a, NEW b, NEW l, NEW z, NEW x, NEW n, NEW s, NEW t,
           Sequence(a), Sequence(b), Sequence(l), Sequence(z), Sequence(x), Sequence(s), Sequence(t),
           Len(a) = 32, Len(b) = 32, Len(l) = 2, Len(z) = 2, Len(s) = 64, Len(t) = 64,
           NEW u, u = a \o b \o l \o z \o x \o <<n>> \o s \o t
    PROVE  Pieces9(u, a, b, l, x, n, s, t)
<1>1. PICK c : c = <<n>> OBVIOUS
<1>2. Sequence(c) /\ Len(c) = 1 BY <1>1, Singleton
<1>3. PICK w : w = a \o b \o l \o z /\ u = w \o x \o c \o s \o t BY <1>1
<1>4. Pieces4(w, a, b, l, z) BY <1>3, Four
<1>5. Sequence(w) /\ Len(w) = 68 /\ Located(w, 0, a) /\ Located(w, 32, b) /\ Located(w, 64, l)
  <2>1. /\ Sequence(w) /\ Len(w) = Len(a) + Len(b) + Len(l) + Len(z)
        /\ Located(w, 0, a) /\ Located(w, Len(a), b) /\ Located(w, Len(a) + Len(b), l)
    BY <1>4, SMT DEF Pieces4
  <2> QED BY <2>1
<1>6. Pieces5(u, w, x, c, s, t) BY <1>2, <1>3, <1>5, Five
<1>7. Len(x) \in Nat BY Length
<1>8. /\ Sequence(u) /\ Len(u) = 197 + Len(x) /\ Located(u, 0, w) /\ Located(u, 68, x)
      /\ Located(u, 68 + Len(x), c) /\ Located(u, 69 + Len(x), s) /\ Located(u, 133 + Len(x), t)
  <2>1. /\ Sequence(u) /\ Len(u) = Len(w) + Len(x) + Len(c) + Len(s) + Len(t)
        /\ Located(u, 0, w) /\ Located(u, Len(w), x) /\ Located(u, Len(w) + Len(x), c)
        /\ Located(u, Len(w) + Len(x) + Len(c), s) /\ Located(u, Len(w) + Len(x) + Len(c) + Len(s), t)
    BY <1>6, Zenon DEF Pieces5
  <2>2. PICK k \in Nat : k = Len(x) BY <1>7
  <2>3. /\ Len(w) + Len(x) + Len(c) + Len(s) + Len(t) = 197 + k /\ Len(w) = 68 /\ Len(w) + Len(x) = 68 + k
        /\ Len(w) + Len(x) + Len(c) = 69 + k /\ Len(w) + Len(x) + Len(c) + Len(s) = 133 + k
    BY <2>2, <1>2, <1>5
  <2> QED BY <2>1, <2>2, <2>3, SMT
<1>9. Located(u, 0 + 0, a) /\ Located(u, 0 + 32, b) /\ Located(u, 0 + 64, l)
  <2>1. Located(u, 0, w) BY <1>8
  <2>2. Located(u, 0 + 0, a) BY <2>1, <1>5, Nested
  <2>3. Located(u, 0 + 32, b) BY <2>1, <1>5, Nested
  <2>4. Located(u, 0 + 64, l) BY <2>1, <1>5, Nested
  <2> QED BY <2>2, <2>3, <2>4
<1>10. 0 + 0 = 0 /\ 0 + 32 = 32 /\ 0 + 64 = 64 OBVIOUS
<1>11. Located(u, 0, a) /\ Located(u, 32, b) /\ Located(u, 64, l) BY <1>9, <1>10, Zenon
<1> QED BY <1>1, <1>8, <1>11, Zenon DEF Pieces9

\* What is read at the places of a compressed attestation.
StoredAs(p, a, b, x, n, s, t) ==
    /\ p.sasSchema = a /\ p.tokenAccount = b /\ p.data = x /\ p.numSignatures = n
    /\ p.signature1 = s /\ p.signature2 = t

LEMMA RecordOfSix ==
    ASSUME NEW a, NEW b, NEW x, NEW n, NEW s, NEW t,
           NEW p, p = [sasSchema |-> a, tokenAccount |-> b, numSignatures |-> n, data |-> x,
                       signature1 |-> s, signature2 |-> t]
    PROVE  StoredAs(p, a, b, x, n, s, t)
BY DEF StoredAs

LayoutLong(x) == Len(x) \in 131..371
SignatureLong(s) == Len(s) = 64
SecondIs(n, t) == n = 1 => t = Zeros(64)

LEMMA StoredRead ==
    ASSUME NEW a, Sequence(a), NEW b, Sequence(b), NEW x, LayoutLong(x), NEW n \in {1, 2}, NEW s, NEW t,
           SignatureLong(s), SignatureLong(t), SecondIs(n, t),
           NEW u, Pieces9(u, addressToBytes(a), addressToBytes(b), U16Bytes(Len(x)), x, Number(n), s, t)
    PROVE  StoredAs(parseAttestation(u), a, b, x, n, s, t)
<1>1. PICK A, B, k : A = addressToBytes(a) /\ B = addressToBytes(b) /\ k = Len(x) OBVIOUS
<1>2. Len(A) = 32 /\ Len(B) = 32 BY <1>1, Address, Zenon
<1>3. /\ Sequence(u) /\ Len(u) = 197 + k /\ Located(u, 0, A) /\ Located(u, 32, B) /\ Located(u, 64, U16Bytes(k))
      /\ Located(u, 68, x) /\ Located(u, 68 + k, <<Number(n)>>) /\ Located(u, 69 + k, s) /\ Located(u, 133 + k, t)
  BY <1>1, Zenon DEF Pieces9
<1>4. k \in Nat /\ k \in 0..MaxLength
  <2>1. k \in 131..371 BY <1>1, Zenon DEF LayoutLong
  <2>3. k \in Nat /\ k \in 0..1000 BY <2>1
  <2> QED BY <2>3 DEF MaxLength
<1>5. U16At(u, 64) = k BY <1>3, <1>4, U16Found
<1>6. WordAt(u, 0, 32, A)
  <2>1. WordAt(u, 0, 0 + Len(A), A) BY <1>3, WordRead, Zenon
  <2>2. 0 + 32 = 32 OBVIOUS
  <2> QED BY <1>2, <2>1, <2>2, Zenon
<1>7. WordAt(u, 32, 64, B)
  <2>1. WordAt(u, 32, 32 + Len(B), B) BY <1>3, WordRead, Zenon
  <2>2. 32 + 32 = 64 OBVIOUS
  <2> QED BY <1>2, <2>1, <2>2, Zenon
<1>8. WordAt(u, 68, 68 + k, x)
  <2>1. WordAt(u, 68, 68 + Len(x), x) BY <1>3, WordRead, SMT
  <2> QED BY <1>1, <2>1, Zenon
<1>9. PICK e, f, g : e = 68 + k /\ f = 69 + k /\ g = 133 + k OBVIOUS
<1>10. /\ f = e + 1 /\ g = e + 65 /\ f + 64 = e + 65 /\ g + 64 = e + 129
       /\ ~(Len(u) < 68 \/ Len(u) < e + 129)
  <2>1. PICK m : m = Len(u) OBVIOUS
  <2>2. m = 197 + k BY <1>3, <2>1
  <2>3. /\ f = e + 1 /\ g = e + 65 /\ f + 64 = e + 65 /\ g + 64 = e + 129 /\ ~(m < 68 \/ m < e + 129)
    BY <1>4, <1>9, <2>2
  <2> QED BY <2>1, <2>3, Zenon
<1>11. Located(u, e, <<Number(n)>>) /\ Located(u, f, s) /\ Located(u, g, t) BY <1>3, <1>9, Zenon
<1>12. At(u, e) = n
  <2>1. n \in 0..255 OBVIOUS
  <2>2. PICK h : h = Number(n) /\ Located(u, e, <<h>>) BY <1>11
  <2>3. u[e + 1] = h BY <2>2, OneByte
  <2>4. Count(h) = n BY <2>1, <2>2, CountedByte, Zenon
  <2> QED BY <2>3, <2>4, Zenon DEF At
<1>13. Slice(u, e + 1, e + 65) = s
  <2>1. WordAt(u, f, f + Len(s), s) BY <1>11, WordRead, Zenon
  <2>2. WordAt(u, f, f + 64, s) BY <2>1, Zenon DEF SignatureLong
  <2>3. WordAt(u, e + 1, e + 65, s) BY <1>10, <2>2, Zenon
  <2> QED BY <2>3, Zenon DEF WordAt
<1>14. Slice(u, e + 65, e + 129) = t
  <2>1. WordAt(u, g, g + Len(t), t) BY <1>11, WordRead, Zenon
  <2>2. WordAt(u, g, g + 64, t) BY <2>1, Zenon DEF SignatureLong
  <2>3. WordAt(u, e + 65, e + 129, t) BY <1>10, <2>2, Zenon
  <2> QED BY <2>3, Zenon DEF WordAt
<1>15. bytesToAddress(A) = a /\ bytesToAddress(B) = b BY <1>1, AddressBack, Zenon
<1>16. DATA_START = 68 /\ DATA_LEN = 64 BY DEF DATA_START, DATA_LEN
<1>17. Slice(u, 0, 32) = A /\ Slice(u, 32, 64) = B /\ Slice(u, 68, e) = x
  BY <1>6, <1>7, <1>8, <1>9, Zenon DEF WordAt
<1>18. (IF n > 1 THEN Slice(u, e + 65, e + 129) ELSE Zeros(64)) = t
  <2>1. PICK w, o : w = Slice(u, e + 65, e + 129) /\ o = Zeros(64) OBVIOUS
  <2>2. w = t /\ (n = 1 => t = o)
    <3>1. w = t BY <1>14, <2>1, Zenon
    <3>2. n = 1 => t = o BY <2>1, Zenon DEF SecondIs
    <3> QED BY <3>1, <3>2
  <2>3. (IF n > 1 THEN w ELSE o) = t BY <2>2
  <2> QED BY <2>1, <2>3, Zenon
<1>19. parseAttestation(u)
       = IF Len(u) < DATA_START \/ Len(u) < e + 129 THEN NoAttestation
         ELSE [sasSchema |-> bytesToAddress(Slice(u, 0, 32)), tokenAccount |-> bytesToAddress(Slice(u, 32, 64)),
               numSignatures |-> At(u, e), data |-> Slice(u, DATA_START, e), signature1 |-> Slice(u, e + 1, e + 65),
               signature2 |-> IF At(u, e) > 1 THEN Slice(u, e + 65, e + 129) ELSE Zeros(64)]
  <2>1. DATA_START + U16At(u, DATA_LEN) = e BY <1>5, <1>9, <1>16, Zenon
  <2> QED BY <2>1, Zenon DEF parseAttestation
<1>20. PICK z : z = IF n > 1 THEN Slice(u, e + 65, e + 129) ELSE Zeros(64) OBVIOUS
<1>21. parseAttestation(u) = [sasSchema |-> a, tokenAccount |-> b, numSignatures |-> n, data |-> x,
                              signature1 |-> s, signature2 |-> z]
  <2>1. ~(Len(u) < DATA_START \/ Len(u) < e + 129) BY <1>10, <1>16, Zenon
  <2>2. parseAttestation(u)
        = [sasSchema |-> bytesToAddress(Slice(u, 0, 32)), tokenAccount |-> bytesToAddress(Slice(u, 32, 64)),
           numSignatures |-> At(u, e), data |-> Slice(u, DATA_START, e), signature1 |-> Slice(u, e + 1, e + 65),
           signature2 |-> IF At(u, e) > 1 THEN Slice(u, e + 65, e + 129) ELSE Zeros(64)]
    BY <1>19, <2>1, Zenon
  <2> QED BY <1>12, <1>13, <1>15, <1>16, <1>17, <1>20, <2>2, Zenon
<1>22. parseAttestation(u) = [sasSchema |-> a, tokenAccount |-> b, numSignatures |-> n, data |-> x,
                              signature1 |-> s, signature2 |-> t]
  <2>1. z = t BY <1>18, <1>20, Zenon
  <2> QED BY <1>21, <2>1, Zenon
<1>23. PICK p : p = parseAttestation(u) OBVIOUS
<1>24. StoredAs(p, a, b, x, n, s, t) BY <1>22, <1>23, RecordOfSix
<1> QED BY <1>23, <1>24

\* What the SDK reads of the account that a draft became.
DraftStored(d, p) ==
    /\ p.sasSchema = SasSchema /\ p.tokenAccount = d.tokenAccount /\ p.data = serializeUniversalLayout(d)
    /\ p.numSignatures = Len(Ed25519Entries(d, serializeUniversalLayout(d)))
    /\ p.signature1 = Ed25519Entries(d, serializeUniversalLayout(d))[1].signature
    /\ p.signature2 = IF Len(Ed25519Entries(d, serializeUniversalLayout(d))) = 2
                      THEN Ed25519Entries(d, serializeUniversalLayout(d))[2].signature ELSE Zeros(64)
    /\ p.numSignatures \in {1, 2}

SixtyFour(s) == Sequence(s) /\ Len(s) = 64

LEMMA PledgeLengths ==
    ASSUME NEW d, DraftFine(d), NEW data, NEW g, g = Pledged(d, data)
    PROVE  SixtyFour(g[1].sig) /\ (Len(g) = 2 => SixtyFour(g[2].sig))
<1>1. \A a, m : SixtyFour(SignatureBy(a, m).sig)
  <2> SUFFICES ASSUME NEW a, NEW m PROVE SixtyFour(SignatureBy(a, m).sig) BY Zenon
  <2>1. PICK c, q : c = Ed25519Signature(a) /\ q = SignatureBy(a, m) OBVIOUS
  <2>2. q = [pubkey |-> a, sig |-> c, message |-> m] BY <2>1, Zenon DEF SignatureBy
  <2>3. q.sig = c BY <2>2
  <2>4. SixtyFour(c) BY <2>1, SignatureIs, Zenon DEF SixtyFour
  <2> QED BY <2>1, <2>3, <2>4, Zenon
<1>2. PICK y, z : y = SignatureBy(Owner, HashOf(d)) /\ z = SignatureBy(d.counterparty, Readable(data)) OBVIOUS
<1>3. SixtyFour(y.sig) /\ SixtyFour(z.sig) BY <1>1, <1>2, Zenon
<1>4. g = <<y, z>> \/ g = <<z>> \/ g = <<y>> BY <1>2, Zenon DEF Pledged
<1>5. /\ g = <<y, z>> => g[1] = y /\ g[2] = z
      /\ g = <<z>> => g[1] = z /\ Len(g) # 2
      /\ g = <<y>> => g[1] = y /\ Len(g) # 2
  OBVIOUS
<1> QED BY <1>3, <1>4, <1>5, Zenon

LEMMA StoredIs ==
    ASSUME NEW d, DraftFine(d), FitsMode(d)
    PROVE  DraftStored(d, parseAttestation(AccountOf(d).data))
<1>1. PICK x, g, e, u : /\ x = serializeUniversalLayout(d) /\ g = Pledged(d, serializeUniversalLayout(d))
                        /\ e = Ed25519Entries(d, serializeUniversalLayout(d)) /\ u = AccountOf(d).data
  OBVIOUS
<1>2. Sequence(x) /\ Len(x) \in 131..371 BY <1>1, DataLength, Zenon
<1>3. /\ g[1].sig = e[1].signature /\ Len(g) = Len(e) /\ Len(g) \in {1, 2}
      /\ Len(g) = 2 => g[2].sig = e[2].signature
  BY <1>1, PledgesAre, Zenon
<1>4. PICK s, n : s = g[1].sig /\ n = Len(g) OBVIOUS
<1>5. PICK t : t = IF Len(g) > 1 THEN g[2].sig ELSE Zeros(64) OBVIOUS
<1>6. SixtyFour(g[1].sig) /\ (Len(g) = 2 => SixtyFour(g[2].sig)) BY <1>1, PledgeLengths
<1>7. n = 1 \/ n = 2 BY <1>3, <1>4
<1>8. /\ n = 1 => t = Zeros(64) /\ n # 2
      /\ n = 2 => t = g[2].sig
  BY <1>4, <1>5
<1>9. Sequence(Zeros(64)) /\ Len(Zeros(64)) = 64
  <2>1. 64 \in Nat OBVIOUS
  <2> QED BY <2>1, ZerosAre
<1>10. Sequence(s) /\ Len(s) = 64 /\ Sequence(t) /\ Len(t) = 64 BY <1>4, <1>6, <1>7, <1>8, <1>9, Zenon DEF SixtyFour
<1>11. SasSchema \in {Client, Owner, Mint, SasSchema, <<"task">>, <<"ephemeral">>}
       /\ Mint \in {Client, Owner, Mint, SasSchema, <<"task">>, <<"ephemeral">>}
  BY Zenon
<1>12. d.tokenAccount = Mint BY Zenon DEF DraftFine
<1>13. Sequence(SasSchema) /\ Sequence(d.tokenAccount) BY <1>11, <1>12, PartiesBack, Zenon
<1>14. PICK a, b, l, z, q : /\ a = addressToBytes(SasSchema) /\ b = addressToBytes(d.tokenAccount)
                            /\ l = U16Bytes(Len(x)) /\ z = Zeros(2) /\ q = Number(n)
  OBVIOUS
<1>15. u = a \o b \o l \o z \o x \o <<q>> \o s \o t
  <2>1. AccountOf(d).data = CompressedAttestation(SasSchema, d.tokenAccount, x, g) BY <1>1, Zenon DEF AccountOf
  <2> QED BY <1>1, <1>4, <1>5, <1>14, <2>1, Zenon DEF CompressedAttestation
<1>16. /\ Sequence(a) /\ Len(a) = 32 /\ Sequence(b) /\ Len(b) = 32 /\ Sequence(l) /\ Len(l) = 2
       /\ Sequence(z) /\ Len(z) = 2
  <2>1. 2 \in Nat OBVIOUS
  <2>2. Sequence(Zeros(2)) /\ Len(Zeros(2)) = 2 BY <2>1, ZerosAre
  <2> QED BY <1>14, <2>2, Address, U16Is, SMT
<1>17. Pieces9(u, a, b, l, x, q, s, t) BY <1>2, <1>10, <1>15, <1>16, Nine, Zenon
<1>18. Pieces9(u, addressToBytes(SasSchema), addressToBytes(d.tokenAccount), U16Bytes(Len(x)), x, Number(n), s, t)
  BY <1>14, <1>17, Zenon
<1>19. n \in {1, 2} BY <1>7
<1>20. n = 1 => t = Zeros(64) BY <1>8
<1>21. StoredAs(parseAttestation(u), SasSchema, d.tokenAccount, x, n, s, t)
  <2>1. LayoutLong(x) /\ SignatureLong(s) /\ SignatureLong(t) /\ SecondIs(n, t)
    BY <1>2, <1>10, <1>20, Zenon DEF LayoutLong, SignatureLong, SecondIs
  <2> QED BY <1>13, <1>18, <1>19, <2>1, StoredRead, Zenon
<1>22. PICK p : p = parseAttestation(u) OBVIOUS
<1>23. /\ p.sasSchema = SasSchema /\ p.tokenAccount = d.tokenAccount /\ p.data = x /\ p.numSignatures = n
       /\ p.signature1 = s /\ p.signature2 = t
  BY <1>21, <1>22, Zenon DEF StoredAs
<1>24. n = Len(e) /\ s = e[1].signature /\ t = (IF Len(e) = 2 THEN e[2].signature ELSE Zeros(64))
  <2>1. n = Len(e) /\ s = e[1].signature BY <1>3, <1>4
  <2>2. CASE n = 2 BY <1>3, <1>4, <1>8, <2>1, <2>2, Zenon
  <2>3. CASE n = 1 BY <1>8, <2>1, <2>3, Zenon
  <2> QED BY <1>7, <2>1, <2>2, <2>3, Zenon
<1>25. DraftStored(d, p) BY <1>1, <1>19, <1>23, <1>24, Zenon DEF DraftStored
<1> QED BY <1>1, <1>22, <1>25

-----------------------------------------------------------------------------
(* A number of the field comes back as the bytes it was made of               *)

LEMMA Least ==
    ASSUME NEW S \in SUBSET Nat, S # {}
    PROVE  Min(S) \in S /\ \A y \in S : Min(S) <= y
<1>1. PICK D : D = \E x \in S : \A y \in S : x <= y OBVIOUS
<1>2. PICK T : T = {n \in Nat : \A j \in S : j <= n => D} OBVIOUS
<1>3. 0 \in T
  <2>1. ASSUME NEW j \in S, j <= 0 PROVE D
    <3>1. j = 0 BY <2>1
    <3>2. \A y \in S : 0 <= y OBVIOUS
    <3> QED BY <1>1, <3>1, <3>2
  <2> QED BY <1>2, <2>1
<1>4. \A n \in T : n + 1 \in T
  <2> SUFFICES ASSUME NEW n \in T PROVE n + 1 \in T OBVIOUS
  <2>1. n \in Nat /\ \A j \in S : j <= n => D BY <1>2
  <2>2. ASSUME NEW j \in S, j <= n + 1 PROVE D
    <3>1. CASE \E y \in S : y <= n BY <2>1, <3>1
    <3>2. CASE ~\E y \in S : y <= n
      <4>1. \A y \in S : n + 1 <= y BY <2>1, <3>2
      <4>2. j = n + 1 BY <2>1, <2>2, <4>1
      <4> QED BY <1>1, <4>1, <4>2
    <3> QED BY <3>1, <3>2
  <2> QED BY <1>2, <2>1, <2>2
<1>5. T = Nat BY <1>2, <1>3, <1>4, Induction
<1>6. D
  <2>1. PICK j : j \in S OBVIOUS
  <2>2. j \in T BY <1>5, <2>1
  <2> QED BY <1>2, <2>1, <2>2
<1> QED BY <1>1, <1>6 DEF Min

\* The bytes from one on.
OnFrom(b, m, v) == Sequence(v) /\ Len(v) = Len(b) - m + 1 /\ \A i \in 1..Len(v) : v[i] = b[m + i - 1]

LEMMA FromByte ==
    ASSUME NEW b, Sequence(b), NEW m \in 1..Len(b)
    PROVE  OnFrom(b, m, SubSeq(b, m, Len(b)))
<1>1. PICK S : b \in Seq(S) BY Zenon DEF Sequence
<1>2. PICK n \in Nat : n = Len(b) BY Length
<1>3. m \in 1..n BY <1>2
<1>4. PICK v : v = SubSeq(b, m, n) OBVIOUS
<1>5. v \in Seq(S) /\ Len(v) = n - m + 1 /\ \A i \in 1..n - m + 1 : v[i] = b[m + i - 1]
  BY <1>1, <1>2, <1>3, <1>4
<1>6. Sequence(v) BY <1>5, Zenon DEF Sequence
<1>7. OnFrom(b, m, v) BY <1>2, <1>5, <1>6 DEF OnFrom
<1> QED BY <1>2, <1>4, <1>7, Zenon

\* Nothing but zeros before a number's own digits.
LedByZeros(b, m) == \A i \in 1..Len(b) : i < m => b[i] = Number(0)

LEMMA PaddedBack ==
    ASSUME NEW b, Sequence(b), NEW m \in 1..Len(b), LedByZeros(b, m), NEW v, OnFrom(b, m, v)
    PROVE  Zeros(Len(b) - Len(v)) \o v = b
<1>0. PICK n \in Nat : n = Len(b) BY Length
<1>1. Sequence(v) /\ Len(v) = n - m + 1 /\ \A i \in 1..Len(v) : v[i] = b[m + i - 1]
  <2>1. Sequence(v) /\ Len(v) = Len(b) - m + 1 /\ \A i \in 1..Len(v) : v[i] = b[m + i - 1] BY DEF OnFrom
  <2> QED BY <1>0, <2>1
<1>2. PICK z : z = Zeros(m - 1) OBVIOUS
<1>3. m \in 1..n /\ m - 1 \in Nat /\ n - Len(v) = m - 1 BY <1>0, <1>1
<1>4. Sequence(z) /\ Len(z) = m - 1 /\ \A i \in 1..m - 1 : z[i] = Number(0) BY <1>2, <1>3, ZerosAre
<1>5. PICK u : u = z \o v OBVIOUS
<1>6. /\ Sequence(u) /\ Len(u) = Len(z) + Len(v) /\ \A i \in 1..Len(z) : u[i] = z[i]
      /\ \A i \in 1..Len(v) : u[Len(z) + i] = v[i]
  <2>1. Sequence(z) /\ Sequence(v) BY <1>1, <1>4
  <2>2. /\ Sequence(z \o v) /\ Len(z \o v) = Len(z) + Len(v) /\ \A i \in 1..Len(z) : (z \o v)[i] = z[i]
        /\ \A i \in 1..Len(v) : (z \o v)[Len(z) + i] = v[i]
    BY <2>1, Concatenated
  <2> QED BY <1>5, <2>2, Zenon
<1>7. Len(u) = Len(b) /\ Len(u) = n BY <1>0, <1>1, <1>3, <1>4, <1>6
<1>8. \A i \in 1..Len(u) : u[i] = b[i]
  <2> SUFFICES ASSUME NEW i \in 1..Len(u) PROVE u[i] = b[i] OBVIOUS
  <2>1. CASE i < m
    <3>1. i \in 1..m - 1 BY <2>1
    <3>2. b[i] = Number(0) BY <1>7, <2>1 DEF LedByZeros
    <3> QED BY <1>4, <1>6, <3>1, <3>2
  <2>2. CASE ~(i < m)
    <3>1. PICK j : j = i - m + 1 OBVIOUS
    <3>2. j \in 1..Len(v) /\ Len(z) + j = i /\ m + j - 1 = i BY <1>1, <1>3, <1>4, <1>7, <2>2, <3>1
    <3>3. v[j] = b[m + j - 1] BY <1>1, <3>2, Zenon
    <3>4. u[Len(z) + j] = v[j] BY <1>6, <3>2, Zenon
    <3> QED BY <3>2, <3>3, <3>4, Zenon
  <2> QED BY <2>1, <2>2
<1>9. u = b BY <1>6, <1>7, <1>8, Equal
<1> QED BY <1>0, <1>2, <1>3, <1>5, <1>9

LEMMA FieldBack ==
    ASSUME NEW b, Sequence(b), Len(b) = 32
    PROVE  encodeBN254(createBN254(b)) = b
<1>1. PICK S : S = {i \in DOMAIN b : b[i] # Number(0)} OBVIOUS
<1>2. DOMAIN b = 1..32 BY Length
<1>3. CASE S = {}
  <2>1. createBN254(b) = <<>> BY <1>1, <1>3, Zenon DEF createBN254
  <2>2. PICK z : z = Zeros(32) OBVIOUS
  <2>3. Sequence(z) /\ Len(z) = 32 /\ \A i \in 1..32 : z[i] = Number(0)
    <3>1. 32 \in Nat OBVIOUS
    <3> QED BY <2>2, <3>1, ZerosAre
  <2>4. \A i \in 1..32 : b[i] = Number(0) BY <1>1, <1>2, <1>3
  <2>5. z = b BY <2>3, <2>4, Equal
  <2>6. z \o <<>> = z BY <2>3 DEF Sequence
  <2>7. Len(<<>>) = 0 /\ 32 - 0 = 32 OBVIOUS
  <2> QED BY <2>1, <2>2, <2>5, <2>6, <2>7, Zenon DEF encodeBN254
<1>4. CASE S # {}
  <2>1. S \in SUBSET Nat BY <1>1, <1>2
  <2>2. PICK m : m = Min(S) OBVIOUS
  <2>3. m \in S /\ \A y \in S : m <= y BY <1>4, <2>1, <2>2, Least
  <2>4. m \in 1..32 /\ \A i \in 1..32 : i < m => b[i] = Number(0) BY <1>1, <1>2, <2>3
  <2>5. PICK v : v = SubSeq(b, m, Len(b)) OBVIOUS
  <2>6. createBN254(b) = v BY <1>1, <1>4, <2>2, <2>5, Zenon DEF createBN254
  <2>7. LedByZeros(b, m) /\ m \in 1..Len(b) BY <2>4 DEF LedByZeros
  <2>9. OnFrom(b, m, v)
    <3>1. OnFrom(b, m, SubSeq(b, m, Len(b))) BY <2>7, FromByte
    <3> QED BY <2>5, <3>1
  <2>8. Zeros(Len(b) - Len(v)) \o v = b BY <2>7, <2>9, PaddedBack
  <2> QED BY <2>6, <2>8, Zenon DEF encodeBN254
<1> QED BY <1>3, <1>4

\* An address is thirty-two bytes.
LEMMA AddressLong ==
    ASSUME NEW d
    PROVE  Sequence(AddressOf(d)) /\ Len(AddressOf(d)) = 32
<1>1. PICK parts : AddressOf(d) = Put(Keccak(parts), 0, <<Number(0)>>)
  BY Zenon DEF AddressOf, deriveAttestationAddress, deriveAddress, hashToBn254FieldSizeBe, hashvToBn254FieldSizeBe
<1>2. PICK h : h = Keccak(parts) OBVIOUS
<1>3. Sequence(h) /\ Len(h) = 32
  <2>1. PICK a : h = addressToBytes(a) BY <1>2, Zenon DEF Keccak
  <2> QED BY <2>1, Address, Zenon
<1>4. PICK p, z : p = <<Number(0)>> /\ z = 0 OBVIOUS
<1>5. Sequence(p) /\ Len(p) = 1 BY <1>4, Singleton
<1>6. z \in Nat /\ z + Len(p) <= Len(h) BY <1>3, <1>4, <1>5
<1>7. PICK u : u = Put(h, z, p) OBVIOUS
<1>8. Sequence(u) /\ Len(u) = Len(h) BY <1>3, <1>5, <1>6, <1>7, Kept
<1> QED BY <1>1, <1>2, <1>3, <1>4, <1>7, <1>8, Zenon

\* The indexer is asked for the address the program will derive, and to prove the account
\* by the hash it was stored under.
AskedFor(d) ==
    /\ CreationRequest(AttestationSeeds(d, SasSchema), SATI_PROGRAM_ADDRESS).newAddressesWithTrees
       = <<[address |-> AddressOf(d), tree |-> ADDRESS_TREE]>>
    /\ \A c : c.hash = createBN254(AddressOf(d)) => MutationRequest(c).hashes = <<AddressOf(d)>>

LEMMA Requests ==
    ASSUME NEW d
    PROVE  AskedFor(d)
<1>1. PICK a : a = AddressOf(d) OBVIOUS
<1>2. PICK b : b = createBN254(a) OBVIOUS
<1>3. encodeBN254(b) = a
  <2>1. Sequence(a) /\ Len(a) = 32 BY <1>1, AddressLong
  <2> QED BY <1>2, <2>1, FieldBack
<1>4. CreationRequest(AttestationSeeds(d, SasSchema), SATI_PROGRAM_ADDRESS)
      = getValidityProofParams(<<>>, <<[address |-> b, tree |-> ADDRESS_TREE]>>)
  BY <1>1, <1>2, Zenon DEF CreationRequest, AddressOf
<1>5. PICK n, r : /\ n = <<[address |-> b, tree |-> ADDRESS_TREE]>>
                  /\ r = getValidityProofParams(<<>>, <<[address |-> b, tree |-> ADDRESS_TREE]>>)
  OBVIOUS
<1>6. r.newAddressesWithTrees = [i \in DOMAIN n |-> [address |-> encodeBN254(n[i].address), tree |-> n[i].tree]]
  BY <1>5 DEF getValidityProofParams
<1>7. DOMAIN n = {1} /\ n[1].address = b /\ n[1].tree = ADDRESS_TREE BY <1>5
<1>8. [i \in DOMAIN n |-> [address |-> encodeBN254(n[i].address), tree |-> n[i].tree]]
      = [i \in {1} |-> [address |-> a, tree |-> ADDRESS_TREE]]
  BY <1>3, <1>7, Zenon
<1>9. \A x : [i \in {1} |-> x] = <<x>> OBVIOUS
<1>10. r.newAddressesWithTrees = <<[address |-> a, tree |-> ADDRESS_TREE]>>
  <2>1. PICK x : x = [address |-> a, tree |-> ADDRESS_TREE] OBVIOUS
  <2>2. r.newAddressesWithTrees = [i \in {1} |-> x] BY <1>6, <1>8, <2>1, Zenon
  <2>3. [i \in {1} |-> x] = <<x>> OBVIOUS
  <2> QED BY <2>1, <2>2, <2>3
<1>11. ASSUME NEW c, c.hash = b PROVE MutationRequest(c).hashes = <<a>>
  <2>1. PICK h, m : h = <<b>> /\ m = MutationRequest(c) OBVIOUS
  <2>2. m = getValidityProofParams(h, <<>>) BY <1>11, <2>1 DEF MutationRequest
  <2>3. m.hashes = [i \in DOMAIN h |-> encodeBN254(h[i])] BY <2>2 DEF getValidityProofParams
  <2>4. DOMAIN h = {1} /\ h[1] = b BY <2>1
  <2>5. [i \in DOMAIN h |-> encodeBN254(h[i])] = [i \in {1} |-> a] BY <1>3, <2>4, Zenon
  <2>6. [i \in {1} |-> a] = <<a>> OBVIOUS
  <2> QED BY <2>1, <2>3, <2>5, <2>6
<1>12. \A c : c.hash = b => MutationRequest(c).hashes = <<a>> BY <1>11
<1>13. CreationRequest(AttestationSeeds(d, SasSchema), SATI_PROGRAM_ADDRESS).newAddressesWithTrees
       = <<[address |-> a, tree |-> ADDRESS_TREE]>>
  BY <1>4, <1>5, <1>10, Zenon
<1> QED BY <1>1, <1>2, <1>12, <1>13, Zenon DEF AskedFor

-----------------------------------------------------------------------------
(* Encrypted content opens for its reader alone                              *)

PayloadReads(q, n) ==
    /\ q.version = 1 /\ q.ephemeralPubkey = addressToBytes(<<"ephemeral">>)
    /\ q.ciphertext = Seal(TextOf(n), ContentKey)

LEMMA PayloadRead ==
    ASSUME NEW n \in Nat, NEW u, Payloads(u, n)
    PROVE  PayloadReads(deserializeEncryptedPayload(u), n)
<1>1. PICK a, b, c, d : /\ a = <<Number(1)>> /\ b = addressToBytes(<<"ephemeral">>) /\ c = Nonce
                        /\ d = Seal(TextOf(n), ContentKey)
  OBVIOUS
<1>2. Pieces4(u, a, b, c, d) /\ Len(u) = n + 73 BY <1>1, Zenon DEF Payloads
<1>3. Len(a) = 1 BY <1>1, Singleton
<1>4. Len(b) = 32 BY <1>1, Address, Zenon
<1>5. Len(c) = 24
  <2>1. 24 \in Nat OBVIOUS
  <2>2. c = [i \in 1..24 |-> <<"nonce">>] BY <1>1 DEF Nonce, NONCE_SIZE
  <2>3. c = [i \in 1..24 |-> c[i]] BY <2>2
  <2> QED BY <2>1, <2>3, Tabulated, Zenon
<1>6. Len(d) = n + 16 BY <1>1, TextIs, SealIs, Zenon DEF SealedWith
<1>7. Located(u, 0, a) /\ Located(u, 1, b) /\ Located(u, 57, d)
  <2>1. /\ Located(u, 0, a) /\ Located(u, Len(a), b) /\ Located(u, Len(a) + Len(b) + Len(c), d)
    BY <1>2, Zenon DEF Pieces4
  <2>2. Len(a) + Len(b) + Len(c) = 57 BY <1>3, <1>4, <1>5
  <2> QED BY <1>3, <2>1, <2>2, Zenon
<1>8. At(u, 0) = 1
  <2>1. PICK h : h = Number(1) /\ Located(u, 0, <<h>>) BY <1>1, <1>7
  <2>2. u[0 + 1] = h BY <2>1, OneByte
  <2>3. 1 \in 0..255 OBVIOUS
  <2>4. Count(h) = 1 BY <2>1, <2>3, CountedByte, Zenon
  <2> QED BY <2>2, <2>4, Zenon DEF At
<1>9. Slice(u, 1, 33) = b
  <2>1. WordAt(u, 1, 1 + Len(b), b) BY <1>7, WordRead, Zenon
  <2>2. WordAt(u, 1, 33, b) BY <1>4, <2>1, Places, Zenon
  <2> QED BY <2>2, Zenon DEF WordAt
<1>10. From(u, 57) = d
  <2>1. WordAt(u, 57, 57 + Len(d), d) BY <1>7, WordRead, Zenon
  <2>2. 57 + Len(d) = Len(u) BY <1>2, <1>6
  <2>3. WordAt(u, 57, Len(u), d) BY <2>1, <2>2, Zenon
  <2> QED BY <2>3, Zenon DEF WordAt, From
<1>11. ~(Len(u) < MIN_ENCRYPTED_SIZE \/ At(u, 0) # ENCRYPTION_VERSION)
  <2>1. MIN_ENCRYPTED_SIZE = 73 BY DEF MIN_ENCRYPTED_SIZE, PUBKEY_SIZE, NONCE_SIZE, TAG_SIZE
  <2>2. ENCRYPTION_VERSION = 1 BY DEF ENCRYPTION_VERSION
  <2>3. ~(Len(u) < 73) BY <1>2
  <2> QED BY <1>8, <2>1, <2>2, <2>3, Zenon
<1>12. PICK m : m = Slice(u, 33, 57) OBVIOUS
<1>13. PICK q : q = [version |-> 1, ephemeralPubkey |-> b, nonce |-> m, ciphertext |-> d] OBVIOUS
<1>14. deserializeEncryptedPayload(u) = [version |-> 1, ephemeralPubkey |-> b, nonce |-> m, ciphertext |-> d]
  BY <1>8, <1>9, <1>10, <1>11, <1>12, Zenon DEF deserializeEncryptedPayload
<1>15. q.version = 1 /\ q.ephemeralPubkey = b /\ q.ciphertext = d BY <1>13
<1>16. PayloadReads(q, n) BY <1>1, <1>15, Zenon DEF PayloadReads
<1> QED BY <1>13, <1>14, <1>16, Zenon

\* The keys that the two wallets come to, of which one is the one the text was sealed with.
KeyFrom(wallet) == EncryptionKey(<<"ephemeral">>, deriveEncryptionKeypair(wallet).privateKey)

LEMMA Keys ==
    /\ KeyFrom(Owner) = ContentKey /\ KeyFrom(Client) # ContentKey
    /\ Sequence(ContentKey)
<1>2. \A x, w : Tail(<<x>> \o <<w>>) = <<w>>
  <2> SUFFICES ASSUME NEW x, NEW w PROVE Tail(<<x>> \o <<w>>) = <<w>> OBVIOUS
  <2>1. PICK s : s = <<w>> OBVIOUS
  <2>2. Sequence(s) BY <2>1, Singleton
  <2>3. Tail(<<x>> \o s) = s BY <2>2, Prepended, Zenon
  <2> QED BY <2>1, <2>3
<1>3. \A w : deriveEncryptionKeypair(w).privateKey = <<"x25519 secret">> \o w
  BY DEF deriveEncryptionKeypair
<1>4. Owner = <<"owner">> /\ Client = <<"client">> BY DEF Owner, Client
<1>5. PICK o, c : o = KeyFrom(Owner) /\ c = KeyFrom(Client) OBVIOUS
<1>6. o = <<"key">> \o <<"ephemeral">> \o <<"owner">>
  <2>1. o = <<"key">> \o <<"ephemeral">> \o Tail(<<"x25519 secret">> \o <<"owner">>)
    BY <1>3, <1>4, <1>5 DEF KeyFrom, EncryptionKey
  <2> QED BY <1>2, <2>1
<1>7. c = <<"key">> \o <<"ephemeral">> \o <<"client">>
  <2>1. c = <<"key">> \o <<"ephemeral">> \o Tail(<<"x25519 secret">> \o <<"client">>)
    BY <1>3, <1>4, <1>5 DEF KeyFrom, EncryptionKey
  <2> QED BY <1>2, <2>1
<1>8. ContentKey = <<"key">> \o <<"ephemeral">> \o <<"owner">>
  <2>1. PICK t : t = Tail(<<"x25519">> \o <<"owner">>) OBVIOUS
  <2>2. ContentKey = <<"key">> \o <<"ephemeral">> \o t
    BY <1>4, <2>1, Zenon DEF ContentKey, EncryptionKey, deriveEncryptionPublicKey
  <2>3. t = <<"owner">> BY <1>2, <2>1
  <2> QED BY <2>2, <2>3, Zenon
<1>9. \A x, y, z : Sequence(<<x>> \o <<y>> \o <<z>>) /\ Len(<<x>> \o <<y>> \o <<z>>) = 3
                   /\ (<<x>> \o <<y>> \o <<z>>)[3] = z
  <2> SUFFICES ASSUME NEW x, NEW y, NEW z
               PROVE  Sequence(<<x>> \o <<y>> \o <<z>>) /\ Len(<<x>> \o <<y>> \o <<z>>) = 3
                      /\ (<<x>> \o <<y>> \o <<z>>)[3] = z
    OBVIOUS
  <2>1. PICK p, t : p = <<x>> \o <<y>> /\ t = <<z>> OBVIOUS
  <2>2. p = <<x, y>> BY <2>1, Paired
  <2>3. Sequence(p) /\ Len(p) = 2 BY <2>1, <2>2, WordsAre
  <2>4. Sequence(t) /\ Len(t) = 1 /\ t[1] = z BY <2>1, Singleton
  <2>5. PICK u : u = p \o t OBVIOUS
  <2>6. Sequence(u) /\ Len(u) = Len(p) + Len(t) /\ Located(u, Len(p), t) BY <2>3, <2>4, <2>5, Appended
  <2>7. u[2 + 1] = t[1]
    <3>1. 1 \in 1..Len(t) BY <2>4
    <3> QED BY <2>3, <2>6, <3>1, Zenon DEF Located
  <2>8. Len(u) = 3 /\ u[3] = z BY <2>3, <2>4, <2>6, <2>7
  <2> QED BY <2>1, <2>5, <2>6, <2>8, Zenon
<1>10. o[3] = "owner" /\ c[3] = "client" /\ Sequence(o) BY <1>6, <1>7, <1>9
<1>11. ContentKey = o BY <1>6, <1>8
<1> QED BY <1>5, <1>10, <1>11

\* What is sealed with a key opens with it, and with no other.
LEMMA Opened ==
    ASSUME NEW text, Sequence(text), \A i \in 1..Len(text) : Sequence(text[i]), NEW key, Sequence(key), NEW c,
           SealedWith(c, text, key), NEW other
    PROVE  Open(c, other) = IF other = key THEN text ELSE Undecryptable
<1>1. Sequence(c) /\ Len(c) = Len(text) + 16 /\ \A i \in 1..Len(text) : c[i] = key \o text[i]
  BY Zenon DEF SealedWith
<1>2. Last(c) = key
  <2>1. c[Len(text) + 16] = key
    <3>1. 16 \in 1..16 OBVIOUS
    <3> QED BY <3>1, Zenon DEF SealedWith
  <2> QED BY <1>1, <2>1, Zenon DEF Last
<1>3. CASE other # key BY <1>2, <1>3, Zenon DEF Open
<1>4. CASE other = key
  <2>1. PICK n \in Nat : n = Len(text) BY Length
  <2>2. \A i \in 1..n : From(c[i], Len(key)) = text[i]
    <3> SUFFICES ASSUME NEW i \in 1..n PROVE From(c[i], Len(key)) = text[i] OBVIOUS
    <3>1. PICK t, u : t = text[i] /\ u = key \o t OBVIOUS
    <3>2. c[i] = u BY <1>1, <2>1, <3>1, Zenon
    <3>3. Sequence(t) BY <2>1, <3>1, Zenon
    <3>4. Located(u, Len(key), t) /\ Len(u) = Len(key) + Len(t) BY <3>1, <3>3, Appended
    <3>5. WordAt(u, Len(key), Len(key) + Len(t), t) BY <3>4, WordRead, Zenon
    <3>6. WordAt(u, Len(key), Len(u), t) BY <3>4, <3>5, Zenon
    <3> QED BY <3>1, <3>2, <3>6, Zenon DEF WordAt, From
  <2>3. TAG_SIZE = 16 BY DEF TAG_SIZE
  <2>4. Len(c) - 16 = n BY <1>1, <2>1
  <2>5. Open(c, other) = [i \in 1..Len(c) - TAG_SIZE |-> From(c[i], Len(key))]
    BY <1>2, <1>4, Zenon DEF Open
  <2>6. Open(c, other) = [i \in 1..n |-> text[i]] BY <2>2, <2>3, <2>4, <2>5, Zenon
  <2>7. text = [i \in 1..n |-> text[i]] BY <2>1, Length, Zenon
  <2> QED BY <1>4, <2>6, <2>7, Zenon
<1> QED BY <1>3, <1>4

LEMMA TextWords ==
    ASSUME NEW n \in Nat
    PROVE  \A i \in 1..Len(TextOf(n)) : Sequence(TextOf(n)[i])
<1>1. Len(TextOf(n)) = n /\ \A i \in 1..n : TextOf(n)[i] = <<"text", ToString(i)>> BY TextIs
<1>2. \A x, y : Sequence(<<x, y>>)
  <2> SUFFICES ASSUME NEW x, NEW y PROVE Sequence(<<x, y>>) OBVIOUS
  <2>1. <<x, y>> \in Seq({x, y}) OBVIOUS
  <2> QED BY <2>1 DEF Sequence
<1> QED BY <1>1, <1>2

\* Of an encrypted draft, what its reader sees and what another wallet sees.
OpensFor(d, q) ==
    /\ decryptContent(q, deriveEncryptionKeypair(Owner).privateKey) = TextOf(Len(d.content) - MIN_ENCRYPTED_SIZE)
    /\ decryptContent(q, deriveEncryptionKeypair(Client).privateKey) = Undecryptable

LEMMA Decrypted ==
    ASSUME NEW d, DraftFine(d), d.contentType = Encrypted
    PROVE  OpensFor(d, deserializeEncryptedPayload(d.content))
<1>1. PICK n \in Nat : d.content = Payload(n) BY Zenon DEF DraftFine, WrittenFine
<1>2. PICK u : u = Payload(n) OBVIOUS
<1>3. Payloads(u, n) BY <1>2, PayloadIs
<1>4. PICK q, c : q = deserializeEncryptedPayload(u) /\ c = Seal(TextOf(n), ContentKey) OBVIOUS
<1>5. PayloadReads(q, n) BY <1>3, <1>4, PayloadRead
<1>6. q.version = 1 /\ q.ephemeralPubkey = addressToBytes(<<"ephemeral">>) /\ q.ciphertext = c
  BY <1>4, <1>5, Zenon DEF PayloadReads
<1>7. bytesToAddress(q.ephemeralPubkey) = <<"ephemeral">>
  <2>1. <<"ephemeral">> \in {Client, Owner, Mint, SasSchema, <<"task">>, <<"ephemeral">>} BY Zenon
  <2> QED BY <1>6, <2>1, PartiesBack, Zenon
<1>8. \A w : decryptContent(q, deriveEncryptionKeypair(w).privateKey) = Open(c, KeyFrom(w))
  <2>1. q.version = ENCRYPTION_VERSION BY <1>6 DEF ENCRYPTION_VERSION
  <2> QED BY <1>6, <1>7, <2>1, Zenon DEF decryptContent, KeyFrom
<1>9. PICK text : text = TextOf(n) OBVIOUS
<1>10. Sequence(text) /\ \A i \in 1..Len(text) : Sequence(text[i]) BY <1>9, TextIs, TextWords
<1>11. SealedWith(c, text, ContentKey) BY <1>4, <1>9, <1>10, SealIs, Zenon
<1>12. PICK o, k, key : o = KeyFrom(Owner) /\ k = KeyFrom(Client) /\ key = ContentKey OBVIOUS
<1>13. o = key /\ k # key /\ Sequence(key) /\ SealedWith(c, text, key) BY <1>11, <1>12, Keys
<1>14. Open(c, o) = text
  <2>1. Open(c, o) = IF o = key THEN text ELSE Undecryptable BY <1>10, <1>13, Opened
  <2> QED BY <1>13, <2>1
<1>15. Open(c, k) = Undecryptable
  <2>1. Open(c, k) = IF k = key THEN text ELSE Undecryptable BY <1>10, <1>13, Opened
  <2> QED BY <1>13, <2>1
<1>16. Len(d.content) - MIN_ENCRYPTED_SIZE = n
  <2>1. Len(u) = n + 73 BY <1>3, Zenon DEF Payloads
  <2>2. MIN_ENCRYPTED_SIZE = 73 BY DEF MIN_ENCRYPTED_SIZE, PUBKEY_SIZE, NONCE_SIZE, TAG_SIZE
  <2>3. Len(u) - 73 = n BY <2>1
  <2> QED BY <1>1, <1>2, <2>2, <2>3, Zenon
<1>17. decryptContent(q, deriveEncryptionKeypair(Owner).privateKey) = Open(c, o) BY <1>8, <1>12, Zenon
<1>18. decryptContent(q, deriveEncryptionKeypair(Client).privateKey) = Open(c, k) BY <1>8, <1>12, Zenon
<1>19. OpensFor(d, q) BY <1>9, <1>14, <1>15, <1>16, <1>17, <1>18, Zenon DEF OpensFor
<1> QED BY <1>1, <1>2, <1>4, <1>19, Zenon

-----------------------------------------------------------------------------
(* The instruction that closes what a draft became                           *)

QueueOf(version) == IF version = V2 THEN NULLIFIER_QUEUE_PUBKEY ELSE MERKLE_TREE_PUBKEY
CompressedAs(d, version, c) ==
    /\ c.address = AddressOf(d) /\ c.hash = createBN254(AddressOf(d)) /\ c.leafIndex = Leaf
    /\ getAttestationByAddress(c) = parseAttestation(AccountOf(d).data)
    /\ c.treeInfo.tree = MERKLE_TREE_PUBKEY /\ c.treeInfo.queue = QueueOf(version)

LEMMA CompressedRead ==
    ASSUME NEW d, account = AccountOf(d), NEW version
    PROVE  CompressedAs(d, version, parseCompressedAccount(version, RawAccount))
<1>1. PICK a, t, x : a = AddressOf(d) /\ t = MERKLE_TREE_PUBKEY /\ x = AccountOf(d).data OBVIOUS
<1>2. account.address = a /\ account.tree = t /\ account.data = x
  <2>1. account = [address |-> a, tree |-> t,
                   data |-> CompressedAttestation(SasSchema, d.tokenAccount, serializeUniversalLayout(d),
                                                  Pledged(d, serializeUniversalLayout(d)))]
    BY <1>1, Zenon DEF AccountOf
  <2>2. account.address = a /\ account.tree = t BY <2>1
  <2> QED BY <1>1, <2>2, Zenon
<1>3. PICK r, s, b, z : /\ r = RawAccount /\ s = SATI_PROGRAM_ADDRESS /\ b = NULLIFIER_QUEUE_PUBKEY /\ z = Zeros(8)
  OBVIOUS
<1>4. r = [owner |-> s, address |-> a, hash |-> a,
           data |-> <<[discriminator |-> z, data |-> x, dataHash |-> a]>>,
           tree |-> <<t>>, merkleContext |-> <<[tree |-> t, queue |-> b]>>, leafIndex |-> 5, proveByIndex |-> <<>>]
  BY <1>2, <1>3, Zenon DEF RawAccount, TreeInfo, Leaf
<1>5. /\ r.address = a /\ r.hash = a /\ r.data # <<>> /\ r.data[1].data = x /\ r.tree[1] = t
      /\ r.merkleContext # <<>> /\ r.merkleContext[1].tree = t /\ r.merkleContext[1].queue = b /\ r.leafIndex = 5
  BY <1>4
<1>6. PICK c : c = parseCompressedAccount(version, r) OBVIOUS
<1>7. PICK o, p, i, y, q : c = [owner |-> o, address |-> r.address, hash |-> createBN254(r.hash),
                                data |-> <<[discriminator |-> p, data |-> r.data[1].data, dataHash |-> y]>>,
                                treeInfo |-> i, leafIndex |-> r.leafIndex, proveByIndex |-> q]
                           /\ i = parseTreeInfo(version, r)
  BY <1>5, <1>6, Zenon DEF parseCompressedAccount
<1>8. /\ c.address = a /\ c.hash = createBN254(a) /\ c.data # <<>> /\ c.data[1].data = x /\ c.treeInfo = i
      /\ c.leafIndex = 5
  BY <1>5, <1>7
<1>9. i.tree = t /\ i.queue = QueueOf(version)
  <2>1. \A u, v : TreeInfo(u, v).tree = u /\ TreeInfo(u, v).queue = v BY DEF TreeInfo
  <2>2. CASE version = V2
    <3>1. i = TreeInfo(t, b) BY <1>5, <1>7, <2>2, Zenon DEF parseTreeInfo
    <3>2. QueueOf(version) = b BY <1>3, <2>2, Zenon DEF QueueOf
    <3> QED BY <2>1, <3>1, <3>2
  <2>3. CASE version # V2
    <3>1. i = TreeInfo(t, t) BY <1>5, <1>7, <2>3, Zenon DEF parseTreeInfo
    <3>2. QueueOf(version) = t BY <1>1, <2>3, Zenon DEF QueueOf
    <3> QED BY <2>1, <3>1, <3>2
  <2> QED BY <2>2, <2>3
<1>10. getAttestationByAddress(c) = parseAttestation(x) BY <1>8, Zenon DEF getAttestationByAddress
<1>11. CompressedAs(d, version, c) BY <1>1, <1>8, <1>9, <1>10, Zenon DEF CompressedAs, Leaf
<1> QED BY <1>3, <1>6, <1>11

\* The proof that the leaf is there.
LEMMA ProvedIs ==
    ASSUME NEW version
    PROVE  MutationProof(version).compressedProof = <<Proof>> /\ MutationProof(version).rootIndices[1] = 4
<1>1. PICK f : f = Proof OBVIOUS
<1>2. CASE version = V2
  <2>1. PICK raw : raw = [compressedProof |-> <<f>>, accounts |-> <<[rootIndex |-> 4, leafIndex |-> Leaf]>>,
                          addresses |-> <<>>]
    OBVIOUS
  <2>2. MutationProof(version) = parseValidityProof(raw) BY <1>1, <1>2, <2>1, Zenon DEF MutationProof
  <2>3. raw.compressedProof = <<f>> /\ raw.accounts # <<>> /\ DOMAIN raw.accounts = {1}
        /\ raw.accounts[1].rootIndex = 4 /\ DOMAIN raw.addresses = {}
    BY <2>1
  <2>4. PICK p, k, l : /\ p = parseValidityProof(raw)
                       /\ k = [i \in DOMAIN raw.accounts |-> raw.accounts[i].rootIndex]
                       /\ l = [i \in DOMAIN raw.addresses |-> raw.addresses[i].rootIndex]
    OBVIOUS
  <2>5. PICK y : p = [compressedProof |-> raw.compressedProof, rootIndices |-> k \o l, leafIndices |-> y]
    BY <2>3, <2>4, Zenon DEF parseValidityProof
  <2>6. k = <<4>>
    <3>1. k = [i \in {1} |-> raw.accounts[i].rootIndex] BY <2>3, <2>4, Zenon
    <3>2. k = [i \in {1} |-> 4] BY <2>3, <3>1
    <3>3. [i \in {1} |-> 4] = <<4>> OBVIOUS
    <3> QED BY <3>2, <3>3
  <2>7. l = <<>>
    <3>1. l = [i \in {} |-> raw.addresses[i].rootIndex] BY <2>3, <2>4, Zenon
    <3> QED BY <3>1
  <2>8. k \o l = <<4>> BY <2>6, <2>7
  <2>9. p.compressedProof = <<f>> /\ p.rootIndices[1] = 4 BY <2>3, <2>5, <2>8
  <2> QED BY <1>1, <2>2, <2>4, <2>9
<1>3. CASE version # V2
  <2>1. PICK raw : raw = [compressedProof |-> <<f>>, accounts |-> <<>>, addresses |-> <<>>,
                          rootIndices |-> <<4>>, leafIndices |-> <<Leaf>>]
    OBVIOUS
  <2>2. MutationProof(version) = parseValidityProof(raw) BY <1>1, <1>3, <2>1, Zenon DEF MutationProof
  <2>3. raw.compressedProof = <<f>> /\ raw.accounts = <<>> /\ raw.addresses = <<>> /\ raw.rootIndices[1] = 4 BY <2>1
  <2>4. PICK p : p = parseValidityProof(raw) OBVIOUS
  <2>5. p = [compressedProof |-> raw.compressedProof, rootIndices |-> raw.rootIndices,
             leafIndices |-> raw.leafIndices]
    BY <2>3, <2>4, Zenon DEF parseValidityProof
  <2>6. p.compressedProof = <<f>> /\ p.rootIndices[1] = 4 BY <2>3, <2>5
  <2> QED BY <1>1, <2>2, <2>4, <2>6
<1> QED BY <1>2, <1>3

\* What is prepared of a close.
ClosingTrees(version) ==
    IF version = V2 THEN <<Meta(MERKLE_TREE_PUBKEY, WRITABLE), Meta(NULLIFIER_QUEUE_PUBKEY, WRITABLE)>>
    ELSE <<Meta(MERKLE_TREE_PUBKEY, WRITABLE)>>
QueueIndex(version) == IF version = V2 THEN 1 ELSE 0
StateTree(version) ==
    [merkleTreePubkeyIndex |-> Number(0), queuePubkeyIndex |-> Number(QueueIndex(version)),
     leafIndex |-> Number(Leaf), rootIndex |-> Number(4)]
MutationAs(version, m) ==
    /\ m.proof = Proof /\ m.stateTreeInfo = StateTree(version) /\ m.outputStateTreeIndex = Number(0)
    /\ m.remainingAccounts = toAccountMetas(SATI_PROGRAM_ADDRESS, ClosingTrees(version))

LEMMA ClosingInserted ==
    ASSUME NEW version, NEW t, t = ClosingTrees(version)
    PROVE  /\ Insert(MERKLE_TREE_PUBKEY, QueueOf(version), MERKLE_TREE_PUBKEY) = t
           /\ IndexIn(t, MERKLE_TREE_PUBKEY) = 0 /\ IndexIn(t, QueueOf(version)) = QueueIndex(version)
<1>1. PICK a, b : a = MERKLE_TREE_PUBKEY /\ b = NULLIFIER_QUEUE_PUBKEY OBVIOUS
<1>2. a # b BY <1>1, TreesDiffer
<1>3. CASE version = V2
  <2>1. t = <<Meta(a, WRITABLE), Meta(b, WRITABLE)>> BY <1>1, <1>3, Zenon DEF ClosingTrees
  <2>2. Insert(a, b, a) = t /\ IndexIn(t, a) = 0 /\ IndexIn(t, b) = 1 BY <1>2, <2>1, InsertedTwo
  <2>3. QueueOf(version) = b /\ QueueIndex(version) = 1 BY <1>1, <1>3, Zenon DEF QueueOf, QueueIndex
  <2> QED BY <1>1, <2>2, <2>3, Zenon
<1>4. CASE version # V2
  <2>1. t = <<Meta(a, WRITABLE)>> BY <1>1, <1>4, Zenon DEF ClosingTrees
  <2>2. Insert(a, a, a) = t /\ IndexIn(t, a) = 0 BY <2>1, InsertedOne
  <2>3. QueueOf(version) = a /\ QueueIndex(version) = 0 BY <1>1, <1>4, Zenon DEF QueueOf, QueueIndex
  <2> QED BY <1>1, <2>2, <2>3, Zenon
<1> QED BY <1>3, <1>4

LEMMA MutationIs ==
    ASSUME NEW d, NEW version, NEW c, CompressedAs(d, version, c),
           NEW m, m = getMutationProof(c, SATI_PROGRAM_ADDRESS, MutationProof(version))
    PROVE  MutationAs(version, m)
<1>1. PICK t : t = ClosingTrees(version) OBVIOUS
<1>2. /\ Insert(MERKLE_TREE_PUBKEY, QueueOf(version), MERKLE_TREE_PUBKEY) = t
      /\ IndexIn(t, MERKLE_TREE_PUBKEY) = 0 /\ IndexIn(t, QueueOf(version)) = QueueIndex(version)
  BY <1>1, ClosingInserted
<1>3. c.treeInfo.tree = MERKLE_TREE_PUBKEY /\ c.treeInfo.queue = QueueOf(version) /\ c.leafIndex = Leaf
  BY Zenon DEF CompressedAs
<1>4. MutationProof(version).compressedProof = <<Proof>> /\ MutationProof(version).rootIndices[1] = 4
  BY ProvedIs, Zenon
<1>5. convertProof(<<Proof>>) = Proof
  <2>1. \A x : <<x>> # <<>> /\ <<x>>[1] = x OBVIOUS
  <2> QED BY <2>1, Zenon DEF convertProof
<1>6. PICK i, o, r, f : /\ i = StateTree(version) /\ o = Number(0) /\ f = Proof
                        /\ r = toAccountMetas(SATI_PROGRAM_ADDRESS, t)
  OBVIOUS
<1>7. m = [proof |-> f, stateTreeInfo |-> i, outputStateTreeIndex |-> o, remainingAccounts |-> r]
  BY <1>2, <1>3, <1>4, <1>5, <1>6, SMT DEF getMutationProof, StateTree
<1>8. PICK q : q = [proof |-> f, stateTreeInfo |-> i, outputStateTreeIndex |-> o, remainingAccounts |-> r] OBVIOUS
<1>9. q.proof = f /\ q.stateTreeInfo = i /\ q.outputStateTreeIndex = o /\ q.remainingAccounts = r BY <1>8
<1>10. m = q BY <1>7, <1>8
<1>11. m.proof = f /\ m.stateTreeInfo = i /\ m.outputStateTreeIndex = o /\ m.remainingAccounts = r
  BY <1>9, <1>10
<1> QED BY <1>1, <1>6, <1>11, Zenon DEF MutationAs

LEMMA ClosingPacked == ASSUME NEW version PROVE Packed(ClosingTrees(version))
<1>1. PICK t, a, b, x, y : /\ t = ClosingTrees(version) /\ a = MERKLE_TREE_PUBKEY /\ b = NULLIFIER_QUEUE_PUBKEY
                           /\ x = Meta(a, WRITABLE) /\ y = Meta(b, WRITABLE)
  OBVIOUS
<1>2. x = Meta(x.address, WRITABLE) /\ y = Meta(y.address, WRITABLE) BY <1>1, MetaIs
<1>3. CASE t = <<x, y>>
  <2>1. Len(t) = 2 /\ Len(t) \in 1..3 /\ t[1] = x /\ t[2] = y BY <1>3
  <2>2. t \in Seq({x, y}) BY <1>3
  <2>3. Sequence(t) BY <2>2, Zenon DEF Sequence
  <2>4. \A i \in 1..Len(t) : i = 1 \/ i = 2 BY <2>1
  <2>5. \A i \in 1..Len(t) : t[i] = Meta(t[i].address, WRITABLE) BY <1>2, <2>1, <2>4
  <2> QED BY <1>1, <2>1, <2>3, <2>5, Zenon DEF Packed
<1>4. CASE t = <<x>>
  <2>1. Len(t) = 1 /\ Len(t) \in 1..3 /\ t[1] = x BY <1>4
  <2>2. Sequence(t) BY <1>4, Singleton
  <2>4. \A i \in 1..Len(t) : i = 1 BY <2>1
  <2>5. \A i \in 1..Len(t) : t[i] = Meta(t[i].address, WRITABLE) BY <1>2, <2>1, <2>4
  <2> QED BY <1>1, <2>1, <2>2, <2>5, Zenon DEF Packed
<1> QED BY <1>1, <1>3, <1>4, Zenon DEF ClosingTrees

CloseGiven(d) ==
    [signer |-> Signer(d.counterparty), schemaConfig |-> Plain(SchemaConfigPda),
     program |-> Plain(SATI_PROGRAM_ADDRESS)]
CloseMeta(d, version) ==
    [treeInfo |-> StateTree(version) ++ [proveByIndex |-> <<"true">>], address |-> Spell(AddressOf(d)),
     outputStateTreeIndex |-> Number(0)]
CloseArgs(d, version) ==
    [currentData |-> parseAttestation(AccountOf(d).data).data,
     numSignatures |-> Number(parseAttestation(AccountOf(d).data).numSignatures),
     signature1 |-> Spell(parseAttestation(AccountOf(d).data).signature1),
     signature2 |-> Spell(parseAttestation(AccountOf(d).data).signature2),
     address |-> Spell(AddressOf(d)), proof |-> <<Proof>>, accountMeta |-> CloseMeta(d, version)]
CloseCall(d, version) ==
    [ix |-> "closeCompressedAttestation", style |-> "async", given |-> CloseGiven(d), args |-> CloseArgs(d, version)]
CloseMessage(d, version) ==
    Sending("closeCompressedAttestation", "async", CloseGiven(d), CloseArgs(d, version),
            RemainingOf(ClosingTrees(version)))
CloseSent(d, version) == [signatures |-> <<>>, instruction |-> CloseMessage(d, version)]

LEMMA CloseNames ==
    /\ {"signer", "schemaConfig", "program"} \subseteq NamesOf(CloseCompressedAccounts)
    /\ \A i \in 1..Len(CloseCompressedAccounts) : CloseCompressedAccounts[i].optional =>
          CloseCompressedAccounts[i].name \notin {"signer", "schemaConfig", "program"}
<1>1. PICK A : A = CloseCompressedAccounts OBVIOUS
<1>2. Len(A) = 6 /\ \A m \in {"signer", "schemaConfig", "program"} : \E i \in 1..6 : A[i].name = m
  BY <1>1 DEF CloseCompressedAccounts, Ro, Wr, Opt, Account
<1>3. \A i \in 1..6 : A[i].optional => A[i].name \notin {"signer", "schemaConfig", "program"}
  BY <1>1 DEF CloseCompressedAccounts, Ro, Wr, Opt, Account
<1> QED BY <1>1, <1>2, <1>3 DEF NamesOf

LEMMA CloseIsProper ==
    ASSUME NEW d
    PROVE  Proper("closeCompressedAttestation", "async", CloseGiven(d))
<1>1. PICK party : party = d.counterparty OBVIOUS
<1>2. PICK g : g = CloseGiven(d) OBVIOUS
<1>3. DOMAIN g = {"signer", "schemaConfig", "program"} BY <1>2 DEF CloseGiven
<1>4. /\ g["signer"] = Signer(party) /\ g["schemaConfig"] = Plain(SchemaConfigPda)
      /\ g["program"] = Plain(SATI_PROGRAM_ADDRESS)
  BY <1>1, <1>2 DEF CloseGiven
<1>5. AccountsOf("closeCompressedAttestation") = CloseCompressedAccounts BY DEF AccountsOf
<1>6. DOMAIN g \subseteq NamesOf(CloseCompressedAccounts) BY <1>3, CloseNames
<1>7. Required("closeCompressedAttestation", "async") \subseteq DOMAIN g
  BY <1>3 DEF Required, CloseCompressedAsyncInput
<1>8. Signers("closeCompressedAttestation") = {"signer"} BY DEF Signers
<1>9. \A n \in DOMAIN g : /\ g[n].signer \in BOOLEAN /\ (n \in {"signer"} => g[n].signer)
                          /\ n \in DOMAIN Demanded => g[n].address \in Demanded[n]
  <2>a. \A a : Plain(a).signer = FALSE /\ Signer(a).signer = TRUE BY Zenon DEF Signer, Plain
  <2>1. g["signer"].signer /\ \A n \in DOMAIN g : g[n].signer \in BOOLEAN BY <1>3, <1>4, <2>a, Zenon
  <2>2. "signer" \notin DOMAIN Demanded /\ "schemaConfig" \notin DOMAIN Demanded BY DEF Demanded
  <2>3. g["program"].address \in Demanded["program"] BY <1>4 DEF Demanded, Plain
  <2> QED BY <1>3, <2>1, <2>2, <2>3, Zenon
<1>10. \A i \in 1..Len(CloseCompressedAccounts) :
          LET a == CloseCompressedAccounts[i]
          IN  a.optional /\ a.name \in DOMAIN g => g[a.name].address # SATI_PROGRAM_ADDRESS
  BY <1>3, CloseNames
<1>11. Proper("closeCompressedAttestation", "async", g)
  BY <1>5, <1>6, <1>7, <1>8, <1>9, <1>10, Zenon DEF Proper
<1> QED BY <1>2, <1>11

LEMMA StateTreeFits ==
    ASSUME NEW d, NEW version
    PROVE  O!Fits(LightAccountMeta, CloseMeta(d, version))
<1>1. PICK t : t = StateTree(version) ++ [proveByIndex |-> <<"true">>] OBVIOUS
<1>2. PICK s : s = StateTree(version) OBVIOUS
<1>3. PICK q : q = Number(QueueIndex(version)) OBVIOUS
<1>4. s = [merkleTreePubkeyIndex |-> Number(0), queuePubkeyIndex |-> q, leafIndex |-> Number(Leaf), rootIndex |-> Number(4)]
  BY <1>2, <1>3, Zenon DEF StateTree
<1>5. t = s ++ [proveByIndex |-> <<"true">>] BY <1>1, <1>2
<1>6. DOMAIN t = {"rootIndex", "proveByIndex", "merkleTreePubkeyIndex", "queuePubkeyIndex", "leafIndex"}
  BY <1>4, <1>5 DEF ++
<1>7. t = [name \in DOMAIN t |-> t[name]] BY <1>5 DEF ++
<1>8. t = [rootIndex |-> t.rootIndex, proveByIndex |-> t.proveByIndex,
           merkleTreePubkeyIndex |-> t.merkleTreePubkeyIndex,
           queuePubkeyIndex |-> t.queuePubkeyIndex, leafIndex |-> t.leafIndex]
  BY <1>6, <1>7
<1>9. PICK a : a = Spell(AddressOf(d)) OBVIOUS
<1>10. PICK v : v = CloseMeta(d, version) OBVIOUS
<1>11. v = [treeInfo |-> t, address |-> a, outputStateTreeIndex |-> Number(0)] BY <1>1, <1>9, <1>10, Zenon DEF CloseMeta
<1>12. /\ v = [treeInfo |-> v.treeInfo, address |-> v.address, outputStateTreeIndex |-> v.outputStateTreeIndex]
       /\ t = v.treeInfo
  BY <1>11
<1>13. O!Fits(LightAccountMeta, v) BY <1>8, <1>12, AccountMetaFits
<1> QED BY <1>10, <1>13

LEMMA CloseArgsFit ==
    ASSUME NEW d, DraftFine(d), FitsMode(d), NEW version
    PROVE  Fits(Struct(Params["closeCompressedAttestation"]), CloseArgs(d, version))
<1>1. PICK v : v = CloseArgs(d, version) OBVIOUS
<1>2. v = [currentData |-> v.currentData, numSignatures |-> v.numSignatures, signature1 |-> v.signature1,
           signature2 |-> v.signature2, address |-> v.address, proof |-> v.proof, accountMeta |-> v.accountMeta]
  BY <1>1 DEF CloseArgs
<1>3. v.currentData = parseAttestation(AccountOf(d).data).data /\ v.proof = <<Proof>>
      /\ v.accountMeta = CloseMeta(d, version)
  BY <1>1 DEF CloseArgs
<1>4. DraftStored(d, parseAttestation(AccountOf(d).data)) BY StoredIs, Zenon
<1>5. v.currentData = serializeUniversalLayout(d) BY <1>3, <1>4, ZenonT(40) DEF DraftStored
<1>6. O!Fits(Sized, v.currentData) BY <1>5, DataLength, SizedFits
<1>7. O!Fits(LightProof, v.proof) BY <1>3, ProvedFits DEF Maybe1
<1>8. O!Fits(LightAccountMeta, v.accountMeta) BY <1>3, StateTreeFits
<1>9. Fits(Struct(CloseParams), v) BY <1>2, <1>6, <1>7, <1>8, CloseFits
<1>10. Params["closeCompressedAttestation"] = CloseParams BY DEF Params
<1> QED BY <1>1, <1>9, <1>10

\* What closes the account of a draft is what was meant to close it, and arrives.
LEMMA CloseArrives ==
    ASSUME NEW d, DraftFine(d), FitsMode(d), NEW version
    PROVE  Arrived("closeCompressedAttestation", CloseGiven(d),
                   Defaults("closeCompressedAttestation", "async", CloseGiven(d), CloseArgs(d, version)),
                   CloseArgs(d, version), RemainingOf(ClosingTrees(version)), CloseMessage(d, version))
<1>1. "closeCompressedAttestation" \in Instructions BY DEF Instructions
<1>2. Sequence(RemainingOf(ClosingTrees(version)))
  <2>1. Behind(ClosingTrees(version), RemainingOf(ClosingTrees(version))) BY ClosingPacked, RemainingIs, Zenon
  <2> QED BY <2>1, Zenon DEF Behind
<1>3. PICK m, g, v, r : /\ m = CloseMessage(d, version) /\ g = CloseGiven(d) /\ v = CloseArgs(d, version)
                        /\ r = RemainingOf(ClosingTrees(version))
  OBVIOUS
<1>4. m = Sending("closeCompressedAttestation", "async", g, v, r) BY <1>3, Zenon DEF CloseMessage
<1>5. Proper("closeCompressedAttestation", "async", g) BY <1>3, CloseIsProper, Zenon
<1>6. Fits(Struct(Params["closeCompressedAttestation"]), v) BY <1>3, CloseArgsFit, Zenon
<1>7. Arrived("closeCompressedAttestation", g, Defaults("closeCompressedAttestation", "async", g, v), v, r, m)
  BY <1>1, <1>2, <1>3, <1>4, <1>5, <1>6, InstructionArrives, Zenon
<1> QED BY <1>3, <1>7, Zenon

\* What a step that sends a close leaves behind.
CloseSends(d, version) ==
    /\ call' = CloseCall(d, version) /\ sent' = CloseSent(d, version)
    /\ outcome' = Nil /\ draft' = draft /\ account' = account

\* The close, once the account is parsed and its leaf proved.
ClosingWith(version, address, attestation, mutation) ==
    /\ Send("closeCompressedAttestation", "async",
            [signer |-> Signer(draft.counterparty), schemaConfig |-> Plain(SchemaConfigPda),
             program |-> Plain(SATI_PROGRAM_ADDRESS)],
            [currentData |-> attestation.data, numSignatures |-> Number(attestation.numSignatures),
             signature1 |-> Spell(attestation.signature1), signature2 |-> Spell(attestation.signature2),
             address |-> Spell(address), proof |-> <<mutation.proof>>,
             accountMeta |-> [treeInfo |-> mutation.stateTreeInfo ++ [proveByIndex |-> <<"true">>],
                              address |-> Spell(address),
                              outputStateTreeIndex |-> mutation.outputStateTreeIndex]],
            Remaining(mutation.remainingAccounts), <<>>)
    /\ outcome' = Nil /\ draft' = draft /\ account' = account

LEMMA CloseStep ==
    ASSUME NEW d, draft = d, account = AccountOf(d), NEW version, SendClose(version)
    PROVE  CloseSends(d, version)
<1>1. PICK c : c = parseCompressedAccount(version, RawAccount) OBVIOUS
<1>2. PICK m : m = getMutationProof(c, SATI_PROGRAM_ADDRESS, MutationProof(version)) OBVIOUS
<1>3. ClosingWith(version, c.address, getAttestationByAddress(c), m) BY <1>1, <1>2, Zenon DEF SendClose, ClosingWith
<1>4. CompressedAs(d, version, c) BY <1>1, CompressedRead, Zenon
<1>5. MutationAs(version, m) BY <1>2, <1>4, MutationIs, Zenon
<1>6. c.address = AddressOf(d) /\ getAttestationByAddress(c) = parseAttestation(AccountOf(d).data)
  BY <1>4, Zenon DEF CompressedAs
<1>7. /\ m.proof = Proof /\ m.stateTreeInfo = StateTree(version) /\ m.outputStateTreeIndex = Number(0)
      /\ m.remainingAccounts = toAccountMetas(SATI_PROGRAM_ADDRESS, ClosingTrees(version))
  BY <1>5, Zenon DEF MutationAs
<1>8. ClosingWith(version, AddressOf(d), parseAttestation(AccountOf(d).data), m) BY <1>3, <1>6, Zenon
<1>9. /\ Send("closeCompressedAttestation", "async", CloseGiven(d), CloseArgs(d, version),
              RemainingOf(ClosingTrees(version)), <<>>)
      /\ outcome' = Nil /\ draft' = draft /\ account' = account
  BY <1>7, <1>8, Zenon DEF ClosingWith, CloseGiven, CloseArgs, CloseMeta, RemainingOf
<1>10. call' = CloseCall(d, version) BY <1>9, Zenon DEF Send, CloseCall
<1>11. sent' = CloseSent(d, version) BY <1>9, Zenon DEF Send, CloseSent, CloseMessage, Sending
<1> QED BY <1>9, <1>10, <1>11, Zenon DEF CloseSends

-----------------------------------------------------------------------------
(* The states of the wire                                                    *)

\* Nothing is called.
Idle == draft = Nil /\ call = Nil /\ sent = Nil /\ account = Nil /\ outcome = Nil

\* A call of the generated client, and what it sends.
CallFor(ix, style, extras, args) ==
    [ix |-> ix, style |-> style, given |-> Given(ix, style, extras), args |-> args]
MessageFor(ix, style, extras, args) == Sending(ix, style, Given(ix, style, extras), args, <<>>)
SentFor(ix, style, extras, args) == [signatures |-> <<>>, instruction |-> MessageFor(ix, style, extras, args)]

\* Anchor's verdict, and the handlers'.
TurnedBack(ix, m) == ~Admitted(ix, m) \/ ~CanLoad(Received(ix, m).accounts)
LinkOutcome(got) ==
    IF verify_secp256k1_signature(compute_evm_link_hash(got.accounts.agentMint, got.args.evmAddress, got.args.chainId),
                                  got.args.signature, got.args.recoveryId, got.args.evmAddress)
    THEN Wrote(NoState, EvmAddressLinkedEvent(got)) ELSE Refused
DataOutcome(got) == IF validate_universal_base(got.args.data) THEN AdmittedOnly ELSE Refused
RegistryCalls == {"initialize", "registerAgent", "updateRegistryAuthority", "registerSchemaConfig"}
CreationCalls == {"createCompressedAttestation", "createRegularAttestation"}
ClosingCalls == {"closeCompressedAttestation", "closeRegularAttestation"}
ExecutedAs(ix, got, o) ==
    \/ ix \in RegistryCalls /\ o = Effect(ix, got)
    \/ ix = "linkEvmAddress" /\ o = LinkOutcome(got)
    \/ ix \in CreationCalls /\ o = DataOutcome(got)
    \/ ix \in ClosingCalls /\ o = AdmittedOnly
BecameOf(ix, m, o) ==
    o = Nil \/ (o = Rejected /\ TurnedBack(ix, m)) \/ ExecutedAs(ix, Received(ix, m), o)

GeneratedState(ix, style, extras, args) ==
    /\ draft = Nil /\ account = Nil
    /\ call = CallFor(ix, style, extras, args) /\ sent = SentFor(ix, style, extras, args)
    /\ BecameOf(ix, MessageFor(ix, style, extras, args), outcome)

\* A feedback, from its sending to what the program makes of it.
FeedbackState(d, batched) ==
    /\ draft = d /\ call = FeedbackCall(d) /\ sent = FeedbackSent(d, batched)
    /\ \/ account = Nil /\ outcome = Nil
       \/ account = Nil /\ outcome = Rejected /\ FirstSigner(d) # Owner
       \/ account = Nil /\ outcome = Refused /\ FirstSigner(d) = Owner /\ Flawed(d)
       \/ account = AccountOf(d) /\ outcome \in {CreatedOutcome(d), Threw} /\ FirstSigner(d) = Owner /\ ~Flawed(d)

\* The close of what the feedback became.
ClosingState(d, version) ==
    /\ draft = d /\ account = AccountOf(d) /\ FirstSigner(d) = Owner /\ ~Flawed(d)
    /\ call = CloseCall(d, version) /\ sent = CloseSent(d, version) /\ outcome \in {Nil, AdmittedOnly}

Generated ==
    \E ix \in Instructions, style \in {"async", "sync"} : \E extras \in SUBSET Extras(ix), args \in ArgsOf(ix) :
        GeneratedState(ix, style, extras, args)
Feedback == \E d \in Drafts, batched \in BOOLEAN : FitsMode(d) /\ FeedbackState(d, batched)
Closed == \E d \in Drafts, version \in {V1, V2} : FitsMode(d) /\ ClosingState(d, version)

\* The inductive invariant: what is called, sent, stored and answered belongs together.
IInv == Idle \/ Generated \/ Feedback \/ Closed

\* Nothing is no record of these.
LEMMA Somethings ==
    /\ \A ix, style, given, args : [ix |-> ix, style |-> style, given |-> given, args |-> args] # Nil
    /\ \A signatures, instruction : [signatures |-> signatures, instruction |-> instruction] # Nil
    /\ \A address, tree, data : [address |-> address, tree |-> tree, data |-> data] # Nil
    /\ \A mode, party, outc, hash, ref, token, type, content :
          [mode |-> mode, counterparty |-> party, outcome |-> outc, dataHash |-> hash, taskRef |-> ref,
           tokenAccount |-> token, contentType |-> type, content |-> content] # Nil
<1>1. DOMAIN Nil = {"status"} BY DEF Nil
<1>2. \A ix, style, given, args : [ix |-> ix, style |-> style, given |-> given, args |-> args] # Nil
  <2> TAKE ix, style, given, args
  <2>1. "ix" \in DOMAIN [ix |-> ix, style |-> style, given |-> given, args |-> args] OBVIOUS
  <2> QED BY <1>1, <2>1
<1>3. \A signatures, instruction : [signatures |-> signatures, instruction |-> instruction] # Nil
  <2> TAKE signatures, instruction
  <2>1. "signatures" \in DOMAIN [signatures |-> signatures, instruction |-> instruction] OBVIOUS
  <2> QED BY <1>1, <2>1
<1>4. \A address, tree, data : [address |-> address, tree |-> tree, data |-> data] # Nil
  <2> TAKE address, tree, data
  <2>1. "tree" \in DOMAIN [address |-> address, tree |-> tree, data |-> data] OBVIOUS
  <2> QED BY <1>1, <2>1
<1>5. \A mode, party, outc, hash, ref, token, type, content :
          [mode |-> mode, counterparty |-> party, outcome |-> outc, dataHash |-> hash, taskRef |-> ref,
           tokenAccount |-> token, contentType |-> type, content |-> content] # Nil
  <2> TAKE mode, party, outc, hash, ref, token, type, content
  <2>1. "mode" \in DOMAIN [mode |-> mode, counterparty |-> party, outcome |-> outc, dataHash |-> hash,
                           taskRef |-> ref, tokenAccount |-> token, contentType |-> type, content |-> content]
    OBVIOUS
  <2> QED BY <1>1, <2>1
<1> QED BY <1>2, <1>3, <1>4, <1>5, Zenon

LEMMA CallsAreNot ==
    ASSUME NEW ix, NEW style, NEW extras, NEW args, NEW d, NEW version, NEW batched
    PROVE  /\ CallFor(ix, style, extras, args) # Nil /\ SentFor(ix, style, extras, args) # Nil
           /\ FeedbackCall(d) # Nil /\ FeedbackSent(d, batched) # Nil /\ AccountOf(d) # Nil
           /\ CloseCall(d, version) # Nil /\ CloseSent(d, version) # Nil
<1>1. CallFor(ix, style, extras, args) # Nil /\ SentFor(ix, style, extras, args) # Nil
  BY Somethings, Zenon DEF CallFor, SentFor
<1>2. FeedbackCall(d) # Nil /\ FeedbackSent(d, batched) # Nil BY Somethings, Zenon DEF FeedbackCall, FeedbackSent
<1>3. AccountOf(d) # Nil BY Somethings, Zenon DEF AccountOf
<1>4. CloseCall(d, version) # Nil /\ CloseSent(d, version) # Nil BY Somethings, Zenon DEF CloseCall, CloseSent
<1> QED BY <1>1, <1>2, <1>3, <1>4, Zenon

LEMMA DraftIsNot ==
    ASSUME NEW d, DraftFine(d)
    PROVE  d # Nil
<1>1. d = [mode |-> d.mode, counterparty |-> d.counterparty, outcome |-> d.outcome, dataHash |-> d.dataHash,
           taskRef |-> d.taskRef, tokenAccount |-> d.tokenAccount, contentType |-> d.contentType,
           content |-> d.content]
  BY Zenon DEF DraftFine
<1> QED BY <1>1, Somethings, Zenon

LEMMA CallFields ==
    ASSUME NEW ix, NEW style, NEW given, NEW args, NEW c,
           c = [ix |-> ix, style |-> style, given |-> given, args |-> args]
    PROVE  c.ix = ix /\ c.style = style /\ c.given = given /\ c.args = args
OBVIOUS

LEMMA SentFields ==
    ASSUME NEW signatures, NEW instruction, NEW s, s = [signatures |-> signatures, instruction |-> instruction]
    PROVE  s.signatures = signatures /\ s.instruction = instruction
OBVIOUS

LEMMA Statuses ==
    /\ Rejected # Nil /\ Refused # Nil /\ AdmittedOnly # Nil /\ Threw # Nil /\ Rejected # Refused
    /\ Rejected # AdmittedOnly /\ Refused # AdmittedOnly /\ Rejected # Threw /\ Refused # Threw
    /\ Nil.status = "nil" /\ Rejected.status = "rejected" /\ Refused.status = "refused"
    /\ AdmittedOnly.status = "admitted" /\ Threw.status = "threw"
    /\ \A state, event : /\ Wrote(state, event).status = "written" /\ Wrote(state, event).state = state
                         /\ Wrote(state, event).event = event
    /\ \A state, event : /\ Wrote(state, event) # Nil /\ Wrote(state, event) # Rejected
                         /\ Wrote(state, event) # Refused
<1>1. /\ Nil.status = "nil" /\ Rejected.status = "rejected" /\ Refused.status = "refused"
      /\ AdmittedOnly.status = "admitted" /\ Threw.status = "threw"
  BY DEF Nil, Rejected, Refused, AdmittedOnly, Threw
<1>2. \A state, event : /\ Wrote(state, event).status = "written" /\ Wrote(state, event).state = state
                        /\ Wrote(state, event).event = event
  BY DEF Wrote
<1>3. "nil" # "rejected" /\ "nil" # "refused" /\ "nil" # "admitted" /\ "nil" # "threw" /\ "rejected" # "refused"
      /\ "rejected" # "admitted" /\ "refused" # "admitted" /\ "rejected" # "threw" /\ "refused" # "threw"
      /\ "written" # "nil" /\ "written" # "rejected" /\ "written" # "refused"
  OBVIOUS
<1>4. /\ Rejected # Nil /\ Refused # Nil /\ AdmittedOnly # Nil /\ Threw # Nil /\ Rejected # Refused
      /\ Rejected # AdmittedOnly /\ Refused # AdmittedOnly /\ Rejected # Threw /\ Refused # Threw
  BY <1>1, <1>3
<1>5. ASSUME NEW state, NEW event
      PROVE  Wrote(state, event) # Nil /\ Wrote(state, event) # Rejected /\ Wrote(state, event) # Refused
  <2>1. PICK w : w = Wrote(state, event) OBVIOUS
  <2>2. w.status = "written" BY <1>2, <2>1
  <2> QED BY <1>1, <1>3, <2>1, <2>2
<1> QED BY <1>1, <1>2, <1>4, <1>5, SMT

-----------------------------------------------------------------------------
(* What each step leaves of the invariant                                    *)

LEMMA IdleStep ==
    ASSUME Idle, Next
    PROVE  IInv'
<1>1. call = Nil /\ sent = Nil /\ account = Nil /\ outcome = Nil /\ draft = Nil BY Zenon DEF Idle
<1>2. ASSUME NEW ix \in Instructions, NEW style \in {"async", "sync"}, CallInstruction(ix, style)
      PROVE  IInv'
  <2>1. PICK extras \in SUBSET Extras(ix), args \in ArgsOf(ix) :
          Send(ix, style, Given(ix, style, extras), args, <<>>, <<>>)
    BY <1>2, Zenon DEF CallInstruction
  <2>2. draft' = Nil /\ account' = Nil /\ outcome' = Nil BY <1>1, <1>2, Zenon DEF CallInstruction
  <2>3. call' = CallFor(ix, style, extras, args) BY <2>1, Zenon DEF Send, CallFor
  <2>4. sent' = SentFor(ix, style, extras, args) BY <2>1, Zenon DEF Send, SentFor, MessageFor, Sending
  <2>5. GeneratedState(ix, style, extras, args)' BY <2>2, <2>3, <2>4, Zenon DEF GeneratedState, BecameOf
  <2>6. Generated' BY <2>5, Zenon DEF Generated
  <2> QED BY <2>6, Zenon DEF IInv
<1>3. ASSUME NEW d \in Drafts, NEW batched \in BOOLEAN, CreateFeedback(d, batched)
      PROVE  IInv'
  <2>1. /\ FitsMode(d) /\ draft' = d /\ call' = FeedbackCall(d)
        /\ sent' = FeedbackSent(d, batched) /\ account' = Nil /\ outcome' = Nil
    BY <1>1, <1>3, FeedbackStep, Zenon
  <2>2. FeedbackState(d, batched)' BY <2>1, Zenon DEF FeedbackState
  <2>3. Feedback' BY <2>1, <2>2, Zenon DEF Feedback
  <2> QED BY <2>3, Zenon DEF IInv
<1>4. ~Reject BY <1>1, Zenon DEF Reject
<1>5. ~ExecuteRegistry BY <1>1, Zenon DEF ExecuteRegistry, Enters
<1>6. ~ExecuteLinkEvm BY <1>1, Zenon DEF ExecuteLinkEvm, Enters
<1>7. ~CheckData BY <1>1, Zenon DEF CheckData, Enters
<1>8. ~ExecuteClose BY <1>1, Zenon DEF ExecuteClose, Enters
<1>9. ~ExecuteCreate BY <1>1, Zenon DEF ExecuteCreate, Enters
<1>10. \A version : ~CloseCompressedAttestation(version) /\ ~CloseByHand(version)
  BY <1>1, Zenon DEF CloseCompressedAttestation, CloseByHand
<1>11. ~Return BY <1>1, Zenon DEF Return
<1> QED BY <1>2, <1>3, <1>4, <1>5, <1>6, <1>7, <1>8, <1>9, <1>10, <1>11, Zenon DEF Next

LEMMA ReturnStep ==
    ASSUME Return
    PROVE  IInv'
<1>1. Idle' BY Zenon DEF Return, Idle
<1> QED BY <1>1, Zenon DEF IInv

\* The handlers of the registry, and what goes no further than the admission.
RanAs(ix, m) ==
    /\ outcome = Nil /\ draft' = draft /\ call' = call /\ sent' = sent /\ account' = account
    /\ BecameOf(ix, m, outcome')

LEMMA RegistryRan ==
    ASSUME NEW ix, NEW m, call.ix = ix, sent.instruction = m,
           Reject \/ ExecuteRegistry \/ ExecuteLinkEvm \/ CheckData \/ ExecuteClose
    PROVE  RanAs(ix, m)
<1>1. Got = Received(ix, m) BY Zenon DEF Got
<1>2. CASE Reject
  <2>1. outcome = Nil /\ outcome' = Rejected /\ draft' = draft /\ call' = call /\ sent' = sent /\ account' = account
    BY <1>2, Zenon DEF Reject
  <2>2. TurnedBack(ix, m) BY <1>1, <1>2, Zenon DEF Reject, TurnedBack
  <2> QED BY <2>1, <2>2, Zenon DEF RanAs, BecameOf
<1>3. CASE ExecuteRegistry
  <2>1. /\ outcome = Nil /\ draft' = draft /\ call' = call /\ sent' = sent /\ account' = account
        /\ ix \in RegistryCalls /\ outcome' = Effect(ix, Received(ix, m))
    BY <1>1, <1>3, Zenon DEF ExecuteRegistry, Enters, RegistryCalls
  <2> QED BY <2>1, Zenon DEF RanAs, BecameOf, ExecutedAs
<1>4. CASE ExecuteLinkEvm
  <2>1. /\ outcome = Nil /\ draft' = draft /\ call' = call /\ sent' = sent /\ account' = account
        /\ ix \in {"linkEvmAddress"} /\ outcome' = LinkOutcome(Got)
    BY <1>4, Zenon DEF ExecuteLinkEvm, Enters, LinkOutcome
  <2> QED BY <1>1, <2>1, Zenon DEF RanAs, BecameOf, ExecutedAs
<1>5. CASE CheckData
  <2>1. /\ outcome = Nil /\ draft' = draft /\ call' = call /\ sent' = sent /\ account' = account
        /\ ix \in CreationCalls /\ outcome' = DataOutcome(Got)
    BY <1>5, Zenon DEF CheckData, Enters, DataOutcome, CreationCalls
  <2> QED BY <1>1, <2>1, Zenon DEF RanAs, BecameOf, ExecutedAs
<1>6. CASE ExecuteClose
  <2>1. /\ outcome = Nil /\ draft' = draft /\ call' = call /\ sent' = sent /\ account' = account
        /\ ix \in ClosingCalls /\ outcome' = AdmittedOnly
    BY <1>6, Zenon DEF ExecuteClose, Enters, ClosingCalls
  <2> QED BY <2>1, Zenon DEF RanAs, BecameOf, ExecutedAs
<1> QED BY <1>2, <1>3, <1>4, <1>5, <1>6, Zenon

LEMMA GeneratedStep ==
    ASSUME Generated, Next
    PROVE  IInv'
<1>1. PICK ix \in Instructions, style \in {"async", "sync"} : \E extras \in SUBSET Extras(ix), args \in ArgsOf(ix) :
          GeneratedState(ix, style, extras, args)
  BY Zenon DEF Generated
<1>2. PICK extras \in SUBSET Extras(ix), args \in ArgsOf(ix) : GeneratedState(ix, style, extras, args) BY <1>1, Zenon
<1>3. PICK m : m = MessageFor(ix, style, extras, args) OBVIOUS
<1>4. /\ draft = Nil /\ account = Nil /\ call = CallFor(ix, style, extras, args)
      /\ sent = SentFor(ix, style, extras, args) /\ BecameOf(ix, m, outcome)
  BY <1>2, <1>3, Zenon DEF GeneratedState
<1>5. call.ix = ix BY <1>4, CallFields DEF CallFor
<1>6. sent.instruction = m BY <1>3, <1>4, SentFields DEF SentFor
<1>7. call # Nil BY <1>4, CallsAreNot, Zenon
<1>8. ASSUME Reject \/ ExecuteRegistry \/ ExecuteLinkEvm \/ CheckData \/ ExecuteClose
      PROVE  IInv'
  <2>1. RanAs(ix, m) BY <1>5, <1>6, <1>8, RegistryRan, Zenon
  <2>2. /\ draft' = Nil /\ account' = Nil /\ call' = CallFor(ix, style, extras, args)
        /\ sent' = SentFor(ix, style, extras, args) /\ BecameOf(ix, m, outcome')
    BY <1>4, <2>1, Zenon DEF RanAs
  <2>3. GeneratedState(ix, style, extras, args)' BY <1>3, <2>2, Zenon DEF GeneratedState
  <2>4. Generated' BY <2>3, Zenon DEF Generated
  <2> QED BY <2>4, Zenon DEF IInv
<1>9. ~ExecuteCreate BY <1>4, Zenon DEF ExecuteCreate
<1>10. \A version : ~CloseCompressedAttestation(version) /\ ~CloseByHand(version)
  BY <1>4, Zenon DEF CloseCompressedAttestation, CloseByHand
<1>11. \A i, s : ~CallInstruction(i, s) BY <1>7, Zenon DEF CallInstruction
<1>12. \A d, batched : ~CreateFeedback(d, batched) BY <1>7, FeedbackStep, Zenon
<1> QED BY <1>8, <1>9, <1>10, <1>11, <1>12, ReturnStep, Zenon DEF Next

-----------------------------------------------------------------------------
(* What arrives, as the properties put it                                    *)

\* Of the accounts, those that were given and those that were left out.
GivenSeen(acc, given) == \A n \in DOMAIN given : n \in DOMAIN acc /\ acc[n] = given[n].address
LeftOutSeen(ix, acc, given) ==
    \A i \in 1..Len(AccountsOf(ix)) :
        AccountsOf(ix)[i].optional /\ AccountsOf(ix)[i].name \notin DOMAIN given
            => acc[AccountsOf(ix)[i].name] = LeftOut(AccountsOf(ix)[i].name)
DefaultsSeen(ix, acc, given, D) ==
    \A i \in 1..Len(AccountsOf(ix)) :
        ~AccountsOf(ix)[i].optional /\ AccountsOf(ix)[i].name \notin DOMAIN given
            => acc[AccountsOf(ix)[i].name] = D[AccountsOf(ix)[i].name]
AllSeen(ix, acc, given, D) ==
    GivenSeen(acc, given) /\ LeftOutSeen(ix, acc, given) /\ DefaultsSeen(ix, acc, given, D)

LEMMA AllAreSeen ==
    ASSUME NEW ix, NEW given, NEW D, NEW args, NEW remaining, NEW m,
           Arrived(ix, given, D, args, remaining, m), DOMAIN given \subseteq NamesOf(AccountsOf(ix))
    PROVE  AllSeen(ix, Received(ix, m).accounts, given, D)
<1>1. PICK acc : acc = Received(ix, m).accounts OBVIOUS
<1>2. PICK A : A = AccountsOf(ix) OBVIOUS
<1>3. /\ DOMAIN acc = NamesOf(A) /\ \A i \in 1..Len(A) : SeenAsMeant(A[i], given, D, acc[A[i].name])
  BY <1>1, <1>2, Zenon DEF Arrived
<1>4. GivenSeen(acc, given)
  <2>1. SUFFICES ASSUME NEW n \in DOMAIN given PROVE n \in DOMAIN acc /\ acc[n] = given[n].address
    BY Zenon DEF GivenSeen
  <2>2. n \in NamesOf(A) BY <1>2
  <2>3. PICK i \in 1..Len(A) : n = A[i].name BY <2>2 DEF NamesOf
  <2>4. acc[n] = given[n].address BY <1>3, <2>3, Zenon DEF SeenAsMeant
  <2> QED BY <1>3, <2>2, <2>4
<1>5. LeftOutSeen(ix, acc, given) BY <1>2, <1>3, Zenon DEF LeftOutSeen, SeenAsMeant
<1>6. DefaultsSeen(ix, acc, given, D) BY <1>2, <1>3, Zenon DEF DefaultsSeen, SeenAsMeant
<1> QED BY <1>1, <1>4, <1>5, <1>6, Zenon DEF AllSeen

LEMMA SeenPlain ==
    ASSUME NEW ix, NEW acc, NEW given, NEW D, AllSeen(ix, acc, given, D), NEW n \in DOMAIN given, NEW a,
           given[n] = Plain(a) \/ given[n] = Signer(a)
    PROVE  acc[n] = a
<1>1. Plain(a).address = a /\ Signer(a).address = a BY Zenon DEF Plain, Signer
<1>2. acc[n] = given[n].address BY Zenon DEF AllSeen, GivenSeen
<1> QED BY <1>1, <1>2

\* What an instruction's own constraints ask for.
Meets(ix, acc, args) ==
    CASE ix = "registerAgent" ->
              /\ acc.groupMint = GroupMint
              /\ acc.agentIndex = Pda(SATI_PROGRAM_ADDRESS, <<"agent_index", ToString(TotalAgents + 1)>>)
              /\ acc.agentTokenAccount = Ata(acc.owner, Token2022Program, acc.agentMint)
      [] ix = "updateRegistryAuthority" -> acc.authority = RegistryAuthority
      [] ix = "registerSchemaConfig" ->
              /\ acc.authority = RegistryAuthority
              /\ acc.schemaConfig = Pda(SATI_PROGRAM_ADDRESS, <<"schema_config">> \o args.sasSchema)
      [] ix = "linkEvmAddress" ->
              /\ acc.tokenProgram = Token2022Program
              /\ acc.ata = Ata(acc.owner, acc.tokenProgram, acc.agentMint)
      [] ix \in {"createCompressedAttestation", "createRegularAttestation",
                 "closeCompressedAttestation", "closeRegularAttestation"} ->
              acc.schemaConfig = SchemaConfigPda
      [] OTHER -> TRUE

LEMMA AdmittedIf ==
    ASSUME NEW ix, NEW given, NEW D, NEW args, NEW remaining, NEW m, Arrived(ix, given, D, args, remaining, m),
           Meets(ix, Received(ix, m).accounts, args)
    PROVE  Admitted(ix, m)
<1>1. PICK got : got = Received(ix, m) OBVIOUS
<1>2. /\ got.args = args
      /\ Head(m.data) = Cell(8, <<ix>>) /\ Len(m.accounts) >= Len(Structs[ix])
      /\ \A i \in DOMAIN Structs[ix] :
              /\ Structs[ix][i].signer => IsSigner(m.accounts, m.accounts[i].address)
              /\ Structs[ix][i].mut => IsWritable(m.accounts, m.accounts[i].address)
      /\ \A n \in DOMAIN got.accounts \cap DOMAIN Demanded : got.accounts[n] \in Demanded[n]
  BY <1>1, Zenon DEF Arrived
<1>3. ConstraintsHold(ix, got.accounts, got.args) BY <1>1, <1>2, Zenon DEF ConstraintsHold, Meets
<1> QED BY <1>1, <1>2, <1>3, Zenon DEF Admitted

\* What a caller meant of an instruction is what the handler gets.
MeantBy(ix, given, args, got) ==
    /\ \A name \in DOMAIN got.accounts :
          /\ name \in DOMAIN given => got.accounts[name] = given[name].address
          /\ name \in Extras(ix) \ DOMAIN given /\ name # "tokenProgram"
                => got.accounts[name] = LeftOut(name)
    /\ DOMAIN given \subseteq DOMAIN got.accounts
    /\ got.args = args

LEMMA MeantIs ==
    ASSUME NEW ix \in Instructions, NEW given, NEW D, NEW args, NEW remaining, NEW m,
           Arrived(ix, given, D, args, remaining, m), DOMAIN given \subseteq NamesOf(AccountsOf(ix))
    PROVE  MeantBy(ix, given, args, Received(ix, m))
<1>1. PICK got : got = Received(ix, m) OBVIOUS
<1>2. PICK A : A = AccountsOf(ix) OBVIOUS
<1>3. AllSeen(ix, got.accounts, given, D) BY <1>1, AllAreSeen, Zenon
<1>4. got.args = args BY <1>1, Zenon DEF Arrived
<1>5. DOMAIN given \subseteq DOMAIN got.accounts
      /\ \A name \in DOMAIN given : got.accounts[name] = given[name].address
  BY <1>3, Zenon DEF AllSeen, GivenSeen
<1>6. LeftOutSeen(ix, got.accounts, given) BY <1>3, Zenon DEF AllSeen
<1>7. \A name \in Extras(ix) \ DOMAIN given : name # "tokenProgram" => got.accounts[name] = LeftOut(name)
  <2>1. SUFFICES ASSUME NEW name \in Extras(ix), name \notin DOMAIN given, name # "tokenProgram"
                 PROVE  got.accounts[name] = LeftOut(name)
    BY Zenon
  <2>2. name \in {A[i].name : i \in {j \in DOMAIN A : A[j].optional}} BY <1>2, <2>1, Zenon DEF Extras
  <2>3. PICK i \in DOMAIN A : A[i].optional /\ name = A[i].name BY <2>2
  <2>4. i \in 1..Len(A)
    <3>1. Aligned(AccountsOf(ix), Structs[ix], ix) BY AccountsAligned, Zenon
    <3>2. Sequence(A) BY <1>2, <3>1, Zenon DEF Aligned
    <3> QED BY <2>3, <3>2, Length
  <2> QED BY <1>2, <1>6, <2>1, <2>3, <2>4, Zenon DEF LeftOutSeen
<1>8. MeantBy(ix, given, args, got) BY <1>4, <1>5, <1>7, Zenon DEF MeantBy
<1> QED BY <1>1, <1>8

-----------------------------------------------------------------------------
(* A feedback and its close                                                  *)

CreateIx == "createCompressedAttestation"
CloseIx == "closeCompressedAttestation"

\* The names of the accounts that were given are those of the instruction's.
ProperNames(ix, given) == DOMAIN given \subseteq NamesOf(AccountsOf(ix))

LEMMA NamesProper ==
    ASSUME NEW ix, NEW style, NEW given, Proper(ix, style, given)
    PROVE  ProperNames(ix, given)
BY Zenon DEF Proper, ProperNames

LEMMA FeedbackAdmitted ==
    ASSUME NEW d, DraftFine(d), FitsMode(d)
    PROVE  /\ Admitted(CreateIx, FeedbackMessage(d))
           /\ MeantBy(CreateIx, FeedbackGiven(d), FeedbackArgs(d), Received(CreateIx, FeedbackMessage(d)))
<1>1. PICK m, g, D, v, r : /\ m = FeedbackMessage(d) /\ g = FeedbackGiven(d) /\ v = FeedbackArgs(d)
                           /\ D = Defaults(CreateIx, "async", FeedbackGiven(d), FeedbackArgs(d))
                           /\ r = RemainingOf(CreationTrees)
  OBVIOUS
<1>2. Arrived(CreateIx, g, D, v, r, m) BY <1>1, FeedbackArrives, Zenon DEF CreateIx
<1>3. CreateIx \in Instructions BY DEF CreateIx, Instructions
<1>4. ProperNames(CreateIx, g) BY <1>1, FeedbackIsProper, NamesProper, Zenon DEF CreateIx
<1>5. DOMAIN g \subseteq NamesOf(AccountsOf(CreateIx)) BY <1>4, Zenon DEF ProperNames
<1>6. MeantBy(CreateIx, g, v, Received(CreateIx, m)) BY <1>2, <1>3, <1>5, MeantIs, Zenon
<1>7. PICK acc : acc = Received(CreateIx, m).accounts OBVIOUS
<1>8. AllSeen(CreateIx, acc, g, D) BY <1>2, <1>5, <1>7, AllAreSeen, Zenon
<1>9. "schemaConfig" \in DOMAIN g /\ g["schemaConfig"] = Plain(SchemaConfigPda) BY <1>1 DEF FeedbackGiven
<1>10. acc["schemaConfig"] = SchemaConfigPda BY <1>8, <1>9, SeenPlain
<1>11. Meets(CreateIx, acc, v) BY <1>10 DEF Meets, CreateIx
<1>12. Admitted(CreateIx, m) BY <1>2, <1>7, <1>11, AdmittedIf, Zenon
<1> QED BY <1>1, <1>6, <1>12

LEMMA CloseAdmitted ==
    ASSUME NEW d, DraftFine(d), FitsMode(d), NEW version
    PROVE  /\ Admitted(CloseIx, CloseMessage(d, version))
           /\ CanLoad(Received(CloseIx, CloseMessage(d, version)).accounts)
           /\ MeantBy(CloseIx, CloseGiven(d), CloseArgs(d, version), Received(CloseIx, CloseMessage(d, version)))
           /\ Received(CloseIx, CloseMessage(d, version)).remaining = RemainingOf(ClosingTrees(version))
<1>1. PICK m, g, D, v, r : /\ m = CloseMessage(d, version) /\ g = CloseGiven(d) /\ v = CloseArgs(d, version)
                           /\ D = Defaults(CloseIx, "async", CloseGiven(d), CloseArgs(d, version))
                           /\ r = RemainingOf(ClosingTrees(version))
  OBVIOUS
<1>2. Arrived(CloseIx, g, D, v, r, m) BY <1>1, CloseArrives, Zenon DEF CloseIx
<1>3. CloseIx \in Instructions BY DEF CloseIx, Instructions
<1>4. ProperNames(CloseIx, g) BY <1>1, CloseIsProper, NamesProper, SMT DEF CloseIx
<1>5. DOMAIN g \subseteq NamesOf(AccountsOf(CloseIx)) BY <1>4, Zenon DEF ProperNames
<1>6. MeantBy(CloseIx, g, v, Received(CloseIx, m)) BY <1>2, <1>3, <1>5, MeantIs, Zenon
<1>7. PICK acc : acc = Received(CloseIx, m).accounts OBVIOUS
<1>8. AllSeen(CloseIx, acc, g, D) BY <1>2, <1>5, <1>7, AllAreSeen, Zenon
<1>9. "schemaConfig" \in DOMAIN g /\ g["schemaConfig"] = Plain(SchemaConfigPda) /\ "agentAta" \notin DOMAIN g
  BY <1>1 DEF CloseGiven
<1>10. acc["schemaConfig"] = SchemaConfigPda BY <1>8, <1>9, SeenPlain
<1>11. Meets(CloseIx, acc, v) BY <1>10 DEF Meets, CloseIx
<1>12. Admitted(CloseIx, m) BY <1>2, <1>7, <1>11, AdmittedIf, Zenon
<1>13. acc["agentAta"] = Absent
  <2>1. PICK A : A = CloseCompressedAccounts OBVIOUS
  <2>2. 3 \in 1..Len(A) /\ A[3].name = "agentAta" /\ A[3].optional
    BY <2>1 DEF CloseCompressedAccounts, Opt, Ro, Wr, Account
  <2>3. AccountsOf(CloseIx) = A BY <2>1 DEF AccountsOf, CloseIx
  <2>4. LeftOutSeen(CloseIx, acc, g) BY <1>8, Zenon DEF AllSeen
  <2>5. acc["agentAta"] = LeftOut("agentAta") BY <1>9, <2>2, <2>3, <2>4, Zenon DEF LeftOutSeen
  <2>6. LeftOut("agentAta") = Absent BY DEF LeftOut
  <2> QED BY <2>5, <2>6
<1>14. CanLoad(acc) BY <1>13, Zenon DEF CanLoad
<1>15. Received(CloseIx, m).remaining = r BY <1>2, Zenon DEF Arrived
<1> QED BY <1>1, <1>6, <1>7, <1>12, <1>14, <1>15

\* What is known of a feedback's state, whatever became of it.
LEMMA FeedbackKnown ==
    ASSUME NEW d, NEW batched, FeedbackState(d, batched)
    PROVE  /\ draft = d /\ call = FeedbackCall(d) /\ call.ix = CreateIx
           /\ sent = FeedbackSent(d, batched) /\ sent.instruction = FeedbackMessage(d)
           /\ call # Nil /\ Got = Received(CreateIx, FeedbackMessage(d))
<1>1. draft = d /\ call = FeedbackCall(d) /\ sent = FeedbackSent(d, batched) BY Zenon DEF FeedbackState
<1>2. call.ix = CreateIx BY <1>1, CallFields DEF FeedbackCall, CreateIx
<1>3. sent.instruction = FeedbackMessage(d) BY <1>1, SentFields DEF FeedbackSent
<1>4. call # Nil BY <1>1, CallsAreNot, Zenon
<1>5. Got = Received(CreateIx, FeedbackMessage(d)) BY <1>2, <1>3, Zenon DEF Got
<1> QED BY <1>1, <1>2, <1>3, <1>4, <1>5, Zenon

LEMMA ClosingKnown ==
    ASSUME NEW d, NEW version, ClosingState(d, version)
    PROVE  /\ draft = d /\ call = CloseCall(d, version) /\ call.ix = CloseIx
           /\ sent = CloseSent(d, version) /\ sent.instruction = CloseMessage(d, version)
           /\ call # Nil /\ Got = Received(CloseIx, CloseMessage(d, version))
<1>1. draft = d /\ call = CloseCall(d, version) /\ sent = CloseSent(d, version) BY Zenon DEF ClosingState
<1>2. call.ix = CloseIx BY <1>1, CallFields DEF CloseCall, CloseIx
<1>3. sent.instruction = CloseMessage(d, version) BY <1>1, SentFields DEF CloseSent
<1>4. call # Nil BY <1>1, CallsAreNot, Zenon
<1>5. Got = Received(CloseIx, CloseMessage(d, version)) BY <1>2, <1>3, Zenon DEF Got
<1> QED BY <1>1, <1>2, <1>3, <1>4, <1>5, Zenon

LEMMA NamesOfCalls ==
    /\ CreateIx \notin RegistryCalls /\ CreateIx # "linkEvmAddress" /\ CreateIx \notin ClosingCalls
    /\ CloseIx \notin RegistryCalls /\ CloseIx # "linkEvmAddress" /\ CloseIx \notin CreationCalls
    /\ CloseIx # CreateIx /\ CreateIx = "createCompressedAttestation"
BY DEF CreateIx, CloseIx, RegistryCalls, ClosingCalls, CreationCalls

\* Only its own handlers run an instruction.
LEMMA OnlyItsHandlers ==
    /\ call.ix = CreateIx => ~ExecuteRegistry /\ ~ExecuteLinkEvm /\ ~ExecuteClose
    /\ call.ix = CloseIx => ~ExecuteRegistry /\ ~ExecuteLinkEvm /\ ~CheckData /\ ~ExecuteCreate
    /\ draft # Nil => ~CheckData
    /\ call.ix = CloseIx => \A version : ~CloseCompressedAttestation(version) /\ ~CloseByHand(version)
    /\ call # Nil => /\ \A i, s : ~CallInstruction(i, s)
                     /\ \A d, batched : ~CreateFeedback(d, batched)
<1>1. ExecuteRegistry => call.ix \in RegistryCalls BY Zenon DEF ExecuteRegistry, Enters, RegistryCalls
<1>2. ExecuteLinkEvm => call.ix = "linkEvmAddress" BY Zenon DEF ExecuteLinkEvm, Enters
<1>3. CheckData => call.ix \in CreationCalls /\ draft = Nil BY Zenon DEF CheckData, Enters, CreationCalls
<1>4. ExecuteClose => call.ix \in ClosingCalls BY Zenon DEF ExecuteClose, Enters, ClosingCalls
<1>5. ExecuteCreate => call.ix = CreateIx BY Zenon DEF ExecuteCreate, Enters, CreateIx
<1>6. \A version : CloseCompressedAttestation(version) \/ CloseByHand(version) => call.ix = CreateIx
  BY Zenon DEF CloseCompressedAttestation, CloseByHand, CreateIx
<1>7. call # Nil => /\ \A i, s : ~CallInstruction(i, s)
                    /\ \A d, batched : ~CreateFeedback(d, batched)
  BY FeedbackStep, Zenon DEF CallInstruction
<1> QED BY <1>1, <1>2, <1>3, <1>4, <1>5, <1>6, <1>7, NamesOfCalls, Zenon

LEMMA FeedbackStateStep ==
    ASSUME Feedback, Next
    PROVE  IInv'
<1>1. PICK d \in Drafts, batched \in BOOLEAN : FitsMode(d) /\ FeedbackState(d, batched) BY Zenon DEF Feedback
<1>2. DraftFine(d) BY DraftsAre, Zenon
<1>3. d # Nil BY <1>2, DraftIsNot, Zenon
<1>4. /\ draft = d /\ call = FeedbackCall(d) /\ call.ix = CreateIx
      /\ sent = FeedbackSent(d, batched) /\ sent.instruction = FeedbackMessage(d)
      /\ call # Nil /\ Got = Received(CreateIx, FeedbackMessage(d))
  BY <1>1, FeedbackKnown, Zenon
<1>5. AccountOf(d) # Nil BY CallsAreNot, Zenon
<1>6. /\ Rejected # Nil /\ Refused # Nil /\ Threw # Nil /\ CreatedOutcome(d) # Nil
  BY Statuses, SMT DEF CreatedOutcome
<1>7. outcome = Nil => account = Nil BY <1>1, <1>6, Zenon DEF FeedbackState
<1>8. ASSUME FeedbackState(d, batched)' PROVE IInv'
  <2>1. Feedback' BY <1>1, <1>8, Zenon DEF Feedback
  <2> QED BY <2>1, Zenon DEF IInv
<1>9. CASE Reject
  <2>1. /\ outcome = Nil /\ outcome' = Rejected /\ draft' = draft /\ call' = call /\ sent' = sent /\ account' = account
        /\ ~Admitted(call.ix, sent.instruction) \/ ~CanLoad(Got.accounts)
    BY <1>9, Zenon DEF Reject
  <2>2. Admitted(CreateIx, FeedbackMessage(d)) BY <1>1, <1>2, FeedbackAdmitted, Zenon
  <2>3. FeedbackGot(d, Received(CreateIx, FeedbackMessage(d))) BY <1>1, <1>2, FeedbackReceived, Zenon DEF CreateIx
  <2>4. CanLoad(Got.accounts) <=> FirstSigner(d) = Owner BY <1>2, <1>4, <2>3, Loaded
  <2>5. FirstSigner(d) # Owner BY <1>4, <2>1, <2>2, <2>4, Zenon
  <2>6. FeedbackState(d, batched)' BY <1>4, <1>7, <2>1, <2>5, Zenon DEF FeedbackState
  <2> QED BY <1>8, <2>6
<1>10. CASE ExecuteCreate
  <2>1. Judged(d) BY <1>1, <1>2, <1>4, <1>10, CreateStep, Zenon
  <2>2. /\ FirstSigner(d) = Owner /\ outcome = Nil
        /\ Flawed(d) => outcome' = Refused /\ account' = account
        /\ ~Flawed(d) => account' = AccountOf(d) /\ outcome' = CreatedOutcome(d)
        /\ draft' = draft /\ call' = call /\ sent' = sent
    BY <2>1, Zenon DEF Judged
  <2>3. FeedbackState(d, batched)' BY <1>4, <1>7, <2>2, Zenon DEF FeedbackState
  <2> QED BY <1>8, <2>3
<1>11. ASSUME NEW version \in {V1, V2}, account # Nil, SendClose(version)
       PROVE  IInv'
  <2>1. account = AccountOf(d) /\ FirstSigner(d) = Owner /\ ~Flawed(d) BY <1>1, <1>11, Zenon DEF FeedbackState
  <2>2. CloseSends(d, version) BY <1>4, <1>11, <2>1, CloseStep, Zenon
  <2>3. ClosingState(d, version)' BY <1>4, <2>1, <2>2, Zenon DEF CloseSends, ClosingState
  <2>4. Closed' BY <1>1, <2>3, Zenon DEF Closed
  <2> QED BY <2>4, Zenon DEF IInv
<1>12. ASSUME account # Nil, outcome' = Threw, UNCHANGED <<draft, call, sent, account>>
       PROVE  IInv'
  <2>1. account = AccountOf(d) /\ FirstSigner(d) = Owner /\ ~Flawed(d) BY <1>1, <1>12, Zenon DEF FeedbackState
  <2>2. FeedbackState(d, batched)' BY <1>4, <1>12, <2>1, Zenon DEF FeedbackState
  <2> QED BY <1>8, <2>2
<1>13. ASSUME NEW version \in {V1, V2}, CloseCompressedAttestation(version)
       PROVE  IInv'
  <2>1. account # Nil /\ (SendClose(version) \/ (outcome' = Threw /\ UNCHANGED <<draft, call, sent, account>>))
    BY <1>13, Zenon DEF CloseCompressedAttestation
  <2> QED BY <1>11, <1>12, <2>1, Zenon
<1>14. ASSUME NEW version \in {V1, V2}, CloseByHand(version)
       PROVE  IInv'
  BY <1>11, <1>14, Zenon DEF CloseByHand
<1> QED BY <1>3, <1>4, <1>9, <1>10, <1>13, <1>14, OnlyItsHandlers, ReturnStep, Zenon DEF Next

LEMMA ClosingStateStep ==
    ASSUME Closed, Next
    PROVE  IInv'
<1>1. PICK d \in Drafts, version \in {V1, V2} : FitsMode(d) /\ ClosingState(d, version) BY Zenon DEF Closed
<1>2. DraftFine(d) BY DraftsAre, Zenon
<1>3. /\ draft = d /\ call = CloseCall(d, version) /\ call.ix = CloseIx
      /\ sent = CloseSent(d, version) /\ sent.instruction = CloseMessage(d, version)
      /\ call # Nil /\ Got = Received(CloseIx, CloseMessage(d, version))
  BY <1>1, ClosingKnown, Zenon
<1>4. ~Reject
  <2>1. Admitted(CloseIx, CloseMessage(d, version)) /\ CanLoad(Received(CloseIx, CloseMessage(d, version)).accounts)
    BY <1>1, <1>2, CloseAdmitted, Zenon
  <2> QED BY <1>3, <2>1, Zenon DEF Reject
<1>5. CASE ExecuteClose
  <2>1. outcome' = AdmittedOnly /\ draft' = draft /\ call' = call /\ sent' = sent /\ account' = account
    BY <1>5, Zenon DEF ExecuteClose
  <2>2. ClosingState(d, version)' BY <1>1, <2>1, Zenon DEF ClosingState
  <2>3. Closed' BY <1>1, <2>2, Zenon DEF Closed
  <2> QED BY <2>3, Zenon DEF IInv
<1> QED BY <1>3, <1>4, <1>5, OnlyItsHandlers, ReturnStep, Zenon DEF Next

\* What is called, sent, stored and answered belongs together, in every state.
THEOREM Inductive == Spec => []IInv
<1>1. Init => IInv BY Zenon DEF Init, IInv, Idle
<1>2. IInv /\ [Next]_vars => IInv'
  <2>1. CASE UNCHANGED vars
    <3>1. draft' = draft /\ call' = call /\ sent' = sent /\ account' = account /\ outcome' = outcome
      BY <2>1 DEF vars
    <3>2. Idle => Idle' BY <3>1, Zenon DEF Idle
    <3>3. Generated => Generated' BY <3>1, SMT DEF Generated, GeneratedState
    <3>4. Feedback => Feedback' BY <3>1, Zenon DEF Feedback, FeedbackState
    <3>5. Closed => Closed' BY <3>1, Zenon DEF Closed, ClosingState
    <3> QED BY <3>2, <3>3, <3>4, <3>5, Zenon DEF IInv
  <2>2. CASE Next
    <3>1. Idle => (IInv => IInv') BY <2>2, IdleStep, Zenon
    <3>2. Generated => (IInv => IInv') BY <2>2, GeneratedStep, SMT
    <3>3. Feedback => (IInv => IInv') BY <2>2, FeedbackStateStep, Zenon
    <3>4. Closed => (IInv => IInv') BY <2>2, ClosingStateStep, Zenon
    <3> QED BY <3>1, <3>2, <3>3, <3>4, Zenon DEF IInv
  <2> QED BY <2>1, <2>2, Zenon
<1> QED BY <1>1, <1>2, PTL DEF Spec

-----------------------------------------------------------------------------
(* What is stored                                                            *)

\* The draft behind an account, and the version of the indexer behind its close.
DraftBehind(d) ==
    /\ d \in Drafts /\ FitsMode(d) /\ DraftFine(d) /\ draft = d /\ account = AccountOf(d)
    /\ call.ix = CloseIx => \E version \in {V1, V2} : ClosingState(d, version)

LEMMA AccountHasDraft ==
    ASSUME IInv, account # Nil
    PROVE  \E d : DraftBehind(d)
<1>1. CASE Idle BY <1>1, Zenon DEF Idle
<1>2. CASE Generated BY <1>2, Zenon DEF Generated, GeneratedState
<1>3. CASE Feedback
  <2>1. PICK d \in Drafts, batched \in BOOLEAN : FitsMode(d) /\ FeedbackState(d, batched) BY <1>3, Zenon DEF Feedback
  <2>2. DraftFine(d) BY DraftsAre, Zenon
  <2>3. draft = d /\ call.ix = CreateIx BY <2>1, FeedbackKnown, Zenon
  <2>4. account = AccountOf(d) BY <2>1, Zenon DEF FeedbackState
  <2>5. DraftBehind(d) BY <2>1, <2>2, <2>3, <2>4, NamesOfCalls, Zenon DEF DraftBehind
  <2> QED BY <2>5
<1>4. CASE Closed
  <2>1. PICK d \in Drafts, version \in {V1, V2} : FitsMode(d) /\ ClosingState(d, version) BY <1>4, Zenon DEF Closed
  <2>2. DraftFine(d) BY DraftsAre, Zenon
  <2>3. draft = d /\ account = AccountOf(d) BY <2>1, Zenon DEF ClosingState
  <2>4. DraftBehind(d) BY <2>1, <2>2, <2>3, Zenon DEF DraftBehind
  <2> QED BY <2>4
<1> QED BY <1>1, <1>2, <1>3, <1>4, Zenon DEF IInv

LEMMA AccountFields ==
    ASSUME NEW d
    PROVE  AccountOf(d).address = AddressOf(d) /\ AccountOf(d).tree = MERKLE_TREE_PUBKEY
<1>1. PICK a, x, y : /\ a = AddressOf(d) /\ x = MERKLE_TREE_PUBKEY
                     /\ y = CompressedAttestation(SasSchema, d.tokenAccount, serializeUniversalLayout(d),
                                                  Pledged(d, serializeUniversalLayout(d)))
  OBVIOUS
<1>2. PICK c : c = AccountOf(d) OBVIOUS
<1>3. c = [address |-> a, tree |-> x, data |-> y] BY <1>1, <1>2, Zenon DEF AccountOf
<1>4. c.address = a /\ c.tree = x BY <1>3
<1> QED BY <1>1, <1>2, <1>4

\* The address that the SDK announces (deriveAttestationAddress) is the one that the program
\* derives and stores under, for every draft.
THEOREM AddressForetold == Spec => []AddressIsForetold
<1>1. ASSUME IInv PROVE AddressIsForetold
  <2>1. SUFFICES ASSUME account # Nil
                 PROVE  /\ account.address = deriveAttestationAddress(AttestationSeeds(draft, SasSchema), SATI_PROGRAM_ADDRESS)
                        /\ CreationRequest(AttestationSeeds(draft, SasSchema), SATI_PROGRAM_ADDRESS).newAddressesWithTrees =
                              <<[address |-> account.address, tree |-> ADDRESS_TREE]>>
                        /\ account.tree = MERKLE_TREE_PUBKEY
    BY Zenon DEF AddressIsForetold
  <2>2. PICK d : DraftBehind(d) BY <1>1, <2>1, AccountHasDraft, Zenon
  <2>3. draft = d /\ account = AccountOf(d) BY <2>2, Zenon DEF DraftBehind
  <2>4. account.address = AddressOf(d) /\ account.tree = MERKLE_TREE_PUBKEY BY <2>3, AccountFields
  <2>5. AskedFor(d) BY Requests, Zenon
  <2>6. CreationRequest(AttestationSeeds(d, SasSchema), SATI_PROGRAM_ADDRESS).newAddressesWithTrees
        = <<[address |-> AddressOf(d), tree |-> ADDRESS_TREE]>>
    BY <2>5, Zenon DEF AskedFor
  <2>7. AddressOf(d) = deriveAttestationAddress(AttestationSeeds(d, SasSchema), SATI_PROGRAM_ADDRESS)
    BY Zenon DEF AddressOf
  <2> QED BY <2>3, <2>4, <2>6, <2>7
<1> QED BY <1>1, Inductive, PTL

\* What the property says of a draft that is read back.
ReadBack(d, attestation) ==
    /\ attestation.sasSchema = SasSchema
    /\ attestation.tokenAccount = d.tokenAccount
    /\ deserializeUniversalLayout(attestation.data) = [f \in DOMAIN d \ {"mode"} |-> d[f]]
    /\ attestation.numSignatures = Len(Ed25519Entries(d, serializeUniversalLayout(d)))
    /\ attestation.signature1 = Ed25519Entries(d, serializeUniversalLayout(d))[1].signature
    /\ attestation.signature2 = IF Len(Ed25519Entries(d, serializeUniversalLayout(d))) = 2
                                THEN Ed25519Entries(d, serializeUniversalLayout(d))[2].signature ELSE Zeros(64)

LEMMA ContentKept ==
    ASSUME NEW d, DraftFine(d), NEW q, q = [f \in DOMAIN d \ {"mode"} |-> d[f]]
    PROVE  q.content = d.content
<1>1. d = [mode |-> d.mode, counterparty |-> d.counterparty, outcome |-> d.outcome, dataHash |-> d.dataHash,
           taskRef |-> d.taskRef, tokenAccount |-> d.tokenAccount, contentType |-> d.contentType,
           content |-> d.content]
  BY Zenon DEF DraftFine
<1>2. "content" \in DOMAIN d \ {"mode"} BY <1>1
<1> QED BY <1>2

LEMMA ReaderOpens ==
    ASSUME NEW d, DraftFine(d), FitsMode(d), d.contentType = Encrypted, draft = d,
           NEW attestation, ReadBack(d, attestation)
    PROVE  ReaderDecrypts(attestation)
<1>1. PICK q : q = deserializeUniversalLayout(attestation.data) OBVIOUS
<1>2. q = [f \in DOMAIN d \ {"mode"} |-> d[f]] BY <1>1, Zenon DEF ReadBack
<1>3. q.content = d.content BY <1>2, ContentKept
<1>4. PICK p : p = deserializeEncryptedPayload(d.content) OBVIOUS
<1>5. OpensFor(d, p) BY <1>4, Decrypted, Zenon
<1>6. /\ decryptContent(p, deriveEncryptionKeypair(Owner).privateKey) = TextOf(Len(draft.content) - MIN_ENCRYPTED_SIZE)
      /\ decryptContent(p, deriveEncryptionKeypair(Client).privateKey) = Undecryptable
  BY <1>5, Zenon DEF OpensFor
<1> QED BY <1>1, <1>3, <1>4, <1>6, Zenon DEF ReaderDecrypts

\* An attestation comes back from the indexer as it was drafted, for every draft and length of
\* its content: the layout, the signatures by their roles, and the encrypted content for its
\* reader alone.
THEOREM StoredAsMeant == Spec => []StoredIsMeant
<1>1. ASSUME IInv PROVE StoredIsMeant
  <2>1. SUFFICES ASSUME account # Nil, NEW version \in {V1, V2}
                 PROVE  /\ ReadBack(draft, Parsed(version))
                        /\ draft.contentType = Encrypted => ReaderDecrypts(Parsed(version))
    BY Zenon DEF StoredIsMeant, ReadBack
  <2>2. PICK d : DraftBehind(d) BY <1>1, <2>1, AccountHasDraft, Zenon
  <2>3. draft = d /\ account = AccountOf(d) /\ DraftFine(d) /\ FitsMode(d) BY <2>2, Zenon DEF DraftBehind
  <2>4. PICK c : c = parseCompressedAccount(version, RawAccount) OBVIOUS
  <2>5. CompressedAs(d, version, c) BY <2>3, <2>4, CompressedRead, Zenon
  <2>6. PICK p : p = parseAttestation(AccountOf(d).data) OBVIOUS
  <2>7. Parsed(version) = p BY <2>4, <2>5, <2>6, Zenon DEF Parsed, CompressedAs
  <2>8. DraftStored(d, p) BY <2>3, <2>6, StoredIs, Zenon
  <2>9. PICK data : data = serializeUniversalLayout(d) OBVIOUS
  <2>10. deserializeUniversalLayout(data) = [f \in DOMAIN d \ {"mode"} |-> d[f]] BY <2>3, <2>9, Deserialized
  <2>11. p.data = data BY <2>8, <2>9, Zenon DEF DraftStored
  <2>12. ReadBack(d, p) BY <2>8, <2>10, <2>11, Zenon DEF DraftStored, ReadBack
  <2>13. d.contentType = Encrypted => ReaderDecrypts(p) BY <2>3, <2>12, ReaderOpens, Zenon
  <2> QED BY <2>3, <2>7, <2>12, <2>13
<1> QED BY <1>1, Inductive, PTL

\* What a close names, and proves.
LEMMA ClosingTreesRead ==
    ASSUME NEW version \in {V1, V2}, NEW r, r = RemainingOf(ClosingTrees(version))
    PROVE  /\ TreeAt(r, Number(0)) = Meta(MERKLE_TREE_PUBKEY, WRITABLE)
           /\ TreeAt(r, Number(QueueIndex(version))) \in
                {Meta(NULLIFIER_QUEUE_PUBKEY, WRITABLE), Meta(MERKLE_TREE_PUBKEY, WRITABLE)}
<1>1. PICK p : p = ClosingTrees(version) OBVIOUS
<1>2. PICK a, b : a = Meta(MERKLE_TREE_PUBKEY, WRITABLE) /\ b = Meta(NULLIFIER_QUEUE_PUBKEY, WRITABLE) OBVIOUS
<1>3. p = IF version = V2 THEN <<a, b>> ELSE <<a>> BY <1>1, <1>2, Zenon DEF ClosingTrees
<1>4. Behind(p, r)
  <2>1. Packed(p) BY <1>1, ClosingPacked, Zenon
  <2> QED BY <1>1, <2>1, RemainingIs, Zenon
<1>5. 0 + 1 \in 1..Len(p) /\ p[0 + 1] = a BY <1>3
<1>6. TreeAt(r, Number(0)) = a
  <2>1. 0 \in 0..2 OBVIOUS
  <2> QED BY <1>4, <1>5, <2>1, TreeIs
<1>7. TreeAt(r, Number(QueueIndex(version))) \in {a, b}
  <2>1. PICK n : n = QueueIndex(version) OBVIOUS
  <2>2. n \in 0..2 /\ n + 1 \in 1..Len(p) /\ p[n + 1] \in {a, b} BY <1>3, <2>1 DEF QueueIndex
  <2>3. TreeAt(r, Number(n)) = p[n + 1] BY <1>4, <2>2, TreeIs
  <2> QED BY <2>1, <2>2, <2>3
<1> QED BY <1>2, <1>6, <1>7

\* What the handler gets of a close.
ClosingInfo(d, version, args) ==
    /\ args.accountMeta.treeInfo.merkleTreePubkeyIndex = Number(0)
    /\ args.accountMeta.treeInfo.queuePubkeyIndex = Number(QueueIndex(version))
    /\ args.accountMeta.outputStateTreeIndex = Number(0)
    /\ args.accountMeta.treeInfo.leafIndex = Number(Leaf) /\ args.accountMeta.treeInfo.rootIndex = Number(4)
    /\ args.accountMeta.address = Spell(AddressOf(d)) /\ args.currentData = serializeUniversalLayout(d)

LEMMA ClosingInfoIs ==
    ASSUME NEW d, DraftFine(d), FitsMode(d), NEW version
    PROVE  ClosingInfo(d, version, CloseArgs(d, version))
<1>1. PICK v : v = CloseArgs(d, version) OBVIOUS
<1>2. v.accountMeta = CloseMeta(d, version) /\ v.currentData = parseAttestation(AccountOf(d).data).data
  BY <1>1 DEF CloseArgs
<1>3. DraftStored(d, parseAttestation(AccountOf(d).data)) BY StoredIs, Zenon
<1>4. v.currentData = serializeUniversalLayout(d) BY <1>2, <1>3, Zenon DEF DraftStored
<1>5. PICK m, a, t, s, q : /\ m = CloseMeta(d, version) /\ a = Spell(AddressOf(d)) /\ s = StateTree(version)
                           /\ t = StateTree(version) ++ [proveByIndex |-> <<"true">>]
                           /\ q = Number(QueueIndex(version))
  OBVIOUS
<1>6. m = [treeInfo |-> t, address |-> a, outputStateTreeIndex |-> Number(0)] BY <1>5, Zenon DEF CloseMeta
<1>7. m.treeInfo = t /\ m.address = a /\ m.outputStateTreeIndex = Number(0) BY <1>6
<1>8. s = [merkleTreePubkeyIndex |-> Number(0), queuePubkeyIndex |-> q, leafIndex |-> Number(Leaf), rootIndex |-> Number(4)]
  BY <1>5, Zenon DEF StateTree
<1>9. \A n \in DOMAIN s : t[n] = s[n] BY <1>5, Merged
<1>10. /\ t.merkleTreePubkeyIndex = Number(0) /\ t.queuePubkeyIndex = q /\ t.leafIndex = Number(Leaf)
       /\ t.rootIndex = Number(4)
  BY <1>8, <1>9
<1> QED BY <1>1, <1>2, <1>4, <1>5, <1>7, <1>10, Zenon DEF ClosingInfo

LEMMA RawHash ==
    ASSUME NEW d, account = AccountOf(d)
    PROVE  RawAccount.hash = AddressOf(d)
<1>1. PICK a : a = account.address OBVIOUS
<1>2. a = AddressOf(d) BY <1>1, AccountFields
<1>3. RawAccount.hash = a BY <1>1 DEF RawAccount
<1> QED BY <1>2, <1>3

\* A close names the tree and the leaf that the attestation lies in, passes the data and the
\* address that were stored, and has that leaf proved, whichever the version of the indexer.
THEOREM ClosesTheStored == Spec => []ClosesWhatIsStored
<1>1. ASSUME IInv PROVE ClosesWhatIsStored
  <2>1. SUFFICES ASSUME account # Nil, call.ix = CloseIx
                 PROVE  /\ LET info == Got.args.accountMeta.treeInfo
                           IN  /\ TreeAt(Got.remaining, info.merkleTreePubkeyIndex) = Meta(account.tree, WRITABLE)
                               /\ TreeAt(Got.remaining, info.queuePubkeyIndex) \in
                                     {Meta(NULLIFIER_QUEUE_PUBKEY, WRITABLE), Meta(account.tree, WRITABLE)}
                               /\ TreeAt(Got.remaining, Got.args.accountMeta.outputStateTreeIndex)
                                  = Meta(MERKLE_TREE_PUBKEY, WRITABLE)
                               /\ info.leafIndex = Number(Leaf) /\ info.rootIndex = Number(4)
                               /\ Got.args.accountMeta.address = Spell(account.address)
                               /\ Got.args.currentData = serializeUniversalLayout(draft)
                        /\ \A version \in {V1, V2} :
                              MutationRequest(parseCompressedAccount(version, RawAccount)).hashes = <<RawAccount.hash>>
    BY Zenon DEF ClosesWhatIsStored, CloseIx
  <2>2. PICK d : DraftBehind(d) BY <1>1, <2>1, AccountHasDraft, Zenon
  <2>3. draft = d /\ account = AccountOf(d) /\ DraftFine(d) /\ FitsMode(d) BY <2>2, Zenon DEF DraftBehind
  <2>4. account.address = AddressOf(d) /\ account.tree = MERKLE_TREE_PUBKEY BY <2>3, AccountFields
  <2>5. PICK version \in {V1, V2} : ClosingState(d, version) BY <2>1, <2>2, Zenon DEF DraftBehind
  <2>6. Got = Received(CloseIx, CloseMessage(d, version)) BY <2>5, ClosingKnown, Zenon
  <2>7. PICK r : r = RemainingOf(ClosingTrees(version)) OBVIOUS
  <2>8. MeantBy(CloseIx, CloseGiven(d), CloseArgs(d, version), Received(CloseIx, CloseMessage(d, version)))
    BY <2>3, CloseAdmitted, Zenon
  <2>9. Got.args = CloseArgs(d, version) BY <2>6, <2>8, Zenon DEF MeantBy
  <2>10. Got.remaining = r BY <2>3, <2>6, <2>7, CloseAdmitted, Zenon
  <2>11. ClosingInfo(d, version, Got.args) BY <2>3, <2>9, ClosingInfoIs, Zenon
  <2>12. /\ TreeAt(r, Number(0)) = Meta(MERKLE_TREE_PUBKEY, WRITABLE)
         /\ TreeAt(r, Number(QueueIndex(version))) \in
              {Meta(NULLIFIER_QUEUE_PUBKEY, WRITABLE), Meta(MERKLE_TREE_PUBKEY, WRITABLE)}
    BY <2>7, ClosingTreesRead, Zenon
  <2>13. ASSUME NEW v \in {V1, V2}
         PROVE  MutationRequest(parseCompressedAccount(v, RawAccount)).hashes = <<RawAccount.hash>>
    <3>1. PICK c : c = parseCompressedAccount(v, RawAccount) OBVIOUS
    <3>2. CompressedAs(d, v, c) BY <2>3, <3>1, CompressedRead, Zenon
    <3>3. c.hash = createBN254(AddressOf(d)) BY <3>2, Zenon DEF CompressedAs
    <3>4. AskedFor(d) BY Requests, Zenon
    <3>5. MutationRequest(c).hashes = <<AddressOf(d)>> BY <3>3, <3>4, Zenon DEF AskedFor
    <3>6. RawAccount.hash = AddressOf(d) BY <2>3, RawHash, Zenon
    <3> QED BY <3>1, <3>5, <3>6
  <2>14. LET info == Got.args.accountMeta.treeInfo
         IN  /\ TreeAt(Got.remaining, info.merkleTreePubkeyIndex) = Meta(account.tree, WRITABLE)
             /\ TreeAt(Got.remaining, info.queuePubkeyIndex) \in
                   {Meta(NULLIFIER_QUEUE_PUBKEY, WRITABLE), Meta(account.tree, WRITABLE)}
             /\ TreeAt(Got.remaining, Got.args.accountMeta.outputStateTreeIndex) = Meta(MERKLE_TREE_PUBKEY, WRITABLE)
             /\ info.leafIndex = Number(Leaf) /\ info.rootIndex = Number(4)
             /\ Got.args.accountMeta.address = Spell(account.address)
             /\ Got.args.currentData = serializeUniversalLayout(draft)
    BY <2>3, <2>4, <2>10, <2>11, <2>12, Zenon DEF ClosingInfo
  <2> QED BY <2>13, <2>14, Zenon
<1> QED BY <1>1, Inductive, PTL

-----------------------------------------------------------------------------
(* The calls of the generated client are turned back for one cause only       *)

LEMMA AgentAtaIsOptional ==
    ASSUME NEW ix \in Instructions, NEW i \in 1..Len(AccountsOf(ix)), AccountsOf(ix)[i].name = "agentAta"
    PROVE  AccountsOf(ix)[i].optional
<1>1. CASE ix = "closeCompressedAttestation"
  <2>1. AccountsOf(ix) = CloseCompressedAccounts BY <1>1 DEF AccountsOf
  <2> QED BY <2>1 DEF CloseCompressedAccounts, Ro, Wr, Opt, Account
<1>2. CASE ix = "closeRegularAttestation"
  <2>1. AccountsOf(ix) = CloseRegularAccounts BY <1>2 DEF AccountsOf
  <2> QED BY <2>1 DEF CloseRegularAccounts, Ro, Wr, Opt, Account
<1>3. CASE ix = "createCompressedAttestation"
  <2>1. AccountsOf(ix) = CreateCompressedAccounts BY <1>3 DEF AccountsOf
  <2> QED BY <2>1 DEF CreateCompressedAccounts, Ro, Wr, Opt, Account
<1>4. CASE ix = "createRegularAttestation"
  <2>1. AccountsOf(ix) = CreateRegularAccounts BY <1>4 DEF AccountsOf
  <2> QED BY <2>1 DEF CreateRegularAccounts, Ro, Wr, Opt, Account
<1>5. CASE ix = "initialize"
  <2>1. AccountsOf(ix) = InitializeAccounts BY <1>5 DEF AccountsOf
  <2> QED BY <2>1 DEF InitializeAccounts, Ro, Wr, Opt, Account
<1>6. CASE ix = "linkEvmAddress"
  <2>1. AccountsOf(ix) = LinkEvmAccounts BY <1>6 DEF AccountsOf
  <2> QED BY <2>1 DEF LinkEvmAccounts, Ro, Wr, Opt, Account
<1>7. CASE ix = "registerAgent"
  <2>1. AccountsOf(ix) = RegisterAgentAccounts BY <1>7 DEF AccountsOf
  <2> QED BY <2>1 DEF RegisterAgentAccounts, Ro, Wr, Opt, Account
<1>8. CASE ix = "registerSchemaConfig"
  <2>1. AccountsOf(ix) = RegisterSchemaConfigAccounts BY <1>8 DEF AccountsOf
  <2> QED BY <2>1 DEF RegisterSchemaConfigAccounts, Ro, Wr, Opt, Account
<1>9. CASE ix = "updateRegistryAuthority"
  <2>1. AccountsOf(ix) = UpdateAuthorityAccounts BY <1>9 DEF AccountsOf
  <2> QED BY <2>1 DEF UpdateAuthorityAccounts, Ro, Wr, Opt, Account
<1> QED BY <1>1, <1>2, <1>3, <1>4, <1>5, <1>6, <1>7, <1>8, <1>9 DEF Instructions

\* What a generated call is, and what arrives of it.
Arrives(ix, style, extras, args) ==
    /\ Arrived(ix, Given(ix, style, extras), Defaults(ix, style, Given(ix, style, extras), args), args, <<>>,
               MessageFor(ix, style, extras, args))
    /\ ProperNames(ix, Given(ix, style, extras))

LEMMA GeneratedArrives ==
    ASSUME NEW ix \in Instructions, NEW style, NEW extras \in SUBSET Extras(ix), NEW args \in ArgsOf(ix)
    PROVE  Arrives(ix, style, extras, args)
<1>1. PICK g, m : g = Given(ix, style, extras) /\ m = MessageFor(ix, style, extras, args) OBVIOUS
<1>2. Proper(ix, style, g) BY <1>1, CalledIsProper, Zenon
<1>3. Fits(Struct(Params[ix]), args) BY ArgsFit, Zenon
<1>4. m = Sending(ix, style, g, args, <<>>) BY <1>1, Zenon DEF MessageFor
<1>5. PICK e : e = <<>> OBVIOUS
<1>6. Sequence(e)
  <2>1. e \in Seq({}) BY <1>5
  <2> QED BY <2>1, Zenon DEF Sequence
<1>7. Arrived(ix, g, Defaults(ix, style, g, args), args, e, m)
  BY <1>2, <1>3, <1>4, <1>5, <1>6, InstructionArrives, Zenon
<1>8. ProperNames(ix, g) BY <1>2, NamesProper, Zenon
<1> QED BY <1>1, <1>5, <1>7, <1>8, Zenon DEF Arrives

\* The accounts that a caller of the generated client gives, and the others.
CalledSeen(ix, style, extras, args, acc) ==
    /\ AllSeen(ix, acc, Given(ix, style, extras), Defaults(ix, style, Given(ix, style, extras), args))
    /\ DOMAIN acc = NamesOf(AccountsOf(ix))

LEMMA CalledIsSeen ==
    ASSUME NEW ix \in Instructions, NEW style, NEW extras \in SUBSET Extras(ix), NEW args \in ArgsOf(ix)
    PROVE  CalledSeen(ix, style, extras, args, Received(ix, MessageFor(ix, style, extras, args)).accounts)
<1>1. PICK m, g : m = MessageFor(ix, style, extras, args) /\ g = Given(ix, style, extras) OBVIOUS
<1>2. Arrives(ix, style, extras, args) BY GeneratedArrives, Zenon
<1>3. Arrived(ix, g, Defaults(ix, style, g, args), args, <<>>, m) /\ ProperNames(ix, g) BY <1>1, <1>2, Zenon DEF Arrives
<1>4. DOMAIN g \subseteq NamesOf(AccountsOf(ix)) BY <1>3, Zenon DEF ProperNames
<1>5. PICK D, e : D = Defaults(ix, style, g, args) /\ e = <<>> OBVIOUS
<1>6. Arrived(ix, g, D, args, e, m) BY <1>3, <1>5, Zenon
<1>7. AllSeen(ix, Received(ix, m).accounts, g, D) BY <1>4, <1>6, AllAreSeen, Zenon
<1>8. DOMAIN Received(ix, m).accounts = NamesOf(AccountsOf(ix)) BY <1>6, Zenon DEF Arrived
<1> QED BY <1>1, <1>5, <1>7, <1>8, Zenon DEF CalledSeen

LEMMA KnownSeen ==
    ASSUME NEW ix, NEW style, NEW extras, NEW args, NEW acc, CalledSeen(ix, style, extras, args, acc),
           NEW n \in DOMAIN Known, n \in Required(ix, style) \cup extras
    PROVE  acc[n] = Known[n]
<1>1. PICK g : g = Given(ix, style, extras) OBVIOUS
<1>2. DOMAIN g = Required(ix, style) \cup extras /\ g[n] = Value(ix, n) BY <1>1 DEF Given
<1>3. acc[n] = g[n].address BY <1>1, <1>2, Zenon DEF CalledSeen, AllSeen, GivenSeen
<1>4. Value(ix, n).address = Known[n] BY ValueIs
<1> QED BY <1>2, <1>3, <1>4

LEMMA DefaultSeen ==
    ASSUME NEW ix, NEW style, NEW extras, NEW args, NEW acc, CalledSeen(ix, style, extras, args, acc),
           NEW i \in 1..Len(AccountsOf(ix)), ~AccountsOf(ix)[i].optional, NEW n, n = AccountsOf(ix)[i].name,
           n \notin Required(ix, style), n \notin extras
    PROVE  acc[n] = Defaults(ix, style, Given(ix, style, extras), args)[n]
<1>1. PICK g : g = Given(ix, style, extras) OBVIOUS
<1>2. n \notin DOMAIN g BY <1>1 DEF Given
<1> QED BY <1>1, <1>2, Zenon DEF CalledSeen, AllSeen, DefaultsSeen

LEMMA CalledLoads ==
    ASSUME NEW ix \in Instructions, NEW style, NEW extras, NEW args, NEW acc,
           CalledSeen(ix, style, extras, args, acc)
    PROVE  CanLoad(acc)
<1>1. SUFFICES ASSUME "agentAta" \in DOMAIN acc
               PROVE  acc["agentAta"] = Absent \/ TokenAccountOwner(acc["agentAta"]) # Absent
  BY Zenon DEF CanLoad
<1>2. CASE "agentAta" \in Required(ix, style) \cup extras
  <2>1. "agentAta" \in DOMAIN Known /\ Known["agentAta"] = AgentAta BY DEF Known
  <2>2. acc["agentAta"] = AgentAta BY <1>2, <2>1, KnownSeen
  <2>3. Owner # Absent BY DEF Owner, Absent
  <2> QED BY <2>2, <2>3, Zenon DEF TokenAccountOwner
<1>3. CASE "agentAta" \notin Required(ix, style) \cup extras
  <2>1. "agentAta" \in NamesOf(AccountsOf(ix)) BY <1>1, Zenon DEF CalledSeen
  <2>2. PICK i \in 1..Len(AccountsOf(ix)) : AccountsOf(ix)[i].name = "agentAta" BY <2>1 DEF NamesOf
  <2>3. AccountsOf(ix)[i].optional BY <2>2, AgentAtaIsOptional
  <2>4. PICK g : g = Given(ix, style, extras) OBVIOUS
  <2>5. "agentAta" \notin DOMAIN g BY <1>3, <2>4 DEF Given
  <2>6. acc["agentAta"] = LeftOut("agentAta") BY <2>2, <2>3, <2>4, <2>5, Zenon DEF CalledSeen, AllSeen, LeftOutSeen
  <2>7. LeftOut("agentAta") = Absent BY DEF LeftOut
  <2> QED BY <2>6, <2>7
<1> QED BY <1>2, <1>3, Zenon

LEMMA KnownIs ==
    /\ Known["authority"] = RegistryAuthority /\ Known["owner"] = Owner /\ Known["agentMint"] = Mint
    /\ Known["groupMint"] = GroupMint /\ Known["agentTokenAccount"] = AgentAta /\ Known["ata"] = AgentAta
    /\ Known["agentIndex"] = Pda(SATI_PROGRAM_ADDRESS, <<"agent_index", ToString(TotalAgents + 1)>>)
    /\ Known["tokenProgram"] = Token2022Program /\ Known["schemaConfig"] = SchemaConfigPda
    /\ {"authority", "owner", "agentMint", "groupMint", "agentTokenAccount", "ata", "agentIndex", "tokenProgram",
        "schemaConfig"} \subseteq DOMAIN Known
BY DEF Known

LEMMA RequiredOfAttestations ==
    ASSUME NEW ix \in CreationCalls \cup ClosingCalls, NEW style
    PROVE  "schemaConfig" \in Required(ix, style)
<1>1. CASE ix = "createCompressedAttestation"
  BY <1>1 DEF Required, CreateCompressedInput, CreateCompressedAsyncInput
<1>2. CASE ix = "createRegularAttestation"
  BY <1>2 DEF Required, CreateRegularInput, CreateRegularAsyncInput
<1>3. CASE ix = "closeCompressedAttestation"
  BY <1>3 DEF Required, CloseCompressedInput, CloseCompressedAsyncInput
<1>4. CASE ix = "closeRegularAttestation"
  BY <1>4 DEF Required, CloseRegularInput, CloseRegularAsyncInput
<1> QED BY <1>1, <1>2, <1>3, <1>4 DEF CreationCalls, ClosingCalls

\* The schema configuration that is derived where none was given.
LEMMA SchemaConfigSeen ==
    ASSUME NEW style, NEW extras \in SUBSET Extras("registerSchemaConfig"),
           NEW args \in ArgsOf("registerSchemaConfig"), NEW acc,
           CalledSeen("registerSchemaConfig", style, extras, args, acc)
    PROVE  acc["schemaConfig"] = Pda(SATI_PROGRAM_ADDRESS, <<"schema_config">> \o args.sasSchema)
<1>1. args.sasSchema = SasSchema BY DEF ArgsOf
<1>2. Known["schemaConfig"] = Pda(SATI_PROGRAM_ADDRESS, <<"schema_config">> \o args.sasSchema)
  BY <1>1, KnownIs, Zenon DEF SchemaConfigPda
<1>3. CASE style # "async"
  <2>1. "schemaConfig" \in Required("registerSchemaConfig", style)
    BY <1>3 DEF Required, RegisterSchemaConfigInput, RegisterSchemaConfigAsyncInput
  <2> QED BY <1>2, <2>1, KnownIs, KnownSeen
<1>4. CASE style = "async"
  <2>1. PICK ix : ix = "registerSchemaConfig" OBVIOUS
  <2>2. "schemaConfig" \notin Required(ix, style)
    BY <1>4, <2>1 DEF Required, RegisterSchemaConfigInput, RegisterSchemaConfigAsyncInput
  <2>3. "schemaConfig" \notin extras
    <3>1. "registerSchemaConfig" \in Instructions BY DEF Instructions
    <3>2. Extras(ix) \subseteq Dispensable BY <2>1, <3>1, ExtrasAreKnown
    <3> QED BY <2>1, <3>2 DEF Dispensable
  <2>4. PICK A : A = AccountsOf(ix) OBVIOUS
  <2>5. A = RegisterSchemaConfigAccounts BY <2>1, <2>4 DEF AccountsOf
  <2>6. \E i \in 1..Len(A) : A[i].name = "schemaConfig" /\ ~A[i].optional
    BY <2>5 DEF RegisterSchemaConfigAccounts, Ro, Wr, Account
  <2>7. PICK i \in 1..Len(A) : A[i].name = "schemaConfig" /\ ~A[i].optional BY <2>6
  <2>8. PICK g : g = Given(ix, style, extras) OBVIOUS
  <2>9. acc["schemaConfig"] = Defaults(ix, style, g, args)["schemaConfig"]
    BY <2>1, <2>2, <2>3, <2>4, <2>7, <2>8, DefaultSeen
  <2>10. PICK p, q, r : p = RegistryPda(SATI_PROGRAM_ADDRESS) /\ q = SystemDefault /\ r = [schemaConfig |-> DefaultSchemaConfig(args)]
    OBVIOUS
  <2>11. Defaults(ix, style, g, args) = p ++ q ++ r BY <1>4, <2>1, <2>10 DEF Defaults
  <2>12. "schemaConfig" \notin DOMAIN p /\ "schemaConfig" \notin DOMAIN q
    BY <2>10 DEF RegistryPda, SystemDefault
  <2>13. "schemaConfig" \notin DOMAIN (p ++ q) BY <2>12, Merged, Zenon
  <2>14. PICK pq : pq = p ++ q OBVIOUS
  <2>15. "schemaConfig" \in DOMAIN r /\ r["schemaConfig"] = DefaultSchemaConfig(args) BY <2>10
  <2>16. (pq ++ r)["schemaConfig"] = r["schemaConfig"] BY <2>13, <2>14, <2>15 DEF ++
  <2> QED BY <2>9, <2>11, <2>14, <2>15, <2>16, Zenon DEF DefaultSchemaConfig
<1> QED BY <1>3, <1>4

\* The token account that is derived where none was given.
LEMMA AtaSeen ==
    ASSUME NEW style, NEW extras \in SUBSET Extras("linkEvmAddress"), "tokenProgram" \in extras,
           NEW args, NEW acc, CalledSeen("linkEvmAddress", style, extras, args, acc)
    PROVE  acc["ata"] = AgentAta
<1>1. CASE style # "async"
  <2>1. "ata" \in Required("linkEvmAddress", style) BY <1>1 DEF Required, LinkEvmInput, LinkEvmAsyncInput
  <2> QED BY <2>1, KnownIs, KnownSeen
<1>2. CASE style = "async"
  <2>1. PICK ix : ix = "linkEvmAddress" OBVIOUS
  <2>2. Required(ix, style) = {"owner", "agentMint"} BY <1>2, <2>1 DEF Required, LinkEvmInput, LinkEvmAsyncInput
  <2>3. "ata" \notin extras
    <3>1. "linkEvmAddress" \in Instructions BY DEF Instructions
    <3>2. Extras(ix) \subseteq Dispensable BY <2>1, <3>1, ExtrasAreKnown
    <3> QED BY <2>1, <3>2 DEF Dispensable
  <2>4. PICK A : A = AccountsOf(ix) OBVIOUS
  <2>5. A = LinkEvmAccounts BY <2>1, <2>4 DEF AccountsOf
  <2>6. \E i \in 1..Len(A) : A[i].name = "ata" /\ ~A[i].optional
    BY <2>5 DEF LinkEvmAccounts, Ro, Wr, Account
  <2>7. PICK i \in 1..Len(A) : A[i].name = "ata" /\ ~A[i].optional BY <2>6
  <2>8. PICK g : g = Given(ix, style, extras) OBVIOUS
  <2>9. acc["ata"] = Defaults(ix, style, g, args)["ata"]
    BY <2>1, <2>2, <2>3, <2>4, <2>7, <2>8, DefaultSeen
  <2>10. PICK p, r : p = LinkEvmConstants /\ r = [ata |-> DefaultAta(g)] OBVIOUS
  <2>11. Defaults(ix, style, g, args) = p ++ r BY <1>2, <2>1, <2>10 DEF Defaults
  <2>12. "ata" \notin DOMAIN p BY <2>10 DEF LinkEvmConstants
  <2>13. "ata" \in DOMAIN r /\ r["ata"] = DefaultAta(g) BY <2>10
  <2>14. (p ++ r)["ata"] = DefaultAta(g) BY <2>12, <2>13 DEF ++
  <2>15. DOMAIN g = Required(ix, style) \cup extras /\ \A n \in DOMAIN g : g[n] = Value(ix, n) BY <2>8 DEF Given
  <2>16. PICK t : t = [tokenProgram |-> Plain(TokenProgram)] OBVIOUS
  <2>17. \A n \in DOMAIN g : (g ++ t)[n] = Value(ix, n) BY <2>15, Merged
  <2>18. {"owner", "agentMint", "tokenProgram"} \subseteq DOMAIN g BY <2>2, <2>15
  <2>19. /\ (g ++ t)["owner"].address = Owner /\ (g ++ t)["agentMint"].address = Mint
         /\ (g ++ t)["tokenProgram"].address = Token2022Program
    BY <2>17, <2>18, KnownIs, ValueIs
  <2>20. DefaultAta(g) = AgentAta BY <2>16, <2>19, Zenon DEF DefaultAta, AgentAta
  <2> QED BY <2>9, <2>11, <2>14, <2>20
<1> QED BY <1>1, <1>2

\* What a caller of the generated client gives meets the program's constraints.
LEMMA CalledMeets ==
    ASSUME NEW ix \in Instructions, NEW style, NEW extras \in SUBSET Extras(ix), NEW args \in ArgsOf(ix), NEW acc,
           CalledSeen(ix, style, extras, args, acc), ix = "linkEvmAddress" => "tokenProgram" \in extras
    PROVE  Meets(ix, acc, args)
<1>1. CASE ix = "registerAgent"
  <2>1. {"owner", "groupMint", "agentMint", "agentTokenAccount", "agentIndex"} \subseteq Required(ix, style)
    BY <1>1 DEF Required, RegisterAgentInput, RegisterAgentAsyncInput
  <2>2. /\ acc["groupMint"] = GroupMint /\ acc["owner"] = Owner /\ acc["agentMint"] = Mint
        /\ acc["agentTokenAccount"] = AgentAta
        /\ acc["agentIndex"] = Pda(SATI_PROGRAM_ADDRESS, <<"agent_index", ToString(TotalAgents + 1)>>)
    BY <2>1, KnownIs, KnownSeen
  <2>3. acc["agentTokenAccount"] = Ata(acc["owner"], Token2022Program, acc["agentMint"])
    BY <2>2, Zenon DEF AgentAta
  <2> QED BY <1>1, <2>2, <2>3 DEF Meets
<1>2. CASE ix = "updateRegistryAuthority"
  <2>1. "authority" \in Required(ix, style) BY <1>2 DEF Required, UpdateAuthorityInput, UpdateAuthorityAsyncInput
  <2>2. acc["authority"] = RegistryAuthority BY <2>1, KnownIs, KnownSeen
  <2> QED BY <1>2, <2>2 DEF Meets
<1>3. CASE ix = "registerSchemaConfig"
  <2>1. "authority" \in Required(ix, style)
    BY <1>3 DEF Required, RegisterSchemaConfigInput, RegisterSchemaConfigAsyncInput
  <2>2. acc["authority"] = RegistryAuthority BY <2>1, KnownIs, KnownSeen
  <2>3. acc["schemaConfig"] = Pda(SATI_PROGRAM_ADDRESS, <<"schema_config">> \o args.sasSchema)
    BY <1>3, SchemaConfigSeen
  <2> QED BY <1>3, <2>2, <2>3 DEF Meets
<1>4. CASE ix = "linkEvmAddress"
  <2>1. {"owner", "agentMint"} \subseteq Required(ix, style) BY <1>4 DEF Required, LinkEvmInput, LinkEvmAsyncInput
  <2>2. "tokenProgram" \in extras BY <1>4
  <2>3. acc["owner"] = Owner /\ acc["agentMint"] = Mint BY <2>1, KnownIs, KnownSeen
  <2>4. acc["tokenProgram"] = Token2022Program BY <2>2, KnownIs, KnownSeen
  <2>5. acc["ata"] = AgentAta BY <1>4, <2>2, AtaSeen
  <2>6. acc["ata"] = Ata(acc["owner"], acc["tokenProgram"], acc["agentMint"]) BY <2>3, <2>4, <2>5, Zenon DEF AgentAta
  <2> QED BY <1>4, <2>4, <2>6 DEF Meets
<1>5. CASE ix \in CreationCalls \cup ClosingCalls
  <2>1. acc["schemaConfig"] = SchemaConfigPda BY <1>5, RequiredOfAttestations, KnownIs, KnownSeen
  <2> QED BY <1>5, <2>1 DEF Meets, CreationCalls, ClosingCalls
<1>6. CASE ix = "initialize" BY <1>6 DEF Meets
<1> QED BY <1>1, <1>2, <1>3, <1>4, <1>5, <1>6 DEF Instructions, CreationCalls, ClosingCalls

\* Anchor turns a generated call back if it links to an address and names no token program.
LEMMA TurnedBackFor ==
    ASSUME NEW ix \in Instructions, NEW style, NEW extras \in SUBSET Extras(ix), NEW args \in ArgsOf(ix),
           TurnedBack(ix, MessageFor(ix, style, extras, args))
    PROVE  ix = "linkEvmAddress" /\ "tokenProgram" \notin DOMAIN Given(ix, style, extras)
<1>1. PICK g, m : g = Given(ix, style, extras) /\ m = MessageFor(ix, style, extras, args) OBVIOUS
<1>2. PICK acc : acc = Received(ix, m).accounts OBVIOUS
<1>3. CalledSeen(ix, style, extras, args, acc) BY <1>1, <1>2, CalledIsSeen, Zenon
<1>4. CanLoad(acc) BY <1>3, CalledLoads, Zenon
<1>5. ~Admitted(ix, m) BY <1>1, <1>2, <1>4, Zenon DEF TurnedBack
<1>6. Arrives(ix, style, extras, args) BY GeneratedArrives, Zenon
<1>7. PICK D, e : D = Defaults(ix, style, g, args) /\ e = <<>> OBVIOUS
<1>8. Arrived(ix, g, D, args, e, m) BY <1>1, <1>6, <1>7, Zenon DEF Arrives
<1>9. ~Meets(ix, acc, args) BY <1>2, <1>5, <1>8, AdmittedIf, Zenon
<1>10. ix = "linkEvmAddress" /\ "tokenProgram" \notin extras BY <1>3, <1>9, CalledMeets, Zenon
<1>11. DOMAIN g = Required(ix, style) \cup extras BY <1>1 DEF Given
<1>12. "tokenProgram" \notin Required(ix, style) BY <1>10 DEF Required, LinkEvmInput, LinkEvmAsyncInput
<1> QED BY <1>1, <1>10, <1>11, <1>12

\* What is known of a generated call's state.
KnownCall(ix, style, args, given, message) ==
    /\ draft = Nil /\ account = Nil /\ call.ix = ix /\ call.style = style
    /\ call.given = given /\ call.args = args /\ sent.instruction = message
    /\ Got = Received(ix, message) /\ BecameOf(ix, message, outcome)
LEMMA GeneratedKnown ==
    ASSUME NEW ix, NEW style, NEW extras, NEW args, GeneratedState(ix, style, extras, args)
    PROVE  KnownCall(ix, style, args, Given(ix, style, extras), MessageFor(ix, style, extras, args))
<1>1. PICK m, g : m = MessageFor(ix, style, extras, args) /\ g = Given(ix, style, extras) OBVIOUS
<1>2. /\ draft = Nil /\ account = Nil /\ call = CallFor(ix, style, extras, args)
      /\ sent = SentFor(ix, style, extras, args) /\ BecameOf(ix, m, outcome)
  BY <1>1, Zenon DEF GeneratedState
<1>3. call.ix = ix /\ call.style = style /\ call.given = g /\ call.args = args BY <1>1, <1>2, CallFields DEF CallFor
<1>4. sent.instruction = m BY <1>1, <1>2, SentFields DEF SentFor
<1>5. Got = Received(ix, m) BY <1>3, <1>4, Zenon DEF Got
<1>6. KnownCall(ix, style, args, g, m) BY <1>2, <1>3, <1>4, <1>5, Zenon DEF KnownCall
<1> QED BY <1>1, <1>6

\* The handler gets each account in the field the caller named it for, and the arguments the
\* caller gave, whichever builder was used and whatever was left out.
THEOREM ArriveAsMeant == Spec => []ArrivesAsMeant
<1>1. ASSUME IInv PROVE ArrivesAsMeant
  <2>1. SUFFICES ASSUME sent # Nil PROVE MeantBy(call.ix, call.given, call.args, Got)
    BY Zenon DEF ArrivesAsMeant, MeantBy
  <2>2. CASE Idle BY <2>1, <2>2, Zenon DEF Idle
  <2>3. CASE Generated
    <3>1. PICK ix \in Instructions, style \in {"async", "sync"} :
            \E extras \in SUBSET Extras(ix), args \in ArgsOf(ix) : GeneratedState(ix, style, extras, args)
      BY <2>3, Zenon DEF Generated
    <3>2. PICK extras \in SUBSET Extras(ix), args \in ArgsOf(ix) : GeneratedState(ix, style, extras, args)
      BY <3>1, Zenon
    <3>3. PICK m, g : m = MessageFor(ix, style, extras, args) /\ g = Given(ix, style, extras) OBVIOUS
    <3>9. KnownCall(ix, style, args, g, m) BY <3>2, <3>3, GeneratedKnown, Zenon
    <3>4. call.ix = ix /\ call.given = g /\ call.args = args /\ Got = Received(ix, m)
      BY <3>9, Zenon DEF KnownCall
    <3>5. Arrives(ix, style, extras, args) BY GeneratedArrives, Zenon
    <3>6. PICK D, e : D = Defaults(ix, style, g, args) /\ e = <<>> OBVIOUS
    <3>7. Arrived(ix, g, D, args, e, m) /\ DOMAIN g \subseteq NamesOf(AccountsOf(ix))
      BY <3>3, <3>5, <3>6, Zenon DEF Arrives, ProperNames
    <3>8. MeantBy(ix, g, args, Received(ix, m)) BY <3>7, MeantIs, Zenon
    <3> QED BY <3>4, <3>8
  <2>4. CASE Feedback
    <3>1. PICK d \in Drafts, batched \in BOOLEAN : FitsMode(d) /\ FeedbackState(d, batched)
      BY <2>4, Zenon DEF Feedback
    <3>2. DraftFine(d) BY DraftsAre, Zenon
    <3>3. call = FeedbackCall(d) /\ Got = Received(CreateIx, FeedbackMessage(d)) BY <3>1, FeedbackKnown, Zenon
    <3>4. call.ix = CreateIx /\ call.given = FeedbackGiven(d) /\ call.args = FeedbackArgs(d)
      BY <3>3, CallFields DEF FeedbackCall, CreateIx
    <3>5. MeantBy(CreateIx, FeedbackGiven(d), FeedbackArgs(d), Received(CreateIx, FeedbackMessage(d)))
      BY <3>1, <3>2, FeedbackAdmitted, Zenon
    <3> QED BY <3>3, <3>4, <3>5
  <2>5. CASE Closed
    <3>1. PICK d \in Drafts, version \in {V1, V2} : FitsMode(d) /\ ClosingState(d, version)
      BY <2>5, Zenon DEF Closed
    <3>2. DraftFine(d) BY DraftsAre, Zenon
    <3>3. call = CloseCall(d, version) /\ Got = Received(CloseIx, CloseMessage(d, version))
      BY <3>1, ClosingKnown, Zenon
    <3>4. call.ix = CloseIx /\ call.given = CloseGiven(d) /\ call.args = CloseArgs(d, version)
      BY <3>3, CallFields DEF CloseCall, CloseIx
    <3>5. MeantBy(CloseIx, CloseGiven(d), CloseArgs(d, version), Received(CloseIx, CloseMessage(d, version)))
      BY <3>1, <3>2, CloseAdmitted, Zenon
    <3> QED BY <3>3, <3>4, <3>5
  <2> QED BY <1>1, <2>2, <2>3, <2>4, <2>5, Zenon DEF IInv
<1> QED BY <1>1, Inductive, PTL

LEMMA HandlersDoNotReject ==
    ASSUME NEW ix, NEW got, NEW o, ExecutedAs(ix, got, o)
    PROVE  o # Rejected /\ o # Nil
<1>1. CASE ix \in RegistryCalls /\ o = Effect(ix, got)
  <2>1. ix = "initialize" \/ ix = "registerAgent" \/ ix = "updateRegistryAuthority" \/ ix = "registerSchemaConfig"
    BY <1>1 DEF RegistryCalls
  <2>2. PICK s, e : Effect(ix, got) = Wrote(s, e) BY <2>1 DEF Effect
  <2>3. Wrote(s, e) # Rejected /\ Wrote(s, e) # Nil BY Statuses, SMT
  <2> QED BY <1>1, <2>2, <2>3
<1>2. CASE o = LinkOutcome(got)
  <2>1. PICK w : w = Wrote(NoState, EvmAddressLinkedEvent(got)) OBVIOUS
  <2>2. w # Rejected /\ w # Nil BY <2>1, Statuses, SMT
  <2>3. LinkOutcome(got) = w \/ LinkOutcome(got) = Refused BY <2>1, Zenon DEF LinkOutcome
  <2>4. Refused # Rejected /\ Refused # Nil BY Statuses, Zenon
  <2> QED BY <1>2, <2>2, <2>3, <2>4
<1>3. CASE o = DataOutcome(got) BY <1>3, Statuses, Zenon DEF DataOutcome
<1>4. CASE o = AdmittedOnly BY <1>4, Statuses, Zenon
<1> QED BY <1>1, <1>2, <1>3, <1>4, Zenon DEF ExecutedAs

\* Anchor turns back only a link to an EVM address without a token program, and an attestation
\* whose first signer holds no token of the agent.
THEOREM RejectForCause == Spec => []RejectedForCause
<1>1. ASSUME IInv PROVE RejectedForCause
  <2>1. SUFFICES ASSUME outcome = Rejected
                 PROVE  \/ call.ix = "linkEvmAddress" /\ "tokenProgram" \notin DOMAIN call.given
                        \/ draft # Nil /\ FirstSigner(draft) # Owner
    BY Zenon DEF RejectedForCause
  <2>2. CASE Idle BY <2>1, <2>2, Statuses, Zenon DEF Idle
  <2>3. CASE Generated
    <3>1. PICK ix \in Instructions, style \in {"async", "sync"} :
            \E extras \in SUBSET Extras(ix), args \in ArgsOf(ix) : GeneratedState(ix, style, extras, args)
      BY <2>3, Zenon DEF Generated
    <3>2. PICK extras \in SUBSET Extras(ix), args \in ArgsOf(ix) : GeneratedState(ix, style, extras, args)
      BY <3>1, Zenon
    <3>3. PICK m, g : m = MessageFor(ix, style, extras, args) /\ g = Given(ix, style, extras) OBVIOUS
    <3>9. KnownCall(ix, style, args, g, m) BY <3>2, <3>3, GeneratedKnown, Zenon
    <3>4. call.ix = ix /\ call.given = g /\ BecameOf(ix, m, outcome) BY <3>9, Zenon DEF KnownCall
    <3>5. TurnedBack(ix, m) BY <2>1, <3>4, HandlersDoNotReject, Statuses, Zenon DEF BecameOf
    <3>6. ix = "linkEvmAddress" /\ "tokenProgram" \notin DOMAIN g BY <3>3, <3>5, TurnedBackFor, Zenon
    <3> QED BY <3>4, <3>6
  <2>4. CASE Feedback
    <3>1. PICK d \in Drafts, batched \in BOOLEAN : FitsMode(d) /\ FeedbackState(d, batched)
      BY <2>4, Zenon DEF Feedback
    <3>2. draft = d /\ d # Nil BY <3>1, DraftsAre, DraftIsNot, FeedbackKnown, Zenon
    <3>3. CreatedOutcome(d) # Rejected BY Statuses, SMT DEF CreatedOutcome
    <3>4. FirstSigner(d) # Owner BY <2>1, <3>1, <3>3, Statuses, Zenon DEF FeedbackState
    <3> QED BY <3>2, <3>4
  <2>5. CASE Closed BY <2>1, <2>5, Statuses, Zenon DEF Closed, ClosingState
  <2> QED BY <1>1, <2>2, <2>3, <2>4, <2>5, Zenon DEF IInv
<1> QED BY <1>1, Inductive, PTL

\* The check of the data on both sides is the same.
LEMMA SameCheck ==
    ASSUME NEW data, Sequence(data)
    PROVE  validate_universal_base(data) <=> validateBaseLayout(data)
<1>1. PICK n : n = Len(data) OBVIOUS
<1>2. n \in Nat BY <1>1, Length
<1>3. MIN_BASE_LAYOUT_SIZE = 131 /\ MAX_CONTENT_SIZE = 512 /\ MAX_ATTESTATION_DATA_SIZE = 768
  BY DEF MIN_BASE_LAYOUT_SIZE, MAX_CONTENT_SIZE, MAX_ATTESTATION_DATA_SIZE
<1>4. OFFSETS = ProgramOffsets /\ OFFSETS.CONTENT = 131 BY DEF OFFSETS, ProgramOffsets
<1>5. n >= MIN_BASE_LAYOUT_SIZE /\ n - OFFSETS.CONTENT <= MAX_CONTENT_SIZE
      <=> n \in MIN_BASE_LAYOUT_SIZE..MAX_ATTESTATION_DATA_SIZE /\ n - OFFSETS.CONTENT <= MAX_CONTENT_SIZE
  BY <1>2, <1>3, <1>4
<1> QED BY <1>1, <1>4, <1>5, Zenon DEF validate_universal_base, validateBaseLayout

\* The program's verdict on what a caller signs and sends.
LEMMA LinkJudged ==
    ASSUME NEW style, NEW extras \in SUBSET Extras("linkEvmAddress"), NEW args \in ArgsOf("linkEvmAddress"),
           NEW got, CalledSeen("linkEvmAddress", style, extras, args, got.accounts), got.args = args
    PROVE  LinkOutcome(got) = Refused <=>
             \/ args.signature # EvmSignature(<<"evm">>, computeEvmLinkHash(Mint, <<"evm">>, <<"chain">>))
             \/ args.recoveryId # Number(0)
<1>1. args.evmAddress = <<"evm">> /\ args.chainId = <<"chain">> BY DEF ArgsOf
<1>2. "agentMint" \in Required("linkEvmAddress", style) BY DEF Required, LinkEvmInput, LinkEvmAsyncInput
<1>3. PICK acc : acc = got.accounts OBVIOUS
<1>4. acc["agentMint"] = Mint BY <1>2, <1>3, KnownIs, KnownSeen
<1>5. got.accounts.agentMint = Mint BY <1>3, <1>4
<1>6. compute_evm_link_hash(Mint, <<"evm">>, <<"chain">>) = computeEvmLinkHash(Mint, <<"evm">>, <<"chain">>)
  BY Zenon DEF compute_evm_link_hash, computeEvmLinkHash
<1>7. PICK h : h = computeEvmLinkHash(Mint, <<"evm">>, <<"chain">>) OBVIOUS
<1>8. compute_evm_link_hash(got.accounts.agentMint, got.args.evmAddress, got.args.chainId) = h
  BY <1>1, <1>5, <1>6, <1>7
<1>9. PICK w : w = Wrote(NoState, EvmAddressLinkedEvent(got)) OBVIOUS
<1>10. w # Refused BY <1>9, Statuses, Zenon
<1>11. PICK e, s, r : e = <<"evm">> /\ s = args.signature /\ r = args.recoveryId OBVIOUS
<1>12. got.args.evmAddress = e /\ got.args.signature = s /\ got.args.recoveryId = r BY <1>1, <1>11
<1>13. LinkOutcome(got) = IF verify_secp256k1_signature(h, s, r, e) THEN w ELSE Refused
  BY <1>8, <1>9, <1>12, Zenon DEF LinkOutcome
<1>14. verify_secp256k1_signature(h, s, r, e) <=> s = EvmSignature(e, h) /\ r = Number(0)
  BY Zenon DEF verify_secp256k1_signature
<1> QED BY <1>7, <1>10, <1>11, <1>13, <1>14

LEMMA DataJudged ==
    ASSUME NEW ix \in CreationCalls, NEW args \in ArgsOf(ix), NEW got, got.args = args
    PROVE  DataOutcome(got) = Refused <=> ~validateBaseLayout(args.data)
<1>1. args.data \in Datas BY DEF ArgsOf, CreationCalls
<1>2. PICK data : data = args.data OBVIOUS
<1>3. Sequence(data) BY <1>1, <1>2, DatasAre
<1>4. validate_universal_base(data) <=> validateBaseLayout(data) BY <1>3, SameCheck, Zenon
<1>5. got.args.data = data BY <1>2
<1>6. Refused # AdmittedOnly BY Statuses, Zenon
<1>7. DataOutcome(got) = IF validate_universal_base(data) THEN AdmittedOnly ELSE Refused
  BY <1>5, Zenon DEF DataOutcome
<1> QED BY <1>2, <1>4, <1>6, <1>7

\* What is wrong with a generated call, and with a draft.
UnsoundCall(ix, args) ==
    IF ix = "linkEvmAddress"
    THEN args.signature # EvmSignature(<<"evm">>, computeEvmLinkHash(Mint, <<"evm">>, <<"chain">>))
         \/ args.recoveryId # Number(0)
    ELSE ix \in CreationCalls /\ ~validateBaseLayout(args.data)

LEMMA CallJudged ==
    ASSUME NEW ix \in Instructions, NEW style, NEW extras \in SUBSET Extras(ix), NEW args \in ArgsOf(ix),
           NEW o, ExecutedAs(ix, Received(ix, MessageFor(ix, style, extras, args)), o)
    PROVE  o = Refused <=> UnsoundCall(ix, args)
<1>1. PICK m, g : m = MessageFor(ix, style, extras, args) /\ g = Given(ix, style, extras) OBVIOUS
<1>2. PICK got : got = Received(ix, m) OBVIOUS
<1>3. ExecutedAs(ix, got, o) BY <1>1, <1>2, Zenon
<1>4. CalledSeen(ix, style, extras, args, got.accounts) BY <1>1, <1>2, CalledIsSeen, Zenon
<1>5. PICK D, e : D = Defaults(ix, style, g, args) /\ e = <<>> OBVIOUS
<1>6. Arrives(ix, style, extras, args) BY GeneratedArrives, Zenon
<1>7. Arrived(ix, g, D, args, e, m) /\ DOMAIN g \subseteq NamesOf(AccountsOf(ix))
  BY <1>1, <1>5, <1>6, Zenon DEF Arrives, ProperNames
<1>8. MeantBy(ix, g, args, Received(ix, m)) BY <1>7, MeantIs, Zenon
<1>9. got.args = args BY <1>2, <1>8, Zenon DEF MeantBy
<1>10. CASE ix \in RegistryCalls
  <2>1. ix = "initialize" \/ ix = "registerAgent" \/ ix = "updateRegistryAuthority" \/ ix = "registerSchemaConfig"
    BY <1>10 DEF RegistryCalls
  <2>2. PICK s, v : Effect(ix, got) = Wrote(s, v) BY <2>1 DEF Effect
  <2>3. Wrote(s, v) # Refused BY Statuses, SMT
  <2>4. o = Effect(ix, got) BY <1>3, <2>1, Zenon DEF ExecutedAs, CreationCalls, ClosingCalls
  <2>5. ix # "linkEvmAddress" /\ ix \notin CreationCalls BY <2>1 DEF CreationCalls
  <2> QED BY <2>2, <2>3, <2>4, <2>5 DEF UnsoundCall
<1>11. CASE ix = "linkEvmAddress"
  <2>1. o = LinkOutcome(got)
    BY <1>3, <1>11 DEF ExecutedAs, RegistryCalls, CreationCalls, ClosingCalls
  <2>2. LinkOutcome(got) = Refused <=>
             \/ args.signature # EvmSignature(<<"evm">>, computeEvmLinkHash(Mint, <<"evm">>, <<"chain">>))
             \/ args.recoveryId # Number(0)
    BY <1>4, <1>9, <1>11, LinkJudged, Zenon
  <2> QED BY <1>11, <2>1, <2>2, Zenon DEF UnsoundCall
<1>12. CASE ix \in CreationCalls
  <2>1. o = DataOutcome(got) /\ ix # "linkEvmAddress"
    BY <1>3, <1>12 DEF ExecutedAs, RegistryCalls, CreationCalls, ClosingCalls
  <2>2. DataOutcome(got) = Refused <=> ~validateBaseLayout(args.data) BY <1>9, <1>12, DataJudged, Zenon
  <2> QED BY <1>12, <2>1, <2>2, Zenon DEF UnsoundCall
<1>13. CASE ix \in ClosingCalls
  <2>1. o = AdmittedOnly /\ ix # "linkEvmAddress" /\ ix \notin CreationCalls
    BY <1>3, <1>13 DEF ExecutedAs, RegistryCalls, CreationCalls, ClosingCalls
  <2> QED BY <2>1, Statuses, Zenon DEF UnsoundCall
<1> QED BY <1>10, <1>11, <1>12, <1>13 DEF Instructions, RegistryCalls, CreationCalls, ClosingCalls

LEMMA UnsoundIs ==
    /\ draft = Nil => (Unsound <=> UnsoundCall(call.ix, call.args))
    /\ draft # Nil => (Unsound <=> Flawed(draft))
<1>1. ASSUME draft = Nil PROVE Unsound <=> UnsoundCall(call.ix, call.args)
  BY <1>1, Zenon DEF Unsound, UnsoundCall, CreationCalls
<1>2. ASSUME draft # Nil PROVE Unsound <=> Flawed(draft)
  <2>1. PICK c : c = draft.contentType OBVIOUS
  <2>2. Textual(c) <=> c \in {JSON, UTF8} BY Zenon DEF Textual
  <2> QED BY <1>2, <2>1, <2>2, Zenon DEF Unsound, Flawed, Misread
<1> QED BY <1>1, <1>2, Zenon

\* A handler refuses what the SDK laid out, hashed, signed and packed for one key in two
\* roles, for text the two sides display differently, for a wrong Ethereum signature and for
\* data the SDK's own check would have stopped: for each of these, and for nothing else.
THEOREM RefuseForCause == Spec => []RefusedForCause
<1>1. ASSUME IInv PROVE RefusedForCause
  <2>1. SUFFICES ASSUME sent # Nil, outcome # Nil, outcome.status \in {"refused", "admitted", "written"}
                 PROVE  outcome = Refused <=> Unsound
    BY Zenon DEF RefusedForCause
  <2>2. Rejected.status \notin {"refused", "admitted", "written"} /\ Threw.status \notin {"refused", "admitted", "written"}
    <3>1. Rejected.status = "rejected" /\ Threw.status = "threw" BY Statuses, Zenon
    <3> QED BY <3>1
  <2>3. outcome # Rejected /\ outcome # Threw BY <2>1, <2>2
  <2>4. CASE Idle BY <2>1, <2>4, Zenon DEF Idle
  <2>5. CASE Generated
    <3>1. PICK ix \in Instructions, style \in {"async", "sync"} :
            \E extras \in SUBSET Extras(ix), args \in ArgsOf(ix) : GeneratedState(ix, style, extras, args)
      BY <2>5, Zenon DEF Generated
    <3>2. PICK extras \in SUBSET Extras(ix), args \in ArgsOf(ix) : GeneratedState(ix, style, extras, args)
      BY <3>1, Zenon
    <3>3. PICK m, g : m = MessageFor(ix, style, extras, args) /\ g = Given(ix, style, extras) OBVIOUS
    <3>4. KnownCall(ix, style, args, g, m) BY <3>2, <3>3, GeneratedKnown, Zenon
    <3>5. draft = Nil /\ call.ix = ix /\ call.args = args /\ BecameOf(ix, m, outcome)
      BY <3>4, Zenon DEF KnownCall
    <3>6. ExecutedAs(ix, Received(ix, m), outcome) BY <2>1, <2>3, <3>5, Zenon DEF BecameOf
    <3>7. outcome = Refused <=> UnsoundCall(ix, args) BY <3>3, <3>6, CallJudged, Zenon
    <3> QED BY <3>5, <3>7, UnsoundIs
  <2>6. CASE Feedback
    <3>1. PICK d \in Drafts, batched \in BOOLEAN : FitsMode(d) /\ FeedbackState(d, batched)
      BY <2>6, Zenon DEF Feedback
    <3>2. draft = d /\ d # Nil BY <3>1, DraftsAre, DraftIsNot, FeedbackKnown, Zenon
    <3>3. CreatedOutcome(d) # Refused BY Statuses, SMT DEF CreatedOutcome
    <3>4. (outcome = Refused /\ Flawed(d)) \/ (outcome = CreatedOutcome(d) /\ ~Flawed(d))
      BY <2>1, <2>3, <3>1, Zenon DEF FeedbackState
    <3> QED BY <3>2, <3>3, <3>4, UnsoundIs
  <2>7. CASE Closed
    <3>1. PICK d \in Drafts, version \in {V1, V2} : FitsMode(d) /\ ClosingState(d, version)
      BY <2>7, Zenon DEF Closed
    <3>2. draft = d /\ d # Nil BY <3>1, DraftsAre, DraftIsNot, ClosingKnown, Zenon
    <3>3. outcome = AdmittedOnly /\ ~Flawed(d) BY <2>1, <3>1, Zenon DEF ClosingState
    <3>4. outcome # Refused BY <3>3, Statuses
    <3> QED BY <3>2, <3>3, <3>4, UnsoundIs
  <2> QED BY <1>1, <2>4, <2>5, <2>6, <2>7, Zenon DEF IInv
<1> QED BY <1>1, Inductive, PTL

-----------------------------------------------------------------------------
(* The lookup table                                                         *)

Holds(s, x) == \E i \in DOMAIN s : s[i] = x

LEMMA JoinedLists ==
    ASSUME NEW s, NEW t, Sequence(s), Sequence(t)
    PROVE  Sequence(s \o t) /\ \A x : Holds(s, x) \/ Holds(t, x) => Holds(s \o t, x)
<1>1. PICK u, m, n : u = s \o t /\ m = Len(s) /\ n = Len(t) OBVIOUS
<1>a. Joined(u, s, t) BY <1>1, Joining, Zenon
<1>2. Sequence(u) /\ Len(u) = m + n BY <1>1, <1>a, Zenon DEF Joined
<1>3. \A i \in 1..m : u[i] = s[i] BY <1>1, <1>a, Zenon DEF Joined
<1>4. \A i \in 1..n : u[m + i] = t[i] BY <1>1, <1>a, Zenon DEF Joined
<1>5. m \in Nat /\ n \in Nat /\ DOMAIN s = 1..m /\ DOMAIN t = 1..n /\ DOMAIN u = 1..(m + n)
  BY <1>1, <1>2, Length
<1>6. ASSUME NEW x, Holds(s, x) PROVE Holds(u, x)
  <2>1. PICK i \in 1..m : s[i] = x BY <1>5, <1>6, Zenon DEF Holds
  <2>2. i \in 1..(m + n) BY <1>5
  <2> QED BY <1>3, <1>5, <2>1, <2>2, Zenon DEF Holds
<1>7. ASSUME NEW x, Holds(t, x) PROVE Holds(u, x)
  <2>1. PICK i \in 1..n : t[i] = x BY <1>5, <1>7, Zenon DEF Holds
  <2>2. m + i \in 1..(m + n) BY <1>5
  <2> QED BY <1>4, <1>5, <2>1, <2>2, Zenon DEF Holds
<1> QED BY <1>1, <1>2, <1>6, <1>7, Zenon

Table == getLookupTableAddresses(SATI_PROGRAM_ADDRESS, <<SasSchema>>, <<[owner |-> Owner, mint |-> Mint]>>)
LightPrograms == {LIGHT_SYSTEM_PROGRAM, ACCOUNT_COMPRESSION_PROGRAM, NOOP_PROGRAM, REGISTERED_PROGRAM_PDA,
                  ADDRESS_TREE, ADDRESS_QUEUE, MERKLE_TREE_PUBKEY, NULLIFIER_QUEUE_PUBKEY,
                  CpiAuthority(SATI_PROGRAM_ADDRESS), CpiAuthority(LIGHT_SYSTEM_PROGRAM), SATI_PROGRAM_ADDRESS,
                  Pda(SATI_PROGRAM_ADDRESS, <<"__event_authority">>)}
SystemAccounts == {SystemProgram, InstructionsSysvar, Token2022Program}
Tabled == LightPrograms \cup SystemAccounts \cup {SchemaConfigPda, AgentAta}

LEMMA TableHas == Tabled \subseteq ToSet(Table)
<1>1. PICK s, o : s = <<SasSchema>> /\ o = <<[owner |-> Owner, mint |-> Mint]>> OBVIOUS
<1>2. DOMAIN s = 1..1 /\ s[1] = SasSchema BY <1>1
<1>3. DOMAIN o = 1..1 /\ o[1].owner = Owner /\ o[1].mint = Mint BY <1>1
<1>4. PICK a, e : /\ a = <<LIGHT_SYSTEM_PROGRAM, ACCOUNT_COMPRESSION_PROGRAM, NOOP_PROGRAM, REGISTERED_PROGRAM_PDA,
                           ADDRESS_TREE, ADDRESS_QUEUE, MERKLE_TREE_PUBKEY, NULLIFIER_QUEUE_PUBKEY,
                           CpiAuthority(SATI_PROGRAM_ADDRESS), CpiAuthority(LIGHT_SYSTEM_PROGRAM), SATI_PROGRAM_ADDRESS,
                           Pda(SATI_PROGRAM_ADDRESS, <<"__event_authority">>)>>
                  /\ e = <<SystemProgram, ED25519_PROGRAM, InstructionsSysvar, COMPUTE_BUDGET_PROGRAM, Token2022Program>>
  OBVIOUS
<1>5. PICK b, c : /\ b = [i \in DOMAIN s |-> Pda(SATI_PROGRAM_ADDRESS, <<"schema_config">> \o s[i])]
                  /\ c = [i \in DOMAIN o |-> Ata(o[i].owner, Token2022Program, o[i].mint)]
  OBVIOUS
<1>6. Table = a \o b \o c \o e BY <1>1, <1>4, <1>5, Zenon DEF Table, getLookupTableAddresses
<1>7. Sequence(a) /\ \A x \in LightPrograms : Holds(a, x)
  <2>1. a \in Seq({a[i] : i \in 1..12}) BY <1>4
  <2>2. Sequence(a) BY <2>1, Zenon DEF Sequence
  <2>3. \A x \in LightPrograms : \E i \in DOMAIN a : a[i] = x BY <1>4 DEF LightPrograms
  <2> QED BY <2>2, <2>3, Zenon DEF Holds
<1>8. Sequence(e) /\ \A x \in SystemAccounts : Holds(e, x)
  <2>1. e \in Seq({e[i] : i \in 1..5}) BY <1>4
  <2>2. Sequence(e) BY <2>1, Zenon DEF Sequence
  <2>3. \A x \in SystemAccounts : \E i \in DOMAIN e : e[i] = x BY <1>4 DEF SystemAccounts
  <2> QED BY <2>2, <2>3, Zenon DEF Holds
<1>9. 1 \in Nat /\ 1 \in 1..1 OBVIOUS
<1>10. Sequence(b) /\ Holds(b, SchemaConfigPda)
  <2>1. DOMAIN b = 1..1 /\ b = [i \in 1..1 |-> b[i]] BY <1>2, <1>5, Zenon
  <2>2. b[1] = Pda(SATI_PROGRAM_ADDRESS, <<"schema_config">> \o s[1]) BY <1>2, <1>5, <1>9, Zenon
  <2>3. b[1] = SchemaConfigPda BY <1>2, <2>2, Zenon DEF SchemaConfigPda
  <2>4. Sequence(b) BY <1>9, <2>1, Tabulated
  <2> QED BY <1>9, <2>1, <2>3, <2>4, Zenon DEF Holds
<1>11. Sequence(c) /\ Holds(c, AgentAta)
  <2>1. DOMAIN c = 1..1 /\ c = [i \in 1..1 |-> c[i]] BY <1>3, <1>5, Zenon
  <2>2. c[1] = Ata(o[1].owner, Token2022Program, o[1].mint) BY <1>3, <1>5, <1>9, Zenon
  <2>3. c[1] = AgentAta BY <1>3, <2>2, Zenon DEF AgentAta
  <2>4. Sequence(c) BY <1>9, <2>1, Tabulated
  <2> QED BY <1>9, <2>1, <2>3, <2>4, Zenon DEF Holds
<1>12. PICK ab : ab = a \o b OBVIOUS
<1>13. Sequence(ab) /\ Holds(ab, SchemaConfigPda) /\ \A x \in LightPrograms : Holds(ab, x)
  BY <1>7, <1>10, <1>12, JoinedLists, Zenon
<1>14. PICK abc : abc = ab \o c OBVIOUS
<1>15. /\ Sequence(abc) /\ Holds(abc, SchemaConfigPda) /\ Holds(abc, AgentAta)
       /\ \A x \in LightPrograms : Holds(abc, x)
  BY <1>11, <1>13, <1>14, JoinedLists, Zenon
<1>16. PICK t : t = abc \o e OBVIOUS
<1>17. /\ Holds(t, SchemaConfigPda) /\ Holds(t, AgentAta) /\ \A x \in LightPrograms : Holds(t, x)
       /\ \A x \in SystemAccounts : Holds(t, x)
  BY <1>8, <1>15, <1>16, JoinedLists, Zenon
<1>18. Table = t BY <1>6, <1>12, <1>14, <1>16, Zenon
<1>19. \A x : Holds(t, x) => x \in ToSet(t) BY Zenon DEF Holds, ToSet
<1> QED BY <1>17, <1>18, <1>19, Zenon DEF Tabled

\* The addresses that the builder gives to the accounts of the instruction.
AddressIn(values, n) == IF n \in DOMAIN values THEN values[n].address ELSE SATI_PROGRAM_ADDRESS
BeyondTable(d) ==
    {<<"payer">>, ClockSysvar} \cup (IF FirstSigner(d) = Owner THEN {} ELSE {FeedbackGiven(d).agentAta.address})

LEMMA NamedOfCreate ==
    ASSUME NEW d, DraftFine(d), NEW g, g = FeedbackGiven(d), NEW v,
           v = Values("createCompressedAttestation", "async", g, FeedbackArgs(d)),
           NEW i \in 1..Len(CreateCompressedAccounts)
    PROVE  AddressIn(v, CreateCompressedAccounts[i].name) \in Tabled \cup BeyondTable(d)
<1>1. PICK p, q : p = CreateCompressedConstants /\ q = EventAuthority(SATI_PROGRAM_ADDRESS) OBVIOUS
<1>2. PICK D : D = p ++ q OBVIOUS
<1>3. Defaults("createCompressedAttestation", "async", g, FeedbackArgs(d)) = D BY <1>1, <1>2 DEF Defaults
<1>4. PICK D1 : D1 = [a \in DOMAIN D |-> Plain(D[a])] OBVIOUS
<1>5. v = g ++ D1 BY <1>3, <1>4, Zenon DEF Values
<1>6. DOMAIN p = {"instructionsSysvar", "clock"} /\ p["instructionsSysvar"] = InstructionsSysvar /\ p["clock"] = ClockSysvar
  BY <1>1 DEF CreateCompressedConstants
<1>7. DOMAIN q = {"eventAuthority"} /\ q["eventAuthority"] = Pda(SATI_PROGRAM_ADDRESS, <<"__event_authority">>)
  BY <1>1 DEF EventAuthority
<1>8. /\ DOMAIN D = {"instructionsSysvar", "clock", "eventAuthority"} /\ D["instructionsSysvar"] = InstructionsSysvar
      /\ D["clock"] = ClockSysvar /\ D["eventAuthority"] = Pda(SATI_PROGRAM_ADDRESS, <<"__event_authority">>)
  <2>1. DOMAIN D = DOMAIN p \cup DOMAIN q BY <1>2, Merged, Zenon
  <2>2. D["instructionsSysvar"] = p["instructionsSysvar"] /\ D["clock"] = p["clock"] BY <1>2, <1>6 DEF ++
  <2>3. D["eventAuthority"] = q["eventAuthority"] BY <1>2, <1>6, <1>7 DEF ++
  <2> QED BY <1>6, <1>7, <2>1, <2>2, <2>3
<1>9. /\ DOMAIN D1 = DOMAIN D /\ \A n \in DOMAIN D : D1[n].address = D[n]
  BY <1>4 DEF Plain
<1>10. PICK ata : ata = Ata(FirstSigner(d), Token2022Program, d.tokenAccount) OBVIOUS
<1>11. DOMAIN g = {"payer", "schemaConfig", "agentAta", "tokenProgram", "program"} BY DEF FeedbackGiven
<1>12. /\ g["payer"].address = <<"payer">> /\ g["schemaConfig"].address = SchemaConfigPda /\ g["agentAta"].address = ata
       /\ g["tokenProgram"].address = Token2022Program /\ g["program"].address = SATI_PROGRAM_ADDRESS
  BY <1>10 DEF FeedbackGiven, Signer, Plain
<1>12b. PICK u, e : u = e ++ D1 /\ e = g OBVIOUS
<1>12c. v = u BY <1>5, <1>12b
<1>13. DOMAIN v = DOMAIN g \cup DOMAIN D1 /\ \A n \in DOMAIN g : v[n] = g[n] BY <1>12b, <1>12c DEF ++
<1>14. \A n \in DOMAIN D1 \ DOMAIN g : v[n] = D1[n] BY <1>12b, <1>12c DEF ++
<1>15. /\ AddressIn(v, "payer") = <<"payer">> /\ AddressIn(v, "schemaConfig") = SchemaConfigPda
       /\ AddressIn(v, "agentAta") = ata /\ AddressIn(v, "tokenProgram") = Token2022Program
       /\ AddressIn(v, "program") = SATI_PROGRAM_ADDRESS
  BY <1>11, <1>12, <1>13 DEF AddressIn
<1>16. /\ AddressIn(v, "instructionsSysvar") = InstructionsSysvar /\ AddressIn(v, "clock") = ClockSysvar
       /\ AddressIn(v, "eventAuthority") = Pda(SATI_PROGRAM_ADDRESS, <<"__event_authority">>)
  BY <1>8, <1>9, <1>11, <1>13, <1>14 DEF AddressIn
<1>17. AddressIn(v, "delegationAttestation") = SATI_PROGRAM_ADDRESS /\ AddressIn(v, "satiCredential") = SATI_PROGRAM_ADDRESS
  BY <1>8, <1>9, <1>11, <1>13 DEF AddressIn
<1>18. {AddressIn(v, n) : n \in {"schemaConfig", "tokenProgram", "program", "instructionsSysvar", "eventAuthority",
                                 "delegationAttestation", "satiCredential"}} \subseteq Tabled
  <2>1. /\ SATI_PROGRAM_ADDRESS \in Tabled /\ SchemaConfigPda \in Tabled /\ Token2022Program \in Tabled
        /\ InstructionsSysvar \in Tabled /\ Pda(SATI_PROGRAM_ADDRESS, <<"__event_authority">>) \in Tabled
    BY Zenon DEF Tabled, LightPrograms, SystemAccounts
  <2> QED BY <1>15, <1>16, <1>17, <2>1
<1>19. AddressIn(v, "agentAta") \in Tabled \cup BeyondTable(d)
  <2>1. CASE FirstSigner(d) = Owner
    <3>1. d.tokenAccount = Mint BY Zenon DEF DraftFine
    <3>2. ata = AgentAta BY <1>10, <2>1, <3>1, Zenon DEF AgentAta
    <3> QED BY <1>15, <3>2, Zenon DEF Tabled
  <2>2. CASE FirstSigner(d) # Owner
    <3>1. g.agentAta.address \in BeyondTable(d) BY <2>2, Zenon DEF BeyondTable
    <3> QED BY <1>12, <1>15, <3>1
  <2> QED BY <2>1, <2>2
<1>20. <<"payer">> \in BeyondTable(d) /\ ClockSysvar \in BeyondTable(d) BY Zenon DEF BeyondTable
<1>21. CreateCompressedAccounts[i].name \in
          {"payer", "agentAta", "clock", "schemaConfig", "tokenProgram", "program", "instructionsSysvar",
           "eventAuthority", "delegationAttestation", "satiCredential"}
  <2>1. PICK A : A = CreateCompressedAccounts OBVIOUS
  <2>2. Len(A) = 10 BY <2>1 DEF CreateCompressedAccounts
  <2>3. \A k \in 1..10 : A[k].name \in
          {"payer", "agentAta", "clock", "schemaConfig", "tokenProgram", "program", "instructionsSysvar",
           "eventAuthority", "delegationAttestation", "satiCredential"}
    BY <2>1 DEF CreateCompressedAccounts, Ro, Wr, Opt, Account
  <2> QED BY <2>1, <2>2, <2>3
<1> QED BY <1>15, <1>16, <1>18, <1>19, <1>20, <1>21

LEMMA RemainingTabled ==
    ASSUME NEW r, r = RemainingOf(CreationTrees), NEW i \in DOMAIN r
    PROVE  r[i].address \in Tabled
<1>1. Behind(CreationTrees, r) BY TreesPacked, RemainingIs, Zenon
<1>2. PICK p, l : p = CreationTrees /\ l = getLightSystemAccountMetas(SATI_PROGRAM_ADDRESS) OBVIOUS
<1>3. /\ Sequence(r) /\ Len(r) = 8 + Len(p) /\ \A k \in 1..8 : r[k].address = l[k].address
      /\ \A k \in 1..Len(p) : r[8 + k] = p[k]
  BY <1>1, <1>2, Zenon DEF Behind
<1>4. Len(p) = 3 /\ {p[1].address, p[2].address, p[3].address} = {ADDRESS_TREE, ADDRESS_QUEUE, MERKLE_TREE_PUBKEY}
  BY <1>2 DEF CreationTrees, Meta
<1>5. i \in 1..11 BY <1>3, <1>4, Length
<1>6. \A k \in 1..8 : l[k].address \in
         {LIGHT_SYSTEM_PROGRAM, CpiAuthority(SATI_PROGRAM_ADDRESS), REGISTERED_PROGRAM_PDA, NOOP_PROGRAM,
          CpiAuthority(LIGHT_SYSTEM_PROGRAM), ACCOUNT_COMPRESSION_PROGRAM, SATI_PROGRAM_ADDRESS, SystemProgram}
  BY <1>2 DEF getLightSystemAccountMetas, Meta
<1>7. {LIGHT_SYSTEM_PROGRAM, CpiAuthority(SATI_PROGRAM_ADDRESS), REGISTERED_PROGRAM_PDA, NOOP_PROGRAM,
       CpiAuthority(LIGHT_SYSTEM_PROGRAM), ACCOUNT_COMPRESSION_PROGRAM, SATI_PROGRAM_ADDRESS, SystemProgram}
        \subseteq Tabled
  BY Zenon DEF Tabled, LightPrograms, SystemAccounts
<1>8. {ADDRESS_TREE, ADDRESS_QUEUE, MERKLE_TREE_PUBKEY} \subseteq Tabled
  BY Zenon DEF Tabled, LightPrograms
<1>9. CASE i \in 1..8
  <2>1. r[i].address = l[i].address BY <1>3, <1>9
  <2> QED BY <1>6, <1>7, <1>9, <2>1
<1>10. CASE i \in 9..11
  <2>1. i - 8 \in 1..3 /\ i = 8 + (i - 8) BY <1>10
  <2>2. r[i] = p[i - 8] BY <1>3, <1>4, <2>1
  <2>3. i - 8 = 1 \/ i - 8 = 2 \/ i - 8 = 3 BY <2>1
  <2> QED BY <1>4, <1>8, <2>2, <2>3
<1> QED BY <1>5, <1>9, <1>10

LEMMA FeedbackNames ==
    ASSUME NEW d, DraftFine(d), NEW m, m = FeedbackMessage(d), NEW i \in DOMAIN m.accounts
    PROVE  m.accounts[i].address \in Tabled \cup BeyondTable(d)
<1>1. PICK ix : ix = "createCompressedAttestation" OBVIOUS
<1>2. ix \in Instructions BY <1>1 DEF Instructions
<1>3. PICK g, w, r : g = FeedbackGiven(d) /\ w = FeedbackArgs(d) /\ r = RemainingOf(CreationTrees) OBVIOUS
<1>4. m = Sending(ix, "async", g, w, r) BY <1>1, <1>3, Zenon DEF FeedbackMessage
<1>5. PICK v : v = Values(ix, "async", g, w) OBVIOUS
<1>6. Carries(ix, v, w, r, m) BY <1>2, <1>4, <1>5, SendingIs, Zenon
<1>7. PICK A : A = CreateCompressedAccounts OBVIOUS
<1>8. AccountsOf(ix) = A BY <1>1, <1>7 DEF AccountsOf
<1>9. PICK M : M = MetasOf(A, v) \o r OBVIOUS
<1>10. m.accounts = M BY <1>6, <1>8, <1>9, Zenon DEF Carries
<1>11. Sequence(r)
  <2>1. Behind(CreationTrees, RemainingOf(CreationTrees)) BY TreesPacked, RemainingIs, Zenon
  <2> QED BY <1>3, <2>1, Zenon DEF Behind
<1>12. Sequence(A)
  <2>1. Aligned(CreateCompressedAccounts, CreateCompressedStruct, "createCompressedAttestation")
    BY CreateCompressedAligned
  <2> QED BY <1>7, <2>1, Zenon DEF Aligned
<1>13. MetasKnown(A, v, r, M) BY <1>9, <1>11, <1>12, MetasAre
<1>14. PICK k, n, l : k = Len(A) /\ n = Len(r) /\ l = Len(M) OBVIOUS
<1>15. /\ Sequence(M) /\ l = k + n /\ DOMAIN M = 1..l /\ k \in Nat /\ n \in Nat
       /\ \A j \in 1..k : M[j] = GetAccountMeta(A[j], v, SATI_PROGRAM_ADDRESS)
       /\ SubSeq(M, k + 1, l) = r
  BY <1>13, <1>14, Zenon DEF MetasKnown
<1>16. i \in 1..l BY <1>10, <1>15
<1>17. CASE i \in 1..k
  <2>1. M[i] = GetAccountMeta(A[i], v, SATI_PROGRAM_ADDRESS) BY <1>15, <1>17
  <2>2. PICK a : a = A[i] OBVIOUS
  <2>3. GetAccountMeta(a, v, SATI_PROGRAM_ADDRESS).address = AddressIn(v, a.name)
    <3>1. CASE a.name \in DOMAIN v BY <3>1 DEF GetAccountMeta, AddressIn
    <3>2. CASE a.name \notin DOMAIN v BY <3>2 DEF GetAccountMeta, AddressIn
    <3> QED BY <3>1, <3>2
  <2>4. AddressIn(v, A[i].name) \in Tabled \cup BeyondTable(d)
    BY <1>1, <1>3, <1>5, <1>7, <1>14, <1>17, NamedOfCreate, Zenon
  <2> QED BY <1>10, <2>1, <2>2, <2>3, <2>4
<1>18. CASE i \notin 1..k
  <2>1. i - k \in 1..n /\ (k + 1) + (i - k) - 1 = i BY <1>15, <1>16, <1>18
  <2>2. PICK S : M \in Seq(S) BY <1>15, Zenon DEF Sequence
  <2>a. PICK j, a, b : j = i - k /\ a = k + 1 /\ b = SubSeq(M, a, l) OBVIOUS
  <2>b. a \in Nat \ {0} /\ l \in Nat /\ j \in 1..(l - a + 1) /\ a + j - 1 = i BY <1>15, <1>16, <2>1, <2>a
  <2>c. b[j] = M[a + j - 1] BY <2>2, <2>a, <2>b
  <2>d. b = r BY <1>15, <2>a
  <2>3. r[i - k] = M[i] BY <2>a, <2>b, <2>c, <2>d
  <2>4. i - k \in DOMAIN r BY <1>11, <1>14, <2>1, Length
  <2>5. r[i - k].address \in Tabled BY <1>3, <2>4, RemainingTabled
  <2> QED BY <1>10, <2>3, <2>5
<1> QED BY <1>17, <1>18

\* With the deployment's lookup table, a feedback's transaction spells out only the payer,
\* the clock, and the token account of an agent that the table does not hold: every other
\* account of the instruction and of the light system program is in the table.
THEOREM TableHolds == Spec => []TableCovers
<1>1. ASSUME IInv PROVE TableCovers
  <2>1. SUFFICES ASSUME draft # Nil, sent # Nil, call.ix = "createCompressedAttestation"
                 PROVE  {sent.instruction.accounts[i].address : i \in DOMAIN sent.instruction.accounts} \ ToSet(Table)
                          \subseteq {call.given.payer.address, ClockSysvar}
                            \cup (IF FirstSigner(draft) = Owner THEN {} ELSE {call.given.agentAta.address})
    BY Zenon DEF TableCovers, Table
  <2>2. CASE Idle BY <2>1, <2>2, Zenon DEF Idle
  <2>3. CASE Generated BY <2>1, <2>3, Zenon DEF Generated, GeneratedState
  <2>4. CASE Feedback
    <3>1. PICK d \in Drafts, batched \in BOOLEAN : FitsMode(d) /\ FeedbackState(d, batched)
      BY <2>4, Zenon DEF Feedback
    <3>2. DraftFine(d) BY DraftsAre, Zenon
    <3>3. PICK m, g : m = FeedbackMessage(d) /\ g = FeedbackGiven(d) OBVIOUS
    <3>4. draft = d /\ call = FeedbackCall(d) /\ sent.instruction = m BY <3>1, <3>3, FeedbackKnown, Zenon
    <3>5. call.given = g BY <3>3, <3>4, CallFields DEF FeedbackCall
    <3>6. \A i \in DOMAIN m.accounts : m.accounts[i].address \in Tabled \cup BeyondTable(d)
      BY <3>2, <3>3, FeedbackNames, Zenon
    <3>7. g.payer.address = <<"payer">> BY <3>3 DEF FeedbackGiven, Signer
    <3>8. BeyondTable(d) = {g.payer.address, ClockSysvar}
                             \cup (IF FirstSigner(d) = Owner THEN {} ELSE {g.agentAta.address})
      BY <3>3, <3>7, Zenon DEF BeyondTable
    <3>9. {m.accounts[i].address : i \in DOMAIN m.accounts} \ ToSet(Table) \subseteq BeyondTable(d)
      BY <3>6, TableHas, Zenon
    <3> QED BY <3>4, <3>5, <3>8, <3>9
  <2>5. CASE Closed
    <3>1. PICK d \in Drafts, version \in {V1, V2} : FitsMode(d) /\ ClosingState(d, version)
      BY <2>5, Zenon DEF Closed
    <3>2. call.ix = CloseIx BY <3>1, ClosingKnown, Zenon
    <3> QED BY <2>1, <3>2 DEF CloseIx
  <2> QED BY <1>1, <2>2, <2>3, <2>4, <2>5, Zenon DEF IInv
<1> QED BY <1>1, Inductive, PTL

-----------------------------------------------------------------------------
(* What bytes begin with                                                     *)

\* What begins with a cell still does when more follows it.
Starting(s, c) == Sequence(s) /\ s # <<>> /\ Head(s) = c

LEMMA StartsWith ==
    ASSUME NEW s, NEW c, Starting(s, c), NEW t, Sequence(t)
    PROVE  Starting(s \o t, c)
<1>1. Sequence(s) /\ s # <<>> /\ Head(s) = c BY Zenon DEF Starting
<1>2. PICK S : s \in Seq(S) /\ t \in Seq(S) BY <1>1, TwoSequences
<1>3. s \o t \in Seq(S) /\ s \o t # <<>> /\ Head(s \o t) = c BY <1>1, <1>2
<1> QED BY <1>3 DEF Starting, Sequence

LEMMA ScalarStarts ==
    ASSUME NEW n, NEW x
    PROVE  Sequence(Encode(Scalar(n), x)) /\ Starting(Encode(Scalar(n), x), Cell(n, x))
<1>1. PICK c : c = Cell(n, x) OBVIOUS
<1>2. Encode(Scalar(n), x) = <<c>> BY <1>1, ScalarField
<1>3. Sequence(<<c>>) /\ <<c>> # <<>> /\ Head(<<c>>) = c
  <2>1. <<c>> \in Seq({c}) /\ <<c>> # <<>> /\ Head(<<c>>) = c OBVIOUS
  <2> QED BY <2>1, Zenon DEF Sequence
<1> QED BY <1>1, <1>2, <1>3, Zenon DEF Starting

LEMMA OptionIsSequence ==
    ASSUME NEW x, Sequence(x), Len(x) <= 1
    PROVE  Sequence(Encode(Option(Pubkey), x))
<1>1. FieldFine(Option(Pubkey), x) BY Zenon DEF FieldFine
<1>2. PICK c : c = Option(Pubkey) OBVIOUS
<1>3. O!Fits(c, x) BY <1>1, <1>2, FieldAlone, Zenon
<1>4. \A i \in 1..Len(x) : O!Fits(Pubkey, x[i]) BY ScalarsFit, TheScalars
<1>5. W!Fits(c, x)
  <2>1. c.shape = "option" /\ c.of = Pubkey BY <1>2 DEF Option
  <2>2. Len(x) <= W!MaxLength
    <3>1. Len(x) \in Nat BY Length
    <3> QED BY <3>1 DEF W!MaxLength
  <2>3. W!Sequence(x) BY Zenon DEF W!Sequence, Sequence
  <2> QED BY <1>4, <2>1, <2>2, <2>3 DEF W!Fits
<1>6. Fits(c, x) BY <1>5, Zenon DEF Fits
<1>7. Sequence(<<>>) BY Empty
<1> QED BY <1>2, <1>6, <1>7, CodecsRoundTrip, Zenon

LEMMA Identified ==
    ASSUME NEW kind \in {"AgentIndex", "RegistryConfig", "SchemaConfig"}, NEW b, Starting(b, Cell(8, <<kind>>))
    PROVE  IdentifySatiAccount(b) = kind
<1>1. b # <<>> /\ Head(b) = Cell(8, <<kind>>) BY Zenon DEF Starting
<1>2. Head(b).width = 8 /\ Head(b).value = <<kind>> BY <1>1 DEF Cell
<1>3. PICK t : t = Take(8, b) OBVIOUS
<1>4. t.value = <<kind>> BY <1>1, <1>2, <1>3 DEF Take
<1>5. t.value[1] = kind BY <1>4
<1> QED BY <1>3, <1>5, Zenon DEF IdentifySatiAccount

-----------------------------------------------------------------------------
(* Instructions, read by the parsers of the client                            *)

\* The accounts that a parser finds: those in optional places that hold the program's own
\* address are taken to be left out.
PresentIn(A, metas) == {i \in DOMAIN A : ~(A[i].optional /\ metas[i].address = SATI_PROGRAM_ADDRESS)}
FoundIn(A, P, metas) == [n \in {A[i].name : i \in P} |-> metas[CHOOSE i \in P : A[i].name = n]]
ParsedAccounts(A, metas) == FoundIn(A, PresentIn(A, metas), metas)

LEMMA ParsedIs ==
    ASSUME NEW A, NEW C, NEW m, ~(Len(m.accounts) < Len(A)), NEW p, p = Parse(A, C, m)
    PROVE  p.accounts = ParsedAccounts(A, m.accounts) /\ p.args = Decode(C, m.data).value
<1>1. PICK x, y : x = ParsedAccounts(A, m.accounts) /\ y = Decode(C, m.data).value OBVIOUS
<1>2. p = [accounts |-> x, args |-> y] BY <1>1, Zenon DEF Parse, ParsedAccounts, FoundIn, PresentIn
<1> QED BY <1>1, <1>2

LEMMA DataAre ==
    /\ CloseCompressedData = WithDiscriminator(CloseParams) /\ CloseRegularData = WithDiscriminator(<<>>)
    /\ CreateCompressedData = WithDiscriminator(CreateParams)
    /\ CreateRegularData = WithDiscriminator(CreateRegularParams)
    /\ InitializeData = WithDiscriminator(<<>>) /\ LinkEvmData = WithDiscriminator(LinkEvmAddressParams)
    /\ RegisterAgentData = WithDiscriminator(RegisterAgentParams)
    /\ RegisterSchemaConfigData = WithDiscriminator(RegisterSchemaConfigParams)
    /\ UpdateAuthorityData = WithDiscriminator(<< <<"newAuthority", Option(Pubkey)>> >>)
<1>1. CloseCompressedData = WithDiscriminator(CloseParams)
  BY DEF CloseCompressedData, CloseParams, LightProof, LightAccountMeta, ValidityProof, CompressedProof, CompressedAccountMeta, PackedStateTreeInfo
<1>2. CloseRegularData = WithDiscriminator(<<>>) /\ InitializeData = WithDiscriminator(<<>>)
  BY DEF CloseRegularData, InitializeData
<1>3. CreateCompressedData = WithDiscriminator(CreateParams)
  BY DEF CreateCompressedData, CreateParams, LightProof, LightAddressTree, ValidityProof, CompressedProof, PackedAddressTreeInfo
<1>4. CreateRegularData = WithDiscriminator(CreateRegularParams) BY DEF CreateRegularData, CreateRegularParams
<1>5. LinkEvmData = WithDiscriminator(LinkEvmAddressParams) BY DEF LinkEvmData, LinkEvmAddressParams
<1>6. RegisterAgentData = WithDiscriminator(RegisterAgentParams)
  BY DEF RegisterAgentData, RegisterAgentParams, MetadataEntry
<1>7. RegisterSchemaConfigData = WithDiscriminator(RegisterSchemaConfigParams)
  BY DEF RegisterSchemaConfigData, RegisterSchemaConfigParams, SignatureMode, StorageType, U8
<1>8. UpdateAuthorityData = WithDiscriminator(<< <<"newAuthority", Option(Pubkey)>> >>) BY DEF UpdateAuthorityData
<1> QED BY <1>1, <1>2, <1>3, <1>4, <1>5, <1>6, <1>7, <1>8, Zenon

\* The parser of an instruction follows the order of its accounts and its fields.
LEMMA ParserIs ==
    ASSUME NEW ix \in Instructions, NEW m, IdentifySatiInstruction(m) = ix
    PROVE  ParsedSatiInstruction(m) = Parse(AccountsOf(ix), WithDiscriminator(Params[ix]), m)
<1>1. CASE ix = "closeCompressedAttestation"
  <2>1. AccountsOf(ix) = CloseCompressedAccounts BY <1>1 DEF AccountsOf
  <2>2. Params[ix] = CloseParams BY <1>1 DEF Params
  <2>3. ParsedSatiInstruction(m) = ParseCloseCompressed(m) BY <1>1 DEF ParsedSatiInstruction
  <2> QED BY <2>1, <2>2, <2>3, DataAre, Zenon DEF ParseCloseCompressed
<1>2. CASE ix = "closeRegularAttestation"
  <2>1. AccountsOf(ix) = CloseRegularAccounts BY <1>2 DEF AccountsOf
  <2>2. Params[ix] = <<>> BY <1>2 DEF Params
  <2>3. ParsedSatiInstruction(m) = ParseCloseRegular(m) BY <1>2 DEF ParsedSatiInstruction
  <2> QED BY <2>1, <2>2, <2>3, DataAre, Zenon DEF ParseCloseRegular
<1>3. CASE ix = "createCompressedAttestation"
  <2>1. AccountsOf(ix) = CreateCompressedAccounts BY <1>3 DEF AccountsOf
  <2>2. Params[ix] = CreateParams BY <1>3 DEF Params
  <2>3. ParsedSatiInstruction(m) = ParseCreateCompressed(m) BY <1>3 DEF ParsedSatiInstruction
  <2> QED BY <2>1, <2>2, <2>3, DataAre, Zenon DEF ParseCreateCompressed
<1>4. CASE ix = "createRegularAttestation"
  <2>1. AccountsOf(ix) = CreateRegularAccounts BY <1>4 DEF AccountsOf
  <2>2. Params[ix] = CreateRegularParams BY <1>4 DEF Params
  <2>3. ParsedSatiInstruction(m) = ParseCreateRegular(m) BY <1>4 DEF ParsedSatiInstruction
  <2> QED BY <2>1, <2>2, <2>3, DataAre, Zenon DEF ParseCreateRegular
<1>5. CASE ix = "initialize"
  <2>1. AccountsOf(ix) = InitializeAccounts BY <1>5 DEF AccountsOf
  <2>2. Params[ix] = <<>> BY <1>5 DEF Params
  <2>3. ParsedSatiInstruction(m) = ParseInitialize(m) BY <1>5 DEF ParsedSatiInstruction
  <2> QED BY <2>1, <2>2, <2>3, DataAre, Zenon DEF ParseInitialize
<1>6. CASE ix = "linkEvmAddress"
  <2>1. AccountsOf(ix) = LinkEvmAccounts BY <1>6 DEF AccountsOf
  <2>2. Params[ix] = LinkEvmAddressParams BY <1>6 DEF Params
  <2>3. ParsedSatiInstruction(m) = ParseLinkEvm(m) BY <1>6 DEF ParsedSatiInstruction
  <2> QED BY <2>1, <2>2, <2>3, DataAre, Zenon DEF ParseLinkEvm
<1>7. CASE ix = "registerAgent"
  <2>1. AccountsOf(ix) = RegisterAgentAccounts BY <1>7 DEF AccountsOf
  <2>2. Params[ix] = RegisterAgentParams BY <1>7 DEF Params
  <2>3. ParsedSatiInstruction(m) = ParseRegisterAgent(m) BY <1>7 DEF ParsedSatiInstruction
  <2> QED BY <2>1, <2>2, <2>3, DataAre, Zenon DEF ParseRegisterAgent
<1>8. CASE ix = "registerSchemaConfig"
  <2>1. AccountsOf(ix) = RegisterSchemaConfigAccounts BY <1>8 DEF AccountsOf
  <2>2. Params[ix] = RegisterSchemaConfigParams BY <1>8 DEF Params
  <2>3. ParsedSatiInstruction(m) = ParseRegisterSchemaConfig(m) BY <1>8 DEF ParsedSatiInstruction
  <2> QED BY <2>1, <2>2, <2>3, DataAre, Zenon DEF ParseRegisterSchemaConfig
<1>9. CASE ix = "updateRegistryAuthority"
  <2>1. AccountsOf(ix) = UpdateAuthorityAccounts BY <1>9 DEF AccountsOf
  <2>2. Params[ix] = << <<"newAuthority", Option(Pubkey)>> >> BY <1>9 DEF Params
  <2>3. ParsedSatiInstruction(m) = ParseUpdateAuthority(m) BY <1>9 DEF ParsedSatiInstruction
  <2> QED BY <2>1, <2>2, <2>3, DataAre, Zenon DEF ParseUpdateAuthority
<1> QED BY <1>1, <1>2, <1>3, <1>4, <1>5, <1>6, <1>7, <1>8, <1>9 DEF Instructions
\* What is called is what is named, and begins the data.
LEMMA NamedIs ==
    ASSUME NEW ix \in Instructions, NEW m, Starting(m.data, Cell(8, <<ix>>))
    PROVE  IdentifySatiInstruction(m) = ix
<1>1. PICK b : b = m.data OBVIOUS
<1>2. b # <<>> /\ Head(b) = Cell(8, <<ix>>) BY <1>1, Zenon DEF Starting
<1>3. Head(b).width = 8 /\ Head(b).value = <<ix>> BY <1>2 DEF Cell
<1>4. PICK t : t = Take(8, b) OBVIOUS
<1>5. t.value = <<ix>> BY <1>2, <1>3, <1>4 DEF Take
<1>6. t.value[1] = ix BY <1>5
<1> QED BY <1>1, <1>4, <1>6, Zenon DEF IdentifySatiInstruction

\* Of the accounts that a parser finds: those that were given are at the addresses that were
\* given, those that were left out and have no default are not found.
FoundAs(A, given, found) ==
    /\ \A name \in DOMAIN given : name \in DOMAIN found /\ found[name].address = given[name].address
    /\ \A i \in 1..Len(A) : A[i].optional /\ A[i].name \notin DOMAIN given /\ A[i].name # "clock"
                                => A[i].name \notin DOMAIN found

FoundAt(A, metas, i, found) ==
    IF A[i].optional /\ metas[i].address = SATI_PROGRAM_ADDRESS
    THEN A[i].name \notin DOMAIN found
    ELSE A[i].name \in DOMAIN found /\ found[A[i].name] = metas[i]
NamesDiffer(A) == \A i, j \in 1..Len(A) : A[i].name = A[j].name => i = j

LEMMA Finding ==
    ASSUME NEW A, Sequence(A), NamesDiffer(A), NEW metas, NEW i \in 1..Len(A),
           NEW P, P = PresentIn(A, metas), NEW found, found = FoundIn(A, P, metas)
    PROVE  FoundAt(A, metas, i, found)
<1>1. \A k, j \in 1..Len(A) : A[k].name = A[j].name => k = j BY Zenon DEF NamesDiffer
<1>2. DOMAIN A = 1..Len(A) BY Length
<1>3. \A j \in 1..Len(A) : j \in P <=> ~(A[j].optional /\ metas[j].address = SATI_PROGRAM_ADDRESS)
  BY <1>2, Zenon DEF PresentIn
<1>4. P \subseteq 1..Len(A) BY <1>2, Zenon DEF PresentIn
<1>5. found = [n \in {A[j].name : j \in P} |-> metas[CHOOSE j \in P : A[j].name = n]]
  BY Zenon DEF FoundIn
<1>6. CASE A[i].optional /\ metas[i].address = SATI_PROGRAM_ADDRESS
  <2>1. i \notin P BY <1>3, <1>6, Zenon
  <2>2. \A j \in P : A[j].name # A[i].name BY <1>1, <1>4, <2>1, Zenon
  <2>3. DOMAIN found = {A[j].name : j \in P} BY <1>5, Zenon
  <2>4. A[i].name \notin DOMAIN found BY <2>2, <2>3, Zenon
  <2> QED BY <1>6, <2>4, Zenon DEF FoundAt
<1>7. CASE ~(A[i].optional /\ metas[i].address = SATI_PROGRAM_ADDRESS)
  <2>1. i \in P BY <1>3, <1>7, Zenon
  <2>2. \A j \in P : A[j].name = A[i].name => j = i BY <1>1, <1>4, Zenon
  <2>3. A[i].name \in {A[j].name : j \in P} BY <2>1, Zenon
  <2>4. (CHOOSE j \in P : A[j].name = A[i].name) = i BY <2>1, <2>2, Zenon
  <2>5. A[i].name \in DOMAIN found BY <1>5, <2>3, Zenon
  <2>6. found[A[i].name] = metas[i] BY <1>5, <2>3, <2>4, ZenonT(40)
  <2> QED BY <1>7, <2>5, <2>6, Zenon DEF FoundAt
<1> QED BY <1>6, <1>7, Zenon

LEMMA AddressesAre ==
    ASSUME NEW a, NEW V
    PROVE  GetAccountMeta(a, V, SATI_PROGRAM_ADDRESS).address
           = IF a.name \in DOMAIN V THEN V[a.name].address ELSE SATI_PROGRAM_ADDRESS
BY DEF GetAccountMeta

LEMMA AccountsFound ==
    ASSUME NEW ix \in Instructions, NEW style, NEW given, Proper(ix, style, given), NEW args,
           NEW remaining, Sequence(remaining), NEW metas,
           metas = MetasOf(AccountsOf(ix), Values(ix, style, given, args)) \o remaining,
           NEW found, found = ParsedAccounts(AccountsOf(ix), metas)
    PROVE  FoundAs(AccountsOf(ix), given, found) /\ ~(Len(metas) < Len(AccountsOf(ix)))
<1>1. PICK A, V, D : A = AccountsOf(ix) /\ V = Values(ix, style, given, args) /\ D = Defaults(ix, style, given, args)
  OBVIOUS
<1>2. Sequence(A) /\ NamesDiffer(A)
  BY <1>1, AccountsAligned, Zenon DEF Aligned, NamesDiffer
<1>10. PICK P : P = PresentIn(A, metas) OBVIOUS
<1>11. found = FoundIn(A, P, metas) BY <1>1, <1>10, Zenon DEF ParsedAccounts
<1>12. \A i \in 1..Len(A) : FoundAt(A, metas, i, found) BY <1>2, <1>10, <1>11, Finding, Zenon
<1>3. MetasKnown(A, V, remaining, metas) BY <1>1, <1>2, MetasAre
<1>4. \A i \in 1..Len(A) : metas[i].address = IF A[i].name \in DOMAIN V THEN V[A[i].name].address ELSE SATI_PROGRAM_ADDRESS
  <2>1. \A i \in 1..Len(A) : metas[i] = GetAccountMeta(A[i], V, SATI_PROGRAM_ADDRESS) BY <1>3, Zenon DEF MetasKnown
  <2>2. ASSUME NEW i \in 1..Len(A)
        PROVE  metas[i].address = IF A[i].name \in DOMAIN V THEN V[A[i].name].address ELSE SATI_PROGRAM_ADDRESS
    <3>1. metas[i] = GetAccountMeta(A[i], V, SATI_PROGRAM_ADDRESS) BY <2>1, <2>2, Zenon
    <3>2. PICK a : a = A[i] OBVIOUS
    <3> QED BY <3>1, <3>2, AddressesAre
  <2> QED BY <2>2, Zenon
<1>5. /\ DOMAIN V = DOMAIN given \cup DOMAIN D
      /\ \A n \in DOMAIN given : V[n] = given[n]
  <2>1. PICK p : p = [a \in DOMAIN D |-> Plain(D[a])] OBVIOUS
  <2>2. V = given ++ p BY <1>1, <2>1, Zenon DEF Values
  <2>3. DOMAIN p = DOMAIN D BY <2>1, Zenon
  <2> QED BY <2>2, <2>3 DEF ++
<1>6. ASSUME NEW name \in DOMAIN given
      PROVE  name \in DOMAIN found /\ found[name].address = given[name].address
  <2>1. PICK i \in 1..Len(A) : A[i].name = name
    <3>1. name \in NamesOf(A) BY <1>1, <1>6, Zenon DEF Proper
    <3> QED BY <3>1, Zenon DEF NamesOf
  <2>2. name \in DOMAIN V /\ V[name] = given[name] BY <1>5, <1>6, Zenon
  <2>3. metas[i].address = given[name].address BY <1>4, <2>1, <2>2, Zenon
  <2>4. A[i].optional => given[name].address # SATI_PROGRAM_ADDRESS
    <3>1. A[i].optional /\ A[i].name \in DOMAIN given => given[A[i].name].address # SATI_PROGRAM_ADDRESS
      BY <1>1, <2>1, Zenon DEF Proper
    <3> QED BY <2>1, <3>1, Zenon
  <2>5. FoundAt(A, metas, i, found) BY <1>12, Zenon
  <2>6. A[i].name \in DOMAIN found /\ found[A[i].name] = metas[i] BY <2>3, <2>4, <2>5, Zenon DEF FoundAt
  <2> QED BY <2>1, <2>3, <2>6, Zenon
<1>7. ASSUME NEW i \in 1..Len(A), A[i].optional, A[i].name \notin DOMAIN given, A[i].name # "clock"
      PROVE  A[i].name \notin DOMAIN found
  <2>1. A[i].name \notin DOMAIN D
    <3>1. DefaultsFine(A, ix, style, D) BY <1>1, DefaultsAreFine, Zenon
    <3> QED BY <1>7, <3>1, Zenon DEF DefaultsFine
  <2>2. metas[i].address = SATI_PROGRAM_ADDRESS BY <1>4, <1>5, <1>7, <2>1, Zenon
  <2>3. FoundAt(A, metas, i, found) BY <1>12, Zenon
  <2> QED BY <1>7, <2>2, <2>3, Zenon DEF FoundAt
<1>8. ~(Len(metas) < Len(A))
  <2>1. Len(metas) = Len(A) + Len(remaining) /\ Len(A) \in Nat /\ Len(remaining) \in Nat
    BY <1>3, Zenon DEF MetasKnown
  <2> QED BY <2>1
<1>9. FoundAs(A, given, found) BY <1>6, <1>7, Zenon DEF FoundAs
<1> QED BY <1>1, <1>8, <1>9, Zenon

\* What identifySatiInstruction and the parsers read of an instruction.
ReadAs(ix, given, args, m) ==
    /\ IdentifySatiInstruction(m) = ix
    /\ ParsedSatiInstruction(m).args = [discriminator |-> <<ix>>] ++ args
    /\ FoundAs(AccountsOf(ix), given, ParsedSatiInstruction(m).accounts)

\* The parsers of the generated client read what its builders laid out: the instruction that
\* was called, its arguments, the accounts that were given, and none that was left out.
THEOREM InstructionIsRead ==
    ASSUME NEW ix \in Instructions, NEW style, NEW given, Proper(ix, style, given),
           NEW args, Fits(Struct(Params[ix]), args), NEW remaining, Sequence(remaining),
           NEW m, m = Sending(ix, style, given, args, remaining)
    PROVE  ReadAs(ix, given, args, m)
<1>1. PICK A, V, C, all, metas, b :
          /\ A = AccountsOf(ix) /\ V = Values(ix, style, given, args) /\ C = WithDiscriminator(Params[ix])
          /\ all = [discriminator |-> <<ix>>] ++ args /\ metas = m.accounts /\ b = m.data
  OBVIOUS
<1>2. metas = MetasOf(A, V) \o remaining /\ b = Encode(C, all)
  <2>1. Carries(ix, V, args, remaining, m) BY <1>1, SendingIs, Zenon
  <2> QED BY <1>1, <2>1, Zenon DEF Carries
<1>3. PICK body : body = Encode(Struct(Params[ix]), args) OBVIOUS
<1>4. Fits(C, all) /\ Sequence(body) /\ b = <<Cell(8, <<ix>>)>> \o body
  BY <1>1, <1>2, <1>3, ParamsAre, Discriminated
<1>5. Starting(b, Cell(8, <<ix>>)) /\ Sequence(b)
  <2>1. PICK c : c = Cell(8, <<ix>>) OBVIOUS
  <2>2. Sequence(b) /\ b # <<>> /\ Head(b) = c BY <1>4, <2>1, Prepended
  <2> QED BY <2>1, <2>2, Zenon DEF Starting
<1>6. IdentifySatiInstruction(m) = ix BY <1>1, <1>5, NamedIs
<1>7. PICK p : p = ParsedSatiInstruction(m) OBVIOUS
<1>8. p = Parse(A, C, m) BY <1>1, <1>6, <1>7, ParserIs
<1>9. PICK found : found = ParsedAccounts(A, metas) OBVIOUS
<1>10. FoundAs(A, given, found) /\ ~(Len(metas) < Len(A)) BY <1>1, <1>2, <1>9, AccountsFound
<1>11. p.accounts = found /\ p.args = Decode(C, b).value
  BY <1>1, <1>8, <1>9, <1>10, ParsedIs
<1>12. Decode(C, b).value = all
  <2>1. Sequence(<<>>) /\ b \o <<>> = b BY <1>5, Empty
  <2>2. Decode(C, Encode(C, all) \o <<>>) = [value |-> all, rest |-> <<>>] BY <1>4, <2>1, CodecsRoundTrip
  <2>3. Decode(C, b) = [value |-> all, rest |-> <<>>] BY <1>2, <2>1, <2>2
  <2> QED BY <2>3
<1> QED BY <1>1, <1>6, <1>7, <1>10, <1>11, <1>12, Zenon DEF ReadAs

-----------------------------------------------------------------------------
(* What the handlers write, read                                             *)

LEMMA StartsFields ==
    ASSUME NEW s, NEW c, Starting(s, c), NEW n, NEW x
    PROVE  Starting(s \o Encode(Scalar(n), x), c)
BY ScalarStarts, StartsWith, Zenon

LEMMA StartsPlain ==
    ASSUME NEW s, NEW c, Starting(s, c), NEW x
    PROVE  /\ Starting(s \o Encode(Pubkey, x), c) /\ Starting(s \o Encode(U8, x), c)
           /\ Starting(s \o Encode(U64, x), c) /\ Starting(s \o Encode(Text, x), c)
           /\ Starting(s \o Encode(Bool, x), c)
<1>1. \A codec : (\E n : codec = Scalar(n)) => Starting(s \o Encode(codec, x), c) BY StartsFields, Zenon
<1> QED BY <1>1, TheScalars, Zenon

LEMMA StartsOption ==
    ASSUME NEW s, NEW c, Starting(s, c), NEW x, Sequence(x), Len(x) <= 1
    PROVE  Starting(s \o Encode(Option(Pubkey), x), c)
<1>1. Sequence(Encode(Option(Pubkey), x)) BY OptionIsSequence
<1> QED BY <1>1, StartsWith, Zenon

\* The SDK reads of an account and an event what the caller gave.
WrittenReads(given, args, o) == StateReads(given, args, o.state) /\ EventReads(given, args, o.event)

\* What is written, apart.
Writes(o, s, e) == o.state = s /\ o.event = e

LEMMA WrittenAs ==
    ASSUME NEW s, NEW e, NEW o, o = Wrote(s, e)
    PROVE  Writes(o, s, e)
BY Statuses, ZenonT(40) DEF Writes

\* An account that was given is the one that the handler gets.
Taken(given, got) == \A n \in DOMAIN given : got.accounts[n] = given[n].address

LEMMA MeantTaken ==
    ASSUME NEW ix, NEW given, NEW args, NEW got, MeantBy(ix, given, args, got)
    PROVE  Taken(given, got)
<1>1. \A n \in DOMAIN given : n \in DOMAIN got.accounts BY Zenon DEF MeantBy
<1> QED BY <1>1, Zenon DEF Taken, MeantBy

LEMMA InitializeReads ==
    ASSUME call.ix = "initialize", NEW given, NEW args, NEW got, MeantBy("initialize", given, args, got),
           {"groupMint", "authority"} \subseteq DOMAIN given, NEW o, o = Effect("initialize", got)
    PROVE  WrittenReads(given, args, o)
<1>1. PICK s, e : s = RegistryConfigState(got) /\ e = RegistryInitializedEvent(got) OBVIOUS
<1>2. Writes(o, s, e)
  <2>1. Effect("initialize", got) = Wrote(s, e) BY <1>1 DEF Effect
  <2> QED BY <2>1, WrittenAs
<1>3. PICK a, g, k, d, z : /\ a = given["authority"].address /\ g = given["groupMint"].address
                           /\ k = <<"RegistryConfig">> /\ d = Cell(8, k) /\ z = Number(0)
  OBVIOUS
<1>4. got.accounts["authority"] = a /\ got.accounts["groupMint"] = g
  <2>1. "authority" \in DOMAIN given /\ "groupMint" \in DOMAIN given OBVIOUS
  <2>2. Taken(given, got) BY MeantTaken, Zenon
  <2> QED BY <1>3, <2>1, <2>2, Zenon DEF Taken
<1>5. s = Encode(FixedBytes(8), k) \o Encode(Pubkey, g) \o Encode(Pubkey, a) \o Encode(U64, z) \o Encode(U8, Bump)
  BY <1>1, <1>3, <1>4, Zenon DEF RegistryConfigState
<1>6. e = Encode(Pubkey, a) \o Encode(Pubkey, g) BY <1>1, <1>4, Zenon DEF RegistryInitializedEvent
<1>7. DecodeRegistryConfig(s) = [discriminator |-> k, groupMint |-> g, authority |-> a, totalAgents |-> z, bump |-> Bump]
  <2>1. Reads(RegistryConfigFields,
              Encode(FixedBytes(8), k) \o Encode(Pubkey, g) \o Encode(Pubkey, a) \o Encode(U64, z) \o Encode(U8, Bump),
              [discriminator |-> k, groupMint |-> g, authority |-> a, totalAgents |-> z, bump |-> Bump])
    BY RegistryConfigRead, Zenon
  <2> QED BY <1>5, <2>1, Zenon DEF Reads, DecodeRegistryConfig
<1>8. Decode(RegistryInitialized, e).value = [authority |-> a, groupMint |-> g]
  <2>1. Reads(RegistryInitialized, Encode(Pubkey, a) \o Encode(Pubkey, g), [authority |-> a, groupMint |-> g])
    BY RegistryInitializedRead, Zenon
  <2> QED BY <1>6, <2>1, Zenon DEF Reads
<1>9. IdentifySatiAccount(s) = "RegistryConfig"
  <2>1. Starting(Encode(FixedBytes(8), k), d) BY <1>3, ScalarStarts, TheScalars, Zenon
  <2>2. Starting(s, d) BY <1>5, <2>1, StartsPlain, Zenon
  <2> QED BY <1>3, <2>2, Identified
<1>10. StateReads(given, args, s)
  <2>1. ConfigMeant(given.groupMint.address, given.authority.address, 0)
        = [discriminator |-> k, groupMint |-> g, authority |-> a, totalAgents |-> z, bump |-> Bump]
    BY <1>3 DEF ConfigMeant
  <2> QED BY <1>7, <1>9, <2>1 DEF StateReads
<1>11. EventReads(given, args, e) BY <1>3, <1>8 DEF EventReads
<1> QED BY <1>2, <1>10, <1>11, Zenon DEF WrittenReads, Writes

LEMMA RegisterAgentReads ==
    ASSUME call.ix = "registerAgent", NEW given, NEW args, NEW got, MeantBy("registerAgent", given, args, got),
           {"agentMint", "owner"} \subseteq DOMAIN given, NEW o, o = Effect("registerAgent", got)
    PROVE  WrittenReads(given, args, o)
<1>1. PICK s, e : s = AgentIndexState(got) /\ e = AgentRegisteredEvent(got) OBVIOUS
<1>2. Writes(o, s, e)
  <2>1. Effect("registerAgent", got) = Wrote(s, e) BY <1>1 DEF Effect
  <2> QED BY <2>1, WrittenAs
<1>3. PICK a, b, k, d, z : /\ a = given["agentMint"].address /\ b = given["owner"].address
                           /\ k = <<"AgentIndex">> /\ d = Cell(8, k) /\ z = Number(TotalAgents + 1)
  OBVIOUS
<1>4. got.accounts["agentMint"] = a /\ got.accounts["owner"] = b /\ got.args = args
  <2>1. "agentMint" \in DOMAIN given /\ "owner" \in DOMAIN given OBVIOUS
  <2>2. got.args = args BY Zenon DEF MeantBy
  <2>3. Taken(given, got) BY MeantTaken, Zenon
  <2> QED BY <1>3, <2>1, <2>2, <2>3, Zenon DEF Taken
<1>5. s = Encode(FixedBytes(8), k) \o Encode(Pubkey, a) \o Encode(U8, Bump)
  BY <1>1, <1>3, <1>4, Zenon DEF AgentIndexState
<1>6. PICK n, u, t : n = args.name /\ u = args.uri /\ t = args.nonTransferable OBVIOUS
<1>7. e = Encode(Pubkey, a) \o Encode(Pubkey, b) \o Encode(U64, z) \o Encode(Text, n) \o Encode(Text, u) \o Encode(Bool, t)
  BY <1>1, <1>3, <1>4, <1>6, Zenon DEF AgentRegisteredEvent
<1>8. DecodeAgentIndex(s) = [discriminator |-> k, mint |-> a, bump |-> Bump]
  <2>1. Reads(AgentIndexFields, Encode(FixedBytes(8), k) \o Encode(Pubkey, a) \o Encode(U8, Bump),
              [discriminator |-> k, mint |-> a, bump |-> Bump])
    BY AgentIndexRead, Zenon
  <2> QED BY <1>5, <2>1, Zenon DEF Reads, DecodeAgentIndex
<1>9. Decode(AgentRegistered, e).value
      = [mint |-> a, owner |-> b, memberNumber |-> z, name |-> n, uri |-> u, nonTransferable |-> t]
  <2>1. Reads(AgentRegistered,
              Encode(Pubkey, a) \o Encode(Pubkey, b) \o Encode(U64, z) \o Encode(Text, n) \o Encode(Text, u) \o Encode(Bool, t),
              [mint |-> a, owner |-> b, memberNumber |-> z, name |-> n, uri |-> u, nonTransferable |-> t])
    BY AgentRegisteredRead, Zenon
  <2> QED BY <1>7, <2>1, Zenon DEF Reads
<1>10. IdentifySatiAccount(s) = "AgentIndex"
  <2>1. Starting(Encode(FixedBytes(8), k), d) BY <1>3, ScalarStarts, TheScalars, Zenon
  <2>2. Starting(s, d) BY <1>5, <2>1, StartsPlain, Zenon
  <2> QED BY <1>3, <2>2, Identified
<1>11. StateReads(given, args, s) BY <1>3, <1>8, <1>10 DEF StateReads
<1>12. EventReads(given, args, e) BY <1>3, <1>6, <1>9 DEF EventReads
<1> QED BY <1>2, <1>11, <1>12, Zenon DEF WrittenReads, Writes

LEMMA UpdateAuthorityReads ==
    ASSUME call.ix = "updateRegistryAuthority", NEW given, NEW args, NEW got,
           MeantBy("updateRegistryAuthority", given, args, got), "authority" \in DOMAIN given,
           args \in ArgsOf("updateRegistryAuthority"), NEW o, o = Effect("updateRegistryAuthority", got)
    PROVE  WrittenReads(given, args, o)
<1>1. PICK n : n = args.newAuthority OBVIOUS
<1>2. Sequence(n) /\ Len(n) <= 1
  <2>1. n \in {<<>>, <<<<"newAuthority">>>>} BY <1>1 DEF ArgsOf, Maybe1
  <2>2. PICK x : x = <<"newAuthority">> OBVIOUS
  <2> QED BY <2>1, <2>2, Perhaps
<1>3. got.args = args BY Zenon DEF MeantBy
<1>4. PICK s, e : s = RegistryConfigAfter(n) /\ e = RegistryAuthorityUpdatedEvent(got) OBVIOUS
<1>5. Writes(o, s, e)
  <2>1. Effect("updateRegistryAuthority", got) = Wrote(RegistryConfigAfter(got.args.newAuthority), RegistryAuthorityUpdatedEvent(got))
    BY DEF Effect
  <2>2. o = Wrote(s, e) BY <1>1, <1>3, <1>4, <2>1
  <2> QED BY <2>2, WrittenAs
<1>6. PICK a, b, g, k, z : /\ a = given["authority"].address /\ b = IF n = <<>> THEN RenouncedAuthority ELSE n[1]
                           /\ g = GroupMint /\ k = <<"RegistryConfig">> /\ z = Number(TotalAgents)
  OBVIOUS
<1>7. got.accounts["authority"] = a
  <2>1. Taken(given, got) BY MeantTaken, Zenon
  <2> QED BY <1>6, <2>1, Zenon DEF Taken
<1>8. s = Encode(FixedBytes(8), k) \o Encode(Pubkey, g) \o Encode(Pubkey, b) \o Encode(U64, z) \o Encode(U8, Bump)
  BY <1>4, <1>6, Zenon DEF RegistryConfigAfter
<1>9. e = Encode(Pubkey, a) \o Encode(Option(Pubkey), n)
  BY <1>1, <1>3, <1>4, <1>7, Zenon DEF RegistryAuthorityUpdatedEvent
<1>10. DecodeRegistryConfig(s) = [discriminator |-> k, groupMint |-> g, authority |-> b, totalAgents |-> z, bump |-> Bump]
  <2>1. Reads(RegistryConfigFields,
              Encode(FixedBytes(8), k) \o Encode(Pubkey, g) \o Encode(Pubkey, b) \o Encode(U64, z) \o Encode(U8, Bump),
              [discriminator |-> k, groupMint |-> g, authority |-> b, totalAgents |-> z, bump |-> Bump])
    BY RegistryConfigRead, Zenon
  <2> QED BY <1>8, <2>1, Zenon DEF Reads, DecodeRegistryConfig
<1>11. Decode(RegistryAuthorityUpdated, e).value = [oldAuthority |-> a, newAuthority |-> n]
  <2>1. Reads(RegistryAuthorityUpdated, Encode(Pubkey, a) \o Encode(Option(Pubkey), n),
              [oldAuthority |-> a, newAuthority |-> n])
    BY <1>2, RegistryAuthorityUpdatedRead, Zenon
  <2> QED BY <1>9, <2>1, Zenon DEF Reads
<1>12. StateReads(given, args, s)
  <2>1. ConfigMeant(GroupMint, IF args.newAuthority = <<>> THEN RenouncedAuthority ELSE args.newAuthority[1], TotalAgents)
        = [discriminator |-> k, groupMint |-> g, authority |-> b, totalAgents |-> z, bump |-> Bump]
    BY <1>1, <1>6 DEF ConfigMeant
  <2> QED BY <1>10, <2>1 DEF StateReads
<1>13. EventReads(given, args, e) BY <1>1, <1>6, <1>11 DEF EventReads
<1> QED BY <1>5, <1>12, <1>13, Zenon DEF WrittenReads, Writes

LEMMA RegisterSchemaReads ==
    ASSUME call.ix = "registerSchemaConfig", NEW given, NEW args, NEW got,
           MeantBy("registerSchemaConfig", given, args, got),
           args \in ArgsOf("registerSchemaConfig"), NEW o, o = Effect("registerSchemaConfig", got)
    PROVE  WrittenReads(given, args, o)
<1>1. PICK s, e : s = SchemaConfigState(got) /\ e = SchemaConfigRegisteredEvent(got) OBVIOUS
<1>2. Writes(o, s, e)
  <2>1. Effect("registerSchemaConfig", got) = Wrote(s, e) BY <1>1 DEF Effect
  <2> QED BY <2>1, WrittenAs
<1>3. got.args = args BY Zenon DEF MeantBy
<1>4. PICK S1, S2, S3, S4, S5, S6 :
          /\ args \in [sasSchema : S1, signatureMode : S2, storageType : S3, delegationSchema : S4,
                       closeable : S5, name : S6]
          /\ S4 = Maybe1(<<"delegationSchema">>)
  BY DEF ArgsOf
<1>5. PICK b, c, x, d, g, n :
          /\ b = args.sasSchema /\ c = args.signatureMode /\ x = args.storageType
          /\ d = args.delegationSchema /\ g = args.closeable /\ n = args.name
  OBVIOUS
<1>6. args = [sasSchema |-> b, signatureMode |-> c, storageType |-> x, delegationSchema |-> d,
              closeable |-> g, name |-> n]
  BY <1>4, <1>5
<1>7. Sequence(d) /\ Len(d) <= 1
  <2>1. PICK p : p = <<"delegationSchema">> OBVIOUS
  <2>2. d \in {<<>>, <<p>>} BY <1>4, <1>5, <2>1 DEF Maybe1
  <2> QED BY <2>2, Perhaps
<1>8. PICK k, t : k = <<"SchemaConfig">> /\ t = Cell(8, k) OBVIOUS
<1>9. s = Encode(FixedBytes(8), k) \o Encode(Pubkey, b) \o Encode(U8, c) \o Encode(U8, x)
          \o Encode(Option(Pubkey), d) \o Encode(Bool, g) \o Encode(Text, n) \o Encode(U8, Bump)
  BY <1>1, <1>3, <1>5, <1>8, Zenon DEF SchemaConfigState
<1>10. e = Encode(Pubkey, b) \o Encode(U8, c) \o Encode(U8, x) \o Encode(Option(Pubkey), d)
           \o Encode(Bool, g) \o Encode(Text, n)
  BY <1>1, <1>3, <1>5, Zenon DEF SchemaConfigRegisteredEvent
<1>11. PICK v : v = [discriminator |-> k, sasSchema |-> b, signatureMode |-> c, storageType |-> x,
                     delegationSchema |-> d, closeable |-> g, name |-> n, bump |-> Bump]
  OBVIOUS
<1>12. DecodeSchemaConfig(s) = v
  <2>1. Reads(SchemaConfigFields,
              Encode(FixedBytes(8), k) \o Encode(Pubkey, b) \o Encode(U8, c) \o Encode(U8, x)
              \o Encode(Option(Pubkey), d) \o Encode(Bool, g) \o Encode(Text, n) \o Encode(U8, Bump),
              [discriminator |-> k, sasSchema |-> b, signatureMode |-> c, storageType |-> x,
               delegationSchema |-> d, closeable |-> g, name |-> n, bump |-> Bump])
    BY <1>7, SchemaConfigRead, Zenon
  <2> QED BY <1>9, <1>11, <2>1, Zenon DEF Reads, DecodeSchemaConfig
<1>13. v = [discriminator |-> k, bump |-> Bump] ++ args
  BY <1>6, <1>11 DEF ++
<1>14. Decode(SchemaConfigRegistered, e).value
       = [schema |-> b, signatureMode |-> c, storageType |-> x, delegationSchema |-> d, closeable |-> g, name |-> n]
  <2>1. Reads(SchemaConfigRegistered,
              Encode(Pubkey, b) \o Encode(U8, c) \o Encode(U8, x) \o Encode(Option(Pubkey), d)
              \o Encode(Bool, g) \o Encode(Text, n),
              [schema |-> b, signatureMode |-> c, storageType |-> x, delegationSchema |-> d, closeable |-> g,
               name |-> n])
    BY <1>7, SchemaConfigRegisteredRead, Zenon
  <2> QED BY <1>10, <2>1, Zenon DEF Reads
<1>15. IdentifySatiAccount(s) = "SchemaConfig"
  <2>1. Starting(Encode(FixedBytes(8), k), t) BY <1>8, ScalarStarts, TheScalars, Zenon
  <2>2. Starting(Encode(FixedBytes(8), k) \o Encode(Pubkey, b) \o Encode(U8, c) \o Encode(U8, x), t)
    BY <2>1, StartsPlain, Zenon
  <2>3. Starting(Encode(FixedBytes(8), k) \o Encode(Pubkey, b) \o Encode(U8, c) \o Encode(U8, x)
                 \o Encode(Option(Pubkey), d), t)
    BY <1>7, <2>2, StartsOption, Zenon
  <2>4. Starting(s, t) BY <1>9, <2>3, StartsPlain, Zenon
  <2> QED BY <1>8, <2>4, Identified
<1>16. StateReads(given, args, s) BY <1>8, <1>12, <1>13, <1>15 DEF StateReads
<1>17. EventReads(given, args, e) BY <1>5, <1>14 DEF EventReads
<1> QED BY <1>2, <1>16, <1>17, Zenon DEF WrittenReads, Writes

\* A link writes no account.
LEMMA LinkReads ==
    ASSUME call.ix = "linkEvmAddress", NEW given, NEW args, NEW got, MeantBy("linkEvmAddress", given, args, got),
           "agentMint" \in DOMAIN given, NEW o, o = LinkOutcome(got), o # Refused
    PROVE  WrittenReads(given, args, o)
<1>1. PICK s, e : s = NoState /\ e = EvmAddressLinkedEvent(got) OBVIOUS
<1>2. Writes(o, s, e)
  <2>1. LinkOutcome(got) = Wrote(s, e) \/ LinkOutcome(got) = Refused BY <1>1, Zenon DEF LinkOutcome
  <2> QED BY <2>1, WrittenAs
<1>3. got.args = args BY Zenon DEF MeantBy
<1>4. PICK a, b, c, t : a = given["agentMint"].address /\ b = args.evmAddress /\ c = args.chainId /\ t = Now OBVIOUS
<1>5. got.accounts["agentMint"] = a
  <2>1. Taken(given, got) BY MeantTaken, Zenon
  <2> QED BY <1>4, <2>1, Zenon DEF Taken
<1>6. e = Encode(Pubkey, a) \o Encode(FixedBytes(20), b) \o Encode(Text, c) \o Encode(I64, t)
  BY <1>1, <1>3, <1>4, <1>5, Zenon DEF EvmAddressLinkedEvent
<1>7. Decode(EvmAddressLinked, e).value = [agentMint |-> a, evmAddress |-> b, chainId |-> c, linkedAt |-> t]
  <2>1. Reads(EvmAddressLinked,
              Encode(Pubkey, a) \o Encode(FixedBytes(20), b) \o Encode(Text, c) \o Encode(I64, t),
              [agentMint |-> a, evmAddress |-> b, chainId |-> c, linkedAt |-> t])
    BY EvmAddressLinkedRead, Zenon
  <2> QED BY <1>6, <2>1, Zenon DEF Reads
<1>8. StateReads(given, args, s) BY <1>1 DEF StateReads
<1>9. EventReads(given, args, e) BY <1>4, <1>7 DEF EventReads
<1> QED BY <1>2, <1>8, <1>9, Zenon DEF WrittenReads, Writes

LEMMA CreationReads ==
    ASSUME NEW d, call.ix = "createCompressedAttestation", draft = d, account = AccountOf(d),
           NEW given, NEW args, NEW o, o = CreatedOutcome(d)
    PROVE  WrittenReads(given, args, o)
<1>1. PICK a, b, c, n, x : /\ a = SasSchema /\ b = d.tokenAccount /\ c = d.counterparty /\ n = Number(0)
                           /\ x = Spell(AddressOf(d))
  OBVIOUS
<1>2. PICK s, e : s = NoState /\ e = AttestationCreatedEvent(a, b, c, n, x) OBVIOUS
<1>3. Writes(o, s, e)
  <2>1. CreatedOutcome(d) = Wrote(s, e) BY <1>1, <1>2, Zenon DEF CreatedOutcome
  <2> QED BY <2>1, WrittenAs
<1>4. e = Encode(Pubkey, a) \o Encode(Pubkey, b) \o Encode(Pubkey, c) \o Encode(U8, n) \o Encode(Pubkey, x)
  BY <1>2, Zenon DEF AttestationCreatedEvent
<1>5. Decode(AttestationCreated, e).value
      = [sasSchema |-> a, tokenAccount |-> b, counterparty |-> c, storageType |-> n, address |-> x]
  <2>1. Reads(AttestationCreated,
              Encode(Pubkey, a) \o Encode(Pubkey, b) \o Encode(Pubkey, c) \o Encode(U8, n) \o Encode(Pubkey, x),
              [sasSchema |-> a, tokenAccount |-> b, counterparty |-> c, storageType |-> n, address |-> x])
    BY AttestationCreatedRead, Zenon
  <2> QED BY <1>4, <2>1, Zenon DEF Reads
<1>6. Spell(account.address) = x BY <1>1, AccountFields, Zenon
<1>7. StateReads(given, args, s) BY <1>2 DEF StateReads
<1>8. EventReads(given, args, e) BY <1>1, <1>5, <1>6 DEF EventReads
<1> QED BY <1>3, <1>7, <1>8, Zenon DEF WrittenReads, Writes

-----------------------------------------------------------------------------
(* Everything that the SDK reads                                             *)

\* A call of the parsers' instructions, and the message that was sent for it.
CalledAs(ix, given, args, m) ==
    call.ix = ix /\ call.given = given /\ call.args = args /\ sent.instruction = m

LEMMA CallReads ==
    ASSUME NEW ix \in Instructions, NEW given, NEW args, NEW m, CalledAs(ix, given, args, m),
           ReadAs(ix, given, args, m)
    PROVE  InstructionReads
<1>1. call.ix = ix /\ call.given = given /\ call.args = args /\ sent.instruction = m BY Zenon DEF CalledAs
<1>2. PICK p, A, all : /\ p = ParsedSatiInstruction(m) /\ A = AccountsOf(ix)
                       /\ all = [discriminator |-> <<ix>>] ++ args
  OBVIOUS
<1>3. IdentifySatiInstruction(m) = ix /\ p.args = all /\ FoundAs(A, given, p.accounts)
  BY <1>2, Zenon DEF ReadAs
<1>4. \A name \in DOMAIN given \ {"program"} : p.accounts[name].address = given[name].address
  BY <1>3, Zenon DEF FoundAs
<1>5. \A name \in Extras(ix) \ (DOMAIN given \cup {"clock", "tokenProgram"}) : name \notin DOMAIN p.accounts
  <2>1. SUFFICES ASSUME NEW name \in Extras(ix), name \notin DOMAIN given, name # "clock", name # "tokenProgram"
                 PROVE  name \notin DOMAIN p.accounts
    BY Zenon
  <2>2. name \in {A[i].name : i \in {j \in DOMAIN A : A[j].optional}} BY <1>2, <2>1, Zenon DEF Extras
  <2>3. PICK i \in DOMAIN A : A[i].optional /\ name = A[i].name BY <2>2
  <2>4. i \in 1..Len(A)
    <3>1. Aligned(AccountsOf(ix), Structs[ix], ix) BY AccountsAligned, Zenon
    <3>2. Sequence(A) BY <1>2, <3>1, Zenon DEF Aligned
    <3> QED BY <2>3, <3>2, Length
  <2> QED BY <1>3, <2>1, <2>3, <2>4, Zenon DEF FoundAs
<1> QED BY <1>1, <1>2, <1>3, <1>4, <1>5, Zenon DEF InstructionReads

\* What is sent for a proper call, with arguments that fit, is read as it was meant.
LEMMA GeneratedRead ==
    ASSUME NEW ix \in Instructions, NEW style, NEW extras \in SUBSET Extras(ix), NEW args \in ArgsOf(ix)
    PROVE  ReadAs(ix, Given(ix, style, extras), args, MessageFor(ix, style, extras, args))
<1>1. PICK g, m, e : g = Given(ix, style, extras) /\ m = MessageFor(ix, style, extras, args) /\ e = <<>> OBVIOUS
<1>2. Proper(ix, style, g) BY <1>1, CalledIsProper, Zenon
<1>3. Fits(Struct(Params[ix]), args) BY ArgsFit, Zenon
<1>4. m = Sending(ix, style, g, args, e) BY <1>1, Zenon DEF MessageFor
<1>5. Sequence(e)
  <2>1. e \in Seq({}) BY <1>1
  <2> QED BY <2>1, Zenon DEF Sequence
<1>6. ReadAs(ix, g, args, m) BY <1>2, <1>3, <1>4, <1>5, InstructionIsRead, Zenon
<1> QED BY <1>1, <1>6, Zenon

LEMMA FeedbackRead ==
    ASSUME NEW d, DraftFine(d), FitsMode(d)
    PROVE  ReadAs(CreateIx, FeedbackGiven(d), FeedbackArgs(d), FeedbackMessage(d))
<1>1. CreateIx \in Instructions BY DEF Instructions, CreateIx
<1>2. PICK m, g, v, r : /\ m = FeedbackMessage(d) /\ g = FeedbackGiven(d) /\ v = FeedbackArgs(d)
                        /\ r = RemainingOf(CreationTrees)
  OBVIOUS
<1>3. Sequence(r)
  <2>1. Behind(CreationTrees, RemainingOf(CreationTrees)) BY TreesPacked, RemainingIs, Zenon
  <2> QED BY <1>2, <2>1, Zenon DEF Behind
<1>4. m = Sending(CreateIx, "async", g, v, r) BY <1>2, Zenon DEF FeedbackMessage, CreateIx
<1>5. Proper(CreateIx, "async", g) BY <1>2, FeedbackIsProper, Zenon DEF CreateIx
<1>6. Fits(Struct(Params[CreateIx]), v) BY <1>2, FeedbackFits, Zenon DEF CreateIx
<1>7. ReadAs(CreateIx, g, v, m) BY <1>1, <1>3, <1>4, <1>5, <1>6, InstructionIsRead, Zenon
<1> QED BY <1>2, <1>7, Zenon

LEMMA CloseRead ==
    ASSUME NEW d, DraftFine(d), FitsMode(d), NEW version
    PROVE  ReadAs(CloseIx, CloseGiven(d), CloseArgs(d, version), CloseMessage(d, version))
<1>1. CloseIx \in Instructions BY DEF Instructions, CloseIx
<1>2. PICK m, g, v, r : /\ m = CloseMessage(d, version) /\ g = CloseGiven(d) /\ v = CloseArgs(d, version)
                        /\ r = RemainingOf(ClosingTrees(version))
  OBVIOUS
<1>3. Sequence(r)
  <2>1. Behind(ClosingTrees(version), RemainingOf(ClosingTrees(version))) BY ClosingPacked, RemainingIs, Zenon
  <2> QED BY <1>2, <2>1, Zenon DEF Behind
<1>4. m = Sending(CloseIx, "async", g, v, r) BY <1>2, Zenon DEF CloseMessage, CloseIx
<1>5. Proper(CloseIx, "async", g) BY <1>2, CloseIsProper, Zenon DEF CloseIx
<1>6. Fits(Struct(Params[CloseIx]), v) BY <1>2, CloseArgsFit, Zenon DEF CloseIx
<1>7. ReadAs(CloseIx, g, v, m) BY <1>1, <1>3, <1>4, <1>5, <1>6, InstructionIsRead, Zenon
<1> QED BY <1>2, <1>7, Zenon

\* The accounts that a caller must give of the instructions that write.
LEMMA RequiredNames ==
    ASSUME NEW style
    PROVE  /\ {"groupMint", "authority"} \subseteq Required("initialize", style)
           /\ {"agentMint", "owner"} \subseteq Required("registerAgent", style)
           /\ "authority" \in Required("updateRegistryAuthority", style)
           /\ "agentMint" \in Required("linkEvmAddress", style)
<1>1. {"groupMint", "authority"} \subseteq Required("initialize", style)
  BY DEF Required, InitializeAsyncInput, InitializeInput
<1>2. {"agentMint", "owner"} \subseteq Required("registerAgent", style)
  BY DEF Required, RegisterAgentAsyncInput, RegisterAgentInput
<1>3. "authority" \in Required("updateRegistryAuthority", style)
  BY DEF Required, UpdateAuthorityAsyncInput, UpdateAuthorityInput
<1>4. "agentMint" \in Required("linkEvmAddress", style) BY DEF Required, LinkEvmAsyncInput, LinkEvmInput
<1> QED BY <1>1, <1>2, <1>3, <1>4

\* What a generated call makes the program write is read as the caller meant it.
LEMMA GeneratedWrites ==
    ASSUME NEW ix, call.ix = ix, NEW style, NEW given, Proper(ix, style, given), NEW args \in ArgsOf(ix), NEW got,
           MeantBy(ix, given, args, got), NEW o, ExecutedAs(ix, got, o), o # Refused, o # AdmittedOnly
    PROVE  WrittenReads(given, args, o)
<1>1. Required(ix, style) \subseteq DOMAIN given BY Zenon DEF Proper
<1>2. CASE ix \in RegistryCalls /\ o = Effect(ix, got)
  <2>1. CASE ix = "initialize"
    <3>1. {"groupMint", "authority"} \subseteq DOMAIN given BY <1>1, <2>1, RequiredNames
    <3> QED BY <1>2, <2>1, <3>1, InitializeReads, Zenon
  <2>2. CASE ix = "registerAgent"
    <3>1. {"agentMint", "owner"} \subseteq DOMAIN given BY <1>1, <2>2, RequiredNames
    <3> QED BY <1>2, <2>2, <3>1, RegisterAgentReads, Zenon
  <2>3. CASE ix = "updateRegistryAuthority"
    <3>1. "authority" \in DOMAIN given BY <1>1, <2>3, RequiredNames
    <3> QED BY <1>2, <2>3, <3>1, UpdateAuthorityReads, Zenon
  <2>4. CASE ix = "registerSchemaConfig" BY <1>2, <2>4, RegisterSchemaReads, Zenon
  <2> QED BY <1>2, <2>1, <2>2, <2>3, <2>4, Zenon DEF RegistryCalls
<1>3. CASE ix = "linkEvmAddress" /\ o = LinkOutcome(got)
  <2>1. "agentMint" \in DOMAIN given BY <1>1, <1>3, RequiredNames
  <2> QED BY <1>3, <2>1, LinkReads, Zenon
<1>4. DataOutcome(got) \in {AdmittedOnly, Refused} BY Zenon DEF DataOutcome
<1> QED BY <1>2, <1>3, <1>4, Zenon DEF ExecutedAs

\* The SDK reads out of instructions, accounts and events what the caller gave and made the
\* program write, for every call of the generated client, every draft and every close.
THEOREM WhatWasWrittenIsRead == Spec => []ReadsWhatWasWritten
<1>1. ASSUME IInv PROVE ReadsWhatWasWritten
  <2>1. SUFFICES /\ sent # Nil => InstructionReads
                 /\ outcome # Nil /\ outcome.status = "written" => WrittenReads(call.given, call.args, outcome)
    BY Zenon DEF ReadsWhatWasWritten, WrittenReads
  <2>2. outcome.status = "written" =>
          outcome # Rejected /\ outcome # Refused /\ outcome # AdmittedOnly /\ outcome # Threw
    <3>1. /\ Rejected.status = "rejected" /\ Refused.status = "refused" /\ AdmittedOnly.status = "admitted"
          /\ Threw.status = "threw"
      BY Statuses, Zenon
    <3> QED BY <3>1
  <2>3. CASE Idle BY <2>3, Zenon DEF Idle
  <2>4. CASE Generated
    <3>1. PICK ix \in Instructions, style \in {"async", "sync"} :
            \E extras \in SUBSET Extras(ix), args \in ArgsOf(ix) : GeneratedState(ix, style, extras, args)
      BY <2>4, Zenon DEF Generated
    <3>2. PICK extras \in SUBSET Extras(ix), args \in ArgsOf(ix) : GeneratedState(ix, style, extras, args)
      BY <3>1, Zenon
    <3>3. PICK m, g : m = MessageFor(ix, style, extras, args) /\ g = Given(ix, style, extras) OBVIOUS
    <3>4. KnownCall(ix, style, args, g, m) BY <3>2, <3>3, GeneratedKnown, Zenon
    <3>5. call.ix = ix /\ call.given = g /\ call.args = args /\ sent.instruction = m /\ BecameOf(ix, m, outcome)
      BY <3>4, Zenon DEF KnownCall
    <3>6. InstructionReads
      <4>1. ReadAs(ix, g, args, m) BY <3>3, GeneratedRead, Zenon
      <4>2. CalledAs(ix, g, args, m) BY <3>5, Zenon DEF CalledAs
      <4> QED BY <4>1, <4>2, CallReads, Zenon
    <3>7. ASSUME outcome # Nil, outcome.status = "written" PROVE WrittenReads(g, args, outcome)
      <4>1. Proper(ix, style, g) BY <3>3, CalledIsProper, Zenon
      <4>2. PICK D, e : D = Defaults(ix, style, g, args) /\ e = <<>> OBVIOUS
      <4>3. Arrives(ix, style, extras, args) BY GeneratedArrives, Zenon
      <4>4. Arrived(ix, g, D, args, e, m) /\ DOMAIN g \subseteq NamesOf(AccountsOf(ix))
        BY <3>3, <4>2, <4>3, Zenon DEF Arrives, ProperNames
      <4>5. MeantBy(ix, g, args, Received(ix, m)) BY <4>4, MeantIs, Zenon
      <4>6. ExecutedAs(ix, Received(ix, m), outcome) BY <2>2, <3>5, <3>7, Zenon DEF BecameOf
      <4> QED BY <2>2, <3>5, <3>7, <4>1, <4>5, <4>6, GeneratedWrites, Zenon
    <3> QED BY <2>1, <3>5, <3>6, <3>7, Zenon
  <2>5. CASE Feedback
    <3>1. PICK d \in Drafts, batched \in BOOLEAN : FitsMode(d) /\ FeedbackState(d, batched)
      BY <2>5, Zenon DEF Feedback
    <3>2. DraftFine(d) BY DraftsAre, Zenon
    <3>3. draft = d /\ call = FeedbackCall(d) /\ sent.instruction = FeedbackMessage(d)
      BY <3>1, FeedbackKnown, Zenon
    <3>4. call.ix = CreateIx /\ call.given = FeedbackGiven(d) /\ call.args = FeedbackArgs(d)
      BY <3>3, CallFields DEF FeedbackCall, CreateIx
    <3>5. InstructionReads
      <4>1. CreateIx \in Instructions BY DEF Instructions, CreateIx
      <4>2. ReadAs(CreateIx, FeedbackGiven(d), FeedbackArgs(d), FeedbackMessage(d))
        BY <3>1, <3>2, FeedbackRead, Zenon
      <4>3. CalledAs(CreateIx, FeedbackGiven(d), FeedbackArgs(d), FeedbackMessage(d))
        BY <3>3, <3>4, Zenon DEF CalledAs
      <4> QED BY <4>1, <4>2, <4>3, CallReads, Zenon
    <3>6. ASSUME outcome # Nil, outcome.status = "written" PROVE WrittenReads(call.given, call.args, outcome)
      <4>1. account = AccountOf(d) /\ outcome = CreatedOutcome(d)
        BY <2>2, <3>1, <3>6, Zenon DEF FeedbackState
      <4>2. call.ix = "createCompressedAttestation" BY <3>4, Zenon DEF CreateIx
      <4> QED BY <3>3, <4>1, <4>2, CreationReads, Zenon
    <3> QED BY <2>1, <3>5, <3>6, Zenon
  <2>6. CASE Closed
    <3>1. PICK d \in Drafts, version \in {V1, V2} : FitsMode(d) /\ ClosingState(d, version)
      BY <2>6, Zenon DEF Closed
    <3>2. DraftFine(d) BY DraftsAre, Zenon
    <3>3. call = CloseCall(d, version) /\ sent.instruction = CloseMessage(d, version) BY <3>1, ClosingKnown, Zenon
    <3>4. call.ix = CloseIx /\ call.given = CloseGiven(d) /\ call.args = CloseArgs(d, version)
      BY <3>3, CallFields DEF CloseCall, CloseIx
    <3>5. InstructionReads
      <4>1. CloseIx \in Instructions BY DEF Instructions, CloseIx
      <4>2. ReadAs(CloseIx, CloseGiven(d), CloseArgs(d, version), CloseMessage(d, version))
        BY <3>1, <3>2, CloseRead, Zenon
      <4>3. CalledAs(CloseIx, CloseGiven(d), CloseArgs(d, version), CloseMessage(d, version))
        BY <3>3, <3>4, Zenon DEF CalledAs
      <4> QED BY <4>1, <4>2, <4>3, CallReads, Zenon
    <3>6. outcome # Nil => outcome = AdmittedOnly BY <3>1, Zenon DEF ClosingState
    <3> QED BY <2>1, <2>2, <3>5, <3>6, Zenon
  <2> QED BY <1>1, <2>3, <2>4, <2>5, <2>6, Zenon DEF IInv
<1> QED BY <1>1, Inductive, PTL
==============================================================================
