---------------------- MODULE FeedbackSubmission_proofs ----------------------
(***************************************************************************)
(* Proofs about FeedbackSubmission, for any number of calls, requests and    *)
(* insertions by others and any lifetime of a blockhash: an attestation is   *)
(* stored once, by the one call that is told so, and a call that fails has   *)
(* a reason to.                                                             *)
(***************************************************************************)
EXTENDS FeedbackSubmission, TLAPS

-----------------------------------------------------------------------------
(* The tree                                                                 *)

Keys == Schemas \X Agents \X Tasks \X Wallets
TreeEntry == [address : {Elsewhere}] \cup [address : Keys, call : Calls]

LEMMA Appended ==
    ASSUME NEW S, NEW s \in Seq(S), NEW e \in S
    PROVE  /\ Append(s, e) \in Seq(S) /\ Len(Append(s, e)) = Len(s) + 1
           /\ Len(s) \in Nat
           /\ \A i \in 1..Len(s) : Append(s, e)[i] = s[i]
           /\ Append(s, e)[Len(s) + 1] = e
OBVIOUS

LEMMA AddressFacts ==
    ASSUME NEW r \in Requests
    PROVE  Address(r) \in Keys /\ Address(r) # Elsewhere
BY RequestAssumption DEF Address, Keys, Request

\* What a longer tree still contains.
Longer == \/ tree' = tree
          \/ /\ Len(tree') = Len(tree) + 1
             /\ \A i \in 1..Len(tree) : tree'[i] = tree[i]

LEMMA TreeGrows ==
    ASSUME Longer, Len(tree) \in Nat
    PROVE  /\ Inserted \subseteq Inserted' /\ Len(tree) <= Len(tree') /\ Len(tree') \in Nat
           /\ \A i \in 1..Len(tree) : i \in 1..Len(tree') /\ tree'[i] = tree[i]
<1>1. CASE tree' = tree
      BY <1>1 DEF Inserted
<1>2. CASE /\ Len(tree') = Len(tree) + 1
           /\ \A i \in 1..Len(tree) : tree'[i] = tree[i]
  <2>1. \A i \in 1..Len(tree) : i \in 1..Len(tree') /\ tree'[i] = tree[i]
        BY <1>2
  <2>2. Inserted \subseteq Inserted'
        BY <2>1 DEF Inserted
  <2> QED BY <1>2, <2>1, <2>2
<1> QED BY <1>1, <1>2 DEF Longer

-----------------------------------------------------------------------------
(* The inductive invariant                                                  *)

\* Every attestation in the tree is that of a call whose transaction has landed, no
\* address is there twice, and what has landed is there.
OneEntryEach ==
    /\ tree \in Seq(TreeEntry)
    /\ \A i \in 1..Len(tree) :
          tree[i].address # Elsewhere =>
              /\ tree[i].call \in Calls /\ tx[tree[i].call] = "landed"
              /\ tree[i] = [address |-> Address(request[tree[i].call]), call |-> tree[i].call]
    /\ \A i, j \in 1..Len(tree) :
          tree[i].address = tree[j].address => i = j \/ tree[i].address = Elsewhere
    /\ \A c \in Calls : tx[c] = "landed" => Stored(c)

\* A transaction is sent by a call that has begun, and a call returns when it landed.
Progress ==
    \A c \in Calls :
        /\ tx[c] # "none" => pc[c] \in {"sending", "returned", "threw"}
        /\ pc[c] = "sending" => tx[c] # "none"
        /\ pc[c] = "returned" => tx[c] = "landed"

Cause(c) == OtherCause(c) \/ ~AccountsFit(Params(request[c]))

\* A call or a transaction that has failed had a reason.
Reasons == \A c \in Calls : pc[c] = "threw" \/ tx[c] = "failed" => Cause(c)

Inv == TypeOK /\ OneEntryEach /\ Progress /\ Reasons

LEMMA Initially == Init => Inv
<1> SUFFICES ASSUME Init PROVE Inv
    OBVIOUS
<1>1. /\ tree = <<>> /\ indexed = 0 /\ pc = [c \in Calls |-> "idle"]
      /\ tx = [c \in Calls |-> "none"]
      BY DEF Init
<1>2. NoRequest \in Requests
      BY RequestAssumption DEF NoRequest
<1>3. TypeOK
      BY <1>2, BoundAssumption DEF Init, TypeOK, Running
<1>4. OneEntryEach /\ Progress
      BY <1>1 DEF OneEntryEach, Progress
<1>5. Reasons
      BY <1>1 DEF Reasons
<1> QED BY <1>3, <1>4, <1>5 DEF Inv

\* The worker changes neither the agent nor the parties.
LEMMA ParamsFacts ==
    ASSUME NEW r \in Requests
    PROVE  /\ Params(r).signer = r.signer /\ Params(r).agent = r.agent
           /\ Params(r).schema = r.schema
BY RequestAssumption DEF Params, Worker, Request

-----------------------------------------------------------------------------
(* What steps have in common                                                *)

\* The tree, the transactions and the calls of a step that stores nothing.
LEMMA NothingStored ==
    ASSUME OneEntryEach, tree' = tree,
           \A c \in Calls : (tx'[c] = "landed") <=> (tx[c] = "landed"),
           \A c \in Calls : tx[c] = "landed" => request'[c] = request[c]
    PROVE  OneEntryEach'
<1>1. ASSUME NEW i \in 1..Len(tree), tree[i].address # Elsewhere
      PROVE  /\ tree[i].call \in Calls /\ tx'[tree[i].call] = "landed"
             /\ tree[i] = [address |-> Address(request'[tree[i].call]), call |-> tree[i].call]
      BY <1>1 DEF OneEntryEach
<1>2. ASSUME NEW c \in Calls, tx'[c] = "landed" PROVE Stored(c)'
  <2>1. Stored(c) /\ request'[c] = request[c]
        BY <1>2 DEF OneEntryEach
  <2> QED BY <2>1 DEF Stored, Address
<1>3. \A i \in 1..Len(tree) : tree[i].address # Elsewhere =>
          /\ tree[i].call \in Calls /\ tx'[tree[i].call] = "landed"
          /\ tree[i] = [address |-> Address(request[tree[i].call])', call |-> tree[i].call]
      BY <1>1 DEF Address
<1> QED BY <1>2, <1>3 DEF OneEntryEach

\* A reason remains one.
LEMMA CauseRemains ==
    ASSUME Inv, NEW c \in Calls, Cause(c), request'[c] = request[c], Longer,
           faulted[c] => faulted'[c], disturbed[c] => disturbed'[c],
           root'[c] = root[c], age'[c] \in Nat, age[c] <= age'[c],
           \/ disturbed'[c]
           \/ /\ holder'[request[c].agent] = holder[request[c].agent]
              /\ request[c].signer \in accounts'[request[c].agent] <=>
                     request[c].signer \in accounts[request[c].agent]
    PROVE  Cause(c)'
<1> DEFINE r == request[c]
<1>1. r \in Requests /\ Len(tree) \in Nat /\ root[c] \in Nat /\ age[c] \in Nat
      BY BoundAssumption DEF Inv, TypeOK, OneEntryEach
<1>2. /\ Params(r).signer = r.signer /\ Params(r).agent = r.agent
      /\ Params(r).schema = r.schema
      BY <1>1, ParamsFacts
<1>3. CASE faulted[c] \/ disturbed[c] \/ disturbed'[c]
  <2>1. faulted'[c] \/ disturbed'[c]
        BY <1>3
  <2> QED BY <2>1 DEF Cause, OtherCause
<1>4. CASE ~Proper(r) \/ ~ScoreAddressFits(Params(r))
  <2>1. ~Proper(request'[c]) \/ ~ScoreAddressFits(Params(request'[c]))
        BY <1>4
  <2>2. OtherCause(c)'
        BY <2>1 DEF OtherCause
  <2> QED BY <2>2 DEF Cause
<1>5. CASE Address(r) \in Inserted
  <2>1. Inserted \subseteq Inserted'
        BY <1>1, TreeGrows
  <2>2. (Address(request[c]) \in Inserted)'
        BY <2>1, <1>5 DEF Address
  <2> QED BY <2>2 DEF Cause, OtherCause
<1>6. CASE Stale(c)
  <2>1. Len(tree) <= Len(tree') /\ Len(tree') \in Nat
        BY <1>1, TreeGrows
  <2>2. Stale(c)'
        BY <2>1, <1>1, <1>6, BoundAssumption DEF Stale
  <2> QED BY <2>2 DEF Cause, OtherCause
<1>7. CASE age[c] > Lifetime
  <2>1. age'[c] > Lifetime
        BY <1>1, <1>7, BoundAssumption
  <2> QED BY <2>1 DEF Cause, OtherCause
<1>8. ASSUME ~disturbed'[c]
      PROVE  /\ holder'[r.agent] = holder[r.agent]
             /\ r.signer \in accounts'[r.agent] <=> r.signer \in accounts[r.agent]
      BY <1>8
<1>9. CASE /\ ~disturbed'[c]
           /\ \/ holder[r.agent] = Nobody
              \/ Mode[r.schema] # "counterparty" /\ holder[r.agent] # r.signer
  <2>1. OtherCause(c)'
        BY <1>8, <1>9 DEF OtherCause
  <2> QED BY <2>1 DEF Cause
<1>10. CASE ~disturbed'[c] /\ ~AccountsFit(Params(r))
  <2>1. Params(request[c])' = Params(r)
        OBVIOUS
  <2>2. ~AccountsFit(Params(request[c]))'
        BY <2>1, <1>2, <1>8, <1>10 DEF AccountsFit
  <2> QED BY <2>2 DEF Cause
<1> QED BY <1>3, <1>4, <1>5, <1>6, <1>7, <1>9, <1>10 DEF Cause, OtherCause

\* Reasons remain when no call fails and nothing that mattered is undone.
LEMMA ReasonsRemain ==
    ASSUME Inv, Longer, request' = request, root' = root,
           \A c \in Calls : faulted[c] => faulted'[c],
           \A c \in Calls : disturbed[c] => disturbed'[c],
           \A c \in Calls : age'[c] \in Nat /\ age[c] <= age'[c],
           \A c \in Calls : pc[c] # "idle" =>
               \/ disturbed'[c]
               \/ /\ holder'[request[c].agent] = holder[request[c].agent]
                  /\ request[c].signer \in accounts'[request[c].agent] <=>
                         request[c].signer \in accounts[request[c].agent],
           NEW c \in Calls, pc[c] = "threw" \/ tx[c] = "failed"
    PROVE  Cause(c)'
<1>1. pc[c] # "idle" /\ Cause(c)
      BY DEF Inv, Progress, Reasons
<1> QED BY <1>1, CauseRemains

-----------------------------------------------------------------------------
(* What others do                                                           *)

LEMMA DisturbPreserves ==
    ASSUME Inv, NEW a \in Agents, NEW w \in Wallets, Disturb(a, w),
           holder' \in [Agents -> Wallets \cup {Nobody}],
           accounts' \in [Agents -> SUBSET Wallets],
           \A b \in Agents \ {a} : holder'[b] = holder[b] /\ accounts'[b] = accounts[b],
           \/ w = holder[a] /\ accounts' = accounts
           \/ holder' = holder /\ \A v \in Wallets \ {w} : v \in accounts'[a] <=> v \in accounts[a]
    PROVE  Inv'
<1>1. /\ tree' = tree /\ indexed' = indexed /\ pc' = pc /\ request' = request
      /\ root' = root /\ age' = age /\ tx' = tx /\ faulted' = faulted
      /\ troubles < MaxTroubles /\ troubles' = troubles + 1
      /\ disturbed' = [c \in Calls |-> disturbed[c] \/ Concerned(c, a, w)]
      BY DEF Disturb
<1>2. /\ disturbed' \in [Calls -> BOOLEAN]
      /\ \A c \in Calls : disturbed'[c] <=> disturbed[c] \/ Concerned(c, a, w)
  <2>1. \A c \in Calls : (disturbed[c] \/ Concerned(c, a, w)) \in BOOLEAN
        OBVIOUS
  <2> QED BY <1>1, <2>1
<1>3. TypeOK'
  <2>1. troubles' \in 0..MaxTroubles
        BY <1>1, BoundAssumption DEF Inv, TypeOK
  <2> QED BY <1>1, <1>2, <2>1 DEF Inv, TypeOK
<1>4. OneEntryEach'
      BY <1>1, NothingStored DEF Inv
<1>5. Progress'
      BY <1>1 DEF Inv, Progress
<1>6. ASSUME NEW c \in Calls, pc[c] # "idle"
      PROVE  \/ disturbed'[c]
             \/ /\ holder'[request[c].agent] = holder[request[c].agent]
                /\ request[c].signer \in accounts'[request[c].agent] <=>
                       request[c].signer \in accounts[request[c].agent]
  <2>1. request[c].agent \in Agents /\ request[c].signer \in Wallets
        BY RequestAssumption DEF Inv, TypeOK, Request
  <2>2. CASE request[c].agent # a
        BY <2>1, <2>2
  <2>3. CASE request[c].agent = a /\ w \in {request[c].signer, holder[a]}
        BY <1>2, <1>6, <2>3 DEF Concerned
  <2>4. CASE request[c].agent = a /\ w \notin {request[c].signer, holder[a]}
        BY <2>1, <2>4
  <2> QED BY <2>2, <2>3, <2>4
<1>7. Reasons'
  <2>1. \A c \in Calls : age'[c] \in Nat /\ age[c] <= age'[c]
        BY <1>1, BoundAssumption DEF Inv, TypeOK
  <2>2. Longer
        BY <1>1 DEF Longer
  <2>3. \A c \in Calls : disturbed[c] => disturbed'[c]
        BY <1>2
  <2>4. \A c \in Calls : pc[c] = "threw" \/ tx[c] = "failed" => Cause(c)'
        BY <1>1, <1>6, <2>1, <2>2, <2>3, ReasonsRemain
  <2> QED BY <1>1, <2>4 DEF Reasons
<1> QED BY <1>3, <1>4, <1>5, <1>7 DEF Inv

LEMMA OwnersPreserve ==
    ASSUME Inv, NEW a \in Agents, NEW w \in Wallets,
           Transfer(a, w) \/ Burn(a) \/ OpenAccount(a, w) \/ CloseAccount(a, w)
    PROVE  Inv'
<1>1. /\ holder \in [Agents -> Wallets \cup {Nobody}]
      /\ accounts \in [Agents -> SUBSET Wallets]
      BY DEF Inv, TypeOK
<1>2. CASE Transfer(a, w)
  <2>1. /\ holder[a] \in Wallets /\ holder' = [holder EXCEPT ![a] = w]
        /\ Disturb(a, holder[a]) /\ accounts' = accounts
        BY <1>2 DEF Transfer
  <2>2. /\ holder' \in [Agents -> Wallets \cup {Nobody}]
        /\ \A b \in Agents \ {a} : holder'[b] = holder[b]
        BY <1>1, <2>1
  <2> QED BY <1>1, <2>1, <2>2, DisturbPreserves
<1>3. CASE Burn(a)
  <2>1. /\ holder[a] \in Wallets /\ holder' = [holder EXCEPT ![a] = Nobody]
        /\ Disturb(a, holder[a]) /\ accounts' = accounts
        BY <1>3 DEF Burn
  <2>2. /\ holder' \in [Agents -> Wallets \cup {Nobody}]
        /\ \A b \in Agents \ {a} : holder'[b] = holder[b]
        BY <1>1, <2>1
  <2> QED BY <1>1, <2>1, <2>2, DisturbPreserves
<1>4. CASE OpenAccount(a, w)
  <2>1. /\ accounts' = [accounts EXCEPT ![a] = accounts[a] \cup {w}]
        /\ Disturb(a, w) /\ holder' = holder
        BY <1>4 DEF OpenAccount
  <2>2. /\ accounts' \in [Agents -> SUBSET Wallets]
        /\ \A b \in Agents \ {a} : accounts'[b] = accounts[b]
        /\ \A v \in Wallets \ {w} : v \in accounts'[a] <=> v \in accounts[a]
        BY <1>1, <2>1
  <2> QED BY <1>1, <2>1, <2>2, DisturbPreserves
<1>5. CASE CloseAccount(a, w)
  <2>1. /\ accounts' = [accounts EXCEPT ![a] = accounts[a] \ {w}]
        /\ Disturb(a, w) /\ holder' = holder
        BY <1>5 DEF CloseAccount
  <2>2. /\ accounts' \in [Agents -> SUBSET Wallets]
        /\ \A b \in Agents \ {a} : accounts'[b] = accounts[b]
        /\ \A v \in Wallets \ {w} : v \in accounts'[a] <=> v \in accounts[a]
        BY <1>1, <2>1
  <2> QED BY <1>1, <2>1, <2>2, DisturbPreserves
<1> QED BY <1>2, <1>3, <1>4, <1>5

\* What changes neither owners nor calls, apart from the age of blockhashes.
LEMMA BackgroundPreserves ==
    ASSUME Inv, InsertElsewhere \/ Index \/ Tick
    PROVE  Inv'
<1>1. /\ holder' = holder /\ accounts' = accounts /\ pc' = pc /\ request' = request
      /\ root' = root /\ tx' = tx /\ disturbed' = disturbed /\ faulted' = faulted
      /\ troubles' = troubles
      BY DEF InsertElsewhere, Index, Tick, owners, calls
<1>2. tree \in Seq(TreeEntry) /\ Len(tree) \in Nat /\ indexed \in 0..Len(tree)
      BY DEF Inv, OneEntryEach, TypeOK
<1>3. age' \in [Calls -> 0..Lifetime + 1] /\ \A c \in Calls : age[c] <= age'[c]
  <2>1. age \in [Calls -> 0..Lifetime + 1] /\ Lifetime \in Nat
        BY BoundAssumption DEF Inv, TypeOK
  <2>2. CASE age' = age
        BY <2>1, <2>2
  <2>3. CASE Tick
        BY <2>1, <2>3 DEF Tick
  <2> QED BY <2>2, <2>3 DEF InsertElsewhere, Index, calls
<1> DEFINE e == [address |-> Elsewhere]
<1>4. InsertElsewhere =>
          /\ tree' \in Seq(TreeEntry) /\ Len(tree') = Len(tree) + 1
          /\ \A i \in 1..Len(tree) : tree'[i] = tree[i]
          /\ tree'[Len(tree) + 1] = e
  <2>1. e \in TreeEntry
        BY DEF TreeEntry
  <2> QED BY <1>2, <2>1, Appended DEF InsertElsewhere
<1>5. ~InsertElsewhere => tree' = tree
      BY DEF Index, Tick
<1>6. Longer
      BY <1>4, <1>5 DEF Longer
<1>7. TypeOK'
  <2>1. indexed' \in 0..Len(tree')
    <3>1. CASE InsertElsewhere
          BY <3>1, <1>2, <1>4 DEF InsertElsewhere
    <3>2. CASE Index
          BY <3>2, <1>2 DEF Index
    <3>3. CASE Tick
          BY <3>3, <1>2 DEF Tick
    <3> QED BY <3>1, <3>2, <3>3
  <2>2. \A i \in 1..Len(tree') : tree'[i].address = Elsewhere \/ tree'[i].call \in Calls
    <3>1. CASE InsertElsewhere
      <4>1. \A i \in 1..Len(tree') : i \in 1..Len(tree) \/ i = Len(tree) + 1
            BY <3>1, <1>2, <1>4
      <4>2. \A i \in 1..Len(tree) : tree[i].address = Elsewhere \/ tree[i].call \in Calls
            BY DEF Inv, TypeOK
      <4> QED BY <3>1, <4>1, <4>2, <1>4
    <3>2. CASE ~InsertElsewhere
          BY <3>2, <1>5 DEF Inv, TypeOK
    <3> QED BY <3>1, <3>2
  <2> QED BY <1>1, <1>3, <2>1, <2>2 DEF Inv, TypeOK
<1>8. OneEntryEach'
  <2>1. CASE ~InsertElsewhere
        BY <2>1, <1>1, <1>5, NothingStored DEF Inv
  <2>2. CASE InsertElsewhere
    <3>1. \A i \in 1..Len(tree') : i \in 1..Len(tree) \/ tree'[i].address = Elsewhere
          BY <2>2, <1>2, <1>4
    <3>2. \A i \in 1..Len(tree) : i \in 1..Len(tree') /\ tree'[i] = tree[i]
          BY <2>2, <1>2, <1>4
    <3>3. \A i \in 1..Len(tree') : tree'[i].address # Elsewhere =>
              /\ tree'[i].call \in Calls /\ tx[tree'[i].call] = "landed"
              /\ tree'[i] = [address |-> Address(request[tree'[i].call]), call |-> tree'[i].call]
          BY <3>1, <3>2 DEF Inv, OneEntryEach
    <3>4. \A i, j \in 1..Len(tree') :
              tree'[i].address = tree'[j].address => i = j \/ tree'[i].address = Elsewhere
          BY <3>1, <3>2 DEF Inv, OneEntryEach
    <3>5. \A c \in Calls : tx[c] = "landed" => Stored(c)'
          BY <3>2, <1>1 DEF Inv, OneEntryEach, Stored
    <3> QED BY <2>2, <3>3, <3>4, <3>5, <1>1, <1>4 DEF OneEntryEach
  <2> QED BY <2>1, <2>2
<1>9. Progress'
      BY <1>1 DEF Inv, Progress
<1>10. Reasons'
  <2>1. \A c \in Calls : age'[c] \in Nat /\ age[c] <= age'[c]
        BY <1>3, BoundAssumption
  <2>2. \A c \in Calls : pc[c] = "threw" \/ tx[c] = "failed" => Cause(c)'
        BY <1>1, <1>6, <2>1, ReasonsRemain
  <2> QED BY <1>1, <2>2 DEF Reasons
<1> QED BY <1>7, <1>8, <1>9, <1>10 DEF Inv

-----------------------------------------------------------------------------
(* A transaction lands or fails                                             *)

LEMMA NotAccepted ==
    ASSUME Inv, NEW c \in Calls, ~Accepted(c)
    PROVE  Cause(c)
<1>1. \/ ~Precompile(Params(request[c])) \/ ~SignedForMode(Params(request[c]))
      \/ ~AccountsFit(Params(request[c])) \/ ~ScoreAddressFits(Params(request[c]))
      \/ Stale(c) \/ Address(request[c]) \in Inserted
      BY DEF Accepted, Admitted
<1> QED BY <1>1 DEF Cause, OtherCause, Proper

LEMMA LandPreserves ==
    ASSUME Inv, NEW c \in Calls, Land(c)
    PROVE  Inv'
<1> DEFINE key == Address(request[c])
           e == [address |-> key, call |-> c]
           n == Len(tree) + 1
<1>1. /\ tx[c] = "sent"
      /\ holder' = holder /\ accounts' = accounts /\ indexed' = indexed /\ pc' = pc
      /\ request' = request /\ root' = root /\ age' = age /\ disturbed' = disturbed
      /\ faulted' = faulted /\ troubles' = troubles
      /\ \/ Accepted(c) /\ tree' = Append(tree, e) /\ tx' = [tx EXCEPT ![c] = "landed"]
         \/ ~Accepted(c) /\ tree' = tree /\ tx' = [tx EXCEPT ![c] = "failed"]
      BY DEF Land, Store, owners
<1>2. /\ tree \in Seq(TreeEntry) /\ Len(tree) \in Nat
      /\ tx \in [Calls -> {"none", "sent", "landed", "failed"}]
      /\ request[c] \in Requests
      BY DEF Inv, OneEntryEach, TypeOK
<1>3. key \in Keys /\ key # Elsewhere /\ e \in TreeEntry
      BY <1>2, AddressFacts DEF TreeEntry
<1>4. /\ tx' \in [Calls -> {"none", "sent", "landed", "failed"}]
      /\ tx'[c] \in {"landed", "failed"} /\ \A d \in Calls : d # c => tx'[d] = tx[d]
      BY <1>1, <1>2
<1>5. Longer
      BY <1>1, <1>2, <1>3, Appended DEF Longer
<1>6. Progress'
  <2>1. pc[c] \in {"sending", "returned", "threw"} /\ pc[c] # "returned"
        BY <1>1 DEF Inv, Progress
  <2>2. \A d \in Calls : tx'[d] # "none" => pc[d] \in {"sending", "returned", "threw"}
        BY <1>4, <2>1 DEF Inv, Progress
  <2>3. \A d \in Calls : pc[d] = "sending" => tx'[d] # "none"
        BY <1>4 DEF Inv, Progress
  <2>4. \A d \in Calls : pc[d] = "returned" => tx'[d] = "landed"
        BY <1>4, <2>1 DEF Inv, Progress
  <2> QED BY <1>1, <2>2, <2>3, <2>4 DEF Progress
<1>7. \A d \in Calls : pc[d] = "threw" \/ tx[d] = "failed" => Cause(d)'
      BY <1>1, <1>5, BoundAssumption, ReasonsRemain DEF Inv, TypeOK
<1>8. CASE ~Accepted(c) /\ tree' = tree /\ tx' = [tx EXCEPT ![c] = "failed"]
  <2>1. tx'[c] = "failed"
        BY <1>2, <1>8
  <2>2. TypeOK'
        BY <1>1, <1>4, <1>8 DEF Inv, TypeOK
  <2>3. OneEntryEach'
        BY <1>1, <1>4, <1>8, <2>1, NothingStored DEF Inv
  <2>4. Cause(c)'
    <3>1. Cause(c)
          BY <1>8, NotAccepted
    <3>2. age[c] \in Nat
          BY BoundAssumption DEF Inv, TypeOK
    <3> QED BY <3>1, <3>2, <1>1, <1>5, CauseRemains
  <2>5. Reasons'
    <3>1. ASSUME NEW d \in Calls, pc'[d] = "threw" \/ tx'[d] = "failed" PROVE Cause(d)'
      <4>1. CASE d = c
            BY <2>4, <4>1
      <4>2. CASE d # c
            BY <3>1, <4>2, <1>1, <1>4, <1>7
      <4> QED BY <4>1, <4>2
    <3> QED BY <3>1 DEF Reasons
  <2> QED BY <1>6, <2>2, <2>3, <2>5 DEF Inv
<1>9. CASE Accepted(c) /\ tree' = Append(tree, e) /\ tx' = [tx EXCEPT ![c] = "landed"]
  <2>1. tx'[c] = "landed" /\ key \notin Inserted
        BY <1>2, <1>9 DEF Accepted
  <2> HIDE DEF e
  <2>2. /\ tree' \in Seq(TreeEntry) /\ Len(tree') = n
        /\ \A i \in 1..Len(tree) : tree'[i] = tree[i]
        /\ tree'[n] = e
        BY <1>2, <1>3, <1>9, Appended
  <2>3. e.address = key /\ e.call = c
        BY DEF e
  <2>4. \A i \in 1..Len(tree') : i \in 1..Len(tree) \/ i = n
        BY <1>2, <2>2
  <2>5. /\ \A i \in 1..Len(tree) : i \in 1..Len(tree') /\ tree'[i] = tree[i]
        /\ n \in 1..Len(tree') /\ n \notin 1..Len(tree)
        BY <1>2, <2>2
  <2>6. \A i \in 1..Len(tree) : tree[i].address # key
        BY <2>1 DEF Inserted
  <2>7. TypeOK'
    <3>1. indexed \in 0..Len(tree')
          BY <1>2, <2>2 DEF Inv, TypeOK
    <3>2. \A i \in 1..Len(tree') : tree'[i].address = Elsewhere \/ tree'[i].call \in Calls
      <4>1. \A i \in 1..Len(tree) : tree[i].address = Elsewhere \/ tree[i].call \in Calls
            BY DEF Inv, TypeOK
      <4> QED BY <4>1, <2>2, <2>3, <2>4, <2>5
    <3> QED BY <1>1, <1>4, <3>1, <3>2 DEF Inv, TypeOK
  <2>8. OneEntryEach'
    <3>1. ASSUME NEW i \in 1..Len(tree'), tree'[i].address # Elsewhere
          PROVE  /\ tree'[i].call \in Calls /\ tx'[tree'[i].call] = "landed"
                 /\ tree'[i] = [address |-> Address(request[tree'[i].call]),
                                call |-> tree'[i].call]
      <4>1. CASE i \in 1..Len(tree)
        <5>1. /\ tree[i].call \in Calls /\ tx[tree[i].call] = "landed"
              /\ tree[i] = [address |-> Address(request[tree[i].call]), call |-> tree[i].call]
              BY <3>1, <4>1, <2>5 DEF Inv, OneEntryEach
        <5>2. tree[i].call # c
              BY <5>1, <1>1
        <5> QED BY <4>1, <5>1, <5>2, <1>4, <2>5
      <4>2. CASE i = n
            BY <4>2, <2>1, <2>2, <2>3 DEF e
      <4> QED BY <4>1, <4>2, <2>4
    <3>2. ASSUME NEW i \in 1..Len(tree'), NEW j \in 1..Len(tree'),
                 tree'[i].address = tree'[j].address, i # j
          PROVE  tree'[i].address = Elsewhere
      <4>1. CASE i \in 1..Len(tree) /\ j \in 1..Len(tree)
            BY <3>2, <4>1, <2>5 DEF Inv, OneEntryEach
      <4>2. CASE i = n \/ j = n
        <5>1. \/ i \in 1..Len(tree) /\ tree[i].address = key
              \/ j \in 1..Len(tree) /\ tree[j].address = key
              BY <3>2, <4>2, <2>2, <2>3, <2>4, <2>5
        <5> QED BY <5>1, <2>6
      <4> QED BY <4>1, <4>2, <2>4
    <3>3. ASSUME NEW d \in Calls, tx'[d] = "landed" PROVE Stored(d)'
      <4>1. CASE d = c
        <5>1. tree'[n] = [address |-> Address(request'[d]), call |-> d]
              BY <4>1, <1>1, <2>2 DEF e
        <5> QED BY <5>1, <2>5 DEF Stored
      <4>2. CASE d # c
        <5>1. PICK i \in 1..Len(tree) : tree[i] = [address |-> Address(request[d]), call |-> d]
              BY <3>3, <4>2, <1>4 DEF Inv, OneEntryEach, Stored
        <5>2. i \in 1..Len(tree') /\ tree'[i] = [address |-> Address(request'[d]), call |-> d]
              BY <5>1, <1>1, <2>5
        <5> QED BY <5>2 DEF Stored
      <4> QED BY <4>1, <4>2
    <3> QED BY <3>1, <3>2, <3>3, <1>1, <2>2 DEF OneEntryEach
  <2>9. Reasons'
    <3>1. ASSUME NEW d \in Calls, pc'[d] = "threw" \/ tx'[d] = "failed" PROVE Cause(d)'
      <4>1. pc[d] = "threw" \/ tx[d] = "failed"
            BY <3>1, <1>1, <1>4, <2>1
      <4> QED BY <4>1, <1>7
    <3> QED BY <3>1 DEF Reasons
  <2> QED BY <1>6, <2>7, <2>8, <2>9 DEF Inv
<1> QED BY <1>1, <1>8, <1>9

-----------------------------------------------------------------------------
(* The calls                                                                *)

Phases == Running \cup {"idle", "returned", "threw"}
TxStates == {"none", "sent", "landed", "failed"}

\* A step of one call, which leaves the chain and the other calls alone.
StepOf(c, phase) ==
    /\ Goes(c, phase) /\ phase \in Phases
    /\ UNCHANGED <<holder, accounts, tree, indexed, age, disturbed>>
    /\ request' \in [Calls -> Requests] /\ root' \in [Calls -> Nat]
    /\ tx' \in [Calls -> TxStates] /\ faulted' \in [Calls -> BOOLEAN]
    /\ troubles' \in 0..MaxTroubles
    /\ \A d \in Calls \ {c} : /\ request'[d] = request[d] /\ root'[d] = root[d]
                              /\ tx'[d] = tx[d] /\ faulted'[d] = faulted[d]
    /\ pc[c] # "idle" => request'[c] = request[c]
    /\ tx'[c] = tx[c] \/ (tx[c] = "none" /\ tx'[c] = "sent")
    /\ tx'[c] # "none" => phase \in {"sending", "returned", "threw"}
    /\ phase = "sending" => tx'[c] # "none"
    /\ phase = "returned" => tx'[c] = "landed"
    /\ phase = "threw" \/ tx'[c] = "failed" => Cause(c)'

LEMMA StepPreserves ==
    ASSUME Inv, NEW c \in Calls, NEW phase, StepOf(c, phase)
    PROVE  Inv'
<1>1. /\ pc' = [pc EXCEPT ![c] = phase] /\ phase \in Phases
      /\ holder' = holder /\ accounts' = accounts /\ tree' = tree /\ indexed' = indexed
      /\ age' = age /\ disturbed' = disturbed
      BY DEF StepOf, Goes
<1>2. \A d \in Calls \ {c} : /\ request'[d] = request[d] /\ root'[d] = root[d]
                             /\ tx'[d] = tx[d] /\ faulted'[d] = faulted[d]
      BY DEF StepOf
<1>3. pc \in [Calls -> Phases]
      BY DEF Inv, TypeOK, Phases
<1>4. pc' \in [Calls -> Phases] /\ pc'[c] = phase /\ \A d \in Calls \ {c} : pc'[d] = pc[d]
      BY <1>1, <1>3
<1>5. TypeOK'
  <2>1. /\ request' \in [Calls -> Requests] /\ root' \in [Calls -> Nat]
        /\ tx' \in [Calls -> {"none", "sent", "landed", "failed"}]
        /\ faulted' \in [Calls -> BOOLEAN] /\ troubles' \in 0..MaxTroubles
        BY DEF StepOf, TxStates
  <2>2. pc' \in [Calls -> Running \cup {"idle", "returned", "threw"}]
        BY <1>4 DEF Phases
  <2> QED BY <1>1, <2>1, <2>2 DEF Inv, TypeOK
<1>6. OneEntryEach'
  <2>1. tx'[c] = tx[c] \/ (tx[c] = "none" /\ tx'[c] = "sent")
        BY DEF StepOf
  <2>2. \A d \in Calls : (tx'[d] = "landed") <=> (tx[d] = "landed")
        BY <1>2, <2>1
  <2>3. \A d \in Calls : tx[d] = "landed" => request'[d] = request[d]
    <3>1. tx[c] = "landed" => pc[c] # "idle"
          BY DEF Inv, Progress
    <3>2. pc[c] # "idle" => request'[c] = request[c]
          BY DEF StepOf
    <3> QED BY <3>1, <3>2, <1>2
  <2> QED BY <1>1, <2>2, <2>3, NothingStored DEF Inv
<1>7. Progress'
  <2>1. /\ tx'[c] # "none" => pc'[c] \in {"sending", "returned", "threw"}
        /\ pc'[c] = "sending" => tx'[c] # "none"
        /\ pc'[c] = "returned" => tx'[c] = "landed"
        BY <1>4 DEF StepOf
  <2>2. ASSUME NEW d \in Calls \ {c}
        PROVE  /\ tx'[d] # "none" => pc'[d] \in {"sending", "returned", "threw"}
               /\ pc'[d] = "sending" => tx'[d] # "none"
               /\ pc'[d] = "returned" => tx'[d] = "landed"
        BY <1>2, <1>4 DEF Inv, Progress
  <2> QED BY <2>1, <2>2 DEF Progress
<1>8. Reasons'
  <2>1. ASSUME NEW d \in Calls, pc'[d] = "threw" \/ tx'[d] = "failed" PROVE Cause(d)'
    <3>1. CASE d = c
      <4>1. phase = "threw" \/ tx'[c] = "failed"
            BY <2>1, <3>1, <1>4
      <4>2. Cause(c)'
            BY <4>1 DEF StepOf
      <4> QED BY <3>1, <4>2
    <3>2. CASE d # c
      <4>1. /\ request'[d] = request[d] /\ root'[d] = root[d] /\ tx'[d] = tx[d]
            /\ faulted'[d] = faulted[d] /\ pc'[d] = pc[d]
            BY <3>2, <1>2, <1>4
      <4>2. Cause(d)
            BY <2>1, <4>1 DEF Inv, Reasons
      <4>3. age[d] \in Nat /\ age'[d] = age[d] /\ disturbed'[d] = disturbed[d]
            BY <1>1, BoundAssumption DEF Inv, TypeOK
      <4>4. Longer
            BY <1>1 DEF Longer
      <4> QED BY <4>1, <4>2, <4>3, <4>4, <1>1, CauseRemains
    <3> QED BY <3>1, <3>2
  <2> QED BY <2>1 DEF Reasons
<1> QED BY <1>5, <1>6, <1>7, <1>8 DEF Inv

\* The types that the steps below rely on.
LEMMA CallTypes ==
    ASSUME Inv
    PROVE  /\ pc \in [Calls -> Phases] /\ request \in [Calls -> Requests]
           /\ root \in [Calls -> Nat] /\ tx \in [Calls -> TxStates]
           /\ faulted \in [Calls -> BOOLEAN] /\ troubles \in 0..MaxTroubles
           /\ indexed \in Nat /\ indexed <= Len(tree) /\ Len(tree) \in Nat
BY DEF Inv, TypeOK, Phases, TxStates, OneEntryEach

LEMMA StartPreserves ==
    ASSUME Inv, NEW c \in Calls, NEW r \in Requests, Start(c, r)
    PROVE  Inv'
<1> DEFINE phase == IF Refused(r) THEN "threw" ELSE "load"
<1>1. /\ pc[c] = "idle" /\ request' = [request EXCEPT ![c] = r] /\ Goes(c, phase)
      /\ UNCHANGED <<holder, accounts, tree, indexed, disturbed, faulted, troubles>>
      /\ UNCHANGED <<root, age, tx>>
      BY DEF Start, Client, owners
<1>2. tx[c] = "none"
      BY <1>1 DEF Inv, Progress
<1>3. /\ request' \in [Calls -> Requests] /\ request'[c] = r
      /\ \A d \in Calls \ {c} : request'[d] = request[d]
      BY <1>1, CallTypes
<1>4. phase = "threw" => Cause(c)'
  <2> SUFFICES ASSUME Refused(r) PROVE Cause(c)'
      BY DEF Phases
  <2>1. ~Proper(request'[c])
        BY <1>3 DEF Proper
  <2>2. OtherCause(c)'
        BY <2>1 DEF OtherCause
  <2> QED BY <2>2 DEF Cause
<1>5. phase \in Phases /\ phase \notin {"sending", "returned"}
      BY DEF Phases, Running, Waiting
<1> HIDE DEF phase
<1>6. StepOf(c, phase)
      BY <1>1, <1>2, <1>3, <1>4, <1>5, CallTypes DEF StepOf
<1> QED BY <1>6, StepPreserves

LEMMA LoadAgentPreserves ==
    ASSUME Inv, NEW c \in Calls, LoadAgent(c)
    PROVE  Inv'
<1>1. /\ pc[c] = "load"
      /\ UNCHANGED <<holder, accounts, tree, indexed, disturbed, faulted, troubles>>
      /\ UNCHANGED <<request, root, age, tx>>
      BY DEF LoadAgent, Client, owners
<1>2. PICK phase \in {"threw", "blockhash", "prove"} :
          Goes(c, phase) /\ (phase = "threw" => holder[request[c].agent] = Nobody)
  <2>1. CASE holder[request[c].agent] = Nobody
    <3>1. Goes(c, "threw")
          BY <2>1 DEF LoadAgent
    <3> QED BY <2>1, <3>1
  <2>2. CASE holder[request[c].agent] # Nobody /\ request[c].api = "score"
    <3>1. Goes(c, "blockhash")
          BY <2>2 DEF LoadAgent
    <3> QED BY <3>1
  <2>3. CASE holder[request[c].agent] # Nobody /\ request[c].api # "score"
    <3>1. Goes(c, "prove")
          BY <2>3 DEF LoadAgent
    <3> QED BY <3>1
  <2> QED BY <2>1, <2>2, <2>3
<1>3. tx[c] = "none"
      BY <1>1 DEF Inv, Progress
<1>4. phase = "threw" => Cause(c)'
  <2> SUFFICES ASSUME phase = "threw" PROVE Cause(c)'
      OBVIOUS
  <2>1. OtherCause(c)'
        BY <1>1, <1>2 DEF OtherCause
  <2> QED BY <2>1 DEF Cause
<1>5. phase \in Phases /\ phase \notin {"sending", "returned"}
      BY <1>2 DEF Phases, Running, Waiting
<1>6. StepOf(c, phase)
      BY <1>1, <1>2, <1>3, <1>4, <1>5, CallTypes DEF StepOf
<1> QED BY <1>6, StepPreserves

LEMMA PrepareCreatePreserves ==
    ASSUME Inv, NEW c \in Calls, PrepareCreate(c)
    PROVE  Inv'
<1>1. /\ pc[c] = "prove"
      /\ UNCHANGED <<holder, accounts, tree, indexed, disturbed, faulted, troubles>>
      /\ UNCHANGED <<request, age, tx>>
      BY DEF PrepareCreate, Client, owners
<1>2. PICK phase \in {"threw", "blockhash"} :
          /\ Goes(c, phase)
          /\ phase = "threw" => Address(request[c]) \in Indexed
          /\ root' = root \/ root' = [root EXCEPT ![c] = indexed]
      BY DEF PrepareCreate, Goes
<1>3. tx[c] = "none"
      BY <1>1 DEF Inv, Progress
<1>4. phase = "threw" => Cause(c)'
  <2> SUFFICES ASSUME phase = "threw" PROVE Cause(c)'
      OBVIOUS
  <2>1. Indexed \subseteq Inserted
        BY CallTypes DEF Indexed, Inserted
  <2>2. Address(request'[c]) \in Inserted'
        BY <1>1, <1>2, <2>1 DEF Inserted
  <2>3. OtherCause(c)'
        BY <2>2 DEF OtherCause
  <2> QED BY <2>3 DEF Cause
<1>5. phase \in Phases /\ phase \notin {"sending", "returned"}
      BY <1>2 DEF Phases, Running, Waiting
<1>6. root' \in [Calls -> Nat] /\ \A d \in Calls \ {c} : root'[d] = root[d]
      BY <1>2, CallTypes
<1>7. StepOf(c, phase)
      BY <1>1, <1>2, <1>3, <1>4, <1>5, <1>6, CallTypes DEF StepOf
<1> QED BY <1>7, StepPreserves

\* Both ways for a transaction to be sent.
LEMMA SendingPreserves ==
    ASSUME Inv, NEW c \in Calls, TakeBlockhash(c) \/ SendBuilt(c)
    PROVE  Inv'
<1>1. /\ pc[c] \in {"blockhash", "built"}
      /\ UNCHANGED <<holder, accounts, tree, indexed, disturbed, faulted, troubles>>
      /\ UNCHANGED <<request, root, age>>
      BY DEF TakeBlockhash, SendBuilt, Client, owners
<1>2. PICK phase \in {"built", "sending"} :
          /\ Goes(c, phase)
          /\ \/ phase = "built" /\ tx' = tx
             \/ phase = "sending" /\ tx' = [tx EXCEPT ![c] = "sent"]
      BY DEF TakeBlockhash, SendBuilt, Goes
<1>3. tx[c] = "none"
      BY <1>1 DEF Inv, Progress
<1>4. /\ tx' \in [Calls -> TxStates] /\ \A d \in Calls \ {c} : tx'[d] = tx[d]
      /\ \/ phase = "built" /\ tx'[c] = "none"
         \/ phase = "sending" /\ tx'[c] = "sent"
      BY <1>2, <1>3, CallTypes DEF TxStates
<1>5. phase \in Phases
      BY <1>2 DEF Phases, Running, Waiting
<1>6. StepOf(c, phase)
      BY <1>1, <1>2, <1>3, <1>4, <1>5, CallTypes DEF StepOf
<1> QED BY <1>6, StepPreserves

LEMMA ConfirmPreserves ==
    ASSUME Inv, NEW c \in Calls, Confirm(c)
    PROVE  Inv'
<1> DEFINE phase == IF tx[c] = "landed" THEN "returned" ELSE "threw"
<1>1. /\ pc[c] = "sending" /\ Goes(c, phase)
      /\ tx[c] \in {"landed", "failed"} \/ age[c] > Lifetime
      /\ UNCHANGED <<holder, accounts, tree, indexed, disturbed, faulted, troubles>>
      /\ UNCHANGED <<request, root, age, tx>>
      BY DEF Confirm, Client, owners
<1>2. phase = "threw" => Cause(c)'
  <2>1. CASE tx[c] = "failed"
    <3>1. Cause(c) /\ age[c] \in Nat
          BY <2>1, BoundAssumption DEF Inv, Reasons, TypeOK
    <3>2. Longer
          BY <1>1 DEF Longer
    <3> QED BY <3>1, <3>2, <1>1, CauseRemains
  <2>2. CASE age[c] > Lifetime
    <3>1. OtherCause(c)'
          BY <1>1, <2>2 DEF OtherCause
    <3> QED BY <3>1 DEF Cause
  <2>3. CASE tx[c] = "landed"
        BY <2>3
  <2> QED BY <1>1, <2>1, <2>2, <2>3
<1>3. phase \in Phases /\ phase \in {"returned", "threw"} /\ (phase = "returned" => tx[c] = "landed")
      /\ (tx[c] = "failed" => phase = "threw")
      BY DEF Phases
<1> HIDE DEF phase
<1>4. StepOf(c, phase)
      BY <1>1, <1>2, <1>3, CallTypes DEF StepOf
<1> QED BY <1>4, StepPreserves

LEMMA FaultPreserves ==
    ASSUME Inv, NEW c \in Calls, Fault(c)
    PROVE  Inv'
<1>1. /\ pc[c] \in Waiting /\ Goes(c, "threw") /\ troubles < MaxTroubles
      /\ troubles' = troubles + 1 /\ faulted' = [faulted EXCEPT ![c] = TRUE]
      /\ UNCHANGED <<holder, accounts, tree, indexed, request, root, age, tx, disturbed>>
      BY DEF Fault, owners
<1>2. /\ faulted' \in [Calls -> BOOLEAN] /\ faulted'[c] = TRUE
      /\ \A d \in Calls \ {c} : faulted'[d] = faulted[d]
      BY <1>1, CallTypes
<1>3. troubles' \in 0..MaxTroubles
      BY <1>1, CallTypes, BoundAssumption
<1>4. Cause(c)'
  <2>1. OtherCause(c)'
        BY <1>2 DEF OtherCause
  <2> QED BY <2>1 DEF Cause
<1>5. "threw" \in Phases /\ pc[c] # "idle"
      BY <1>1 DEF Phases, Waiting
<1>6. StepOf(c, "threw")
      BY <1>1, <1>2, <1>3, <1>4, <1>5, CallTypes DEF StepOf
<1> QED BY <1>6, StepPreserves

LEMMA StutterPreserves == Inv /\ UNCHANGED vars => Inv'
<1> SUFFICES ASSUME Inv, UNCHANGED vars PROVE Inv'
    OBVIOUS
<1>1. /\ holder' = holder /\ accounts' = accounts /\ tree' = tree /\ indexed' = indexed
      /\ pc' = pc /\ request' = request /\ root' = root /\ age' = age /\ tx' = tx
      /\ disturbed' = disturbed /\ faulted' = faulted /\ troubles' = troubles
      BY DEF vars, owners, calls
<1>2. TypeOK' /\ Progress'
      BY <1>1 DEF Inv, TypeOK, Progress
<1>3. OneEntryEach'
      BY <1>1, NothingStored DEF Inv
<1>4. Reasons'
  <2>1. Longer
        BY <1>1 DEF Longer
  <2>2. \A c \in Calls : age[c] \in Nat
        BY BoundAssumption DEF Inv, TypeOK
  <2>3. \A c \in Calls : pc[c] = "threw" \/ tx[c] = "failed" => Cause(c)'
        BY <1>1, <2>1, <2>2, ReasonsRemain
  <2> QED BY <1>1, <2>3 DEF Reasons
<1> QED BY <1>2, <1>3, <1>4 DEF Inv

LEMMA Invariance == Spec => []Inv
<1>1. Inv /\ [Next]_vars => Inv'
  <2> SUFFICES ASSUME Inv, [Next]_vars PROVE Inv'
      OBVIOUS
  <2>1. ASSUME NEW c \in Calls, NEW r \in Requests, Start(c, r) PROVE Inv'
        BY <2>1, StartPreserves
  <2>2. ASSUME NEW c \in Calls, Await(c) \/ SendBuilt(c) \/ Fault(c) \/ Land(c) PROVE Inv'
        BY <2>2, LoadAgentPreserves, PrepareCreatePreserves, SendingPreserves, ConfirmPreserves,
           FaultPreserves, LandPreserves DEF Await
  <2>3. ASSUME NEW a \in Agents, NEW w \in Wallets,
               Transfer(a, w) \/ OpenAccount(a, w) \/ CloseAccount(a, w)
        PROVE  Inv'
        BY <2>3, OwnersPreserve
  <2>4. ASSUME NEW a \in Agents, Burn(a) PROVE Inv'
    <3>1. holder[a] \in Wallets
          BY <2>4 DEF Burn
    <3> QED BY <2>4, <3>1, OwnersPreserve
  <2>5. CASE InsertElsewhere \/ Index \/ Tick
        BY <2>5, BackgroundPreserves
  <2>6. CASE UNCHANGED vars
        BY <2>6, StutterPreserves
  <2> QED BY <2>1, <2>2, <2>3, <2>4, <2>5, <2>6 DEF Next
<1> QED BY <1>1, Initially, PTL DEF Spec

-----------------------------------------------------------------------------
(* The theorems                                                             *)

\* What the calls of SATIClient, the tree and the transactions may look like.
THEOREM TypeCorrect == Spec => []TypeOK
BY Invariance, PTL DEF Inv

\* Whoever got an address from createFeedback (client.ts:1338) finds his attestation
\* at it.
THEOREM CreatedIsStored == Spec => []ReturnedIsStored
<1>1. Inv => ReturnedIsStored
      BY DEF Inv, Progress, OneEntryEach, ReturnedIsStored
<1> QED BY <1>1, Invariance, PTL

\* Of all attempts to submit one attestation, by retries or by rivals, one at most is
\* told that it succeeded.
THEOREM OneWinner == Spec => []OneAttemptReturns
<1>1. Inv => OneAttemptReturns
  <2> SUFFICES ASSUME Inv, NEW c \in Calls, NEW d \in Calls,
                      pc[c] = "returned", pc[d] = "returned",
                      Address(request[c]) = Address(request[d])
               PROVE  c = d
      BY DEF OneAttemptReturns
  <2>1. PICK i \in 1..Len(tree) : tree[i] = [address |-> Address(request[c]), call |-> c]
        BY DEF Inv, Progress, OneEntryEach, Stored
  <2>2. PICK j \in 1..Len(tree) : tree[j] = [address |-> Address(request[d]), call |-> d]
        BY DEF Inv, Progress, OneEntryEach, Stored
  <2>3. tree[i].address # Elsewhere
    <3>1. request[c] \in Requests
          BY DEF Inv, TypeOK
    <3> QED BY <3>1, <2>1, AddressFacts
  <2>4. tree[i].address = tree[j].address
        BY <2>1, <2>2
  <2>5. i = j
        BY <2>3, <2>4 DEF Inv, OneEntryEach
  <2>6. tree[i].call = c /\ tree[j].call = d
        BY <2>1, <2>2
  <2> QED BY <2>5, <2>6
<1> QED BY <1>1, Invariance, PTL

\* No call fails but for a reason that its caller can be told.
THEOREM NoFailureByChance == Spec => []FailsForCause
<1>1. Inv => FailsForCause
      BY DEF Inv, Reasons, Cause, FailsForCause
<1> QED BY <1>1, Invariance, PTL

-----------------------------------------------------------------------------
(* Refinement of AttestationBook                                            *)

Spent == Inserted \ {Elsewhere}

\* The entry that position i of the tree contributes.
Entry(i) == [store |-> "compressed", key |-> tree[i].address,
             schema |-> request[tree[i].call].schema, body |-> tree[i].call]

LEMMA AttestationsAre ==
    /\ \A e : e \in Attestations <=>
                  \E i \in 1..Len(tree) : tree[i].address # Elsewhere /\ e = Entry(i)
    /\ \A k : k \in Spent <=>
                  \E i \in 1..Len(tree) : tree[i].address # Elsewhere /\ k = tree[i].address
BY DEF Attestations, Spent, Inserted, Entry

\* A step that stores nothing leaves the book as it is.
LEMMA NothingPosted ==
    ASSUME Inv, \/ tree' = tree
                \/ tree' = Append(tree, [address |-> Elsewhere]),
           \A c \in Calls : tx[c] = "landed" => request'[c] = request[c]
    PROVE  Attestations' = Attestations /\ Spent' = Spent
<1> DEFINE e == [address |-> Elsewhere]
<1>1. /\ tree \in Seq(TreeEntry) /\ Len(tree) \in Nat /\ e \in TreeEntry
      BY DEF Inv, OneEntryEach, TreeEntry
<1>2. /\ \A i \in 1..Len(tree) : i \in 1..Len(tree') /\ tree'[i] = tree[i]
      /\ \A i \in 1..Len(tree') : i \in 1..Len(tree) \/ tree'[i].address = Elsewhere
  <2>1. CASE tree' = tree
        BY <2>1
  <2>2. CASE tree' = Append(tree, e)
    <3>1. /\ Len(tree') = Len(tree) + 1 /\ \A i \in 1..Len(tree) : tree'[i] = tree[i]
          /\ tree'[Len(tree) + 1] = e
          BY <2>2, <1>1, Appended
    <3>2. \A i \in 1..Len(tree') : i \in 1..Len(tree) \/ i = Len(tree) + 1
          BY <3>1, <1>1
    <3>3. \A i \in 1..Len(tree) : i \in 1..Len(tree')
          BY <3>1, <1>1
    <3> QED BY <3>1, <3>2, <3>3
  <2> QED BY <2>1, <2>2
<1>3. \A i \in 1..Len(tree) : tree[i].address # Elsewhere => Entry(i)' = Entry(i)
  <2> SUFFICES ASSUME NEW i \in 1..Len(tree), tree[i].address # Elsewhere
               PROVE  Entry(i)' = Entry(i)
      OBVIOUS
  <2>1. tree[i].call \in Calls /\ tx[tree[i].call] = "landed"
        BY DEF Inv, OneEntryEach
  <2>2. request'[tree[i].call] = request[tree[i].call] /\ tree'[i] = tree[i]
        BY <2>1, <1>2
  <2> QED BY <2>2 DEF Entry
<1>4. \A x : x \in Attestations' <=>
          \E i \in 1..Len(tree') : tree'[i].address # Elsewhere /\ x = Entry(i)'
      BY DEF Attestations, Entry
<1>5. \A k : k \in Spent' <=>
          \E i \in 1..Len(tree') : tree'[i].address # Elsewhere /\ k = tree'[i].address
      BY DEF Spent, Inserted
<1>6. Attestations' = Attestations
  <2>1. \A x : x \in Attestations' <=> x \in Attestations
        BY <1>2, <1>3, <1>4, AttestationsAre
  <2> QED BY <2>1 DEF Attestations
<1>7. Spent' = Spent
  <2>1. \A k : k \in Spent' <=> k \in Spent
        BY <1>2, <1>5, AttestationsAre
  <2> QED BY <2>1 DEF Spent
<1> QED BY <1>6, <1>7

\* A transaction that lands posts its attestation.
LEMMA LandPosts ==
    ASSUME Inv, NEW c \in Calls, Accepted(c), Store(c), request' = request
    PROVE  \E e \in Attestations' : Book!Post(e)
<1> DEFINE key == Address(request[c])
           new == [address |-> key, call |-> c]
           e == [store |-> "compressed", key |-> key, schema |-> request[c].schema, body |-> c]
<1>1. /\ tree \in Seq(TreeEntry) /\ Len(tree) \in Nat /\ request[c] \in Requests
      BY DEF Inv, OneEntryEach, TypeOK
<1>2. key \in Keys /\ key # Elsewhere /\ new \in TreeEntry
      BY <1>1, AddressFacts DEF TreeEntry
<1>0. PICK n \in Nat : n = Len(tree) + 1
      BY <1>1
<1>3. /\ Len(tree') = n /\ tree'[n] = new
      /\ \A i \in 1..Len(tree) : tree'[i] = tree[i]
      BY <1>0, <1>1, <1>2, Appended DEF Store
<1>4. /\ \A i \in 1..Len(tree) : i \in 1..Len(tree')
      /\ \A i \in 1..Len(tree') : i \in 1..Len(tree) \/ i = n
      /\ n \in 1..Len(tree')
      BY <1>0, <1>1, <1>3
<1>5. \A i \in 1..Len(tree) : Entry(i)' = Entry(i)
      BY <1>3 DEF Entry
<1>6. Entry(n)' = e /\ tree'[n].address = key
  <2>1. tree'[n].address = key /\ tree'[n].call = c
        BY <1>3
  <2> QED BY <2>1 DEF Entry
<1> HIDE DEF e, new, key
<1>7. \A x : x \in Attestations' <=>
          \E i \in 1..Len(tree') : tree'[i].address # Elsewhere /\ x = Entry(i)'
      BY DEF Attestations, Entry
<1>8. \A k : k \in Spent' <=>
          \E i \in 1..Len(tree') : tree'[i].address # Elsewhere /\ k = tree'[i].address
      BY DEF Spent, Inserted
<1>9. Attestations' = Attestations \cup {e}
  <2>1. \A x : x \in Attestations' <=> x \in Attestations \/ x = e
    <3>1. ASSUME NEW x, x \in Attestations' PROVE x \in Attestations \/ x = e
      <4>1. PICK i \in 1..Len(tree') : tree'[i].address # Elsewhere /\ x = Entry(i)'
            BY <3>1, <1>7
      <4>2. CASE i \in 1..Len(tree)
            BY <4>1, <4>2, <1>3, <1>5, AttestationsAre
      <4>3. CASE i = n
            BY <4>1, <4>3, <1>6
      <4> QED BY <4>2, <4>3, <1>4
    <3>2. ASSUME NEW x \in Attestations PROVE x \in Attestations'
      <4>1. PICK i \in 1..Len(tree) : tree[i].address # Elsewhere /\ x = Entry(i)
            BY AttestationsAre
      <4> QED BY <4>1, <1>3, <1>4, <1>5, <1>7
    <3>3. e \in Attestations'
          BY <1>2, <1>4, <1>6, <1>7
    <3> QED BY <3>1, <3>2, <3>3
  <2>2. \A x : x \in Attestations' <=> x \in Attestations \cup {e}
        BY <2>1
  <2> QED BY <2>2 DEF Attestations
<1>10. Spent' = Spent \cup {key}
  <2>1. \A k : k \in Spent' <=> k \in Spent \/ k = key
        BY <1>2, <1>3, <1>4, <1>6, <1>8, AttestationsAre
  <2>2. \A k : k \in Spent' <=> k \in Spent \cup {key}
        BY <2>1
  <2> QED BY <2>2 DEF Spent
<1>11. key \notin Spent
      BY DEF Accepted, Spent, key
<1>12. \A f \in Attestations : f.key \in Spent /\ f.key # key
  <2> SUFFICES ASSUME NEW f \in Attestations PROVE f.key \in Spent
      BY <1>11
  <2>1. PICK i \in 1..Len(tree) : tree[i].address # Elsewhere /\ f = Entry(i)
        BY AttestationsAre
  <2>2. f.key = tree[i].address
        BY <2>1 DEF Entry
  <2> QED BY <2>1, <2>2, AttestationsAre
<1>13. e.store = "compressed" /\ e.key = key
      BY DEF e
<1>14. e \notin Attestations /\ \A f \in Attestations : <<f.store, f.key>> # <<e.store, e.key>>
      BY <1>12, <1>13
<1>15. e \in Attestations'
      BY <1>9
<1>16. Book!Post(e)
      BY <1>9, <1>10, <1>11, <1>13, <1>14 DEF Book!Post, Spent
<1> QED BY <1>15, <1>16

LEMMA StepBook ==
    Inv /\ [Next]_vars => [Book!Next]_<<Attestations, Inserted \ {Elsewhere}>>
<1> SUFFICES ASSUME Inv, [Next]_vars
             PROVE  Book!Next \/ (Attestations' = Attestations /\ Spent' = Spent)
    BY DEF Spent
<1> DEFINE Result == Book!Next \/ (Attestations' = Attestations /\ Spent' = Spent)
<1>1. ASSUME tree' = tree \/ tree' = Append(tree, [address |-> Elsewhere]), request' = request
      PROVE  Result
      BY <1>1, NothingPosted
<1>2. ASSUME NEW c \in Calls, NEW r \in Requests, Start(c, r) PROVE Result
  <2>1. tree' = tree /\ pc[c] = "idle" /\ request' = [request EXCEPT ![c] = r]
        BY <1>2 DEF Start, Client
  <2>2. tx[c] # "landed"
        BY <2>1 DEF Inv, Progress
  <2>3. \A d \in Calls : tx[d] = "landed" => request'[d] = request[d]
        BY <2>1, <2>2 DEF Inv, TypeOK
  <2> QED BY <2>1, <2>3, NothingPosted
<1>3. ASSUME NEW c \in Calls, Await(c) \/ SendBuilt(c) \/ Fault(c) PROVE Result
  <2>1. tree' = tree /\ request' = request
        BY <1>3 DEF Await, LoadAgent, PrepareCreate, TakeBlockhash, Confirm, SendBuilt, Fault,
                    Client
  <2> QED BY <2>1, <1>1
<1>4. ASSUME NEW c \in Calls, Land(c) PROVE Result
  <2>1. request' = request /\ ((Accepted(c) /\ Store(c)) \/ tree' = tree)
        BY <1>4 DEF Land
  <2>2. CASE Accepted(c) /\ Store(c)
        BY <2>1, <2>2, LandPosts DEF Book!Next
  <2>3. CASE tree' = tree
        BY <2>1, <2>3, <1>1
  <2> QED BY <2>1, <2>2, <2>3
<1>5. ASSUME NEW a \in Agents, NEW w \in Wallets,
             Transfer(a, w) \/ OpenAccount(a, w) \/ CloseAccount(a, w) \/ Burn(a)
      PROVE  Result
  <2>1. tree' = tree /\ request' = request
        BY <1>5 DEF Transfer, OpenAccount, CloseAccount, Burn, Disturb
  <2> QED BY <2>1, <1>1
<1>6. ASSUME NEW a \in Agents, Burn(a) PROVE Result
  <2>1. tree' = tree /\ request' = request
        BY <1>6 DEF Burn, Disturb
  <2> QED BY <2>1, <1>1
<1>7. CASE InsertElsewhere \/ Index \/ Tick \/ UNCHANGED vars
  <2>1. request' = request /\ (tree' = tree \/ tree' = Append(tree, [address |-> Elsewhere]))
        BY <1>7 DEF InsertElsewhere, Index, Tick, vars, calls
  <2> QED BY <2>1, <1>1
<1> QED BY <1>2, <1>3, <1>4, <1>5, <1>6, <1>7 DEF Next

\* What the SDK's callers submit is one book: one entry under each address, never
\* rewritten and never withdrawn, an address spent for ever.
THEOREM Refinement == Spec => ImplementsBook
<1>1. Init => Book!Init
  <2> SUFFICES ASSUME Init PROVE Book!Init
      OBVIOUS
  <2>1. Len(tree) = 0
        BY DEF Init
  <2>2. Attestations = {} /\ Inserted = {}
        BY <2>1 DEF Attestations, Inserted
  <2> QED BY <2>2 DEF Book!Init
<1> QED BY <1>1, StepBook, Invariance, PTL DEF Spec, ImplementsBook, Book!Spec
=============================================================================
