------------------------- MODULE SatiRegistry_proofs -------------------------
(***************************************************************************)
(* Proofs about SatiRegistry, for any number of wallets, mints, clients,     *)
(* groups and schemas and any limit of the counter.                          *)
(*                                                                          *)
(* IInv is the inductive invariant.  Enumeration needs to know that the      *)
(* counter is within its range; MemberNumbersAgree needs to know what every   *)
(* group held before initialize, because initialize chooses one of them;      *)
(* RaceHasOneWinner needs that no two pending transactions share a mint.      *)
(***************************************************************************)
EXTENDS SatiRegistry, Sequences, TLAPS

\* The counter is 0 until initialize and never exceeds its limit.
CounterInRange ==
    /\ totalAgents <= CountMax
    /\ ~Initialized => totalAgents = 0

\* Only the registry's own group has gained members.
GroupsCounted ==
    \A g \in Groups :
        groupSize[g] = IF g = groupMint THEN GroupSize0[g] + totalAgents
                                        ELSE GroupSize0[g]

\* Each pending transaction has a mint of its own.
OneTransactionPerMint == \A t, u \in pending : t.mint = u.mint => t = u

\* A call that has sent a transaction knows its mint.
SentMint == \A c \in Clients : call[c].phase = "sent" => call[c].mint \in Mints

\* What a call has returned is a value the counter has had, and it covers the agent.
ReturnedCovered ==
    \A c \in Clients :
        /\ call[c].number <= totalAgents
        /\ call[c].phase = "returned" =>
              \E n \in 1..call[c].number : agentIndex[n] = call[c].mint

IInv ==
    /\ TypeOK
    /\ CounterInRange
    /\ Enumeration
    /\ GroupsCounted
    /\ MemberNumbersAgree
    /\ OneTransactionPerMint
    /\ SentMint
    /\ ReturnedCovered

-----------------------------------------------------------------------------
(* Type correctness                                                         *)

\* A successful transaction names an existing group and the next member number.
LEMMA SuccessFacts ==
    ASSUME TypeOK, NEW tx \in pending, RegisterSucceeds(tx)
    PROVE  /\ tx \in Transaction
           /\ groupMint \in Groups
           /\ tx.number = totalAgents + 1
           /\ tx.number \in 1..CountMax
           /\ agentIndex[tx.number] = NoMint
           /\ account[tx.mint] = NoAccount
BY CountAssumption DEF TypeOK, RegisterSucceeds, IndexSeedsMatch, Initialized, Transaction

\* The initial state is well typed.
LEMMA InitTypeOK == Init => TypeOK
BY SentinelsAssumption, GroupAssumption, CountAssumption
   DEF Init, TypeOK, Calls, Idle

\* Every step keeps every variable in its type, for all values of the constants.
LEMMA StepTypeOK == TypeOK /\ [Next]_vars => TypeOK'
<1> SUFFICES ASSUME TypeOK, [Next]_vars PROVE TypeOK'
    OBVIOUS
<1> USE DEF TypeOK, config, roll
<1>1. ASSUME NEW w \in Wallets, NEW g \in Groups, Initialize(w, g) PROVE TypeOK'
      BY <1>1 DEF Initialize
<1>2. ASSUME NEW w \in Wallets, NEW new \in Wallets \cup {NoWallet}, UpdateAuthority(w, new)
      PROVE  TypeOK'
      BY <1>2 DEF UpdateAuthority
<1>3. ASSUME NEW w \in Wallets, NEW s \in Schemas, NEW cfg \in Configs,
             RegisterSchemaConfig(w, s, cfg)
      PROVE  TypeOK'
      BY <1>3 DEF RegisterSchemaConfig
<1>4. ASSUME NEW tx \in pending, RegisterAgent(tx) PROVE TypeOK'
  <2>1. RegisterSucceeds(tx)
        BY <1>4 DEF RegisterAgent
  <2>2. /\ tx \in Transaction /\ groupMint \in Groups
        /\ tx.number \in 1..CountMax
        BY <2>1, SuccessFacts
  <2>3. [mintAuthority |-> NoWallet, supply |-> 1, member |-> groupSize[groupMint] + 1,
         nonTransferable |-> tx.nonTransferable, holder |-> tx.owner] \in AgentMint
        BY <2>2 DEF AgentMint, Transaction
  <2>4. account' \in [Mints -> AgentMint \cup {NoAccount}]
        BY <1>4, <2>2, <2>3 DEF RegisterAgent, Transaction
  <2>5. groupSize' \in [Groups -> Nat]
        BY <1>4, <2>2 DEF RegisterAgent
  <2>6. agentIndex' \in [1..CountMax -> Mints \cup {NoMint}] /\ totalAgents' \in Nat
        BY <1>4, <2>2 DEF RegisterAgent, Transaction
  <2> QED BY <1>4, <2>4, <2>5, <2>6 DEF RegisterAgent
<1>5. ASSUME NEW tx \in pending, TransactionFails(tx) PROVE TypeOK'
      BY <1>5 DEF TransactionFails
<1>6. ASSUME NEW c \in Clients, NEW m \in Mints, NEW owner \in Wallets,
             NEW ownerSigns \in BOOLEAN, NEW metadata \in Metadata,
             NEW nonTransferable \in BOOLEAN,
             SendRegistration(c, m, owner, ownerSigns, metadata, nonTransferable)
      PROVE  TypeOK'
  <2>1. [mint |-> m, number |-> totalAgents + 1, owner |-> owner, ownerSigns |-> ownerSigns,
         metadata |-> metadata, nonTransferable |-> nonTransferable] \in Transaction
        BY DEF Transaction
  <2>2. [phase |-> "sent", mint |-> m, number |-> 0] \in Calls
        BY DEF Calls
  <2> QED BY <1>6, <2>1, <2>2 DEF SendRegistration
<1>7. ASSUME NEW c \in Clients, SendThrows(c) PROVE TypeOK'
      BY <1>7 DEF SendThrows, Calls, Idle
<1>8. ASSUME NEW c \in Clients, ReturnMemberNumber(c) PROVE TypeOK'
      BY <1>8 DEF ReturnMemberNumber, Calls
<1>9. ASSUME NEW m \in Mints, NEW to \in Wallets, Transfer(m, to) PROVE TypeOK'
      BY <1>9 DEF Transfer, AgentMint
<1>10. ASSUME NEW m \in Mints, Burn(m) PROVE TypeOK'
  <2>1. account[m] \in AgentMint /\ account[m].supply - 1 \in Nat
        BY <1>10 DEF Burn, AgentMint
  <2>2. [account[m] EXCEPT !.supply = @ - 1, !.holder = NoWallet] \in AgentMint
        BY <2>1 DEF AgentMint
  <2> QED BY <1>10, <2>2 DEF Burn
<1>11. ASSUME UNCHANGED vars PROVE TypeOK'
       BY <1>11 DEF vars
<1> QED BY <1>1, <1>2, <1>3, <1>4, <1>5, <1>6, <1>7, <1>8, <1>9, <1>10, <1>11 DEF Next

\* Every variable of the registry has its type in every reachable state.
THEOREM TypeCorrect == Spec => []TypeOK
BY InitTypeOK, StepTypeOK, PTL DEF Spec

-----------------------------------------------------------------------------
(* The inductive invariant                                                  *)

\* An empty registry satisfies the invariant.
LEMMA InitIInv == Init => IInv
<1> SUFFICES ASSUME Init PROVE IInv
    OBVIOUS
<1>1. TypeOK
      BY InitTypeOK
<1>2. CounterInRange /\ GroupsCounted /\ OneTransactionPerMint
      BY SentinelsAssumption, GroupAssumption, CountAssumption
      DEF Init, CounterInRange, GroupsCounted, OneTransactionPerMint
<1>3. Enumeration
      BY CountAssumption DEF Init, Enumeration, Registered
<1>4. MemberNumbersAgree
      BY DEF Init, MemberNumbersAgree, Initialized
<1>5. SentMint /\ ReturnedCovered
      BY DEF Init, SentMint, ReturnedCovered, Idle
<1> QED BY <1>1, <1>2, <1>3, <1>4, <1>5 DEF IInv

\* What Transfer, Burn and the steps of clients leave alone.
LedgerUntouched ==
    /\ UNCHANGED <<groupMint, roll>>
    /\ \A m \in Mints :
          /\ account'[m] = NoAccount <=> account[m] = NoAccount
          /\ account[m] # NoAccount => account'[m].member = account[m].member

\* A step that leaves the ledger alone keeps the parts of IInv about it.
LEMMA LedgerFrame ==
    ASSUME IInv, LedgerUntouched
    PROVE  CounterInRange' /\ Enumeration' /\ GroupsCounted' /\ MemberNumbersAgree'
<1> USE DEF roll, LedgerUntouched
<1>1. CounterInRange' /\ GroupsCounted'
      BY DEF IInv, CounterInRange, GroupsCounted, Initialized
<1>2. Enumeration'
      BY DEF IInv, Enumeration, Registered
<1>3. ASSUME NEW n \in 1..totalAgents
      PROVE  agentIndex[n] \in Mints /\ account[agentIndex[n]] # NoAccount
  <2>1. n \in 1..CountMax
        BY CountAssumption DEF IInv, TypeOK, CounterInRange
  <2>2. agentIndex[n] \in Mints
        BY <2>1 DEF IInv, TypeOK, Enumeration
  <2> QED BY <2>2 DEF IInv, Enumeration, Registered
<1>4. MemberNumbersAgree'
      BY <1>3 DEF IInv, MemberNumbersAgree, Initialized
<1> QED BY <1>1, <1>2, <1>4

\* A step that no client takes and that leaves the roll alone keeps the rest of IInv.
LEMMA ClientsFrame ==
    ASSUME IInv, UNCHANGED <<call, totalAgents, agentIndex>>, pending' \subseteq pending
    PROVE  OneTransactionPerMint' /\ SentMint' /\ ReturnedCovered'
BY DEF IInv, OneTransactionPerMint, SentMint, ReturnedCovered

\* A step that leaves roll, accounts, transactions and calls alone keeps IInv.
LEMMA QuietStep ==
    ASSUME IInv, TypeOK', LedgerUntouched, call' = call, pending' \subseteq pending
    PROVE  IInv'
BY LedgerFrame, ClientsFrame DEF IInv, LedgerUntouched, roll

\* Calls that stay as they are stay covered while the ledger only grows.
LEMMA ReturnedFrame ==
    ASSUME IInv, totalAgents' \in Nat, totalAgents <= totalAgents',
           \A n \in 1..totalAgents : agentIndex'[n] = agentIndex[n],
           NEW c \in Clients, call'[c] = call[c]
    PROVE  /\ call'[c].number <= totalAgents'
           /\ call'[c].phase = "returned" =>
                 \E n \in 1..call'[c].number : agentIndex'[n] = call'[c].mint
<1>1. call[c].number \in Nat /\ call[c].number <= totalAgents /\ totalAgents \in Nat
      BY DEF IInv, TypeOK, Calls, ReturnedCovered
<1>2. call'[c].number <= totalAgents'
      BY <1>1
<1>3. ASSUME call[c].phase = "returned"
      PROVE  \E n \in 1..call[c].number : agentIndex'[n] = call[c].mint
  <2>1. PICK n \in 1..call[c].number : agentIndex[n] = call[c].mint
        BY <1>3 DEF IInv, ReturnedCovered
  <2>2. n \in 1..totalAgents
        BY <1>1
  <2> QED BY <2>1, <2>2
<1> QED BY <1>2, <1>3

\* register_agent extends the ledger by one agent and disturbs nothing in it.
LEMMA RegisterAgentIInv ==
    ASSUME IInv, NEW tx \in pending, RegisterAgent(tx)
    PROVE  /\ CounterInRange' /\ Enumeration' /\ GroupsCounted' /\ MemberNumbersAgree'
           /\ OneTransactionPerMint' /\ SentMint' /\ ReturnedCovered'
<1>1. /\ tx \in Transaction /\ groupMint \in Groups
      /\ tx.number = totalAgents + 1 /\ tx.number \in 1..CountMax
      /\ agentIndex[tx.number] = NoMint /\ account[tx.mint] = NoAccount
      /\ tx.mint \in Mints
      BY SuccessFacts DEF RegisterAgent, IInv, Transaction
<1>2. /\ totalAgents \in Nat /\ CountMax \in Nat
      /\ agentIndex \in [1..CountMax -> Mints \cup {NoMint}]
      /\ account \in [Mints -> AgentMint \cup {NoAccount}]
      /\ groupSize \in [Groups -> Nat]
      BY CountAssumption DEF IInv, TypeOK
<1>3. /\ totalAgents' = totalAgents + 1
      /\ agentIndex' = [agentIndex EXCEPT ![tx.number] = tx.mint]
      /\ groupSize' = [groupSize EXCEPT ![groupMint] = @ + 1]
      /\ groupMint' = groupMint /\ call' = call /\ pending' = pending \ {tx}
      BY DEF RegisterAgent, config
<1>4. /\ account'[tx.mint].member = groupSize[groupMint] + 1
      /\ account'[tx.mint] # NoAccount
      /\ \A m \in Mints \ {tx.mint} : account'[m] = account[m]
  <2>1. account' = [account EXCEPT ![tx.mint] =
                     [mintAuthority |-> NoWallet, supply |-> 1,
                      member |-> groupSize[groupMint] + 1,
                      nonTransferable |-> tx.nonTransferable,
                      holder |-> tx.owner]]
        BY DEF RegisterAgent
  <2>2. [mintAuthority |-> NoWallet, supply |-> 1, member |-> groupSize[groupMint] + 1,
         nonTransferable |-> tx.nonTransferable, holder |-> tx.owner] \in AgentMint
        BY <1>1, <1>2 DEF AgentMint, Transaction
  <2> QED BY <1>1, <1>2, <2>1, <2>2, AccountAssumption
<1>5. \A n \in 1..totalAgents : agentIndex'[n] = agentIndex[n]
      BY <1>1, <1>2, <1>3
<1>6. agentIndex'[totalAgents + 1] = tx.mint
      BY <1>1, <1>2, <1>3
<1>7. CounterInRange'
      BY <1>1, <1>2, <1>3, SentinelsAssumption DEF CounterInRange, Initialized, IInv
<1>8. GroupsCounted'
  <2> SUFFICES ASSUME NEW g \in Groups
               PROVE  groupSize'[g] = IF g = groupMint THEN GroupSize0[g] + (totalAgents + 1)
                                                      ELSE GroupSize0[g]
      BY <1>3 DEF GroupsCounted
  <2>1. groupSize[g] = IF g = groupMint THEN GroupSize0[g] + totalAgents ELSE GroupSize0[g]
        BY DEF IInv, GroupsCounted
  <2>2. GroupSize0[g] \in Nat /\ groupSize[g] \in Nat
        BY <1>2, GroupAssumption
  <2>3. groupSize'[g] = IF g = groupMint THEN groupSize[g] + 1 ELSE groupSize[g]
        BY <1>1, <1>2, <1>3
  <2> QED BY <1>2, <2>1, <2>2, <2>3
<1>9. \A n \in 1..totalAgents : agentIndex[n] \in Mints \ {tx.mint}
  <2> SUFFICES ASSUME NEW n \in 1..totalAgents PROVE agentIndex[n] \in Mints \ {tx.mint}
      OBVIOUS
  <2>1. n \in 1..CountMax
        BY <1>2 DEF IInv, CounterInRange
  <2>2. agentIndex[n] \in Mints
        BY <1>2, <2>1 DEF IInv, Enumeration
  <2>3. agentIndex[n] # tx.mint
        BY <1>1 DEF IInv, Enumeration, Registered
  <2> QED BY <2>2, <2>3
<1>10. Enumeration'
  <2>1. \A n \in 1..CountMax : agentIndex'[n] # NoMint <=> n <= totalAgents'
    <3> SUFFICES ASSUME NEW n \in 1..CountMax
                 PROVE  agentIndex'[n] # NoMint <=> n <= totalAgents + 1
        BY <1>3
    <3>1. CASE n = totalAgents + 1
          BY <3>1, <1>1, <1>6, SentinelsAssumption
    <3>2. CASE n # totalAgents + 1
      <4>1. agentIndex'[n] = agentIndex[n]
            BY <3>2, <1>1, <1>2, <1>3
      <4>2. n <= totalAgents + 1 <=> n <= totalAgents
            BY <3>2, <1>2
      <4>3. agentIndex[n] # NoMint <=> n <= totalAgents
            BY DEF IInv, Enumeration
      <4> QED BY <4>1, <4>2, <4>3
    <3> QED BY <3>1, <3>2
  <2>2. \A n, k \in 1..totalAgents' : agentIndex'[n] = agentIndex'[k] => n = k
    <3> SUFFICES ASSUME NEW n \in 1..totalAgents + 1, NEW k \in 1..totalAgents + 1,
                        agentIndex'[n] = agentIndex'[k]
                 PROVE  n = k
        BY <1>3
    <3>1. CASE n \in 1..totalAgents /\ k \in 1..totalAgents
          BY <3>1, <1>5 DEF IInv, Enumeration
    <3>2. CASE n = totalAgents + 1 /\ k \in 1..totalAgents
          BY <3>2, <1>5, <1>6, <1>9
    <3>3. CASE k = totalAgents + 1 /\ n \in 1..totalAgents
          BY <3>3, <1>5, <1>6, <1>9
    <3> QED BY <3>1, <3>2, <3>3, <1>2
  <2>3. ASSUME NEW m \in Mints
        PROVE  account'[m] # NoAccount <=> \E n \in 1..totalAgents' : agentIndex'[n] = m
    <3>1. CASE m = tx.mint
          BY <3>1, <1>2, <1>3, <1>4, <1>6
    <3>2. CASE m # tx.mint
      <4>1. account[m] # NoAccount <=> \E n \in 1..totalAgents : agentIndex[n] = m
            BY DEF IInv, Enumeration, Registered
      <4>2. (\E n \in 1..totalAgents : agentIndex[n] = m)
              <=> \E n \in 1..totalAgents + 1 : agentIndex'[n] = m
            BY <3>2, <1>2, <1>5, <1>6
      <4> QED BY <3>2, <4>1, <4>2, <1>3, <1>4
    <3> QED BY <3>1, <3>2
  <2> QED BY <2>1, <2>2, <2>3 DEF Enumeration, Registered
<1>11. MemberNumbersAgree'
  <2>1. groupSize[groupMint] = GroupSize0[groupMint] + totalAgents
        BY <1>1 DEF IInv, GroupsCounted
  <2>2. ASSUME NEW n \in 1..totalAgents + 1
        PROVE  account'[agentIndex'[n]].member = GroupSize0[groupMint] + n
    <3>1. CASE n = totalAgents + 1
          BY <3>1, <2>1, <1>1, <1>2, <1>4, <1>6, GroupAssumption
    <3>2. CASE n \in 1..totalAgents
      <4>1. account[agentIndex[n]].member = GroupSize0[groupMint] + n
            BY <3>2, <1>1, SentinelsAssumption DEF IInv, MemberNumbersAgree, Initialized
      <4> QED BY <3>2, <4>1, <1>4, <1>5, <1>9
    <3> QED BY <3>1, <3>2, <1>2
  <2>3. groupSize'[groupMint] = GroupSize0[groupMint] + (totalAgents + 1)
    <3>1. groupSize'[groupMint] = groupSize[groupMint] + 1
          BY <1>1, <1>2, <1>3
    <3>2. GroupSize0[groupMint] \in Nat /\ groupSize[groupMint] \in Nat
          BY <1>1, <1>2, GroupAssumption
    <3>3. totalAgents \in Nat
          BY <1>2
    <3> QED BY <3>1, <3>2, <3>3, <2>1
  <2> QED BY <2>2, <2>3, <1>3 DEF MemberNumbersAgree
<1>12. OneTransactionPerMint' /\ SentMint'
       BY <1>3 DEF IInv, OneTransactionPerMint, SentMint
<1>13. ReturnedCovered'
  <2>1. totalAgents' \in Nat /\ totalAgents <= totalAgents'
        BY <1>2, <1>3
  <2> QED BY <2>1, <1>3, <1>5, ReturnedFrame DEF ReturnedCovered
<1> QED BY <1>7, <1>8, <1>10, <1>11, <1>12, <1>13

\* initialize finds no agent registered, and takes the group as it is.
LEMMA InitializeIInv ==
    ASSUME IInv, NEW w \in Wallets, NEW g \in Groups, Initialize(w, g)
    PROVE  CounterInRange' /\ Enumeration' /\ GroupsCounted' /\ MemberNumbersAgree'
<1>1. /\ totalAgents = 0 /\ totalAgents' = 0 /\ groupMint' = g
      /\ agentIndex' = agentIndex /\ groupSize' = groupSize /\ account' = account
      BY DEF Initialize, IInv, CounterInRange
<1>2. groupMint \notin Groups
      BY SentinelsAssumption DEF Initialize, Initialized, IInv, TypeOK
<1>3. CounterInRange'
      BY <1>1, CountAssumption DEF CounterInRange
<1>4. Enumeration'
      BY <1>1 DEF IInv, Enumeration, Registered
<1>5. GroupsCounted'
  <2> SUFFICES ASSUME NEW h \in Groups
               PROVE  groupSize[h] = IF h = g THEN GroupSize0[h] + 0 ELSE GroupSize0[h]
      BY <1>1 DEF GroupsCounted
  <2>1. groupSize[h] = GroupSize0[h]
        BY <1>2 DEF IInv, GroupsCounted
  <2>2. GroupSize0[h] \in Nat
        BY GroupAssumption
  <2> QED BY <2>1, <2>2
<1>6. MemberNumbersAgree'
  <2>1. groupSize[g] = GroupSize0[g] + 0
        BY <1>1, <1>5 DEF GroupsCounted
  <2> QED BY <1>1, <2>1 DEF MemberNumbersAgree
<1> QED BY <1>3, <1>4, <1>5, <1>6

\* ReturnMemberNumber reads the counter after its agent was registered.
LEMMA ReturnMemberNumberIInv ==
    ASSUME IInv, NEW c \in Clients, ReturnMemberNumber(c)
    PROVE  ReturnedCovered'
<1> SUFFICES ASSUME NEW d \in Clients
             PROVE  /\ call'[d].number <= totalAgents
                    /\ call'[d].phase = "returned" =>
                          \E n \in 1..call'[d].number : agentIndex[n] = call'[d].mint
    BY DEF ReturnMemberNumber, roll, ReturnedCovered
<1>1. /\ totalAgents \in Nat /\ call \in [Clients -> Calls]
      /\ account \in [Mints -> AgentMint \cup {NoAccount}]
      BY DEF IInv, TypeOK
<1>2. CASE d = c
  <2>1. call'[c].number = totalAgents /\ call'[c].mint = call[c].mint
        BY <1>1 DEF ReturnMemberNumber, Calls
  <2>2. ASSUME call[c].mint \in Mints
        PROVE  \E n \in 1..totalAgents : agentIndex[n] = call[c].mint
        BY <2>2 DEF ReturnMemberNumber, IInv, Enumeration, Registered
  <2>3. call[c].mint \in Mints
        BY DEF ReturnMemberNumber, IInv, SentMint
  <2> QED BY <1>1, <1>2, <2>1, <2>2, <2>3
<1>3. CASE d # c
  <2>1. call'[d] = call[d]
        BY <1>1, <1>3 DEF ReturnMemberNumber
  <2> QED BY <2>1 DEF IInv, ReturnedCovered
<1> QED BY <1>2, <1>3

\* A new transaction has a fresh mint, in no other transaction and no other call.
LEMMA SendRegistrationIInv ==
    ASSUME IInv, NEW c \in Clients, NEW m \in Mints, NEW owner \in Wallets,
           NEW ownerSigns \in BOOLEAN, NEW metadata \in Metadata,
           NEW nonTransferable \in BOOLEAN,
           SendRegistration(c, m, owner, ownerSigns, metadata, nonTransferable)
    PROVE  OneTransactionPerMint' /\ SentMint' /\ ReturnedCovered'
<1> DEFINE tx == [mint |-> m, number |-> totalAgents + 1, owner |-> owner,
                  ownerSigns |-> ownerSigns, metadata |-> metadata,
                  nonTransferable |-> nonTransferable]
<1>1. pending' = pending \cup {tx} /\ \A t \in pending : t.mint # m
      BY DEF SendRegistration, Fresh
<1>2. tx.mint = m
      OBVIOUS
<1>3. OneTransactionPerMint'
  <2> HIDE DEF tx
  <2> QED BY <1>1, <1>2 DEF OneTransactionPerMint, IInv
<1>4. /\ call' = [call EXCEPT ![c] = [phase |-> "sent", mint |-> m, number |-> 0]]
      /\ call \in [Clients -> Calls] /\ totalAgents \in Nat
      /\ UNCHANGED <<totalAgents, agentIndex>>
      BY DEF SendRegistration, roll, IInv, TypeOK
<1>5. SentMint'
      BY <1>4 DEF SentMint, IInv
<1>6. ReturnedCovered'
      BY <1>4 DEF ReturnedCovered, IInv
<1> QED BY <1>3, <1>5, <1>6

\* Every step keeps the inductive invariant, for all values of the constants.
LEMMA StepIInv == IInv /\ [Next]_vars => IInv'
<1> SUFFICES ASSUME IInv, [Next]_vars PROVE IInv'
    OBVIOUS
<1>0. TypeOK'
      BY StepTypeOK DEF IInv
<1>1. ASSUME NEW w \in Wallets, NEW g \in Groups, Initialize(w, g) PROVE IInv'
  <2>1. UNCHANGED <<call, pending, agentIndex, totalAgents>>
        BY <1>1 DEF Initialize, IInv, CounterInRange
  <2> QED BY <1>0, <1>1, <2>1, InitializeIInv, ClientsFrame DEF IInv
<1>2. ASSUME NEW w \in Wallets, NEW new \in Wallets \cup {NoWallet}, UpdateAuthority(w, new)
      PROVE  IInv'
  <2>1. LedgerUntouched /\ UNCHANGED <<pending, call>>
        BY <1>2 DEF UpdateAuthority, LedgerUntouched
  <2> QED BY <1>0, <2>1, QuietStep
<1>3. ASSUME NEW w \in Wallets, NEW s \in Schemas, NEW cfg \in Configs,
             RegisterSchemaConfig(w, s, cfg)
      PROVE  IInv'
  <2>1. LedgerUntouched /\ UNCHANGED <<pending, call>>
        BY <1>3 DEF RegisterSchemaConfig, LedgerUntouched
  <2> QED BY <1>0, <2>1, QuietStep
<1>4. ASSUME NEW tx \in pending, RegisterAgent(tx) PROVE IInv'
      BY <1>0, <1>4, RegisterAgentIInv DEF IInv
<1>5. ASSUME NEW tx \in pending, TransactionFails(tx) PROVE IInv'
  <2>1. LedgerUntouched /\ call' = call /\ pending' \subseteq pending
        BY <1>5 DEF TransactionFails, LedgerUntouched, config
  <2> QED BY <1>0, <2>1, QuietStep
<1>6. ASSUME NEW c \in Clients, NEW m \in Mints, NEW owner \in Wallets,
             NEW ownerSigns \in BOOLEAN, NEW metadata \in Metadata,
             NEW nonTransferable \in BOOLEAN,
             SendRegistration(c, m, owner, ownerSigns, metadata, nonTransferable)
      PROVE  IInv'
  <2>1. LedgerUntouched
        BY <1>6 DEF SendRegistration, LedgerUntouched, config
  <2> QED BY <1>0, <1>6, <2>1, LedgerFrame, SendRegistrationIInv DEF IInv
<1>7. ASSUME NEW c \in Clients, SendThrows(c) PROVE IInv'
  <2>1. LedgerUntouched
        BY <1>7 DEF SendThrows, LedgerUntouched, config
  <2>2. OneTransactionPerMint' /\ SentMint'
        BY <1>7 DEF SendThrows, OneTransactionPerMint, SentMint, Idle, IInv, TypeOK
  <2>3. ReturnedCovered'
        BY <1>7 DEF SendThrows, ReturnedCovered, Idle, IInv, TypeOK, roll
  <2> QED BY <1>0, <2>1, <2>2, <2>3, LedgerFrame DEF IInv
<1>8. ASSUME NEW c \in Clients, ReturnMemberNumber(c) PROVE IInv'
  <2>1. LedgerUntouched
        BY <1>8 DEF ReturnMemberNumber, LedgerUntouched, config
  <2>2. OneTransactionPerMint' /\ SentMint'
        BY <1>8 DEF ReturnMemberNumber, OneTransactionPerMint, SentMint, IInv, TypeOK, Calls
  <2> QED BY <1>0, <1>8, <2>1, <2>2, LedgerFrame, ReturnMemberNumberIInv DEF IInv
<1>9. ASSUME NEW m \in Mints, NEW to \in Wallets, Transfer(m, to) PROVE IInv'
  <2>1. UNCHANGED <<groupMint, roll, pending, call>>
        BY <1>9 DEF Transfer, config
  <2>2. account[m] \in AgentMint
        BY <1>9 DEF Transfer, IInv, TypeOK
  <2>3. [account[m] EXCEPT !.holder = to] \in AgentMint
        BY <2>2 DEF AgentMint
  <2>4. LedgerUntouched
        BY <1>9, <2>1, <2>2, <2>3, AccountAssumption
        DEF Transfer, LedgerUntouched, IInv, TypeOK, AgentMint
  <2> QED BY <1>0, <2>1, <2>4, QuietStep
<1>10. ASSUME NEW m \in Mints, Burn(m) PROVE IInv'
  <2>1. UNCHANGED <<groupMint, roll, pending, call>>
        BY <1>10 DEF Burn, config
  <2>2. account[m] \in AgentMint /\ account[m].supply - 1 \in Nat
        BY <1>10 DEF Burn, IInv, TypeOK, AgentMint
  <2>3. /\ [account[m] EXCEPT !.supply = @ - 1, !.holder = NoWallet] \in AgentMint
        /\ [account[m] EXCEPT !.supply = @ - 1, !.holder = NoWallet].member
              = account[m].member
        BY <2>2 DEF AgentMint
  <2>4. LedgerUntouched
        BY <1>10, <2>1, <2>2, <2>3, AccountAssumption DEF Burn, LedgerUntouched, IInv, TypeOK
  <2> QED BY <1>0, <2>1, <2>4, QuietStep
<1>11. ASSUME UNCHANGED vars PROVE IInv'
  <2>1. LedgerUntouched /\ UNCHANGED <<pending, call>>
        BY <1>11 DEF vars, LedgerUntouched, roll
  <2> QED BY <1>0, <2>1, QuietStep
<1> QED BY <1>1, <1>2, <1>3, <1>4, <1>5, <1>6, <1>7, <1>8, <1>9, <1>10, <1>11 DEF Next

\* The inductive invariant holds in every reachable state.
THEOREM Invariance == Spec => []IInv
BY InitIInv, StepIInv, PTL DEF Spec

-----------------------------------------------------------------------------
(* What follows from it                                                     *)

\* Only initialize and register_agent touch the roll, and nothing else than the
\* authority's instructions the rest of the registry's configuration.
LEMMA StepKinds ==
    ASSUME [Next]_vars
    PROVE  /\ \/ UNCHANGED <<totalAgents, agentIndex>>
              \/ \E w \in Wallets, g \in Groups : Initialize(w, g)
              \/ \E tx \in pending : RegisterAgent(tx)
           /\ UNCHANGED config \/ ~Initialized \/ ~IsImmutable
<1> DEFINE Kinds == /\ \/ UNCHANGED <<totalAgents, agentIndex>>
                       \/ \E w \in Wallets, g \in Groups : Initialize(w, g)
                       \/ \E tx \in pending : RegisterAgent(tx)
                    /\ UNCHANGED config \/ ~Initialized \/ ~IsImmutable
<1> USE DEF roll
<1>1. ASSUME NEW w \in Wallets, NEW g \in Groups, Initialize(w, g) PROVE Kinds
  <2>1. ~Initialized
        BY <1>1 DEF Initialize
  <2> QED BY <1>1, <2>1
<1>2. ASSUME NEW w \in Wallets, NEW new \in Wallets \cup {NoWallet}, UpdateAuthority(w, new)
      PROVE  Kinds
      BY <1>2 DEF UpdateAuthority
<1>3. ASSUME NEW w \in Wallets, NEW s \in Schemas, NEW cfg \in Configs,
             RegisterSchemaConfig(w, s, cfg)
      PROVE  Kinds
      BY <1>3 DEF RegisterSchemaConfig
<1>4. ASSUME NEW tx \in pending, RegisterAgent(tx) PROVE Kinds
  <2>1. UNCHANGED config
        BY <1>4 DEF RegisterAgent
  <2> QED BY <1>4, <2>1
<1>5. ASSUME NEW tx \in pending, TransactionFails(tx) PROVE Kinds
      BY <1>5 DEF TransactionFails
<1>6. ASSUME NEW c \in Clients, NEW m \in Mints, NEW owner \in Wallets,
             NEW ownerSigns \in BOOLEAN, NEW metadata \in Metadata,
             NEW nonTransferable \in BOOLEAN,
             SendRegistration(c, m, owner, ownerSigns, metadata, nonTransferable)
      PROVE  Kinds
      BY <1>6 DEF SendRegistration
<1>7. ASSUME NEW c \in Clients, SendThrows(c) \/ ReturnMemberNumber(c) PROVE Kinds
      BY <1>7 DEF SendThrows, ReturnMemberNumber
<1>8. ASSUME NEW m \in Mints, NEW to \in Wallets, Transfer(m, to) PROVE Kinds
      BY <1>8 DEF Transfer
<1>9. ASSUME NEW m \in Mints, Burn(m) PROVE Kinds
      BY <1>9 DEF Burn
<1>10. ASSUME UNCHANGED vars PROVE Kinds
       BY <1>10 DEF vars, config
<1> HIDE DEF Kinds
<1>11. Kinds
       BY <1>1, <1>2, <1>3, <1>4, <1>5, <1>6, <1>7, <1>8, <1>9, <1>10 DEF Next
<1> QED BY <1>11 DEF Kinds

\* Walking the AgentIndex PDAs from 1 to total_agents meets every agent once.
THEOREM EnumerationHolds == Spec => []Enumeration
BY Invariance, PTL DEF IInv

\* The index number and the Token-2022 member number of an agent never drift apart.
THEOREM MemberNumbersHold == Spec => []MemberNumbersAgree
BY Invariance, PTL DEF IInv

\* The number registerAgent returns is an upper bound of its agent's number.
THEOREM ReturnedNumberCovers == Spec => []ReturnedNumberCoversAgent
<1>1. IInv => ReturnedNumberCoversAgent
      BY DEF IInv, ReturnedCovered, ReturnedNumberCoversAgent
<1> QED BY <1>1, Invariance, PTL

\* A group that was empty at initialize, as the deployed one, gives every agent a
\* member number equal to its index.
THEOREM EmptyGroupNumbers == Spec => []IndexIsMemberNumber
<1>1. IInv => IndexIsMemberNumber
  <2> SUFFICES ASSUME IInv, Initialized, GroupSize0[groupMint] = 0, NEW n \in 1..totalAgents
               PROVE  account[agentIndex[n]].member = n
      BY DEF IndexIsMemberNumber
  <2>1. account[agentIndex[n]].member = GroupSize0[groupMint] + n
        BY DEF IInv, MemberNumbersAgree
  <2> QED BY <2>1
<1> QED BY <1>1, Invariance, PTL

\* Once one of the transactions that compete for a member number is in, the others
\* can only fail.
THEOREM OneWinner == Spec => RaceHasOneWinner
<1>1. ASSUME IInv, [Next]_vars, NEW t \in pending, NEW u \in pending,
             t # u, t.number = u.number, ~Registered(t.mint), Registered(t.mint)'
      PROVE  ~RegisterSucceeds(u)'
  <2>1. PICK n \in 1..totalAgents' : agentIndex'[n] = t.mint
        BY <1>1 DEF Registered
  <2>2. PICK tx \in pending : RegisterAgent(tx)
    <3>1. ~UNCHANGED <<totalAgents, agentIndex>>
          BY <2>1, <1>1 DEF Registered
    <3>2. ASSUME NEW w \in Wallets, NEW g \in Groups PROVE ~Initialize(w, g)
          BY <3>1, <1>1 DEF Initialize, IInv, CounterInRange
    <3> QED BY <3>1, <3>2, <1>1, StepKinds
  <2>3. RegisterSucceeds(tx) /\ tx.number = totalAgents + 1 /\ tx.number \in 1..CountMax
        BY <1>1, <2>2, SuccessFacts DEF RegisterAgent, IInv
  <2>4. /\ totalAgents' = totalAgents + 1 /\ totalAgents \in Nat
        /\ agentIndex' = [agentIndex EXCEPT ![tx.number] = tx.mint]
        /\ agentIndex \in [1..CountMax -> Mints \cup {NoMint}]
        BY <1>1, <2>2 DEF RegisterAgent, IInv, TypeOK
  <2>5. t.mint = tx.mint
    <3>1. CASE n \in 1..totalAgents
      <4>1. n \in 1..CountMax /\ n # tx.number
            BY <3>1, <2>3, <2>4, CountAssumption DEF IInv, CounterInRange
      <4>2. agentIndex[n] = t.mint
            BY <4>1, <2>1, <2>4
      <4> QED BY <4>2, <3>1, <1>1 DEF Registered
    <3>2. CASE n = totalAgents + 1
          BY <3>2, <2>1, <2>3, <2>4
    <3> QED BY <3>1, <3>2, <2>4
  <2>6. t = tx
        BY <2>2, <2>5, <1>1 DEF IInv, OneTransactionPerMint
  <2>7. u.number = totalAgents + 1
        BY <2>3, <2>6, <1>1
  <2> QED BY <2>4, <2>7 DEF RegisterSucceeds, IndexSeedsMatch
<1>2. IInv /\ [Next]_vars =>
        [\A t, u \in pending :
            t # u /\ t.number = u.number /\ ~Registered(t.mint) /\ Registered(t.mint)'
               => ~RegisterSucceeds(u)']_vars
      BY <1>1
<1> QED BY <1>2, Invariance, PTL DEF Spec, RaceHasOneWinner

\* A renounced registry stays renounced, its group and its schema configurations
\* frozen, and the agents it has keep their numbers.
THEOREM RenouncingIsForever == Spec => RenouncedForever
<1>1. ASSUME IInv, [Next]_vars, Initialized, IsImmutable
      PROVE  /\ IsImmutable' /\ UNCHANGED <<groupMint, schemaConfig>>
             /\ \A n \in 1..totalAgents : agentIndex'[n] = agentIndex[n]
  <2>1. ASSUME NEW tx \in pending, RegisterAgent(tx)
        PROVE  \A n \in 1..totalAgents : agentIndex'[n] = agentIndex[n]
    <3>1. RegisterSucceeds(tx)
          BY <2>1 DEF RegisterAgent
    <3>2. tx.number = totalAgents + 1 /\ tx.number \in 1..CountMax
          BY <1>1, <3>1, SuccessFacts DEF IInv
    <3> QED BY <1>1, <2>1, <3>2, CountAssumption
            DEF RegisterAgent, IInv, TypeOK, CounterInRange
  <2>2. UNCHANGED config
        BY <1>1, StepKinds
  <2>3. UNCHANGED agentIndex \/ \E tx \in pending : RegisterAgent(tx)
        BY <1>1, StepKinds DEF Initialize
  <2> QED BY <1>1, <2>1, <2>2, <2>3 DEF config, IsImmutable
<1>2. IInv /\ [Next]_vars =>
        [Initialized /\ IsImmutable =>
           /\ IsImmutable' /\ UNCHANGED <<groupMint, schemaConfig>>
           /\ \A n \in 1..totalAgents : agentIndex'[n] = agentIndex[n]]_vars
      BY <1>1
<1> QED BY <1>2, Invariance, PTL DEF Spec, RenouncedForever

-----------------------------------------------------------------------------
(* Refinement of AgentLedger                                                *)

Members == [n \in 1..totalAgents |-> agentIndex[n]]

\* An empty registry is an empty ledger.
LEMMA InitLedger == Init => Ledger!Init
<1> SUFFICES ASSUME Init PROVE Ledger!Init
    OBVIOUS
<1>1. Members = <<>>
      BY DEF Init, Members
<1> QED BY <1>1 DEF Init, Ledger!Init, Members, Initialized

\* A registration appends its mint to the members and admits nobody twice.
LEMMA RegisterAgentAdmits ==
    ASSUME IInv, NEW tx \in pending, RegisterAgent(tx)
    PROVE  Ledger!Admit(tx.mint)
<1>1. /\ RegisterSucceeds(tx) /\ tx \in Transaction
      /\ tx.number = totalAgents + 1 /\ tx.number \in 1..CountMax
      /\ account[tx.mint] = NoAccount
      BY SuccessFacts DEF RegisterAgent, IInv
<1>2. /\ totalAgents \in Nat /\ totalAgents' = totalAgents + 1
      /\ agentIndex \in [1..CountMax -> Mints \cup {NoMint}]
      /\ agentIndex' = [agentIndex EXCEPT ![tx.number] = tx.mint]
      BY DEF RegisterAgent, IInv, TypeOK
<1>3. Members \in Seq(Mints \cup {NoMint}) /\ Len(Members) = totalAgents
  <2>1. \A n \in 1..totalAgents : agentIndex[n] \in Mints \cup {NoMint}
        BY <1>2, CountAssumption DEF IInv, CounterInRange
  <2> QED BY <1>2, <2>1 DEF Members
<1>4. Members' = Append(Members, tx.mint)
  <2>1. /\ Append(Members, tx.mint) \in Seq(Mints \cup {NoMint})
        /\ Len(Append(Members, tx.mint)) = totalAgents + 1
        /\ Append(Members, tx.mint)[totalAgents + 1] = tx.mint
        /\ \A n \in 1..totalAgents : Append(Members, tx.mint)[n] = Members[n]
        BY <1>1, <1>2, <1>3 DEF Transaction
  <2> QED BY <1>1, <1>2, <2>1 DEF Members
<1>5. \A n \in 1..totalAgents : Members[n] # tx.mint
      BY <1>1, <1>2 DEF Members, IInv, Enumeration, Registered, Transaction
<1>6. Initialized /\ UNCHANGED config
      BY DEF RegisterAgent, RegisterSucceeds
<1> QED BY <1>3, <1>4, <1>5, <1>6 DEF Ledger!Admit, Members, config, Initialized

\* Every step of the registry is a step of the ledger or leaves the ledger alone.
LEMMA StepLedger == IInv /\ [Next]_vars => [Ledger!Next]_(Ledger!vars)
<1> SUFFICES ASSUME IInv, [Next]_vars PROVE [Ledger!Next]_(Ledger!vars)
    OBVIOUS
<1> DEFINE Quiet == UNCHANGED <<config, totalAgents, agentIndex>>
<1>0. ASSUME Quiet PROVE UNCHANGED (Ledger!vars)
      BY <1>0 DEF Ledger!vars, config, Initialized
<1>1. ASSUME NEW w \in Wallets, NEW g \in Groups, Initialize(w, g)
      PROVE  Ledger!Next
  <2>1. totalAgents = 0 /\ totalAgents' = 0
        BY <1>1 DEF Initialize, IInv, CounterInRange
  <2>2. Ledger!Open(w)
    <3>1. ~Initialized /\ Initialized'
          BY <1>1, GroupAssumption, SentinelsAssumption DEF Initialize, Initialized
    <3> QED BY <1>1, <2>1, <3>1 DEF Initialize, Ledger!Open
  <2> QED BY <2>2 DEF Ledger!Next
<1>2. ASSUME NEW w \in Wallets, NEW new \in Wallets \cup {NoWallet}, UpdateAuthority(w, new)
      PROVE  Ledger!Next
  <2>1. Ledger!HandOver(new)
        BY <1>2 DEF UpdateAuthority, Ledger!HandOver, IsImmutable, Initialized, roll
  <2> QED BY <2>1 DEF Ledger!Next
<1>3. ASSUME NEW w \in Wallets, NEW s \in Schemas, NEW cfg \in Configs,
             RegisterSchemaConfig(w, s, cfg)
      PROVE  Ledger!Next
  <2>1. Ledger!Write(s, cfg)
        BY <1>3 DEF RegisterSchemaConfig, Ledger!Write, IsImmutable, Initialized, roll
  <2> QED BY <2>1 DEF Ledger!Next
<1>4. ASSUME NEW tx \in pending, RegisterAgent(tx) PROVE Ledger!Next
  <2>1. tx.mint \in Mints
        BY <1>4 DEF IInv, TypeOK, Transaction
  <2> QED BY <1>4, <2>1, RegisterAgentAdmits DEF Ledger!Next
<1>5. ASSUME NEW tx \in pending, TransactionFails(tx) PROVE Quiet
      BY <1>5 DEF TransactionFails, roll
<1>6. ASSUME NEW c \in Clients, NEW m \in Mints, NEW owner \in Wallets,
             NEW ownerSigns \in BOOLEAN, NEW metadata \in Metadata,
             NEW nonTransferable \in BOOLEAN,
             SendRegistration(c, m, owner, ownerSigns, metadata, nonTransferable)
      PROVE  Quiet
      BY <1>6 DEF SendRegistration, roll
<1>7. ASSUME NEW c \in Clients, SendThrows(c) \/ ReturnMemberNumber(c) PROVE Quiet
      BY <1>7 DEF SendThrows, ReturnMemberNumber, roll
<1>8. ASSUME NEW m \in Mints, NEW to \in Wallets, Transfer(m, to) PROVE Quiet
      BY <1>8 DEF Transfer, roll
<1>9. ASSUME NEW m \in Mints, Burn(m) PROVE Quiet
      BY <1>9 DEF Burn, roll
<1>10. ASSUME UNCHANGED vars PROVE Quiet
       BY <1>10 DEF vars, config
<1> HIDE DEF Quiet
<1> QED BY <1>0, <1>1, <1>2, <1>3, <1>4, <1>5, <1>6, <1>7, <1>8, <1>9, <1>10 DEF Next

\* What readers see of the registry is an append-only list in which nobody appears
\* twice, under at most one authority, with a write-once book of configurations.
THEOREM Refinement == Spec => ImplementsLedger
<1>1. Spec => Ledger!Init /\ [][Ledger!Next]_(Ledger!vars)
      BY InitLedger, StepLedger, Invariance, PTL DEF Spec
<1> QED BY <1>1 DEF ImplementsLedger, Ledger!Spec
=============================================================================
