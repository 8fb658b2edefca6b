-------------------------- MODULE AgentReads_proofs --------------------------
(***************************************************************************)
(* Proofs about AgentReads, for any number of agents, wallets and changes:   *)
(* the owners named are owners, pages are in order, agents that stay put     *)
(* are found, and only burned agents make a call throw.                     *)
(***************************************************************************)
EXTENDS AgentReads, FiniteSetTheorems, TLAPS

-----------------------------------------------------------------------------
(* Sequences                                                                *)

LEMMA Appended ==
    ASSUME NEW S, NEW s \in Seq(S), NEW e \in S
    PROVE  /\ Append(s, e) \in Seq(S) /\ Len(Append(s, e)) = Len(s) + 1
           /\ \A i \in 1..Len(s) : Append(s, e)[i] = s[i]
           /\ Append(s, e)[Len(s) + 1] = e
OBVIOUS

LEMMA Concatenated ==
    ASSUME NEW S, NEW s \in Seq(S), NEW t \in Seq(S)
    PROVE  /\ s \o t \in Seq(S) /\ Len(s \o t) = Len(s) + Len(t)
           /\ \A i \in 1..Len(s) + Len(t) :
                 (s \o t)[i] = IF i <= Len(s) THEN s[i] ELSE t[i - Len(s)]
OBVIOUS

-----------------------------------------------------------------------------
(* The inductive invariant                                                  *)

\* Where a call is: which calls make which requests, and how far they are.
Position ==
    /\ phase = "idle" => kind = "one" /\ result = <<>>
    /\ phase = "stats" => kind \in {"list", "owner"}
    /\ phase = "index" => kind \in {"list", "number"} /\ (kind = "list" => todo # <<>>)
    /\ phase = "batch" => kind = "mints" /\ todo # <<>>
    /\ phase \in {"tokens", "mints"} => kind = "owner"
    /\ phase \in {"holder", "account"} => kind # "owner" /\ next \in 1..Len(todo)
    /\ phase = "account" => account \in Wallets
    /\ phase \in {"stats", "index", "batch", "tokens", "mints"} => next = 1 /\ result = <<>>
    /\ phase \in {"stats", "index"} /\ kind # "owner" => offset >= 1
    /\ phase = "stats" => todo = <<>>
    /\ phase = "returned" /\ kind \in {"list", "mints"} => next = Len(todo) + 1
    /\ kind = "owner" => asked \in Wallets

\* Every agent has one token, in one account, from its registration on.
OneHolder ==
    /\ \A m \in Mints : Holders(m) # {} => Exists(m)
    /\ \A m \in Mints : \A v, w \in Holders(m) : v = w

\* What has been the case since the call began is the case now.
Remembered == Reading => \A m \in Mints : kept[m] \subseteq Holders(m)
                                          /\ Holders(m) \subseteq held[m]

\* What one request has found and the next one relies on.
Seen ==
    /\ phase = "account" => account \in held[todo[next]] /\ kept[todo[next]] \subseteq {account}
    /\ phase \in {"holder", "account"} =>
          IF kind = "mints"
          THEN \A m \in Mints : (m \in exist => Exists(m)) /\ (kept[m] # {} => m \in exist)
          ELSE \A i \in 1..Len(todo) : Exists(todo[i])
    /\ phase \in {"mints", "returned"} /\ kind = "owner" =>
          \A m \in Mints : /\ m \in exist => Exists(m) /\ asked \in held[m]
                           /\ asked \in kept[m] => m \in exist

\* A page of listAllAgents holds the agents with the numbers from offset on; those
\* listed so far have smaller numbers than the next one.
Listing ==
    kind = "list" =>
        /\ Len(todo) <= Limit
        /\ \A i \in 1..Len(todo) : /\ offset + i - 1 \in 1..Len(members)
                                   /\ todo[i] = members[offset + i - 1]
        /\ \A i \in 1..Len(Listed) : \E n \in 1..Len(members) :
              n < offset + next - 1 /\ members[n] = Listed[i].mint
        /\ phase \in {"index", "holder", "account", "returned"} /\ offset >= 1 =>
              \A n \in 1..Len(members) :
                  offset <= n /\ n < offset + Limit /\ kept[members[n]] # {} =>
                      /\ n < offset + Len(todo)
                      /\ n < offset + next - 1 => Found(members[n])

\* loadAgents answers mint by mint.
Batch ==
    kind = "mints" =>
        /\ Len(result) = next - 1
        /\ \A i \in 1..Len(result) :
              IF kept[todo[i]] # {}
              THEN result[i] # Null /\ result[i].mint = todo[i]
              ELSE result[i] = Null \/ result[i].mint = todo[i]

Inv == /\ TypeOK /\ Position /\ OneHolder /\ Remembered /\ Seen /\ Listing /\ Batch
       /\ ListedInOrder /\ OwnerHeldIt /\ KeptAgentsAreFound /\ ThrowsOnlyOnBurned

Entries == AgentIdentity \cup {Null}

LEMMA Initially == Init => Inv
<1> SUFFICES ASSUME Init PROVE Inv
    OBVIOUS
<1>1. kind = "one" /\ phase = "idle" /\ todo = <<>> /\ next = 1 /\ result = <<>> /\ members = <<>>
      BY DEF Init
<1>2. PICK h \in [Foreign -> Wallets] :
          token = [m \in Mints |-> [w \in Wallets |->
                     IF m \in Foreign /\ h[m] = w THEN "full" ELSE "none"]]
      BY DEF Init
<1>3. \A m \in Mints, w \in Wallets : token[m][w] = IF m \in Foreign /\ h[m] = w THEN "full" ELSE "none"
      BY <1>2
<1>4. TypeOK
  <2>1. token \in [Mints -> [Wallets -> {"none", "empty", "full"}]]
        BY <1>2
  <2> QED BY <2>1, LimitAssumption DEF Init, TypeOK, Kinds, Nobody, Reading
<1>5. OneHolder
      BY <1>3 DEF OneHolder, Holders, Exists
<1>6. ~Reading
      BY <1>1 DEF Reading
<1>7. Position /\ Remembered /\ Seen /\ Listing /\ Batch
      BY <1>1, <1>6 DEF Position, Remembered, Seen, Listing, Batch
<1>8. ListedInOrder /\ OwnerHeldIt /\ KeptAgentsAreFound /\ ThrowsOnlyOnBurned
      BY <1>1 DEF ListedInOrder, OwnerHeldIt, KeptAgentsAreFound, ThrowsOnlyOnBurned, Returned
<1> QED BY <1>4, <1>5, <1>7, <1>8 DEF Inv

-----------------------------------------------------------------------------
(* The chain changes                                                        *)

\* What all changes of the chain have in common.
Grows ==
    /\ members' \in Seq(Agents) /\ Len(members) <= Len(members')
    /\ \A n \in 1..Len(members) : members'[n] = members[n]
    /\ \A n \in Len(members) + 1..Len(members') : Holders(members'[n]) = {}
    /\ token' \in [Mints -> [Wallets -> {"none", "empty", "full"}]]
    /\ OneHolder'
    /\ Moving

LEMMA RegisterGrows ==
    ASSUME Inv, NEW m \in Agents, NEW w \in Wallets, Register(m, w)
    PROVE  Grows
<1>1. /\ members \in Seq(Agents) /\ m \in Mints
      /\ token \in [Mints -> [Wallets -> {"none", "empty", "full"}]]
      BY DEF Inv, TypeOK, Mints
<1>2. ~Registered(m) /\ members' = Append(members, m) /\ Moving
      /\ token' = [token EXCEPT ![m][w] = "full"]
      BY DEF Register
<1>3. /\ members' \in Seq(Agents) /\ Len(members') = Len(members) + 1
      /\ \A n \in 1..Len(members) : members'[n] = members[n]
      /\ members'[Len(members) + 1] = m
      BY <1>1, <1>2, Appended
<1>4. ~Exists(m)
      BY <1>2, MintAssumption DEF Exists
<1>5. Holders(m) = {}
      BY <1>1, <1>4 DEF Inv, OneHolder
<1>6. Len(members) \in Nat
      BY <1>1
<1>7. \A n \in Len(members) + 1..Len(members') : Holders(members'[n]) = {}
  <2>1. \A n \in Len(members) + 1..Len(members') : n = Len(members) + 1
        BY <1>3, <1>6
  <2> QED BY <2>1, <1>3, <1>5
<1>8. token' \in [Mints -> [Wallets -> {"none", "empty", "full"}]]
      BY <1>1, <1>2
<1>9. \A l \in Mints : l # m => Holders(l)' = Holders(l)
      BY <1>1, <1>2 DEF Holders
<1>10. Holders(m)' = {w}
  <2>1. token'[m][w] = "full" /\ \A v \in Wallets : v # w => token'[m][v] = token[m][v]
        BY <1>1, <1>2
  <2> QED BY <2>1, <1>5 DEF Holders
<1>11. \A l \in Mints : Exists(l) => Exists(l)'
  <2>1. Len(members)' >= Len(members)
        BY <1>3, <1>6
  <2>2. \A n \in 1..Len(members) : n \in 1..Len(members)' /\ members'[n] = members[n]
        BY <2>1, <1>3, <1>6
  <2> QED BY <2>2 DEF Exists, Registered
<1>12. Exists(m)'
      BY <1>3, <1>6 DEF Exists, Registered
<1>13. OneHolder'
      BY <1>9, <1>10, <1>11, <1>12 DEF Inv, OneHolder
<1> QED BY <1>2, <1>3, <1>6, <1>7, <1>8, <1>13 DEF Grows

\* A change that registers nobody, and gives nobody a second token.
Moves(m, w, v) ==
    /\ Moving /\ UNCHANGED members
    /\ \/ token' = [token EXCEPT ![m][w] = "empty"]
       \/ token' = [token EXCEPT ![m][w] = "none"]
       \/ token[m][w] = "full" /\ token' = [token EXCEPT ![m][w] = "empty", ![m][v] = "full"]

LEMMA OthersGrow ==
    ASSUME Inv, NEW m \in Mints, NEW w \in Wallets, NEW v \in Wallets, Moves(m, w, v)
    PROVE  Grows
<1>0. /\ Moving /\ UNCHANGED members
      /\ \/ token' = [token EXCEPT ![m][w] = "empty"]
         \/ token' = [token EXCEPT ![m][w] = "none"]
         \/ token[m][w] = "full" /\ token' = [token EXCEPT ![m][w] = "empty", ![m][v] = "full"]
      BY DEF Moves
<1>1. /\ members \in Seq(Agents) /\ Len(members) \in Nat
      /\ token \in [Mints -> [Wallets -> {"none", "empty", "full"}]]
      BY DEF Inv, TypeOK
<1>2. token' \in [Mints -> [Wallets -> {"none", "empty", "full"}]]
  <2>1. CASE token' = [token EXCEPT ![m][w] = "empty", ![m][v] = "full"]
    <3>1. [token EXCEPT ![m][w] = "empty"] \in [Mints -> [Wallets -> {"none", "empty", "full"}]]
          BY <1>1
    <3> QED BY <2>1, <3>1
  <2>2. CASE token' = [token EXCEPT ![m][w] = "empty"]
        BY <2>2, <1>1
  <2>3. CASE token' = [token EXCEPT ![m][w] = "none"]
        BY <2>3, <1>1
  <2> QED BY <2>1, <2>2, <2>3, <1>0
<1>3. \A l \in Mints : Exists(l)' = Exists(l)
      BY <1>0 DEF Exists, Registered
<1>4. \A l \in Mints : l # m => Holders(l)' = Holders(l)
      BY <1>0, <1>1 DEF Holders
<1>5. \A u \in Wallets : u # w /\ u # v => token'[m][u] = token[m][u]
  <2>1. CASE token' = [token EXCEPT ![m][w] = "empty", ![m][v] = "full"]
        BY <2>1, <1>1
  <2>2. CASE token' = [token EXCEPT ![m][w] = "empty"]
        BY <2>2, <1>1
  <2>3. CASE token' = [token EXCEPT ![m][w] = "none"]
        BY <2>3, <1>1
  <2> QED BY <2>1, <2>2, <2>3, <1>0
<1>6. \/ Holders(m)' \subseteq Holders(m)
      \/ w \in Holders(m) /\ Holders(m)' \subseteq {v} \cup (Holders(m) \ {w})
  <2>1. CASE token[m][w] = "full" /\ token' = [token EXCEPT ![m][w] = "empty", ![m][v] = "full"]
    <3>1. CASE v = w
          BY <2>1, <3>1, <1>1 DEF Holders
    <3>2. CASE v # w
      <4>1. token'[m][w] = "empty"
            BY <2>1, <3>2, <1>1
      <4> QED BY <2>1, <4>1, <1>5 DEF Holders
    <3> QED BY <3>1, <3>2
  <2>2. CASE token' = [token EXCEPT ![m][w] = "empty"] \/ token' = [token EXCEPT ![m][w] = "none"]
    <3>1. token'[m][w] # "full" /\ \A u \in Wallets : u # w => token'[m][u] = token[m][u]
          BY <2>2, <1>1
    <3> QED BY <3>1 DEF Holders
  <2> QED BY <2>1, <2>2, <1>0
<1>7. OneHolder'
      BY <1>3, <1>4, <1>6 DEF Inv, OneHolder
<1> QED BY <1>0, <1>1, <1>2, <1>7 DEF Grows

LEMMA ChangeGrows == Inv /\ Change => Grows
<1> SUFFICES ASSUME Inv, Change PROVE Grows
    OBVIOUS
<1>1. ASSUME NEW m \in Agents, NEW w \in Wallets, Register(m, w) PROVE Grows
      BY <1>1, RegisterGrows
<1>2. ASSUME NEW m \in Mints, NEW w \in Wallets, Burn(m, w) PROVE Grows
  <2>1. Moves(m, w, w)
        BY <1>2 DEF Burn, Moves
  <2> QED BY <2>1, OthersGrow
<1>3. ASSUME NEW m \in Mints, NEW w \in Wallets, OpenAccount(m, w) PROVE Grows
  <2>1. Moves(m, w, w)
        BY <1>3 DEF OpenAccount, Moves
  <2> QED BY <2>1, OthersGrow
<1>4. ASSUME NEW m \in Mints, NEW w \in Wallets, CloseAccount(m, w) PROVE Grows
  <2>1. Moves(m, w, w)
        BY <1>4 DEF CloseAccount, Moves
  <2> QED BY <2>1, OthersGrow
<1>5. ASSUME NEW m \in Mints, NEW from \in Wallets, NEW to \in Wallets, TransferAgent(m, from, to)
      PROVE  Grows
  <2>1. Moves(m, from, to)
        BY <1>5 DEF TransferAgent, Moves
  <2> QED BY <2>1, OthersGrow
<1> QED BY <1>1, <1>2, <1>3, <1>4, <1>5 DEF Change

\* Whatever others do to the chain during a call.
LEMMA ChangePreserves == Inv /\ Grows => Inv'
<1> SUFFICES ASSUME Inv, Grows PROVE Inv'
    OBVIOUS
<1>1. /\ kind' = kind /\ phase' = phase /\ todo' = todo /\ next' = next /\ exist' = exist
      /\ account' = account /\ result' = result /\ offset' = offset /\ walk' = walk
      /\ asked' = asked
      BY DEF Grows, Moving, reader, page
<1>2. /\ members \in Seq(Agents) /\ Len(members) \in Nat
      /\ members' \in Seq(Agents) /\ Len(members') \in Nat /\ Len(members) <= Len(members')
      /\ \A n \in 1..Len(members) : members[n] \in Mints
      /\ \A n \in 1..Len(members') : members'[n] \in Mints
      BY DEF Inv, TypeOK, Grows, Mints
<1>3. \A n \in 1..Len(members) : n \in 1..Len(members') /\ members'[n] = members[n]
      BY <1>2 DEF Grows
<1>4. \A m \in Mints : Exists(m) => Exists(m)'
      BY <1>3 DEF Exists, Registered
<1>5. held \in [Mints -> SUBSET Wallets] /\ kept \in [Mints -> SUBSET Wallets]
      BY DEF Inv, TypeOK
<1>6. \/ /\ Reading /\ moves < MaxMoves /\ moves' = moves + 1
         /\ held' = [m \in Mints |-> held[m] \cup Holders(m)']
         /\ kept' = [m \in Mints |-> kept[m] \cap Holders(m)']
      \/ phase = "idle" /\ ~Reading /\ moves' = moves /\ held' = held /\ kept' = kept
      BY DEF Grows, Moving, seen, Reading
<1>7. /\ held' \in [Mints -> SUBSET Wallets] /\ kept' \in [Mints -> SUBSET Wallets]
      /\ \A m \in Mints : kept'[m] \subseteq kept[m] /\ held[m] \subseteq held'[m]
      /\ Reading => \A m \in Mints : /\ kept'[m] \subseteq Holders(m)'
                                     /\ Holders(m)' \subseteq held'[m]
  <2>1. CASE Reading
    <3>1. /\ held' = [m \in Mints |-> held[m] \cup Holders(m)']
          /\ kept' = [m \in Mints |-> kept[m] \cap Holders(m)']
          BY <2>1, <1>6
    <3>2. \A m \in Mints : Holders(m)' \subseteq Wallets
          BY DEF Holders
    <3> QED BY <3>1, <3>2, <1>5
  <2>2. CASE ~Reading
        BY <2>2, <1>5, <1>6
  <2> QED BY <2>1, <2>2
<1>8. Reading => \A n \in Len(members) + 1..Len(members') : kept'[members'[n]] = {}
  <2> SUFFICES ASSUME Reading, NEW n \in Len(members) + 1..Len(members')
               PROVE  kept'[members'[n]] = {}
      OBVIOUS
  <2>1. n \in 1..Len(members')
        BY <1>2
  <2>2. members'[n] \in Mints /\ Holders(members'[n]) = {}
        BY <2>1, <1>2 DEF Grows
  <2>3. kept[members'[n]] \subseteq Holders(members'[n])
        BY <2>2 DEF Inv, Remembered
  <2> QED BY <2>2, <2>3, <1>7
<1>9. TypeOK'
  <2>1. moves' \in 0..MaxMoves
        BY <1>6, LimitAssumption DEF Inv, TypeOK
  <2>2. Reading \/ phase \in {"idle", "returned", "threw"}
        BY DEF Inv, TypeOK
  <2>3. Reading' \/ phase' \in {"idle", "returned", "threw"}
        BY <2>2, <1>1 DEF Reading
  <2>4. /\ members' \in Seq(Agents)
        /\ token' \in [Mints -> [Wallets -> {"none", "empty", "full"}]]
        BY DEF Grows
  <2>5. /\ kind' \in Kinds /\ todo' \in Seq(Mints) /\ next' \in Nat /\ exist' \subseteq Mints
        /\ account' \in Wallets \cup {NoWallet} /\ offset' \in Nat
        /\ result' \in Seq(AgentIdentity \cup {Null}) /\ walk' \in Seq(AgentIdentity \cup {Null})
        /\ asked' \in Wallets \cup {NoWallet}
        BY <1>1 DEF Inv, TypeOK
  <2>6. held' \in [Mints -> SUBSET Wallets] /\ kept' \in [Mints -> SUBSET Wallets]
        BY <1>7
  <2> QED BY <2>1, <2>3, <2>4, <2>5, <2>6 DEF TypeOK
<1>10. Position'
      BY <1>1 DEF Inv, Position
<1>11. OneHolder'
      BY DEF Grows
<1>12. Remembered'
      BY <1>1, <1>7 DEF Remembered, Reading
<1>13. \A i \in 1..Len(todo) : todo[i] \in Mints
      BY DEF Inv, TypeOK
<1>14. Seen'
  <2>1. phase = "account" => account \in held'[todo[next]] /\ kept'[todo[next]] \subseteq {account}
        BY <1>7, <1>13 DEF Inv, Seen, Position
  <2>2. phase \in {"holder", "account"} =>
           IF kind = "mints"
           THEN \A m \in Mints : (m \in exist => Exists(m)') /\ (kept'[m] # {} => m \in exist)
           ELSE \A i \in 1..Len(todo) : Exists(todo[i])'
    <3> SUFFICES ASSUME phase \in {"holder", "account"}
                 PROVE  IF kind = "mints"
                        THEN \A m \in Mints : /\ m \in exist => Exists(m)'
                                              /\ kept'[m] # {} => m \in exist
                        ELSE \A i \in 1..Len(todo) : Exists(todo[i])'
        OBVIOUS
    <3>1. CASE kind = "mints"
      <4>1. \A m \in Mints : (m \in exist => Exists(m)) /\ (kept[m] # {} => m \in exist)
            BY <3>1 DEF Inv, Seen
      <4> QED BY <3>1, <4>1, <1>4, <1>7
    <3>2. CASE kind # "mints"
      <4>1. \A i \in 1..Len(todo) : Exists(todo[i])
            BY <3>2 DEF Inv, Seen
      <4>2. \A i \in 1..Len(todo) : Exists(todo[i])'
            BY <4>1, <1>1, <1>4, <1>13
      <4> QED BY <3>2, <4>2
    <3> QED BY <3>1, <3>2
  <2>3. phase \in {"mints", "returned"} /\ kind = "owner" =>
          \A m \in Mints : /\ m \in exist => Exists(m)' /\ asked \in held'[m]
                           /\ asked \in kept'[m] => m \in exist
        BY <1>4, <1>7 DEF Inv, Seen
  <2> QED BY <2>1, <2>2, <2>3, <1>1 DEF Seen
<1>15. Listing'
  <2> SUFFICES ASSUME kind = "list" PROVE Listing'
      BY <1>1 DEF Listing
  <2>1. offset \in Nat /\ next \in Nat
        BY DEF Inv, TypeOK
  <2>2. Len(todo) <= Limit
        BY DEF Inv, Listing
  <2>3. ASSUME NEW i \in 1..Len(todo)
        PROVE  offset + i - 1 \in 1..Len(members') /\ todo[i] = members'[offset + i - 1]
        BY <1>3 DEF Inv, Listing
  <2>4. ASSUME NEW i \in 1..Len(Listed)
        PROVE  \E n \in 1..Len(members') : n < offset + next - 1 /\ members'[n] = Listed[i].mint
        BY <1>3 DEF Inv, Listing
  <2>5. ASSUME phase \in {"index", "holder", "account", "returned"}, offset >= 1,
               NEW n \in 1..Len(members'),
               offset <= n, n < offset + Limit, kept'[members'[n]] # {}
        PROVE  n < offset + Len(todo) /\ (n < offset + next - 1 => Found(members'[n]))
    <3>1. Reading
          BY <2>5, <1>6 DEF Inv, Position
    <3>2. n \in 1..Len(members)
          BY <2>5, <3>1, <1>2, <1>8
    <3>3. members'[n] = members[n] /\ kept[members[n]] # {}
          BY <2>5, <3>2, <1>2, <1>3, <1>7
    <3> QED BY <2>5, <3>2, <3>3 DEF Inv, Listing
  <2>6. Listed' = Listed /\ \A m : Found(m)' = Found(m)
        BY <1>1 DEF Listed, Found
  <2> QED BY <2>2, <2>3, <2>4, <2>5, <2>6, <1>1 DEF Listing
<1>16. Batch'
  <2> SUFFICES ASSUME kind = "mints" PROVE Batch'
      BY <1>1 DEF Batch
  <2>1. ASSUME NEW i \in 1..Len(result)
        PROVE  IF kept'[todo[i]] # {}
               THEN result[i] # Null /\ result[i].mint = todo[i]
               ELSE result[i] = Null \/ result[i].mint = todo[i]
    <3>1. IF kept[todo[i]] # {}
          THEN result[i] # Null /\ result[i].mint = todo[i]
          ELSE result[i] = Null \/ result[i].mint = todo[i]
          BY DEF Inv, Batch
    <3>2. (Reading /\ next <= Len(todo) + 1) \/ phase = "idle"
          BY <1>6 DEF Inv, Position, Reading
    <3> QED BY <3>1, <3>2, <1>7, <1>13 DEF Inv, Batch, TypeOK, Position
  <2> QED BY <2>1, <1>1 DEF Inv, Batch
<1>17. ListedInOrder'
  <2>1. Listed' = Listed
        BY <1>1 DEF Listed
  <2> QED BY <2>1, <1>1, <1>3 DEF Inv, ListedInOrder
<1>18. OwnerHeldIt'
      BY <1>1, <1>7 DEF Inv, OwnerHeldIt, TypeOK, AgentIdentity
<1>19. KeptAgentsAreFound' /\ ThrowsOnlyOnBurned'
  <2>1. phase' \notin {"returned", "threw"}
        BY <1>1, <1>6 DEF Reading
  <2> QED BY <2>1 DEF KeptAgentsAreFound, ThrowsOnlyOnBurned, Returned
<1> QED BY <1>9, <1>10, <1>11, <1>12, <1>14, <1>15, <1>16, <1>17, <1>18, <1>19 DEF Inv

-----------------------------------------------------------------------------
(* The calls begin and end                                                  *)

\* What a page begins with: the pages before it are in order, with smaller numbers.
InOrder(entries, bound) ==
    /\ \A i \in 1..Len(entries) : \E n \in 1..Len(members) :
          n < bound /\ members[n] = entries[i].mint
    /\ \A i, j \in 1..Len(entries) : i < j =>
          \E n, k \in 1..Len(members) :
              n < k /\ members[n] = entries[i].mint /\ members[k] = entries[j].mint

\* What all calls have in common when they begin.
Beginning(k, first, mints) ==
    /\ k \in Kinds /\ mints \in Seq(Mints)
    /\ Begin(k, first, mints)
    /\ offset' \in Nat /\ walk' \in Seq(Entries) /\ asked' \in Wallets \cup {NoWallet}
    /\ \/ first = "holder" /\ k = "one" /\ Len(mints) = 1 /\ Exists(mints[1])
       \/ first = "index" /\ k = "number" /\ offset' >= 1
       \/ first = "batch" /\ k = "mints" /\ mints # <<>>
       \/ first = "stats" /\ k = "owner" /\ asked' \in Wallets /\ mints = <<>>
       \/ first = "stats" /\ k = "list" /\ offset' >= 1 /\ mints = <<>>
       \/ first = "returned" /\ k \in {"one", "number"}
       \/ first = "returned" /\ k = "mints" /\ mints = <<>>
       \/ first = "returned" /\ k = "list" /\ offset' < 1 /\ mints = <<>>
    /\ k = "list" => InOrder(walk', offset')

LEMMA BeginningPreserves ==
    ASSUME Inv, NEW k, NEW first, NEW mints, Beginning(k, first, mints)
    PROVE  Inv'
<1>1. /\ k \in Kinds /\ mints \in Seq(Mints)
      /\ offset' \in Nat /\ walk' \in Seq(Entries) /\ asked' \in Wallets \cup {NoWallet}
      /\ k = "list" => InOrder(walk', offset')
      BY DEF Beginning
<1>2. /\ kind' = k /\ phase' = first /\ todo' = mints /\ next' = 1 /\ exist' = {}
      /\ account' = NoWallet /\ result' = <<>> /\ held' = HoldersNow /\ kept' = HoldersNow
      /\ moves' = 0 /\ members' = members /\ token' = token
      BY DEF Beginning, Begin, chain
<1>3. \/ first = "holder" /\ k = "one" /\ Len(mints) = 1 /\ Exists(mints[1])
      \/ first = "index" /\ k = "number" /\ offset' >= 1
      \/ first = "batch" /\ k = "mints" /\ mints # <<>>
      \/ first = "stats" /\ k = "owner" /\ asked' \in Wallets /\ mints = <<>>
      \/ first = "stats" /\ k = "list" /\ offset' >= 1 /\ mints = <<>>
      \/ first = "returned" /\ k \in {"one", "number"}
      \/ first = "returned" /\ k = "mints" /\ mints = <<>>
      \/ first = "returned" /\ k = "list" /\ offset' < 1 /\ mints = <<>>
      BY DEF Beginning
<1>4. /\ held' \in [Mints -> SUBSET Wallets] /\ kept' \in [Mints -> SUBSET Wallets]
      /\ \A m \in Mints : kept'[m] = Holders(m) /\ held'[m] = Holders(m)
      BY <1>2 DEF HoldersNow, Holders
<1>5. \A m \in Mints : Holders(m)' = Holders(m) /\ Exists(m)' = Exists(m)
      BY <1>2 DEF Holders, Exists, Registered
<1>6. TypeOK'
  <2>1. Reading' \/ phase' \in {"idle", "returned", "threw"}
        BY <1>2, <1>3 DEF Reading
  <2>2. moves' \in 0..MaxMoves
        BY <1>2, LimitAssumption
  <2> QED BY <1>1, <1>2, <1>4, <2>1, <2>2 DEF Inv, TypeOK, Entries
<1>7. Position'
  <2>1. kind' = k /\ phase' = first /\ todo' = mints /\ next' = 1 /\ result' = <<>>
        BY <1>2
  <2>2. first = "holder" => 1 \in 1..Len(mints)
        BY <1>3
  <2>3. mints = <<>> => Len(mints) = 0
        OBVIOUS
  <2> QED BY <1>3, <2>1, <2>2, <2>3 DEF Position
<1>8. OneHolder' /\ Remembered'
      BY <1>4, <1>5 DEF Inv, OneHolder, Remembered
<1>9. Seen'
  <2>1. phase' # "account" /\ phase' # "mints" /\ ~(phase' = "returned" /\ kind' = "owner")
        BY <1>2, <1>3
  <2>2. phase' = "holder" => kind' # "mints" /\ \A i \in 1..Len(todo') : Exists(todo[i])'
    <3>1. \A m : Exists(m)' = Exists(m)
          BY <1>2 DEF Exists, Registered
    <3>2. ASSUME first = "holder" PROVE \A i \in 1..Len(mints) : Exists(mints[i])
      <4>1. Len(mints) = 1 /\ Exists(mints[1])
            BY <1>3, <3>2
      <4>2. \A i \in 1..Len(mints) : i = 1
            BY <4>1
      <4> QED BY <4>1, <4>2, Zenon
    <3> QED BY <1>2, <1>3, <3>1, <3>2
  <2> QED BY <2>1, <2>2 DEF Seen
<1>10. Listed' = walk'
      BY <1>1, <1>2 DEF Listed
<1>11. Listing' /\ ListedInOrder'
  <2> SUFFICES ASSUME k = "list" PROVE Listing' /\ ListedInOrder'
      BY <1>2 DEF Listing, ListedInOrder
  <2>1. InOrder(walk', offset') /\ offset' \in Nat
        BY <1>1
  <2>6. \A n \in Nat : n < offset' => n < offset' + next' - 1
    <3>1. next' = 1 /\ offset' \in Nat
          BY <1>1, <1>2
    <3>2. \A o, n \in Nat : n < o => n < o + 1 - 1
          OBVIOUS
    <3>3. \A n \in Nat : n < offset' => n < offset' + 1 - 1
          BY <3>1, <3>2
    <3> QED BY <3>1, <3>3
  <2>2. ListedInOrder'
        BY <2>1, <1>2, <1>10 DEF ListedInOrder, InOrder
  <2>3. Len(todo') = 0 /\ Len(todo') <= Limit
        BY <1>2, <1>3, LimitAssumption
  <2>4. ~(phase' \in {"index", "holder", "account", "returned"} /\ offset' >= 1)
        BY <1>1, <1>2, <1>3
  <2>7. ASSUME NEW i \in 1..Len(walk')
        PROVE  \E n \in 1..Len(members') :
                  n < offset' + next' - 1 /\ members'[n] = walk'[i].mint
    <3>1. PICK n \in 1..Len(members) : n < offset' /\ members[n] = walk'[i].mint
          BY <2>1 DEF InOrder
    <3>2. n < offset' + next' - 1
          BY <3>1, <2>6
    <3> QED BY <3>1, <3>2, <1>2
  <2>8. \A i \in 1..Len(todo') : FALSE
        BY <2>3
  <2>5. Listing'
        BY <2>3, <2>4, <2>7, <2>8, <1>10 DEF Listing
  <2> QED BY <2>2, <2>5
<1>12. Batch' /\ OwnerHeldIt' /\ ThrowsOnlyOnBurned'
      BY <1>2, <1>3 DEF Batch, OwnerHeldIt, ThrowsOnlyOnBurned
<1>13. KeptAgentsAreFound'
  <2>1. ~Returned("owner")'
        BY <1>2, <1>3 DEF Returned
  <2>2. Returned("list")' => ~(1 <= offset')
        BY <1>1, <1>2, <1>3 DEF Returned
  <2>3. Returned("mints")' => Len(result') = 0 /\ Len(todo') = 0
        BY <1>2, <1>3 DEF Returned
  <2> QED BY <2>1, <2>2, <2>3 DEF KeptAgentsAreFound
<1> QED BY <1>6, <1>7, <1>8, <1>9, <1>11, <1>12, <1>13 DEF Inv

\* A page that came back full is followed by one in order with it.
LEMMA NextPageInOrder == Inv /\ NextPage => InOrder(walk', offset')
<1> SUFFICES ASSUME Inv, NextPage PROVE InOrder(walk', offset')
    OBVIOUS
<1>1. kind = "list" /\ phase = "returned" /\ offset' = offset + Limit /\ walk' = Listed
      BY DEF NextPage, Listed
<1>2. next = Len(todo) + 1 /\ Len(todo) <= Limit
      BY <1>1 DEF Inv, Position, Listing
<1>3. Len(todo) \in Nat /\ offset \in Nat /\ Limit \in Nat /\ Len(members) \in Nat
      BY LimitAssumption DEF Inv, TypeOK
<1>4. ASSUME NEW i \in 1..Len(Listed)
      PROVE  \E n \in 1..Len(members) : n < offset' /\ members[n] = Listed[i].mint
  <2>1. PICK n \in 1..Len(members) : n < offset + next - 1 /\ members[n] = Listed[i].mint
        BY <1>1 DEF Inv, Listing
  <2>2. n < offset'
        BY <2>1, <1>1, <1>2, <1>3
  <2> QED BY <2>1, <2>2
<1> QED BY <1>1, <1>4 DEF Inv, ListedInOrder, InOrder

LEMMA CallPreserves == Inv /\ Call => Inv'
<1> SUFFICES ASSUME Inv, Call PROVE Inv'
    OBVIOUS
<1>1. /\ offset \in Nat /\ walk \in Seq(Entries) /\ asked \in Wallets \cup {NoWallet}
      /\ result \in Seq(Entries) /\ Limit \in Nat \ {0}
      BY LimitAssumption DEF Inv, TypeOK, Entries
<1>2. <<>> \in Seq(Mints) /\ <<>> \in Seq(Entries)
      OBVIOUS
<1>3. ASSUME NEW m \in Mints, LoadAgent(m) PROVE Inv'
  <2>1. <<m>> \in Seq(Mints) /\ Len(<<m>>) = 1 /\ <<m>>[1] = m
        OBVIOUS
  <2>2. Beginning("one", IF Exists(m) THEN "holder" ELSE "returned", <<m>>)
        BY <1>1, <1>3, <2>1 DEF Beginning, LoadAgent, Kinds, page
  <2> QED BY <2>2, BeginningPreserves
<1>4. ASSUME NEW n \in 0..Cardinality(Agents), GetAgentByMemberNumber(n) PROVE Inv'
  <2>1. Beginning("number", IF n < 1 THEN "returned" ELSE "index", <<>>)
        BY <1>1, <1>2, <1>4 DEF Beginning, GetAgentByMemberNumber, Kinds
  <2> QED BY <2>1, BeginningPreserves
<1>5. ASSUME NEW q \in Queries, LoadAgents(q) PROVE Inv'
  <2>1. q \in Seq(Mints)
        BY QueryAssumption
  <2>2. Beginning("mints", IF q = <<>> THEN "returned" ELSE "batch", q)
        BY <1>1, <1>5, <2>1 DEF Beginning, LoadAgents, Kinds, page
  <2> QED BY <2>2, BeginningPreserves
<1>6. ASSUME NEW n \in 0..Cardinality(Agents), ListAllAgents(n) PROVE Inv'
  <2>1. InOrder(<<>>, n)
        BY DEF InOrder
  <2>2. Beginning("list", IF n < 1 THEN "returned" ELSE "stats", <<>>)
        BY <1>1, <1>2, <1>6, <2>1 DEF Beginning, ListAllAgents, Kinds
  <2> QED BY <2>2, BeginningPreserves
<1>7. CASE NextPage
  <2>1. offset' = offset + Limit /\ walk' = walk \o result /\ asked' = asked
        BY <1>7 DEF NextPage
  <2>2. offset' \in Nat /\ offset' >= 1 /\ walk' \in Seq(Entries)
        BY <1>1, <2>1
  <2>3. Begin("list", "stats", <<>>)
        BY <1>7 DEF NextPage
  <2>4. Beginning("list", "stats", <<>>)
        BY <1>1, <1>2, <1>7, <2>1, <2>2, <2>3, NextPageInOrder DEF Beginning, Kinds
  <2> QED BY <2>4, BeginningPreserves
<1>8. ASSUME NEW w \in Wallets, ListAgentsByOwner(w) PROVE Inv'
  <2>1. Beginning("owner", "stats", <<>>)
        BY <1>1, <1>2, <1>8 DEF Beginning, ListAgentsByOwner, Kinds, page
  <2> QED BY <2>1, BeginningPreserves
<1>9. CASE Done
  <2>1. /\ kind' = "one" /\ phase' = "idle" /\ todo' = <<>> /\ next' = 1 /\ exist' = {}
        /\ account' = NoWallet /\ result' = <<>> /\ walk' = <<>> /\ offset' = 0
        /\ asked' = NoWallet /\ held' = Nobody /\ kept' = Nobody /\ moves' = 0
        /\ members' = members /\ token' = token
        BY <1>9 DEF Done, chain
  <2>2. TypeOK'
        BY <2>1, LimitAssumption DEF Inv, TypeOK, Kinds, Nobody
  <2>3. OneHolder'
        BY <2>1 DEF Inv, OneHolder, Holders, Exists, Registered
  <2>4. Position' /\ Remembered' /\ Seen' /\ Listing' /\ Batch'
        BY <2>1 DEF Position, Remembered, Reading, Seen, Listing, Batch
  <2>5. ListedInOrder' /\ OwnerHeldIt' /\ KeptAgentsAreFound' /\ ThrowsOnlyOnBurned'
        BY <2>1 DEF ListedInOrder, OwnerHeldIt, KeptAgentsAreFound, ThrowsOnlyOnBurned, Returned
  <2> QED BY <2>2, <2>3, <2>4, <2>5 DEF Inv
<1> QED BY <1>3, <1>4, <1>5, <1>6, <1>7, <1>8, <1>9 DEF Call

-----------------------------------------------------------------------------
(* The requests                                                             *)

\* What a request leaves alone.
LEMMA RequestFacts ==
    ASSUME Inv, Request, Reading
    PROVE  /\ members' = members /\ token' = token /\ kind' = kind /\ offset' = offset
           /\ walk' = walk /\ asked' = asked /\ held' = held /\ kept' = kept /\ moves' = moves
           /\ \A m : Holders(m)' = Holders(m) /\ Exists(m)' = Exists(m)
           /\ OneHolder' /\ Remembered'
<1>1. /\ members' = members /\ token' = token /\ kind' = kind /\ offset' = offset
      /\ walk' = walk /\ asked' = asked /\ held' = held /\ kept' = kept /\ moves' = moves
      BY DEF Request, chain, page, seen
<1>2. \A m : Holders(m)' = Holders(m) /\ Exists(m)' = Exists(m)
      BY <1>1 DEF Holders, Exists, Registered
<1>3. OneHolder' /\ Remembered'
      BY <1>1, <1>2 DEF Inv, OneHolder, Remembered
<1> QED BY <1>1, <1>2, <1>3

\* The types of what a request may change.
ReaderOK ==
    /\ Reading \/ phase \in {"idle", "returned", "threw"}
    /\ todo \in Seq(Mints) /\ next \in Nat /\ exist \subseteq Mints
    /\ account \in Wallets \cup {NoWallet} /\ result \in Seq(Entries)

LEMMA RequestTypes ==
    ASSUME Inv, Request, Reading, ReaderOK'
    PROVE  TypeOK'
BY RequestFacts DEF Inv, TypeOK, ReaderOK, Entries

\* Before the first mint is looked up nothing has been answered.
LEMMA NothingYet ==
    ASSUME Inv, Request, Reading, result = <<>>, result' = <<>>, next' = next, todo' = todo,
           phase' \notin {"threw"}, ~Returned("owner")', ~Returned("mints")',
           phase' = "returned" /\ kind = "list" => offset > Len(members)
    PROVE  /\ ListedInOrder' /\ OwnerHeldIt' /\ KeptAgentsAreFound' /\ ThrowsOnlyOnBurned'
           /\ (kind = "mints" => next = 1) => Batch'
<1>1. members' = members /\ kind' = kind /\ offset' = offset /\ walk' = walk
      BY RequestFacts
<1>2. Listed' = Listed
      BY <1>1 DEF Listed
<1>3. ListedInOrder'
  <2> SUFFICES ASSUME kind' = "list",
                      NEW i \in 1..Len(Listed'), NEW j \in 1..Len(Listed'), i < j
               PROVE  \E n, k \in 1..Len(members') : /\ n < k
                                                     /\ members'[n] = Listed'[i].mint
                                                     /\ members'[k] = Listed'[j].mint
      BY DEF ListedInOrder
  <2>1. ListedInOrder
        BY DEF Inv
  <2> QED BY <2>1, <1>1, <1>2 DEF ListedInOrder
<1>4. OwnerHeldIt' /\ ThrowsOnlyOnBurned'
      BY DEF OwnerHeldIt, ThrowsOnlyOnBurned
<1>5. KeptAgentsAreFound'
  <2>1. Returned("list")' => \A n \in 1..Len(members) : ~(offset <= n)
    <3>1. Len(members) \in Nat /\ offset \in Nat
          BY DEF Inv, TypeOK
    <3> QED BY <3>1, <1>1 DEF Returned
  <2> QED BY <2>1, <1>1 DEF KeptAgentsAreFound
<1>6. (kind = "mints" => next = 1) => Batch'
      BY <1>1 DEF Batch
<1> QED BY <1>3, <1>4, <1>5, <1>6

LEMMA ReadMintsPreserves == Inv /\ ReadMints => Inv'
<1> SUFFICES ASSUME Inv, ReadMints PROVE Inv'
    OBVIOUS
<1>1. /\ phase = "batch" /\ phase' = "holder" /\ todo' = todo /\ next' = next
      /\ exist' = {m \in Mints : Exists(m)} /\ account' = account /\ result' = result
      /\ Request
      BY DEF ReadMints
<1>2. Reading /\ kind = "mints" /\ todo # <<>> /\ next = 1 /\ result = <<>>
      BY <1>1 DEF Reading, Inv, Position
<1>3. /\ members' = members /\ kind' = kind /\ kept' = kept /\ asked' = asked
      /\ \A m : Exists(m)' = Exists(m)
      /\ OneHolder' /\ Remembered'
      BY <1>1, <1>2, RequestFacts
<1>4. TypeOK'
  <2>1. ReaderOK'
        BY <1>1 DEF Inv, TypeOK, ReaderOK, Entries, Reading
  <2> QED BY <1>1, <1>2, <2>1, RequestTypes
<1>5. Position'
  <2>1. 1 \in 1..Len(todo)
        BY <1>2 DEF Inv, TypeOK
  <2> QED BY <1>1, <1>2, <1>3, <2>1 DEF Position
<1>6. Seen'
  <2>1. \A m \in Mints : kept[m] # {} => Exists(m)
        BY <1>2 DEF Inv, Remembered, OneHolder
  <2> QED BY <1>1, <1>2, <1>3, <2>1 DEF Seen
<1>7. Listing'
      BY <1>2, <1>3 DEF Listing
<1>8. ListedInOrder' /\ OwnerHeldIt' /\ KeptAgentsAreFound' /\ ThrowsOnlyOnBurned' /\ Batch'
  <2>1. ~Returned("owner")' /\ ~Returned("mints")' /\ phase' # "threw" /\ phase' # "returned"
        BY <1>1 DEF Returned
  <2> QED BY <1>1, <1>2, <2>1, NothingYet
<1> QED BY <1>3, <1>4, <1>5, <1>6, <1>7, <1>8 DEF Inv

LEMMA ReadTokensPreserves == Inv /\ ReadTokens => Inv'
<1> SUFFICES ASSUME Inv, ReadTokens PROVE Inv'
    OBVIOUS
<1>1. /\ phase = "tokens" /\ todo' = todo /\ next' = next /\ account' = account
      /\ exist' = {m \in Mints : token[m][asked] = "full"} /\ result' = result
      /\ phase' = IF exist' = {} THEN "returned" ELSE "mints"
      /\ Request
      BY DEF ReadTokens
<1>2. Reading /\ kind = "owner" /\ asked \in Wallets /\ next = 1 /\ result = <<>>
      BY <1>1 DEF Reading, Inv, Position
<1>3. /\ members' = members /\ kind' = kind /\ kept' = kept /\ asked' = asked /\ held' = held
      /\ \A m : Exists(m)' = Exists(m)
      /\ OneHolder' /\ Remembered'
      BY <1>1, <1>2, RequestFacts
<1>4. TypeOK'
  <2>1. ReaderOK'
        BY <1>1 DEF Inv, TypeOK, ReaderOK, Entries, Reading
  <2> QED BY <1>1, <1>2, <2>1, RequestTypes
<1>5. Position'
      BY <1>1, <1>2, <1>3 DEF Position
<1>6. \A m \in Mints : /\ m \in exist' => Exists(m) /\ asked \in held[m]
                       /\ asked \in kept[m] => m \in exist'
  <2>1. \A m \in Mints : m \in exist' <=> asked \in Holders(m)
        BY <1>1, <1>2 DEF Holders
  <2> QED BY <2>1, <1>2 DEF Inv, Remembered, OneHolder
<1>7. Seen'
      BY <1>1, <1>2, <1>3, <1>6 DEF Seen
<1>8. Listing' /\ Batch' /\ ListedInOrder'
      BY <1>2, <1>3 DEF Listing, Batch, ListedInOrder
<1>9. OwnerHeldIt' /\ ThrowsOnlyOnBurned'
      BY <1>1, <1>2 DEF OwnerHeldIt, ThrowsOnlyOnBurned
<1>10. KeptAgentsAreFound'
  <2>1. ASSUME phase' = "returned", NEW n \in 1..Len(members) PROVE asked \notin kept[members[n]]
        BY <1>1, <1>6, <2>1 DEF Inv, TypeOK, Mints
  <2> QED BY <2>1, <1>1, <1>2, <1>3 DEF KeptAgentsAreFound, Returned
<1> QED BY <1>3, <1>4, <1>5, <1>7, <1>8, <1>9, <1>10 DEF Inv

LEMMA ReadGroupPreserves == Inv /\ ReadGroup => Inv'
<1> DEFINE ours == exist \cap Agents
<1> SUFFICES ASSUME Inv, ReadGroup PROVE Inv'
    OBVIOUS
<1>1. /\ phase = "mints" /\ phase' = "returned" /\ todo' = todo /\ next' = next
      /\ account' = account /\ exist' = exist /\ Request
      BY DEF ReadGroup
<1>2. Reading /\ kind = "owner" /\ asked \in Wallets /\ next = 1 /\ result = <<>>
      BY <1>1 DEF Reading, Inv, Position
<1>3. /\ members' = members /\ kind' = kind /\ kept' = kept /\ asked' = asked /\ held' = held
      /\ \A m : Exists(m)' = Exists(m)
      /\ OneHolder' /\ Remembered'
      BY <1>1, <1>2, RequestFacts
<1>4. \A m \in Mints : /\ m \in exist => Exists(m) /\ asked \in held[m]
                       /\ asked \in kept[m] => m \in exist
      BY <1>1, <1>2 DEF Inv, Seen
<1>5. PICK order \in [1..Cardinality(ours) -> ours] :
          /\ \A m \in ours : \E i \in DOMAIN order : order[i] = m
          /\ result' = [i \in DOMAIN order |-> [mint |-> order[i], owner |-> asked]]
      BY DEF ReadGroup
<1>6. Cardinality(ours) \in Nat
  <2>1. ours \subseteq Mints
        BY DEF Mints
  <2>2. IsFiniteSet(ours)
        BY <2>1, MintAssumption, FS_Subset
  <2> QED BY <2>2, FS_CardinalityType
<1> DEFINE c == Cardinality(ours)
<1>7. ours \subseteq Mints /\ ours \subseteq exist /\ ours \subseteq Agents
      BY DEF Mints
<1> HIDE DEF ours
<1>8. /\ result' \in Seq(AgentIdentity) /\ Len(result') = c
      /\ \A i \in 1..c : result'[i] = [mint |-> order[i], owner |-> asked] /\ order[i] \in ours
  <2>1. result' = [i \in 1..c |-> [mint |-> order[i], owner |-> asked]]
        BY <1>5
  <2>2. \A i \in 1..c : [mint |-> order[i], owner |-> asked] \in AgentIdentity
        BY <1>2, <1>5, <1>7 DEF AgentIdentity
  <2> HIDE DEF c
  <2>3. c \in Nat
        BY <1>6 DEF c
  <2>4. result' \in [1..c -> AgentIdentity]
        BY <2>1, <2>2
  <2>5. result' \in Seq(AgentIdentity) /\ Len(result') = c
        BY <2>3, <2>4
  <2>6. \A i \in 1..c : order[i] \in ours
        BY <1>5 DEF c
  <2> QED BY <2>1, <2>5, <2>6
<1>9. TypeOK'
  <2>1. ReaderOK'
        BY <1>1, <1>8 DEF Inv, TypeOK, ReaderOK, Entries, Reading
  <2> QED BY <1>1, <1>2, <2>1, RequestTypes
<1>10. Position'
      BY <1>1, <1>2, <1>3 DEF Position
<1>11. Seen'
      BY <1>1, <1>2, <1>3, <1>4 DEF Seen
<1>12. Listing' /\ Batch' /\ ListedInOrder' /\ ThrowsOnlyOnBurned'
      BY <1>1, <1>2, <1>3 DEF Listing, Batch, ListedInOrder, ThrowsOnlyOnBurned
<1>13. \A i \in 1..Len(result') :
          result'[i] # Null /\ result'[i].mint = order[i] /\ result'[i].owner = asked
      BY <1>2, <1>7, <1>8, NullAssumption DEF AgentIdentity
<1>14. OwnerHeldIt'
      BY <1>3, <1>4, <1>7, <1>8, <1>13 DEF OwnerHeldIt
<1>15. KeptAgentsAreFound'
  <2>1. ASSUME NEW n \in 1..Len(members), asked \in kept[members[n]]
        PROVE  Found(members[n])'
    <3>1. members[n] \in Agents /\ members[n] \in Mints
          BY DEF Inv, TypeOK, Mints
    <3>2. members[n] \in ours
          BY <2>1, <3>1, <1>4 DEF ours
    <3>3. PICK i \in DOMAIN order : order[i] = members[n]
          BY <3>2, <1>5
    <3>4. i \in 1..Len(result')
          BY <1>5, <1>8
    <3> QED BY <3>3, <3>4, <1>3, <1>13 DEF Found
  <2>2. ASSUME NEW i \in 1..Len(result') PROVE Registered(result'[i].mint)
    <3>1. result'[i].mint \in ours
          BY <1>8, <1>13
    <3>2. Exists(result'[i].mint) /\ result'[i].mint \in Agents
          BY <3>1, <1>4, <1>7
    <3> QED BY <3>2, MintAssumption DEF Exists
  <2>3. \A m : Registered(m)' = Registered(m)
        BY <1>3 DEF Registered
  <2> QED BY <2>1, <2>2, <2>3, <1>1, <1>2, <1>3 DEF KeptAgentsAreFound, Returned
<1> QED BY <1>3, <1>9, <1>10, <1>11, <1>12, <1>14, <1>15 DEF Inv

\* getRegistryStats: the page that the counter allows, or none.
LEMMA ReadStatsPreserves == Inv /\ ReadStats => Inv'
<1> SUFFICES ASSUME Inv, ReadStats PROVE Inv'
    OBVIOUS
<1>1. /\ phase = "stats" /\ next' = next /\ exist' = exist /\ account' = account
      /\ result' = result /\ Request
      /\ IF kind = "owner"
         THEN phase' = "tokens" /\ todo' = todo
         ELSE IF offset > Len(members)
              THEN phase' = "returned" /\ todo' = todo
              ELSE phase' = "index" /\ todo' = SubSeq(members, offset, End)
      BY DEF ReadStats
<1>2. /\ Reading /\ kind \in {"list", "owner"} /\ next = 1 /\ result = <<>> /\ todo = <<>>
      /\ kind = "list" => offset >= 1
      /\ kind = "owner" => asked \in Wallets
      BY <1>1 DEF Reading, Inv, Position
<1>3. /\ members' = members /\ kind' = kind /\ kept' = kept /\ asked' = asked /\ held' = held
      /\ offset' = offset /\ walk' = walk
      /\ \A m : Exists(m)' = Exists(m)
      /\ OneHolder' /\ Remembered'
      BY <1>1, <1>2, RequestFacts
<1>4. /\ Len(members) \in Nat /\ offset \in Nat /\ members \in Seq(Agents) /\ Agents \subseteq Mints
      /\ Limit \in Nat \ {0}
      BY LimitAssumption DEF Inv, TypeOK, Mints
<1>5. ASSUME kind = "list", offset <= Len(members)
      PROVE  /\ todo' \in Seq(Mints) /\ Len(todo') = End - offset + 1
             /\ \A i \in 1..Len(todo') : /\ offset + i - 1 \in 1..Len(members)
                                         /\ todo'[i] = members[offset + i - 1]
             /\ Len(todo') >= 1 /\ Len(todo') <= Limit
             /\ offset + Len(todo') = End + 1
  <2>1. End \in offset..Len(members) /\ End - offset + 1 <= Limit
        BY <1>4, <1>5 DEF End
  <2>2. todo' = SubSeq(members, offset, End) /\ offset >= 1
        BY <1>1, <1>2, <1>4, <1>5
  <2> DEFINE e == End
  <2>3. e \in offset..Len(members) /\ e - offset + 1 <= Limit /\ todo' = SubSeq(members, offset, e)
        BY <2>1, <2>2
  <2> HIDE DEF e
  <2>4. /\ Len(todo') = e - offset + 1
        /\ \A i \in 1..e - offset + 1 : todo'[i] = members[offset + i - 1]
        /\ todo' \in Seq(Agents)
        BY <2>2, <2>3, <1>4
  <2>5. todo' \in Seq(Mints)
        BY <2>4, <1>4
  <2>6. \A i \in 1..e - offset + 1 : offset + i - 1 \in 1..Len(members)
        BY <2>2, <2>3, <1>4
  <2>7. e - offset + 1 >= 1 /\ e - offset + 1 <= Limit /\ offset + (e - offset + 1) = e + 1
        BY <2>3, <1>4
  <2> QED BY <2>4, <2>5, <2>6, <2>7 DEF e
<1>6. kind = "list" /\ phase' # "returned" => offset <= Len(members) /\ phase' = "index"
      BY <1>1, <1>4
<1>7. kind = "owner" => phase' = "tokens" /\ todo' = todo
      BY <1>1
<1>8. phase' = "returned" => kind = "list" /\ offset > Len(members) /\ todo' = todo
      BY <1>1, <1>2
<1>9. phase' \in {"tokens", "index", "returned"}
      BY <1>1
<1>10. TypeOK'
  <2>1. todo' \in Seq(Mints)
    <3>1. todo \in Seq(Mints)
          BY DEF Inv, TypeOK
    <3>2. CASE phase' = "returned"
          BY <3>1, <3>2, <1>8
    <3>3. CASE phase' # "returned" /\ kind = "list"
          BY <3>3, <1>5, <1>6
    <3>4. CASE kind = "owner"
          BY <3>1, <3>4, <1>7
    <3> QED BY <3>2, <3>3, <3>4, <1>2
  <2>2. ReaderOK'
        BY <2>1, <1>1, <1>9 DEF Inv, TypeOK, ReaderOK, Entries, Reading
  <2> QED BY <1>1, <1>2, <2>2, RequestTypes
<1>11. Position'
  <2>1. phase' = "index" => kind = "list" /\ todo' # <<>>
        BY <1>1, <1>2, <1>5, <1>6
  <2>2. phase' = "returned" => next' = Len(todo') + 1
        BY <1>1, <1>2, <1>8
  <2> QED BY <2>1, <2>2, <1>1, <1>2, <1>3, <1>7, <1>8, <1>9 DEF Position
<1>12. Seen' /\ Batch'
      BY <1>2, <1>3, <1>8, <1>9 DEF Seen, Batch
<1>13. Listing'
  <2> SUFFICES ASSUME kind = "list" PROVE Listing'
      BY <1>3 DEF Listing
  <2>1. /\ Len(todo') <= Limit
        /\ \A i \in 1..Len(todo') : /\ offset + i - 1 \in 1..Len(members)
                                    /\ todo'[i] = members[offset + i - 1]
    <3>1. CASE phase' = "returned"
          BY <3>1, <1>2, <1>4, <1>8
    <3>2. CASE phase' # "returned"
          BY <3>2, <1>5, <1>6
    <3> QED BY <3>1, <3>2
  <2>2. Listed' = Listed
        BY <1>1, <1>3 DEF Listed
  <2>3. \A i \in 1..Len(Listed) : \E n \in 1..Len(members) :
              n < offset + next - 1 /\ members[n] = Listed[i].mint
        BY DEF Inv, Listing
  <2>4. ASSUME NEW n \in 1..Len(members), offset <= n, n < offset + Limit
        PROVE  n < offset + Len(todo') /\ ~(n < offset + next - 1)
    <3>1. phase' # "returned"
          BY <2>4, <1>4, <1>8
    <3>2. offset + Len(todo') = End + 1
          BY <3>1, <1>5, <1>6
    <3>3. n < End + 1
          BY <2>4, <1>4 DEF End
    <3> QED BY <3>2, <3>3, <2>4, <1>2, <1>4
  <2> QED BY <2>1, <2>2, <2>3, <2>4, <1>1, <1>3 DEF Listing
<1>14. ListedInOrder' /\ OwnerHeldIt' /\ KeptAgentsAreFound' /\ ThrowsOnlyOnBurned'
  <2>1. ListedInOrder'
    <3>1. Listed' = Listed
          BY <1>1, <1>3 DEF Listed
    <3>2. ListedInOrder
          BY DEF Inv
    <3>3. members' = members /\ kind' = kind
          BY <1>3
    <3> QED BY <3>1, <3>2, <3>3 DEF ListedInOrder
  <2>2. OwnerHeldIt' /\ ThrowsOnlyOnBurned'
        BY <1>1, <1>2, <1>9 DEF OwnerHeldIt, ThrowsOnlyOnBurned
  <2>3. KeptAgentsAreFound'
    <3>1. ~Returned("owner")' /\ ~Returned("mints")'
          BY <1>2, <1>3, <1>8 DEF Returned
    <3>2. Returned("list")' => \A n \in 1..Len(members) : ~(offset <= n)
          BY <1>4, <1>8 DEF Returned
    <3> QED BY <3>1, <3>2, <1>3 DEF KeptAgentsAreFound
  <2> QED BY <2>1, <2>2, <2>3
<1> QED BY <1>3, <1>10, <1>11, <1>12, <1>13, <1>14 DEF Inv

LEMMA ReadIndexesPreserves == Inv /\ ReadIndexes => Inv'
<1> SUFFICES ASSUME Inv, ReadIndexes PROVE Inv'
    OBVIOUS
<1>1. /\ phase = "index" /\ next' = next /\ exist' = exist /\ account' = account
      /\ result' = result /\ Request
      /\ IF kind = "list"
         THEN phase' = "holder" /\ todo' = todo
         ELSE IF offset > Len(members)
              THEN phase' = "returned" /\ todo' = todo
              ELSE phase' = "holder" /\ todo' = <<members[offset]>>
      BY DEF ReadIndexes
<1>2. /\ Reading /\ kind \in {"list", "number"} /\ next = 1 /\ result = <<>> /\ offset >= 1
      /\ kind = "list" => todo # <<>>
      BY <1>1 DEF Reading, Inv, Position
<1>3. /\ members' = members /\ kind' = kind /\ kept' = kept /\ asked' = asked /\ held' = held
      /\ offset' = offset /\ walk' = walk
      /\ \A m : Exists(m)' = Exists(m)
      /\ OneHolder' /\ Remembered'
      BY <1>1, <1>2, RequestFacts
<1>4. /\ Len(members) \in Nat /\ offset \in Nat /\ todo \in Seq(Mints) /\ Agents \subseteq Mints
      /\ \A n \in 1..Len(members) : members[n] \in Agents
      BY DEF Inv, TypeOK, Mints
<1>5. \A n \in 1..Len(members) : Exists(members[n])
      BY DEF Exists, Registered
<1>6. CASE kind = "list"
  <2>1. phase' = "holder" /\ todo' = todo
        BY <1>1, <1>6
  <2>2. TypeOK'
    <3>1. ReaderOK'
          BY <1>1, <2>1 DEF Inv, TypeOK, ReaderOK, Entries, Reading
    <3> QED BY <1>1, <1>2, <3>1, RequestTypes
  <2>3. Position'
    <3>1. 1 \in 1..Len(todo)
          BY <1>2, <1>4, <1>6
    <3> QED BY <3>1, <2>1, <1>1, <1>2, <1>3, <1>6 DEF Position
  <2>4. Seen'
    <3>1. ASSUME NEW i \in 1..Len(todo) PROVE Exists(todo[i])
          BY <1>5, <1>6 DEF Inv, Listing
    <3>2. \A i \in 1..Len(todo) : Exists(todo[i])'
          BY <3>1, <2>1, <1>3
    <3> QED BY <3>2, <2>1, <1>3, <1>6 DEF Seen
  <2>5. Listing'
    <3>1. Listed' = Listed /\ \A m : Found(m)' = Found(m)
          BY <1>1, <1>3 DEF Listed, Found
    <3>2. Listing
          BY DEF Inv
    <3> QED BY <3>1, <3>2, <2>1, <1>1, <1>2, <1>3, <1>6 DEF Listing
  <2>6. ListedInOrder' /\ OwnerHeldIt' /\ KeptAgentsAreFound' /\ ThrowsOnlyOnBurned' /\ Batch'
    <3>1. ~Returned("owner")' /\ ~Returned("mints")' /\ phase' # "threw" /\ phase' # "returned"
          BY <2>1 DEF Returned
    <3>2. kind # "mints"
          BY <1>6
    <3> QED BY <1>1, <1>2, <2>1, <3>1, <3>2, NothingYet
  <2> QED BY <1>3, <2>2, <2>3, <2>4, <2>5, <2>6 DEF Inv
<1>7. CASE kind = "number"
  <2>1. \/ phase' = "returned" /\ todo' = todo
        \/ phase' = "holder" /\ todo' = <<members[offset]>> /\ offset \in 1..Len(members)
        BY <1>1, <1>2, <1>4, <1>7
  <2>2. phase' = "holder" => todo' \in Seq(Mints) /\ Len(todo') = 1 /\ Exists(todo'[1])
    <3> SUFFICES ASSUME phase' = "holder"
                 PROVE  todo' \in Seq(Mints) /\ Len(todo') = 1 /\ Exists(todo'[1])
        OBVIOUS
    <3>1. PICK m \in Mints : m = members[offset] /\ Exists(m)
          BY <2>1, <1>4, <1>5
    <3>2. todo' = <<m>>
          BY <2>1, <3>1
    <3>3. Len(todo') = 1 /\ todo'[1] = m /\ todo' \in Seq(Mints)
          BY <3>2
    <3> QED BY <3>1, <3>3
  <2>3. TypeOK'
    <3>1. todo' \in Seq(Mints)
          BY <2>1, <2>2, <1>4
    <3>2. ReaderOK'
          BY <1>1, <2>1, <3>1 DEF Inv, TypeOK, ReaderOK, Entries, Reading
    <3> QED BY <1>1, <1>2, <3>2, RequestTypes
  <2>4. Position'
    <3>1. phase' = "holder" => 1 \in 1..Len(todo')
          BY <2>2
    <3> QED BY <3>1, <2>1, <1>1, <1>2, <1>3, <1>7 DEF Position
  <2>5. Seen'
    <3>1. ASSUME phase' = "holder" PROVE \A i \in 1..Len(todo') : Exists(todo'[i])
      <4>2. Len(todo') = 1
            BY <3>1, <2>2
      <4>1. \A i \in 1..Len(todo') : i = 1
            BY <4>2
      <4> QED BY <4>1, <3>1, <2>2, Zenon
    <3>2. \A m : Exists(m)' = (m \in Foreign \/ Registered(m))
          BY <1>3 DEF Exists, Registered
    <3>3. ASSUME phase' = "holder" PROVE \A i \in 1..Len(todo') : Exists(todo[i])'
          BY <3>1, <3>2, <3>3 DEF Exists
    <3> QED BY <3>3, <2>1, <1>3, <1>7 DEF Seen
  <2>6. Listing' /\ Batch' /\ ListedInOrder' /\ KeptAgentsAreFound'
        BY <1>3, <1>7 DEF Listing, Batch, ListedInOrder, KeptAgentsAreFound, Returned
  <2>7. OwnerHeldIt' /\ ThrowsOnlyOnBurned'
        BY <1>1, <1>2, <2>1 DEF OwnerHeldIt, ThrowsOnlyOnBurned
  <2> QED BY <1>3, <2>3, <2>4, <2>5, <2>6, <2>7 DEF Inv
<1> QED BY <1>2, <1>6, <1>7

-----------------------------------------------------------------------------
(* Looking up the holders, mint by mint                                     *)

\* What becomes of the mint in hand: it is answered with the account found, or it
\* has not kept its holder.
Settled(res) ==
    \/ /\ res = Append(result, [mint |-> todo[next], owner |-> account])
       /\ account \in Wallets /\ account \in held[todo[next]]
    \/ /\ res = Append(result, Null) /\ kind = "mints" /\ kept[todo[next]] = {}
    \/ /\ res = result /\ kind # "mints" /\ kept[todo[next]] = {}

LEMMA AdvancePreserves ==
    ASSUME Inv, phase \in {"holder", "account"}, Request, todo' = todo, exist' = exist,
           NEW res, Advance(res), Settled(res)
    PROVE  Inv'
<1>1. /\ result' = res /\ account' = NoWallet /\ next' = next + 1
      /\ phase' = IF next = Len(todo) THEN "returned" ELSE "holder"
      BY DEF Advance
<1>2. Reading /\ kind \in Kinds /\ kind # "owner" /\ next \in 1..Len(todo)
      BY DEF Reading, Inv, Position, TypeOK
<1>3. /\ members' = members /\ kind' = kind /\ kept' = kept /\ asked' = asked /\ held' = held
      /\ offset' = offset /\ walk' = walk
      /\ \A m : Exists(m)' = Exists(m)
      /\ OneHolder' /\ Remembered'
      BY <1>2, RequestFacts
<1>4. /\ Len(todo) \in Nat /\ todo \in Seq(Mints) /\ todo[next] \in Mints
      /\ result \in Seq(Entries) /\ walk \in Seq(Entries) /\ next \in Nat /\ offset \in Nat
      /\ Len(result) \in Nat /\ Len(walk) \in Nat
      BY <1>2 DEF Inv, TypeOK, Entries
<1> DEFINE e == [mint |-> todo[next], owner |-> account]
<1>5. account \in Wallets => e \in Entries /\ e # Null /\ e.mint = todo[next] /\ e.owner = account
      BY <1>4, NullAssumption DEF Entries, AgentIdentity
<1>6. Null \in Entries
      BY DEF Entries
<1> HIDE DEF e
\* The answer is as long as it was, or one entry longer.
<1>7. \/ /\ res = Append(result, e) /\ account \in Wallets /\ account \in held[todo[next]]
      \/ res = Append(result, Null) /\ kind = "mints" /\ kept[todo[next]] = {}
      \/ res = result /\ kind # "mints" /\ kept[todo[next]] = {}
      BY DEF Settled, e
<1>8. /\ res \in Seq(Entries)
      /\ \A i \in 1..Len(result) : i \in 1..Len(res) /\ res[i] = result[i]
      /\ \/ Len(res) = Len(result) /\ kind # "mints" /\ kept[todo[next]] = {}
         \/ /\ Len(res) = Len(result) + 1
            /\ \/ res[Len(res)] = e /\ account \in Wallets /\ account \in held[todo[next]]
               \/ res[Len(res)] = Null /\ kind = "mints" /\ kept[todo[next]] = {}
  <2>1. CASE res = Append(result, e) /\ account \in Wallets /\ account \in held[todo[next]]
    <3>1. /\ res \in Seq(Entries) /\ Len(res) = Len(result) + 1 /\ res[Len(result) + 1] = e
          /\ \A i \in 1..Len(result) : res[i] = result[i]
          BY <2>1, <1>4, <1>5, Appended
    <3> QED BY <2>1, <3>1, <1>4
  <2>2. CASE res = Append(result, Null) /\ kind = "mints" /\ kept[todo[next]] = {}
    <3>1. /\ res \in Seq(Entries) /\ Len(res) = Len(result) + 1 /\ res[Len(result) + 1] = Null
          /\ \A i \in 1..Len(result) : res[i] = result[i]
          BY <2>2, <1>4, <1>6, Appended
    <3> QED BY <2>2, <3>1, <1>4
  <2>3. CASE res = result /\ kind # "mints" /\ kept[todo[next]] = {}
        BY <2>3, <1>4
  <2> QED BY <2>1, <2>2, <2>3, <1>7
<1>9. TypeOK'
  <2>1. ReaderOK'
        BY <1>1, <1>4, <1>8 DEF Inv, TypeOK, ReaderOK, Reading
  <2> QED BY <1>2, <2>1, RequestTypes
<1>10. Position'
  <2>1. phase' = "holder" => next' \in 1..Len(todo)
        BY <1>1, <1>2, <1>4
  <2>2. phase' = "returned" => next' = Len(todo) + 1
        BY <1>1
  <2>3. phase' \in {"holder", "returned"}
        BY <1>1
  <2> QED BY <2>1, <2>2, <2>3, <1>2, <1>3 DEF Position
<1>11. Seen'
  <2>1. phase' \in {"holder", "returned"} /\ kind' # "owner"
        BY <1>1, <1>2, <1>3
  <2>2. kind = "mints" =>
           \A m \in Mints : (m \in exist => Exists(m)) /\ (kept[m] # {} => m \in exist)
        BY DEF Inv, Seen
  <2>3. kind # "mints" => \A i \in 1..Len(todo) : Exists(todo[i])
        BY DEF Inv, Seen
  <2>4. kind # "mints" => \A i \in 1..Len(todo) : Exists(todo[i])'
        BY <2>3, <1>3
  <2> QED BY <2>1, <2>2, <2>4, <1>3 DEF Seen
<1>12. OwnerHeldIt'
  <2>1. ASSUME NEW i \in 1..Len(res), res[i] # Null PROVE res[i].owner \in held[res[i].mint]
    <3>1. CASE i \in 1..Len(result)
          BY <2>1, <3>1, <1>8 DEF Inv, OwnerHeldIt
    <3>2. CASE i \notin 1..Len(result)
      <4>1. i = Len(res) /\ Len(res) = Len(result) + 1
            BY <2>1, <3>2, <1>4, <1>8
      <4> QED BY <2>1, <4>1, <1>5, <1>8
    <3> QED BY <3>1, <3>2
  <2> QED BY <2>1, <1>1, <1>3 DEF OwnerHeldIt
<1>13. Batch'
  <2> SUFFICES ASSUME kind = "mints" PROVE Batch'
      BY <1>3 DEF Batch
  <2>1. Len(result) = next - 1 /\ Len(res) = next
        BY <1>4, <1>8 DEF Inv, Batch
  <2>2. ASSUME NEW i \in 1..Len(res)
        PROVE  IF kept[todo[i]] # {}
               THEN res[i] # Null /\ res[i].mint = todo[i]
               ELSE res[i] = Null \/ res[i].mint = todo[i]
    <3>1. CASE i \in 1..Len(result)
      <4>1. IF kept[todo[i]] # {}
            THEN result[i] # Null /\ result[i].mint = todo[i]
            ELSE result[i] = Null \/ result[i].mint = todo[i]
            BY <3>1 DEF Inv, Batch
      <4> QED BY <3>1, <4>1, <1>8
    <3>2. CASE i \notin 1..Len(result)
      <4>1. i = Len(res) /\ i = next /\ Len(res) # Len(result)
            BY <3>2, <2>1, <1>4
      <4> QED BY <4>1, <1>5, <1>8
    <3> QED BY <3>1, <3>2
  <2>3. Len(result') = next' - 1
        BY <2>1, <1>1, <1>4
  <2>4. kept' = kept /\ result' = res
        BY <1>1, <1>3
  <2> QED BY <2>2, <2>3, <2>4 DEF Batch
\* The page.
<1>14. \A m : Found(m) => Found(m)'
      BY <1>1, <1>8 DEF Found
<1>15. kind = "list" => InOrder(Listed', offset + next)
  <2> SUFFICES ASSUME kind = "list" PROVE InOrder(Listed', offset + next)
      OBVIOUS
  <2> DEFINE N == offset + next - 1
             L == Len(walk) + Len(result)
  <2>1. N \in 1..Len(members) /\ todo[next] = members[N] /\ Len(members) \in Nat
        BY <1>2 DEF Inv, Listing, TypeOK
  <2>2. Listed = walk \o result /\ Listed' = walk \o res
        BY <1>1, <1>3 DEF Listed
  <2>3. /\ Len(Listed) = L
        /\ \A i \in 1..L : Listed[i] = IF i <= Len(walk) THEN walk[i] ELSE result[i - Len(walk)]
        BY <2>2, <1>4, Concatenated
  <2>4. /\ Len(Listed') = Len(walk) + Len(res)
        /\ \A i \in 1..Len(walk) + Len(res) :
              Listed'[i] = IF i <= Len(walk) THEN walk[i] ELSE res[i - Len(walk)]
        BY <2>2, <1>4, <1>8, Concatenated
  <2>5. ASSUME NEW i \in 1..L PROVE i \in 1..Len(Listed') /\ Listed'[i] = Listed[i]
    <3>1. CASE i <= Len(walk)
          BY <3>1, <2>3, <2>4, <1>4, <1>8
    <3>2. CASE i > Len(walk)
      <4>1. i - Len(walk) \in 1..Len(result)
            BY <3>2, <1>4
      <4>2. res[i - Len(walk)] = result[i - Len(walk)]
            BY <4>1, <1>8
      <4> QED BY <3>2, <4>2, <2>3, <2>4, <1>4, <1>8
    <3> QED BY <3>1, <3>2, <1>4
  <2>6. ASSUME NEW i \in 1..Len(Listed'), i \notin 1..L
        PROVE  i = L + 1 /\ Listed'[i].mint = members[N]
    <3>1. i = L + 1 /\ Len(res) = Len(result) + 1
          BY <2>4, <2>6, <1>4, <1>8
    <3>2. i - Len(walk) = Len(res) /\ i \in 1..Len(walk) + Len(res) /\ ~(i <= Len(walk))
          BY <3>1, <1>4
    <3>3. Listed'[i] = res[Len(res)]
          BY <3>2, <2>4
    <3>4. res[Len(res)] = e /\ account \in Wallets
          BY <3>1, <1>4, <1>8
    <3> QED BY <3>1, <3>3, <3>4, <1>5, <2>1
  <2>7. ASSUME NEW i \in 1..L
        PROVE  \E n \in 1..Len(members) : n < N /\ members[n] = Listed'[i].mint
        BY <2>3, <2>5 DEF Inv, Listing
  <2>8. N < offset + next /\ N \in Nat /\ \A n \in Nat : n < N => n < offset + next
        BY <1>4, <2>1
  <2> HIDE DEF N
  <2>9. ASSUME NEW i \in 1..Len(Listed')
        PROVE  \E n \in 1..Len(members) : n < offset + next /\ members[n] = Listed'[i].mint
    <3>1. CASE i \in 1..L
      <4>1. PICK n \in 1..Len(members) : n < N /\ members[n] = Listed'[i].mint
            BY <3>1, <2>7
      <4>2. n < offset + next
            BY <4>1, <2>8
      <4> QED BY <4>1, <4>2
    <3>2. CASE i \notin 1..L
          BY <3>2, <2>1, <2>6, <2>8
    <3> QED BY <3>1, <3>2
  <2>10. ASSUME NEW i \in 1..Len(Listed'), NEW j \in 1..Len(Listed'), i < j
         PROVE  \E n, k \in 1..Len(members) :
                    n < k /\ members[n] = Listed'[i].mint /\ members[k] = Listed'[j].mint
    <3>1. CASE j \in 1..L
      <4>1. i \in 1..L
            BY <2>10, <3>1
      <4>2. \E n, k \in 1..Len(members) :
                n < k /\ members[n] = Listed[i].mint /\ members[k] = Listed[j].mint
        <5>1. ListedInOrder
              BY DEF Inv
        <5>2. i \in 1..Len(Listed) /\ j \in 1..Len(Listed)
              BY <2>3, <3>1, <4>1
        <5>3. \A a, b \in 1..Len(Listed) : a < b =>
                  \E n, k \in 1..Len(members) :
                      n < k /\ members[n] = Listed[a].mint /\ members[k] = Listed[b].mint
              BY <5>1 DEF ListedInOrder
        <5>4. i < j
              BY <2>10
        <5> HIDE DEF L
        <5> QED BY <5>2, <5>3, <5>4
      <4>3. Listed'[i] = Listed[i] /\ Listed'[j] = Listed[j]
            BY <3>1, <4>1, <2>5
      <4> QED BY <4>2, <4>3
    <3>2. CASE j \notin 1..L
      <4>1. j = L + 1 /\ Listed'[j].mint = members[N]
            BY <3>2, <2>6
      <4>2. i \in 1..L
            BY <4>1, <2>10, <1>4
      <4>3. PICK n \in 1..Len(members) : n < N /\ members[n] = Listed'[i].mint
            BY <4>2, <2>7
      <4> QED BY <4>1, <4>3, <2>1
    <3> QED BY <3>1, <3>2
  <2> QED BY <2>9, <2>10 DEF InOrder
<1>16. ListedInOrder'
      BY <1>3, <1>15 DEF InOrder, ListedInOrder
<1>17. Listing'
  <2> SUFFICES ASSUME kind = "list" PROVE Listing'
      BY <1>3 DEF Listing
  <2>1. offset + next' - 1 = offset + next
        BY <1>1, <1>4
  <2>2. \A i \in 1..Len(Listed') : \E n \in 1..Len(members) :
              n < offset + next /\ members[n] = Listed'[i].mint
        BY <1>15 DEF InOrder
  <2>3. /\ Len(todo) <= Limit
        /\ \A i \in 1..Len(todo) : /\ offset + i - 1 \in 1..Len(members)
                                   /\ todo[i] = members[offset + i - 1]
        BY DEF Inv, Listing
  <2>4. ASSUME offset >= 1, NEW n \in 1..Len(members),
               offset <= n, n < offset + Limit, kept[members[n]] # {}
        PROVE  n < offset + Len(todo) /\ (n < offset + next => Found(members[n])')
    <3>1. n < offset + Len(todo) /\ (n < offset + next - 1 => Found(members[n]))
          BY <2>4 DEF Inv, Listing
    <3>2. ASSUME n < offset + next, ~(n < offset + next - 1) PROVE Found(members[n])'
      <4>1. n = offset + next - 1
            BY <3>2, <1>4
      <4>2. todo[next] = members[n]
            BY <4>1, <1>2, <2>3
      <4>3. /\ Len(res) \in 1..Len(res) /\ res[Len(res)] = e /\ account \in Wallets
            BY <2>4, <4>2, <1>4, <1>8
      <4>4. res[Len(res)] # Null /\ res[Len(res)].mint = members[n]
            BY <4>2, <4>3, <1>5
      <4> QED BY <4>3, <4>4, <1>1, <1>3 DEF Found
    <3>3. Found(members[n]) => Found(members[n])'
          BY <1>3, <1>14 DEF Found
    <3> QED BY <3>1, <3>2, <3>3
  <2> HIDE DEF e
  <2>5. \A n \in 1..Len(members) :
            offset >= 1 /\ offset <= n /\ n < offset + Limit /\ kept[members[n]] # {} =>
                n < offset + Len(todo) /\ (n < offset + next => Found(members[n])')
        BY <2>4
  <2> QED BY <2>1, <2>2, <2>3, <2>5, <1>3 DEF Listing
<1>18. ThrowsOnlyOnBurned'
      BY <1>1 DEF ThrowsOnlyOnBurned
<1>19. KeptAgentsAreFound'
  <2>1. ~Returned("owner")'
        BY <1>2, <1>3 DEF Returned
  <2>2. ASSUME Returned("list")', NEW n \in 1..Len(members),
               offset <= n, n < offset + Limit, 1 <= offset, kept[members[n]] # {}
        PROVE  Found(members[n])'
    <3>1. kind = "list" /\ phase' = "returned" /\ next' = Len(todo) + 1
          BY <2>2, <1>3, <1>10 DEF Returned, Position
    <3>2. n < offset + Len(todo) /\ (n < offset + next' - 1 => Found(members[n])')
          BY <2>2, <3>1, <1>3, <1>4, <1>17 DEF Listing
    <3>3. offset + next' - 1 = offset + Len(todo)
          BY <3>1, <1>4
    <3> QED BY <3>2, <3>3
  <2>3. ASSUME Returned("mints")' PROVE Len(result') = Len(todo)
    <3>1. kind = "mints" /\ next' = Len(todo) + 1 /\ Len(result') = next' - 1
          BY <2>3, <1>3, <1>10, <1>13 DEF Returned, Position, Batch
    <3> QED BY <3>1, <1>4
  <2>4. ASSUME Returned("mints")', NEW i \in 1..Len(todo)
        PROVE  IF kept[todo[i]] # {}
               THEN result'[i] # Null /\ result'[i].mint = todo[i]
               ELSE result'[i] = Null \/ result'[i].mint = todo[i]
        BY <2>3, <2>4, <1>3, <1>13 DEF Returned, Batch
  <2> QED BY <2>1, <2>2, <2>3, <2>4, <1>3 DEF KeptAgentsAreFound
<1> QED BY <1>3, <1>9, <1>10, <1>11, <1>12, <1>13, <1>16, <1>17, <1>18, <1>19 DEF Inv

LEMMA FindHolderPreserves == Inv /\ FindHolder => Inv'
<1> SUFFICES ASSUME Inv, FindHolder PROVE Inv'
    OBVIOUS
<1> DEFINE m == todo[next]
<1>1. /\ phase = "holder" /\ Request /\ todo' = todo /\ exist' = exist
      /\ \/ kind = "mints" /\ m \notin exist /\ Advance(Append(result, Null))
         \/ Holders(m) = {} /\ NoHolder
         \/ /\ Holders(m) # {} /\ account' \in Holders(m) /\ phase' = "account"
            /\ next' = next /\ result' = result
      BY DEF FindHolder
<1>2. /\ Reading /\ next \in 1..Len(todo) /\ todo[next] \in Mints /\ kind # "owner"
      /\ kind \in Kinds
      BY <1>1 DEF Reading, Inv, Position, TypeOK
<1>3. kept[m] \subseteq Holders(m) /\ Holders(m) \subseteq held[m] /\ Holders(m) \subseteq Wallets
      BY <1>2 DEF Inv, Remembered, Holders
<1>4. CASE kind = "mints" /\ m \notin exist /\ Advance(Append(result, Null))
  <2>1. kept[m] = {}
        BY <1>1, <1>2, <1>4 DEF Inv, Seen
  <2>2. Settled(Append(result, Null))
        BY <2>1, <1>4 DEF Settled
  <2> QED BY <1>1, <1>4, <2>2, AdvancePreserves
<1>5. CASE Holders(m) = {} /\ NoHolder /\ kind = "mints"
  <2>1. Advance(Append(result, Null)) /\ Settled(Append(result, Null))
        BY <1>3, <1>5 DEF NoHolder, Settled
  <2> QED BY <1>1, <2>1, AdvancePreserves
<1>6. CASE Holders(m) = {} /\ NoHolder /\ kind # "mints"
  <2>1. phase' = "threw" /\ next' = next /\ account' = account /\ result' = result
        BY <1>6 DEF NoHolder
  <2>2. /\ members' = members /\ kind' = kind /\ kept' = kept /\ asked' = asked /\ held' = held
        /\ offset' = offset /\ walk' = walk
        /\ \A l : Exists(l)' = Exists(l) /\ Holders(l)' = Holders(l)
        /\ OneHolder' /\ Remembered'
        BY <1>1, <1>2, RequestFacts
  <2>3. TypeOK'
    <3>1. ReaderOK'
          BY <1>1, <2>1 DEF Inv, TypeOK, ReaderOK, Entries, Reading
    <3> QED BY <1>1, <1>2, <3>1, RequestTypes
  <2>4. Position' /\ Seen' /\ Batch'
        BY <1>1, <1>2, <1>6, <2>1, <2>2 DEF Position, Seen, Batch
  <2>5. Listed' = Listed
        BY <2>1, <2>2 DEF Listed
  <2>6. Listing'
    <3>1. Listing
          BY DEF Inv
    <3> QED BY <3>1, <1>1, <2>1, <2>2, <2>5 DEF Listing
  <2>7. ListedInOrder'
    <3>1. ListedInOrder
          BY DEF Inv
    <3>2. members' = members /\ kind' = kind
          BY <2>2
    <3> QED BY <3>1, <3>2, <2>5 DEF ListedInOrder
  <2>8. OwnerHeldIt' /\ KeptAgentsAreFound'
        BY <2>1, <2>2 DEF Inv, OwnerHeldIt, KeptAgentsAreFound, Returned
  <2>9. ThrowsOnlyOnBurned'
    <3>1. Exists(m) /\ Holders(m) = {} /\ kind \in {"one", "number", "list"}
          BY <1>1, <1>2, <1>6 DEF Inv, Seen, Kinds
    <3>2. Exists(todo[next])' /\ (Holders(todo[next]) = {})'
          BY <3>1, <1>1, <2>1, <2>2 DEF Exists, Registered, Holders
    <3> QED BY <3>1, <3>2, <1>1, <1>2, <2>1, <2>2 DEF ThrowsOnlyOnBurned
  <2> QED BY <2>2, <2>3, <2>4, <2>6, <2>7, <2>8, <2>9 DEF Inv
<1>7. CASE /\ Holders(m) # {} /\ account' \in Holders(m) /\ phase' = "account"
           /\ next' = next /\ result' = result
  <2>1. /\ members' = members /\ kind' = kind /\ kept' = kept /\ asked' = asked /\ held' = held
        /\ offset' = offset /\ walk' = walk
        /\ \A l : Exists(l)' = Exists(l)
        /\ OneHolder' /\ Remembered'
        BY <1>1, <1>2, RequestFacts
  <2>2. TypeOK'
    <3>1. ReaderOK'
          BY <1>1, <1>3, <1>7 DEF Inv, TypeOK, ReaderOK, Entries, Reading
    <3> QED BY <1>1, <1>2, <3>1, RequestTypes
  <2>3. Position'
        BY <1>1, <1>2, <1>3, <1>7, <2>1 DEF Position
  <2>4. Seen'
    <3>1. account' \in held[m] /\ kept[m] \subseteq {account'}
          BY <1>2, <1>3, <1>7 DEF Inv, OneHolder
    <3>2. IF kind = "mints"
          THEN \A l \in Mints : (l \in exist => Exists(l)) /\ (kept[l] # {} => l \in exist)
          ELSE \A i \in 1..Len(todo) : Exists(todo[i])
          BY <1>1 DEF Inv, Seen
    <3>3. kind # "mints" => \A i \in 1..Len(todo) : Exists(todo[i])'
          BY <3>2, <1>1, <2>1
    <3> QED BY <3>1, <3>2, <3>3, <1>1, <1>7, <2>1 DEF Seen
  <2>5. Listed' = Listed /\ \A l : Found(l)' = Found(l)
        BY <1>7, <2>1 DEF Listed, Found
  <2>6. Listing'
    <3>1. Listing
          BY DEF Inv
    <3> QED BY <3>1, <1>1, <1>7, <2>1, <2>5 DEF Listing
  <2>7. ListedInOrder'
    <3>1. ListedInOrder
          BY DEF Inv
    <3>2. members' = members /\ kind' = kind
          BY <2>1
    <3>3. Listed' = Listed
          BY <2>5
    <3> QED BY <3>1, <3>2, <3>3 DEF ListedInOrder
  <2>8. Batch' /\ OwnerHeldIt'
        BY <1>1, <1>7, <2>1 DEF Inv, Batch, OwnerHeldIt
  <2>9. KeptAgentsAreFound' /\ ThrowsOnlyOnBurned'
        BY <1>7 DEF KeptAgentsAreFound, ThrowsOnlyOnBurned, Returned
  <2> QED BY <2>1, <2>2, <2>3, <2>4, <2>6, <2>7, <2>8, <2>9 DEF Inv
<1> QED BY <1>1, <1>4, <1>5, <1>6, <1>7

LEMMA ReadOwnerPreserves == Inv /\ ReadOwner => Inv'
<1> SUFFICES ASSUME Inv, ReadOwner PROVE Inv'
    OBVIOUS
<1> DEFINE m == todo[next]
           e == [mint |-> m, owner |-> account]
<1>1. /\ phase = "account" /\ Request /\ todo' = todo /\ exist' = exist
      /\ IF token[m][account] = "none"
         THEN Advance(IF kind = "mints" THEN Append(result, Null) ELSE result)
         ELSE Advance(Append(result, e))
      BY DEF ReadOwner
<1>2. /\ Reading /\ next \in 1..Len(todo) /\ m \in Mints /\ account \in Wallets
      BY <1>1 DEF Reading, Inv, Position, TypeOK
<1>3. account \in held[m] /\ kept[m] \subseteq {account} /\ kept[m] \subseteq Holders(m)
      BY <1>1, <1>2 DEF Inv, Seen, Remembered
<1>4. CASE token[m][account] = "none"
  <2>1. kept[m] = {}
        BY <1>3, <1>4 DEF Holders
  <2>2. CASE kind = "mints"
    <3>1. Advance(Append(result, Null)) /\ Settled(Append(result, Null))
          BY <1>1, <1>4, <2>1, <2>2 DEF Settled
    <3> QED BY <1>1, <3>1, AdvancePreserves
  <2>3. CASE kind # "mints"
    <3>1. Advance(result) /\ Settled(result)
          BY <1>1, <1>4, <2>1, <2>3 DEF Settled
    <3> QED BY <1>1, <3>1, AdvancePreserves
  <2> QED BY <2>2, <2>3
<1>5. CASE token[m][account] # "none"
  <2>1. Advance(Append(result, e)) /\ Settled(Append(result, e))
        BY <1>1, <1>2, <1>3, <1>5 DEF Settled
  <2> QED BY <1>1, <2>1, AdvancePreserves
<1> QED BY <1>4, <1>5

-----------------------------------------------------------------------------
(* The theorems                                                             *)

LEMMA Invariance == Spec => []Inv
<1>1. Inv /\ [Next]_vars => Inv'
  <2> SUFFICES ASSUME Inv, [Next]_vars PROVE Inv'
      OBVIOUS
  <2>1. CASE Change
        BY <2>1, ChangeGrows, ChangePreserves
  <2>2. CASE Call
        BY <2>2, CallPreserves
  <2>3. CASE Read
        BY <2>3, ReadStatsPreserves, ReadIndexesPreserves, ReadMintsPreserves,
           ReadTokensPreserves, ReadGroupPreserves, FindHolderPreserves, ReadOwnerPreserves
           DEF Read
  <2>4. CASE UNCHANGED vars
    <3>1. /\ members' = members /\ token' = token /\ kind' = kind /\ phase' = phase
          /\ todo' = todo /\ next' = next /\ exist' = exist /\ account' = account
          /\ result' = result /\ offset' = offset /\ walk' = walk /\ asked' = asked
          /\ held' = held /\ kept' = kept /\ moves' = moves
          BY <2>4 DEF vars, chain, reader, seen, page
    <3>2. /\ \A m : Exists(m)' = Exists(m) /\ Holders(m)' = Holders(m)
                    /\ Found(m)' = Found(m) /\ Registered(m)' = Registered(m)
          /\ Listed' = Listed /\ Reading' = Reading
          BY <3>1 DEF Exists, Holders, Found, Registered, Listed, Reading
    <3>3. TypeOK' /\ Position' /\ Batch'
          BY <3>1, <3>2 DEF Inv, TypeOK, Position, Batch
    <3>4. OneHolder' /\ Remembered'
          BY <3>1, <3>2 DEF Inv, OneHolder, Remembered
    <3>5. Seen'
          BY <3>1 DEF Inv, Seen, Exists, Registered
    <3>6. Listing'
      <4>1. Listing
            BY DEF Inv
      <4> QED BY <4>1, <3>1, <3>2 DEF Listing
    <3>7. ListedInOrder'
      <4>1. ListedInOrder /\ members' = members /\ kind' = kind /\ Listed' = Listed
            BY <3>1, <3>2 DEF Inv
      <4> QED BY <4>1 DEF ListedInOrder
    <3>8. OwnerHeldIt'
          BY <3>1 DEF Inv, OwnerHeldIt
    <3>9. KeptAgentsAreFound'
      <4>1. KeptAgentsAreFound
            BY DEF Inv
      <4> QED BY <4>1, <3>1 DEF KeptAgentsAreFound, Returned, Found, Registered
    <3>10. ThrowsOnlyOnBurned'
      <4>1. ThrowsOnlyOnBurned
            BY DEF Inv
      <4> QED BY <4>1, <3>1 DEF ThrowsOnlyOnBurned, Exists, Registered, Holders
    <3> QED BY <3>3, <3>4, <3>5, <3>6, <3>7, <3>8, <3>9, <3>10 DEF Inv
  <2> QED BY <2>1, <2>2, <2>3, <2>4 DEF Next
<1> QED BY <1>1, Initially, PTL DEF Spec

\* The calls of SATIClient keep what they have read in the form that the code after
\* each request expects.
THEOREM TypeCorrect == Spec => []TypeOK
BY Invariance, PTL DEF Inv

\* Pages of listAllAgents (client.ts:926) are in order, whatever happens between them
\* and however long the walk.
THEOREM PagesInOrder == Spec => []ListedInOrder
BY Invariance, PTL DEF Inv

\* getAgentOwner (client.ts:830) asks twice, and others may act in between; the owner
\* returned has held the agent's token all the same while the call ran.
THEOREM OwnersHeldIt == Spec => []OwnerHeldIt
BY Invariance, PTL DEF Inv

\* Agents that stay with their holder are never missed by listAllAgents, loadAgents or
\* listAgentsByOwner.
THEOREM StayingAgentsAreFound == Spec => []KeptAgentsAreFound
BY Invariance, PTL DEF Inv

\* The Error of getAgentOwner (client.ts:838) reaches callers for burned agents only.
THEOREM OnlyBurnedThrow == Spec => []ThrowsOnlyOnBurned
BY Invariance, PTL DEF Inv
=============================================================================
