------------------------ MODULE DeployScript_proofs ------------------------
(***************************************************************************)
(* Proofs about DeployScript, for any number of schemas, runs and faults:    *)
(* what deployed/<network>.json names exists, and nothing is built on the    *)
(* registry of another wallet.                                              *)
(***************************************************************************)
EXTENDS DeployScript, TLAPS

-----------------------------------------------------------------------------
(* The plan                                                                 *)

First == <<"registry">>
Last == <<"table">>

\* The elements of a concatenation.
LEMMA Concatenation ==
    ASSUME NEW S, NEW s \in Seq(S), NEW t \in Seq(S)
    PROVE  /\ s \o t \in Seq(S) /\ Len(s \o t) = Len(s) + Len(t)
           /\ \A i \in 1..Len(s) + Len(t) :
                 (s \o t)[i] = IF i <= Len(s) THEN s[i] ELSE t[i - Len(s)]
OBVIOUS

\* The registry comes first, the lookup table last, and neither in between.
LEMMA PlanFacts ==
    /\ Len(Plan) \in Nat /\ Len(Plan) >= 3 /\ DOMAIN Plan = 1..Len(Plan)
    /\ Plan[1] = First /\ Plan[Len(Plan)] = Last /\ First # Last
    /\ \A i \in 2..Len(Plan) - 1 : Plan[i] \notin {First, Last}
<1> DEFINE A == <<<<"registry">>, <<"credential">>>>
           B == [i \in DOMAIN Order |-> <<"schema", Order[i]>>]
           C == [i \in DOMAIN Order |-> <<"config", Order[i]>>]
           D == <<<<"table">>>>
           S == {<<"registry">>, <<"credential">>, <<"table">>}
                  \cup {<<"schema", k>> : k \in Keys} \cup {<<"config", k>> : k \in Keys}
           n == Len(Order)
<1>1. Order \in Seq(Keys) /\ n \in Nat /\ DOMAIN Order = 1..n
      BY OrderAssumption
<1>2. A \in Seq(S) /\ Len(A) = 2 /\ A[1] = First /\ A[2] = <<"credential">>
      BY DEF First
<1>3. D \in Seq(S) /\ Len(D) = 1 /\ D[1] = Last
      BY DEF Last
<1>4. B \in Seq(S) /\ Len(B) = n
      BY <1>1
<1>5. C \in Seq(S) /\ Len(C) = n
      BY <1>1
<1>6. \A i \in 1..n : B[i] \notin {First, Last} /\ C[i] \notin {First, Last}
      BY <1>1 DEF First, Last
<1>7. <<"credential">> \notin {First, Last} /\ First # Last
      BY DEF First, Last
<1> DEFINE AB == A \o B
           ABC == AB \o C
<1>8. Plan = ABC \o D
      BY DEF Plan
<1>9. /\ AB \in Seq(S) /\ Len(AB) = Len(A) + Len(B)
      /\ \A i \in 1..Len(A) + Len(B) : AB[i] = IF i <= Len(A) THEN A[i] ELSE B[i - Len(A)]
  <2>1. A \in Seq(S) /\ B \in Seq(S)
        BY <1>2, <1>4
  <2> HIDE DEF A, B, S, n
  <2> QED BY <2>1, Concatenation
<1> HIDE DEF AB, A, B, C, D, S, n
<1>10. /\ ABC \in Seq(S) /\ Len(ABC) = Len(AB) + Len(C)
       /\ \A i \in 1..Len(AB) + Len(C) :
             ABC[i] = IF i <= Len(AB) THEN AB[i] ELSE C[i - Len(AB)]
      BY <1>5, <1>9, Concatenation
<1> HIDE DEF ABC
<1>11. /\ Len(Plan) = Len(ABC) + Len(D)
       /\ \A i \in 1..Len(ABC) + Len(D) :
             Plan[i] = IF i <= Len(ABC) THEN ABC[i] ELSE D[i - Len(ABC)]
  <2>1. ABC \in Seq(S) /\ D \in Seq(S)
        BY <1>3, <1>10
  <2> QED BY <1>8, <2>1, Concatenation
<1>12. Len(Plan) \in Nat /\ Len(Plan) >= 3 /\ DOMAIN Plan = 1..Len(Plan)
  <2>1. Plan \in Seq(S)
        BY <1>3, <1>8, <1>10, Concatenation
  <2> QED BY <2>1, <1>1, <1>2, <1>3, <1>4, <1>5, <1>9, <1>10, <1>11
<1>13. Plan[1] = First /\ Plan[Len(Plan)] = Last
      BY <1>1, <1>2, <1>3, <1>4, <1>5, <1>9, <1>10, <1>11
<1>14. ASSUME NEW i \in 2..Len(Plan) - 1
       PROVE  Plan[i] \notin {First, Last}
  <2>1. CASE i = 2
    <3>1. Plan[i] = A[2]
          BY <2>1, <1>1, <1>2, <1>3, <1>4, <1>5, <1>9, <1>10, <1>11
    <3> QED BY <3>1, <1>2, <1>7, Zenon
  <2>2. CASE i \in 3..2 + n
    <3>1. i - 2 \in 1..n
          BY <2>2, <1>1
    <3>2. Plan[i] = B[i - 2]
          BY <2>2, <1>1, <1>2, <1>3, <1>4, <1>5, <1>9, <1>10, <1>11
    <3> QED BY <3>1, <3>2, <1>6
  <2>3. CASE i \in 3 + n..2 + n + n
    <3>1. i - (2 + n) \in 1..n
          BY <2>3, <1>1
    <3>2. Plan[i] = C[i - (2 + n)]
          BY <2>3, <1>1, <1>2, <1>3, <1>4, <1>5, <1>9, <1>10, <1>11
    <3> QED BY <3>1, <3>2, <1>6
  <2> QED BY <2>1, <2>2, <2>3, <1>1, <1>2, <1>3, <1>4, <1>5, <1>9, <1>10, <1>11
<1> QED BY <1>7, <1>12, <1>13, <1>14

\* Every operation is somewhere in the plan.
LEMMA OperationFacts ==
    /\ \A i \in 1..Len(Plan) : Plan[i] \in Operations
    /\ \A op \in Operations : \E i \in 1..Len(Plan) : op = Plan[i]
    /\ \A i \in 1..Len(Plan) : Plan[i] = First => i = 1
    /\ \A i \in 1..Len(Plan) : Plan[i] = Last => i = Len(Plan)
<1>1. \A i \in 1..Len(Plan) : i = 1 \/ i = Len(Plan) \/ i \in 2..Len(Plan) - 1
  <2>1. Len(Plan) \in Nat
        BY PlanFacts
  <2> QED BY <2>1
<1>2. \A i \in 1..Len(Plan) : Plan[i] = First => i = 1
      BY <1>1, PlanFacts, Zenon
<1>3. \A i \in 1..Len(Plan) : Plan[i] = Last => i = Len(Plan)
      BY <1>1, PlanFacts, Zenon
<1>4. DOMAIN Plan = 1..Len(Plan)
      BY PlanFacts
<1>5. /\ \A i \in 1..Len(Plan) : Plan[i] \in Operations
      /\ \A op \in Operations : \E i \in 1..Len(Plan) : op = Plan[i]
      BY <1>4, Zenon DEF Operations
<1> QED BY <1>2, <1>3, <1>5

-----------------------------------------------------------------------------
(* The inductive invariant                                                  *)

\* What lies behind the current step is done, and its last step leaves a table.
StepsDone ==
    /\ step > 1 => registry = Deployer
    /\ \A i \in 2..Len(Plan) - 1 : i < step => Plan[i] \in onChain
    /\ step = Len(Plan) + 1 => table \in tables
    /\ phase \in {"send", "wait"} => step <= Len(Plan)
    /\ phase # "idle" => run >= 1

\* The only transaction of this run that can still land is the one it waits for;
\* one it left behind lands for a run that has failed.
OneInFlight ==
    \A tx \in flight : tx.run = run =>
        phase = "failed" \/ (phase = "wait" /\ tx.op = Op /\ answer = "none")

\* "confirmed" means that the operation waited for has had its effect.
ConfirmedIsDone ==
    phase = "wait" /\ answer = "confirmed" =>
        /\ Op = First => registry = Deployer
        /\ Op = Last => run \in tables
        /\ Op \notin {First, Last} => Op \in onChain

\* Before the registry is the deployer's there is nothing, on chain or under way, but
\* an attempt to initialize it.
RegistryFirst ==
    registry # Deployer =>
        onChain = {} /\ tables = {} /\ file = 0 /\ \A tx \in flight : tx.op = First

IInv == TypeOK /\ StepsDone /\ OneInFlight /\ ConfirmedIsDone /\ RegistryFirst
            /\ SavedIsComplete

\* The run may go on from an operation that is done.
LEMMA GoingOn ==
    ASSUME IInv, GoOn, step <= Len(Plan), UNCHANGED <<registry, onChain, tables>>,
           registry = Deployer, run >= 1,
           step \in 2..Len(Plan) - 1 => Plan[step] \in onChain,
           step = Len(Plan) => table' \in tables
    PROVE  StepsDone'
<1>1. step \in 1..Len(Plan) + 1 /\ step' = step + 1 /\ Len(Plan) \in Nat
      BY PlanFacts DEF IInv, TypeOK, GoOn
<1>2. ASSUME NEW i \in 2..Len(Plan) - 1, i < step'
      PROVE  Plan[i] \in onChain'
  <2>1. i < step \/ i = step
        BY <1>1, <1>2
  <2> QED BY <2>1 DEF IInv, StepsDone
<1>3. phase' = "check" /\ run' = run
      BY DEF GoOn
<1> QED BY <1>1, <1>2, <1>3 DEF StepsDone

\* A new run starts from the beginning and owns no transaction.
LEMMA StartIInv == IInv /\ Start => IInv'
<1> SUFFICES ASSUME IInv, Start PROVE IInv'
    OBVIOUS
<1>1. TypeOK'
      BY PlanFacts, FaultsAssumption DEF IInv, Start, chain, TypeOK, Phases
<1>2. StepsDone'
      BY PlanFacts DEF IInv, Start, chain, StepsDone, TypeOK
<1>3. OneInFlight'
      BY DEF IInv, Start, chain, OneInFlight, Op, TypeOK
<1>4. ConfirmedIsDone'
      BY DEF IInv, Start, chain, ConfirmedIsDone, Op, First, Last
<1>5. RegistryFirst'
      BY DEF IInv, Start, chain, RegistryFirst, First
<1>6. SavedIsComplete'
      BY DEF IInv, Start, chain, SavedIsComplete
<1> QED BY <1>1, <1>2, <1>3, <1>4, <1>5, <1>6 DEF IInv

\* The run gets past the registry only if it is the deployer's.
LEMMA CheckRegistryIInv == IInv /\ CheckRegistry => IInv'
<1> SUFFICES ASSUME IInv, CheckRegistry PROVE IInv'
    OBVIOUS
<1>1. TypeOK'
      BY PlanFacts, FaultsAssumption DEF IInv, CheckRegistry, GoOn, Fault, chain, TypeOK, Phases
<1>2. StepsDone'
  <2>1. step = 1
        BY OperationFacts DEF CheckRegistry, IInv, TypeOK, Op, First
  <2>2. CASE registry = Deployer /\ GoOn
    <3>1. run >= 1 /\ Len(Plan) >= 3
          BY PlanFacts DEF IInv, StepsDone, CheckRegistry
    <3> QED BY <2>1, <2>2, <3>1, PlanFacts, GoingOn DEF CheckRegistry, chain
  <2>3. CASE UNCHANGED <<run, step>> /\ phase' \in {"frontrun", "send"}
        BY <2>3, <2>1, PlanFacts DEF IInv, StepsDone, CheckRegistry, chain
  <2> QED BY <2>2, <2>3 DEF CheckRegistry
<1>3. OneInFlight'
      BY DEF IInv, CheckRegistry, GoOn, Fault, chain, OneInFlight, Op, TypeOK
<1>4. ConfirmedIsDone'
      BY DEF IInv, CheckRegistry, GoOn, Fault, chain, ConfirmedIsDone, Op, First, Last
<1>5. RegistryFirst'
      BY DEF IInv, CheckRegistry, GoOn, Fault, chain, RegistryFirst, First
<1>6. SavedIsComplete'
      BY DEF IInv, CheckRegistry, GoOn, Fault, chain, SavedIsComplete
<1> QED BY <1>1, <1>2, <1>3, <1>4, <1>5, <1>6 DEF IInv

\* The run skips what exists.
LEMMA CheckExistingIInv == IInv /\ CheckExisting => IInv'
<1> SUFFICES ASSUME IInv, CheckExisting PROVE IInv'
    OBVIOUS
<1>1. TypeOK'
      BY PlanFacts, FaultsAssumption DEF IInv, CheckExisting, GoOn, chain, TypeOK, Phases
<1>2. StepsDone'
  <2>1. step \in 2..Len(Plan) - 1 /\ step \in 1..Len(Plan)
    <3>1. step \in 1..Len(Plan)
          BY PlanFacts DEF CheckExisting, IInv, TypeOK
    <3>2. step # 1 /\ step # Len(Plan)
          BY PlanFacts DEF CheckExisting, Op, First, Last
    <3>3. Len(Plan) \in Nat
          BY PlanFacts
    <3> QED BY <3>1, <3>2, <3>3
  <2>2. registry = Deployer /\ run >= 1
        BY <2>1, PlanFacts DEF IInv, StepsDone, CheckExisting
  <2>3. CASE Op \in onChain /\ GoOn
        BY <2>1, <2>2, <2>3, PlanFacts, GoingOn DEF CheckExisting, chain, Op
  <2>4. CASE phase' = "send" /\ UNCHANGED <<run, step>>
        BY <2>4, <2>1, <2>2 DEF IInv, StepsDone, CheckExisting, chain
  <2> QED BY <2>3, <2>4 DEF CheckExisting
<1>3. OneInFlight'
      BY DEF IInv, CheckExisting, GoOn, chain, OneInFlight, Op, TypeOK
<1>4. ConfirmedIsDone'
      BY DEF IInv, CheckExisting, GoOn, chain, ConfirmedIsDone, Op, First, Last
<1>5. RegistryFirst'
      BY DEF IInv, CheckExisting, GoOn, chain, RegistryFirst, First
<1>6. SavedIsComplete'
      BY DEF IInv, CheckExisting, GoOn, chain, SavedIsComplete
<1> QED BY <1>1, <1>2, <1>3, <1>4, <1>5, <1>6 DEF IInv

\* A reused table is the file's, which exists.
LEMMA CheckTableIInv == IInv /\ CheckTable => IInv'
<1> SUFFICES ASSUME IInv, CheckTable PROVE IInv'
    OBVIOUS
<1>1. TypeOK'
      BY PlanFacts, FaultsAssumption DEF IInv, CheckTable, GoOn, Fault, chain, TypeOK, Phases
<1>2. StepsDone'
  <2>1. step = Len(Plan) /\ step \in 1..Len(Plan)
        BY OperationFacts DEF CheckTable, IInv, TypeOK, Op, Last
  <2>2. registry = Deployer /\ run >= 1
        BY <2>1, PlanFacts DEF IInv, StepsDone, CheckTable
  <2>3. CASE file # 0 /\ table' = file /\ GoOn
    <3>1. table' \in tables
          BY <2>3 DEF IInv, TypeOK
    <3>2. step <= Len(Plan) /\ ~(step \in 2..Len(Plan) - 1)
          BY <2>1, PlanFacts
    <3> QED BY <2>2, <2>3, <3>1, <3>2, GoingOn DEF CheckTable, chain
  <2>4. CASE phase' = "send" /\ UNCHANGED <<run, step, table>>
        BY <2>4, <2>1, <2>2, PlanFacts DEF IInv, StepsDone, CheckTable, chain
  <2> QED BY <2>3, <2>4 DEF CheckTable
<1>3. OneInFlight'
      BY DEF IInv, CheckTable, GoOn, Fault, chain, OneInFlight, Op, TypeOK
<1>4. ConfirmedIsDone'
      BY DEF IInv, CheckTable, GoOn, Fault, chain, ConfirmedIsDone, Op, First, Last
<1>5. RegistryFirst'
      BY DEF IInv, CheckTable, GoOn, Fault, chain, RegistryFirst, First
<1>6. SavedIsComplete'
      BY DEF IInv, CheckTable, GoOn, Fault, chain, SavedIsComplete
<1> QED BY <1>1, <1>2, <1>3, <1>4, <1>5, <1>6 DEF IInv

\* What is sent is the current operation, and no other one is under way.
LEMMA SendIInv == IInv /\ Send => IInv'
<1> SUFFICES ASSUME IInv, Send PROVE IInv'
    OBVIOUS
<1>1. TypeOK'
  <2>1. step \in 1..Len(Plan) /\ run \in 1..run
        BY PlanFacts DEF Send, IInv, StepsDone, TypeOK
  <2>2. [op |-> Op, run |-> run] \in [op : Operations, run : 1..run]
        BY <2>1, OperationFacts DEF Op
  <2> QED BY <2>2 DEF IInv, TypeOK, Send, Phases, chain
<1>2. StepsDone'
      BY PlanFacts DEF IInv, Send, chain, StepsDone, TypeOK
<1>3. OneInFlight'
      BY DEF IInv, Send, chain, OneInFlight, Op, TypeOK
<1>4. ConfirmedIsDone'
      BY DEF IInv, Send, chain, ConfirmedIsDone, Op, First, Last
<1>5. RegistryFirst'
  <2>1. registry # Deployer => step = 1
        BY PlanFacts DEF Send, IInv, StepsDone, TypeOK
  <2>2. registry # Deployer => Op = First
        BY <2>1, PlanFacts DEF Op
  <2> QED BY <2>2 DEF IInv, RegistryFirst, Send, chain
<1>6. SavedIsComplete'
      BY DEF IInv, Send, chain, SavedIsComplete
<1> QED BY <1>1, <1>2, <1>3, <1>4, <1>5, <1>6 DEF IInv

\* What is confirmed is done.
LEMMA ConfirmedIInv == IInv /\ Confirmed => IInv'
<1> SUFFICES ASSUME IInv, Confirmed PROVE IInv'
    OBVIOUS
<1>1. TypeOK'
  <2>1. step \in 1..Len(Plan) /\ step' \in 1..Len(Plan) + 1
        BY PlanFacts DEF Confirmed, GoOn, IInv, StepsDone, TypeOK
  <2>2. table' \in tables' \cup {0}
        BY DEF Confirmed, IInv, ConfirmedIsDone, TypeOK, Last, chain
  <2> QED BY <2>1, <2>2 DEF IInv, TypeOK, Confirmed, GoOn, Phases, chain
<1>2. StepsDone'
  <2>1. step \in 1..Len(Plan)
        BY PlanFacts DEF Confirmed, IInv, StepsDone, TypeOK
  <2>2. registry = Deployer /\ run >= 1
    <3>1. CASE step = 1
          BY <3>1, PlanFacts DEF Confirmed, IInv, ConfirmedIsDone, StepsDone, Op
    <3>2. CASE step > 1
          BY <3>2 DEF Confirmed, IInv, StepsDone
    <3> QED BY <2>1, <3>1, <3>2, PlanFacts
  <2>3. step \in 2..Len(Plan) - 1 => Plan[step] \in onChain
        BY PlanFacts DEF Confirmed, IInv, ConfirmedIsDone, Op
  <2>4. step = Len(Plan) => table' \in tables
        BY PlanFacts DEF Confirmed, IInv, ConfirmedIsDone, Op, Last
  <2>5. step <= Len(Plan) /\ GoOn /\ UNCHANGED <<registry, onChain, tables>>
        BY <2>1, PlanFacts DEF Confirmed, chain
  <2> QED BY <2>2, <2>3, <2>4, <2>5, GoingOn
<1>3. OneInFlight'
      BY DEF IInv, Confirmed, GoOn, chain, OneInFlight, Op, TypeOK
<1>4. ConfirmedIsDone'
      BY DEF IInv, Confirmed, GoOn, chain, ConfirmedIsDone, Op, First, Last
<1>5. RegistryFirst'
      BY DEF IInv, Confirmed, GoOn, chain, RegistryFirst, First
<1>6. SavedIsComplete'
      BY DEF IInv, Confirmed, GoOn, chain, SavedIsComplete
<1> QED BY <1>1, <1>2, <1>3, <1>4, <1>5, <1>6 DEF IInv

\* A failed run keeps nothing in flight that it does not know of.
LEMMA ThrowsIInv == IInv /\ Throws => IInv'
<1> SUFFICES ASSUME IInv, Throws PROVE IInv'
    OBVIOUS
<1>1. TypeOK'
      BY PlanFacts, FaultsAssumption DEF IInv, Throws, chain, TypeOK, Phases
<1>2. StepsDone'
      BY PlanFacts DEF IInv, Throws, chain, StepsDone, TypeOK
<1>3. OneInFlight'
      BY DEF IInv, Throws, chain, OneInFlight, Op, TypeOK
<1>4. ConfirmedIsDone'
      BY DEF IInv, Throws, chain, ConfirmedIsDone, Op, First, Last
<1>5. RegistryFirst'
      BY DEF IInv, Throws, chain, RegistryFirst, First
<1>6. SavedIsComplete'
      BY DEF IInv, Throws, chain, SavedIsComplete
<1> QED BY <1>1, <1>2, <1>3, <1>4, <1>5, <1>6 DEF IInv

\* The file is written when every operation of the plan is done.
LEMMA SaveIInv == IInv /\ Save => IInv'
<1> SUFFICES ASSUME IInv, Save PROVE IInv'
    OBVIOUS
<1>1. TypeOK'
      BY PlanFacts, FaultsAssumption DEF IInv, Save, chain, TypeOK, Phases
<1>2. StepsDone'
      BY PlanFacts DEF IInv, Save, chain, StepsDone, TypeOK
<1>3. OneInFlight'
      BY DEF IInv, Save, chain, OneInFlight, Op, TypeOK
<1>4. ConfirmedIsDone'
      BY DEF IInv, Save, chain, ConfirmedIsDone, Op, First, Last
<1>5. RegistryFirst'
  <2>1. registry = Deployer
        BY PlanFacts DEF Save, IInv, StepsDone
  <2> QED BY <2>1 DEF Save, RegistryFirst, chain
<1>6. SavedIsComplete'
  <2>1. registry = Deployer /\ table \in tables
        BY PlanFacts DEF Save, IInv, StepsDone
  <2>2. ASSUME NEW op \in Operations \ {First, Last}
        PROVE  op \in onChain
    <3>1. PICK i \in 1..Len(Plan) : op = Plan[i]
          BY OperationFacts
    <3>2. i \in 2..Len(Plan) - 1 /\ i < step
      <4>1. i # 1 /\ i # Len(Plan)
            BY <2>2, <3>1, PlanFacts
      <4>2. step = Len(Plan) + 1
            BY DEF Save
      <4>3. Len(Plan) \in Nat
            BY PlanFacts
      <4> QED BY <3>1, <4>1, <4>2, <4>3
    <3> QED BY <3>1, <3>2 DEF IInv, StepsDone
  <2> QED BY <2>1, <2>2 DEF Save, SavedIsComplete, chain, First, Last
<1> QED BY <1>1, <1>2, <1>3, <1>4, <1>5, <1>6 DEF IInv

\* A run that dies leaves at most one transaction behind.
LEMMA DiesIInv == IInv /\ Dies => IInv'
<1> SUFFICES ASSUME IInv, Dies PROVE IInv'
    OBVIOUS
<1>1. TypeOK'
      BY PlanFacts, FaultsAssumption DEF IInv, Dies, Fault, Running, chain, TypeOK, Phases
<1>2. StepsDone'
      BY PlanFacts DEF IInv, Dies, Fault, Running, chain, StepsDone, TypeOK
<1>3. OneInFlight'
      BY DEF IInv, Dies, Fault, Running, chain, OneInFlight, Op, TypeOK
<1>4. ConfirmedIsDone'
      BY DEF IInv, Dies, Fault, Running, chain, ConfirmedIsDone, Op, First, Last
<1>5. RegistryFirst'
      BY DEF IInv, Dies, Fault, Running, chain, RegistryFirst, First
<1>6. SavedIsComplete'
      BY DEF IInv, Dies, Fault, Running, chain, SavedIsComplete
<1> QED BY <1>1, <1>2, <1>3, <1>4, <1>5, <1>6 DEF IInv

\* A new deployment starts with nothing in flight of the last run.
LEMMA RedeployIInv == IInv /\ Redeploy => IInv'
<1> SUFFICES ASSUME IInv, Redeploy PROVE IInv'
    OBVIOUS
<1>1. TypeOK'
      BY PlanFacts, FaultsAssumption DEF IInv, Redeploy, Fault, chain, TypeOK, Phases
<1>2. StepsDone'
      BY PlanFacts DEF IInv, Redeploy, Fault, chain, StepsDone, TypeOK
<1>3. OneInFlight'
      BY DEF IInv, Redeploy, Fault, chain, OneInFlight, Op, TypeOK
<1>4. ConfirmedIsDone'
      BY DEF IInv, Redeploy, Fault, chain, ConfirmedIsDone, Op, First, Last
<1>5. RegistryFirst'
      BY DEF IInv, Redeploy, Fault, chain, RegistryFirst, First
<1>6. SavedIsComplete'
      BY DEF IInv, Redeploy, Fault, chain, SavedIsComplete
<1> QED BY <1>1, <1>2, <1>3, <1>4, <1>5, <1>6 DEF IInv

\* A rival's initialize succeeds only before anything is built.
LEMMA RivalInitializesIInv == IInv /\ RivalInitializes => IInv'
<1> SUFFICES ASSUME IInv, RivalInitializes PROVE IInv'
    OBVIOUS
<1>1. TypeOK'
      BY PlanFacts, FaultsAssumption, WalletsAssumption DEF IInv, RivalInitializes, script, TypeOK, Phases
<1>2. StepsDone'
      BY PlanFacts, WalletsAssumption DEF IInv, RivalInitializes, script, StepsDone, TypeOK
<1>3. OneInFlight'
      BY WalletsAssumption DEF IInv, RivalInitializes, script, OneInFlight, Op, TypeOK
<1>4. ConfirmedIsDone'
      BY WalletsAssumption DEF IInv, RivalInitializes, script, ConfirmedIsDone, Op, First, Last
<1>5. RegistryFirst'
      BY WalletsAssumption DEF IInv, RivalInitializes, script, RegistryFirst, First
<1>6. SavedIsComplete'
      BY WalletsAssumption DEF IInv, RivalInitializes, script, SavedIsComplete
<1> QED BY <1>1, <1>2, <1>3, <1>4, <1>5, <1>6 DEF IInv

\* A transaction that is accepted has its effect, whichever run sent it.
LEMMA LandsIInv ==
    ASSUME IInv, NEW tx \in flight, Lands(tx)
    PROVE  IInv'
<1>1. /\ tx.op \in Operations /\ tx.run \in 1..run /\ run \in Nat
      /\ tx = [op |-> tx.op, run |-> tx.run]
      BY DEF IInv, TypeOK
<1>2. \A u \in flight : u = [op |-> u.op, run |-> u.run]
      BY DEF IInv, TypeOK
<1>3. tx.op # First => registry = Deployer
      BY DEF IInv, RegistryFirst
<1>4. tx.run = run => \A u \in flight' : u.run # run \/ phase = "failed"
      BY <1>1, <1>2 DEF IInv, OneInFlight, Lands
<1>5. flight' = flight \ {tx} /\ UNCHANGED <<file, run, step, phase, table, faults>>
      BY DEF Lands, script
<1>6. /\ onChain \subseteq onChain' /\ tables \subseteq tables'
      /\ registry = Deployer => registry' = Deployer
      BY DEF Lands, chain, Accepts
<1>7. TypeOK'
      BY <1>1, <1>5 DEF IInv, TypeOK, Lands, Report, chain
<1>8. StepsDone'
  <2>1. /\ step' > 1 => registry' = Deployer
        /\ step' = Len(Plan) + 1 => table' \in tables'
        /\ phase' \in {"send", "wait"} => step' <= Len(Plan)
        /\ phase' # "idle" => run' >= 1
        BY <1>5, <1>6 DEF IInv, StepsDone
  <2>2. \A i \in 2..Len(Plan) - 1 : i < step' => Plan[i] \in onChain'
        BY <1>5, <1>6 DEF IInv, StepsDone
  <2> QED BY <2>1, <2>2 DEF StepsDone
<1>9. OneInFlight'
      BY <1>4, <1>5 DEF IInv, OneInFlight, Lands, Report, Op
<1>10. ConfirmedIsDone'
      BY <1>3, <1>5, <1>6 DEF IInv, ConfirmedIsDone, OneInFlight, Lands, Report, Op, chain, First, Last
<1>11. RegistryFirst'
      BY <1>3, <1>5 DEF IInv, RegistryFirst, Lands, chain, First
<1>12. SavedIsComplete'
  <2>1. file # 0 => /\ registry' = Deployer /\ file \in tables'
                    /\ Operations \ {<<"registry">>, <<"table">>} \subseteq onChain'
        BY <1>6 DEF IInv, SavedIsComplete
  <2> QED BY <1>5, <2>1 DEF SavedIsComplete
<1> QED BY <1>7, <1>8, <1>9, <1>10, <1>11, <1>12 DEF IInv

\* A transaction that expires is only missed.
LEMMA ExpiresIInv ==
    ASSUME IInv, NEW tx \in flight, Expires(tx)
    PROVE  IInv'
<1>1. tx = [op |-> tx.op, run |-> tx.run] /\ \A u \in flight : u = [op |-> u.op, run |-> u.run]
      BY DEF IInv, TypeOK
<1>2. tx.run = run => \A u \in flight' : u.run # run \/ phase = "failed"
      BY <1>1 DEF IInv, OneInFlight, Expires
<1>3. TypeOK'
      BY FaultsAssumption DEF IInv, TypeOK, Expires, Fault, Report, chain, script
<1>4. StepsDone'
      BY DEF IInv, StepsDone, Expires, chain, script
<1>5. OneInFlight'
      BY <1>2 DEF IInv, OneInFlight, Expires, Report, Op, chain, script
<1>6. ConfirmedIsDone'
      BY DEF IInv, ConfirmedIsDone, Expires, Report, Op, chain, script
<1>7. RegistryFirst'
      BY DEF IInv, RegistryFirst, Expires, chain, script
<1>8. SavedIsComplete'
      BY DEF IInv, SavedIsComplete, Expires, chain, script
<1> QED BY <1>3, <1>4, <1>5, <1>6, <1>7, <1>8 DEF IInv

\* Before the first run there is nothing.
LEMMA InitIInv == Init => IInv
BY PlanFacts, FaultsAssumption
   DEF Init, IInv, TypeOK, StepsDone, OneInFlight, ConfirmedIsDone, RegistryFirst,
       SavedIsComplete, Phases

\* Every step preserves the invariant.
LEMMA StepIInv == IInv /\ [Next]_vars => IInv'
<1>1. IInv /\ UNCHANGED vars => IInv'
      BY DEF vars, IInv, TypeOK, StepsDone, OneInFlight, ConfirmedIsDone, RegistryFirst,
             SavedIsComplete, Op
<1> QED BY <1>1, StartIInv, CheckRegistryIInv, CheckExistingIInv, CheckTableIInv, SendIInv,
           ConfirmedIInv, ThrowsIInv, SaveIInv, DiesIInv, RedeployIInv, RivalInitializesIInv,
           LandsIInv, ExpiresIInv DEF Next, Step

-----------------------------------------------------------------------------
(* Results                                                                  *)

\* The invariant holds in every reachable state, however often the script is run
\* and whenever it dies.
THEOREM Invariance == Spec => []IInv
BY InitIInv, StepIInv, PTL DEF Spec

\* Every variable of the script and of its chain has its type in every reachable state.
THEOREM TypeCorrect == Spec => []TypeOK
BY Invariance, PTL DEF IInv

\* deployed/<network>.json never names half a deployment.
THEOREM SavedHolds == Spec => []SavedIsComplete
BY Invariance, PTL DEF IInv

\* Nothing of the deployment is ever created under another wallet's registry.
THEOREM NothingUnderRivalHolds == Spec => []NothingUnderRival
<1>1. IInv => NothingUnderRival
      BY WalletsAssumption DEF IInv, RegistryFirst, NothingUnderRival
<1> QED BY <1>1, Invariance, PTL
=============================================================================
