----------------------------- MODULE DeployScript -----------------------------
(***************************************************************************)
(* packages/sdk/scripts/deploy-and-initialize.ts from PHASE 2 on: a script   *)
(* that an operator runs, and runs again, until the registry, the SAS        *)
(* credential and schemas, the SchemaConfigs and a lookup table are on chain *)
(* and their addresses are in deployed/<network>.json.                       *)
(*                                                                          *)
(* A run goes through the operations of Plan in order: it looks whether one  *)
(* is done and otherwise sends its transaction and waits.  The process may   *)
(* die, or lose its RPC node, at any await; a transaction it has sent then   *)
(* still lands or expires, possibly while the next run is under way.         *)
(***************************************************************************)
EXTENDS Naturals, Sequences, FiniteSets

CONSTANTS Order,      \* the keys of SATI_SCHEMAS, in the order of the object
          Deployer,   \* the wallet that runs the script
          Rival,      \* a wallet that may call initialize first
          Nobody,     \* the registry PDA does not exist
          MaxFaults,  \* bound on what happens to the script: deaths of the process,
                      \* RPC errors, expiries, redeployments
          MaxRuns     \* bound on how often the operator runs it

ASSUME WalletsAssumption == Deployer # Rival /\ Nobody \notin {Deployer, Rival}
ASSUME FaultsAssumption == MaxFaults \in Nat /\ MaxRuns \in Nat

Keys == {Order[i] : i \in DOMAIN Order}

ASSUME OrderAssumption == Order \in Seq(Keys)

\* PHASE 2 and PHASE 3: an operation is a kind and the schema it is about, if any.
Plan == <<<<"registry">>, <<"credential">>>>
        \o [i \in DOMAIN Order |-> <<"schema", Order[i]>>]
        \o [i \in DOMAIN Order |-> <<"config", Order[i]>>]
        \o <<<<"table">>>>

Operations == {Plan[i] : i \in DOMAIN Plan}

VARIABLES registry,   \* the authority of the registry
          onChain,    \* the credential, schemas and configs that exist
          tables,     \* lookup tables, each named by the run that created it
          file,       \* the lookup table in deployed/<network>.json, 0: no file
          run,        \* the number of the current run
          step,       \* its position in Plan
          phase,      \* what it does there
          table,      \* the lookup table it has created or reused
          flight,     \* transactions sent and neither landed nor dropped
          answer,     \* what sendAndConfirm will report to the current run
          faults      \* faults so far

chain == <<registry, onChain, tables>>
script == <<run, step, phase, table>>
vars == <<registry, onChain, tables, file, run, step, phase, table, flight, answer, faults>>

Phases == {"idle", "check", "send", "wait", "failed", "frontrun", "done"}
Running == phase \in {"check", "send", "wait"}

TypeOK ==
    /\ registry \in {Nobody, Deployer, Rival}
    /\ onChain \subseteq Operations
    /\ tables \subseteq 1..run
    /\ file \in tables \cup {0}
    /\ run \in 0..MaxRuns /\ faults \in 0..MaxFaults
    /\ step \in 1..Len(Plan) + 1
    /\ phase \in Phases
    /\ table \in tables \cup {0}
    /\ flight \subseteq [op : Operations, run : 1..run]
    /\ answer \in {"none", "confirmed", "error"}

Init ==
    /\ registry = Nobody
    /\ onChain = {}
    /\ tables = {}
    /\ file = 0
    /\ run = 0
    /\ step = 1
    /\ phase = "idle"
    /\ table = 0
    /\ flight = {}
    /\ answer = "none"
    /\ faults = 0

Op == Plan[step]
Fault == faults < MaxFaults /\ faults' = faults + 1

-----------------------------------------------------------------------------
(* The script                                                               *)

\* The operator starts the script, for the first time or after a run that did
\* not get through.
Start ==
    /\ phase \in {"idle", "failed"}
    /\ run < MaxRuns
    /\ run' = run + 1
    /\ step' = 1
    /\ phase' = "check"
    /\ table' = 0
    /\ answer' = "none"
    /\ UNCHANGED <<chain, file, flight, faults>>

GoOn ==
    /\ step' = step + 1
    /\ phase' = "check"
    /\ UNCHANGED run

\* Mutant: any registry will do.
CheckAnyRegistry ==
    /\ phase = "check" /\ step <= Len(Plan) /\ Op = <<"registry">>
    /\ \/ registry # Nobody /\ GoOn
       \/ registry = Nobody /\ phase' = "send" /\ UNCHANGED <<run, step>>
    /\ UNCHANGED <<chain, file, table, flight, answer, faults>>

\* main: our registry is skipped, another authority's stops the script, and an
\* error of the fetch is taken for a registry that does not exist.
CheckRegistry ==
    /\ phase = "check" /\ step <= Len(Plan) /\ Op = <<"registry">>
    /\ \/ registry = Deployer /\ GoOn /\ UNCHANGED faults
       \/ registry = Rival /\ phase' = "frontrun" /\ UNCHANGED <<run, step, faults>>
       \/ /\ \/ registry = Nobody /\ UNCHANGED faults
             \/ registry # Nobody /\ Fault
          /\ phase' = "send"
          /\ UNCHANGED <<run, step>>
    /\ UNCHANGED <<chain, file, table, flight, answer>>

\* Mutant: creates without looking.
CheckNothing ==
    /\ phase = "check" /\ step <= Len(Plan)
    /\ Op \notin {<<"registry">>, <<"table">>}
    /\ phase' = "send"
    /\ UNCHANGED <<chain, file, run, step, table, flight, answer, faults>>

\* deploySASSchemas and registerSchemaConfigs: what exists is skipped.
CheckExisting ==
    /\ phase = "check" /\ step <= Len(Plan)
    /\ Op \notin {<<"registry">>, <<"table">>}
    /\ \/ Op \in onChain /\ GoOn
       \/ Op \notin onChain /\ phase' = "send" /\ UNCHANGED <<run, step>>
    /\ UNCHANGED <<chain, file, table, flight, answer, faults>>

\* getOrCreateLookupTable: the table of the file is reused if it can be fetched and
\* holds every address; a table that cannot be fetched is replaced.
CheckTable ==
    /\ phase = "check" /\ step <= Len(Plan) /\ Op = <<"table">>
    /\ \/ file # 0 /\ table' = file /\ GoOn /\ UNCHANGED faults
       \/ /\ IF file = 0 THEN UNCHANGED faults ELSE Fault
          /\ phase' = "send"
          /\ UNCHANGED <<run, step, table>>
    /\ UNCHANGED <<chain, file, flight, answer>>

Send ==
    /\ phase = "send"
    /\ flight' = flight \cup {[op |-> Op, run |-> run]}
    /\ phase' = "wait"
    /\ answer' = "none"
    /\ UNCHANGED <<chain, file, run, step, table, faults>>

\* sendAndConfirm returns.
Confirmed ==
    /\ phase = "wait" /\ answer = "confirmed"
    /\ table' = IF Op = <<"table">> THEN run ELSE table
    /\ GoOn
    /\ UNCHANGED <<chain, file, flight, answer, faults>>

\* Mutant: the error is logged and the run goes on.
ThrowsNothing ==
    /\ phase = "wait" /\ answer = "error"
    /\ GoOn
    /\ UNCHANGED <<chain, file, table, flight, answer, faults>>

\* sendAndConfirm throws, and main().catch ends the process.
Throws ==
    /\ phase = "wait" /\ answer = "error"
    /\ phase' = "failed"
    /\ UNCHANGED <<chain, file, run, step, table, flight, answer, faults>>

\* Mutant: the file names a table of this run, even where one was reused.
SaveOwnTable ==
    /\ phase = "check" /\ step = Len(Plan) + 1
    /\ file' = run
    /\ phase' = "done"
    /\ UNCHANGED <<chain, run, step, table, flight, answer, faults>>

\* PHASE 4: saveDeployedConfig overwrites the file with this run's table.
Save ==
    /\ phase = "check" /\ step = Len(Plan) + 1
    /\ file' = table
    /\ phase' = "done"
    /\ UNCHANGED <<chain, run, step, table, flight, answer, faults>>

\* The process dies, or an await throws because the connection does.
Dies ==
    /\ Running
    /\ Fault
    /\ phase' = "failed"
    /\ UNCHANGED <<chain, file, run, step, table, flight, answer>>

\* A finished deployment is deployed again: an upgrade.
Redeploy ==
    /\ phase = "done"
    /\ Fault
    /\ phase' = "idle"
    /\ UNCHANGED <<chain, file, run, step, table, flight, answer>>

-----------------------------------------------------------------------------
(* The chain                                                                *)

\* Whether the programs accept a transaction of the script.
Accepts(op) ==
    CASE op = <<"registry">>   -> registry = Nobody
      [] op = <<"credential">> -> op \notin onChain
      [] op[1] = "schema"      -> op \notin onChain /\ <<"credential">> \in onChain
      [] op[1] = "config"      -> op \notin onChain /\ registry = Deployer
      [] op = <<"table">>      -> TRUE

Report(tx, result) == answer' = IF tx.run = run THEN result ELSE answer

Lands(tx) ==
    /\ flight' = flight \ {tx}
    /\ IF Accepts(tx.op)
       THEN /\ Report(tx, "confirmed")
            /\ registry' = IF tx.op = <<"registry">> THEN Deployer ELSE registry
            /\ tables' = IF tx.op = <<"table">> THEN tables \cup {tx.run} ELSE tables
            /\ onChain' = IF tx.op \in {<<"registry">>, <<"table">>} THEN onChain
                          ELSE onChain \cup {tx.op}
       ELSE Report(tx, "error") /\ UNCHANGED chain
    /\ UNCHANGED <<file, script, faults>>

\* A transaction's blockhash expires before it lands.
Expires(tx) ==
    /\ Fault
    /\ flight' = flight \ {tx}
    /\ Report(tx, "error")
    /\ UNCHANGED <<chain, file, script>>

\* Somebody else initializes the registry: `initialize` takes any signer.
RivalInitializes ==
    /\ registry = Nobody
    /\ registry' = Rival
    /\ UNCHANGED <<onChain, tables, file, script, flight, answer, faults>>

-----------------------------------------------------------------------------
Step == \/ CheckRegistry \/ CheckExisting \/ CheckTable \/ Send
        \/ Confirmed \/ Throws \/ Save

Next ==
    \/ Start \/ Step \/ Dies \/ Redeploy \/ RivalInitializes
    \/ \E tx \in flight : Lands(tx) \/ Expires(tx)

\* The process runs while it lives, a transaction lands or expires, and the operator
\* reruns the script that reports a failure.
Fairness ==
    /\ WF_vars(Start)
    /\ WF_vars(Step)
    /\ WF_vars(\E tx \in flight : Lands(tx))

Spec == Init /\ [][Next]_vars
FairSpec == Spec /\ Fairness

-----------------------------------------------------------------------------
(* Properties                                                               *)

\* Once deployed/<network>.json exists, everything it names is on chain: whatever
\* runs died before, the file never points at half a deployment.
SavedIsComplete ==
    file # 0 =>
        /\ registry = Deployer
        /\ file \in tables
        /\ Operations \ {<<"registry">>, <<"table">>} \subseteq onChain

\* Frontrunning: when another wallet's initialize comes first, at whatever point of
\* whatever run, nothing of the deployment is ever created under its registry.
NothingUnderRival ==
    registry = Rival => onChain = {} /\ tables = {} /\ file = 0

\* Idempotence: run again after each failure, and again for an upgrade, the script
\* gets to its end every time, within MaxRuns runs, unless it finds another wallet's
\* registry.
Completes == []<>(phase \in {"done", "frontrun"})
=============================================================================
