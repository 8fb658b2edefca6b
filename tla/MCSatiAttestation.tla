-------------------------- MODULE MCSatiAttestation --------------------------
(* SatiAttestation on the schemas of the deployment and a few data records.  *)
EXTENDS SatiAttestation, TLC

CONSTANTS feedback, feedbackPublic, pact, work, delegate, reputation,  \* schemas
          alice, bob, carol,                                           \* wallets
          m1, t1, h1, h2,
          text, cipher1, cipher2

\* The deployment script configures feedback, feedbackPublic, delegate and reputation
\* like this.  pact and work are schemas the registry authority may add: a "dual"
\* schema that is closeable, and an "owner" schema that admits delegates.
MCConfig ==
    [s \in Schemas |->
        CASE s = feedback ->
                [name |-> "FeedbackV1", mode |-> "dual", storage |-> "compressed",
                 delegation |-> delegate, closeable |-> FALSE]
          [] s = feedbackPublic ->
                [name |-> "FeedbackPublicV1", mode |-> "counterparty",
                 storage |-> "compressed", delegation |-> NoSchema, closeable |-> FALSE]
          [] s = pact ->
                [name |-> "PactV1", mode |-> "dual", storage |-> "compressed",
                 delegation |-> NoSchema, closeable |-> TRUE]
          [] s = work ->
                [name |-> "WorkV1", mode |-> "owner", storage |-> "compressed",
                 delegation |-> delegate, closeable |-> TRUE]
          [] s = delegate ->
                [name |-> "DelegateV1", mode |-> "owner", storage |-> "regular",
                 delegation |-> NoSchema, closeable |-> TRUE]
          [] s = reputation ->
                [name |-> "ReputationScoreV1", mode |-> "counterparty",
                 storage |-> "regular", delegation |-> NoSchema, closeable |-> TRUE]]

Datum(layout, party, outcome, hash, content) ==
    [layout |-> layout, task |-> t1, token |-> m1, party |-> party,
     outcome |-> outcome, hash |-> hash, content |-> content]

MCPayloads ==
    [s \in Schemas |->
        CASE s = feedback ->
                {Datum("v1", carol, 0, h1, text), Datum("v1", carol, 2, h1, text),
                 Datum("v1", carol, 2, h2, text), Datum("sas", carol, 2, h1, text),
                 Datum("v1", bob, 2, h1, text)}
          [] s = feedbackPublic ->
                {Datum("v1", carol, 2, h1, cipher1), Datum("v1", carol, 2, h1, cipher2)}
          [] s = pact -> {Datum("v1", carol, 2, h1, cipher1), Datum("v1", carol, 2, h1, cipher2)}
          [] s = work -> {Datum("v1", m1, 0, h1, text), Datum("v1", carol, 0, h1, text)}
          [] s = delegate -> {Datum("v1", bob, 0, alice, text)}
          [] s = reputation -> {Datum("v1", carol, 0, h1, text), Datum("v1", carol, 2, h1, text)}]

NoDirect == [s \in Schemas |-> {}]

MCDirectPayloads ==
    [s \in Schemas |->
        CASE s = delegate -> {Datum("v1", bob, 0, alice, cipher1),
                              Datum("sas", bob, 0, alice, cipher1)}
          [] s = reputation -> {Datum("sas", carol, 1, h1, text)}
          [] OTHER -> {}]
=============================================================================
