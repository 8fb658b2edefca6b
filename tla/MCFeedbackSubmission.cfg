\* Two calls about one agent, one move of its token or accounts or failing request.
CONSTANTS
    feedback = feedback
    feedbackPublic = feedbackPublic
    reputation = reputation
    alice = alice
    bob = bob
    a1 = a1
    t1 = t1
    Wallets = {alice, bob}
    Nobody = Nobody
    Agents = {a1}
    Tasks = {t1}
    Schemas = {feedback, feedbackPublic, reputation}
    Mode <- MCMode
    NumCalls = 2
    Requests <- MCRequests
    Elsewhere = Elsewhere
    Lifetime = 0
    RootHistory = 2
    MaxTree = 1
    MaxTroubles = 1
SPECIFICATION Spec
INVARIANTS
    TypeOK
    ReturnedIsStored
    FailsForCause
PROPERTIES
    EveryCallEnds
    CreatedIsFound
    ImplementsBook
CHECK_DEADLOCK FALSE
