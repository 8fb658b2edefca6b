\* Expected to be violated.
CONSTANTS
    feedback = feedback
    feedbackPublic = feedbackPublic
    pact = pact
    work = work
    delegate = delegate
    reputation = reputation
    alice = alice
    bob = bob
    carol = carol
    m1 = m1
    t1 = t1
    h1 = h1
    h2 = h2
    text = text
    cipher1 = cipher1
    cipher2 = cipher2
    Wallets = {alice, bob, carol}
    Mints = {m1}
    Tasks = {t1}
    Hashes = {h1, h2}
    Contents = {text, cipher1, cipher2}
    Opaque = {cipher1, cipher2}
    Rejected = {}
    OpaqueLabel = OpaqueLabel
    Straddle = Straddle
    NoWallet = NoWallet
    Schemas = {reputation, pact}
    DelegationSchemas = {delegate}
    NoSchema = NoSchema
    Config <- MCConfig
    Payloads <- MCPayloads
    DirectPayloads <- NoDirect
    Trees = {tree1}
    MaxTime = 0
SPECIFICATION Spec
INVARIANT
    SigningPartyMayClose
