\* Two concurrent registerAgent calls and every instruction of the registry, with a group
\* of its own, which lasts until total_agents reaches its limit, or one that already has
\* a member and is full after the next; two configurations to choose from for a schema.
CONSTANTS
    Wallets = {w1, w2}
    NoWallet = NoWallet
    Mints = {m1, m2, m3}
    NoMint = NoMint
    NoAccount = NoAccount
    g1 = g1
    g2 = g2
    g3 = g3
    Groups = {g1, g2, g3}
    PdaGroups = {g1, g2}
    NoGroup = NoGroup
    GroupSize0 <- MCGroupSize0
    GroupMax <- MCGroupMax
    Schemas = {s1}
    Configs = {k1, k2}
    NoConfig = NoConfig
    Clients = {c1, c2}
    CountMax = 2
SPECIFICATION Spec
CONSTRAINT TwoInFlight
SYMMETRY Symmetry
CHECK_DEADLOCK FALSE
INVARIANTS
    TypeOK
    Enumeration
    MemberNumbersAgree
    ReturnedNumberCoversAgent
PROPERTIES
    RenouncedForever
    ImplementsLedger
