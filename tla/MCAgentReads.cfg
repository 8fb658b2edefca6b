\* Two agents and one foreign NFT, two wallets, pages of one agent, and up to three
\* changes of the chain during a call.
CONSTANTS
    Wallets = {w1, w2}
    NoWallet = NoWallet
    a1 = a1
    a2 = a2
    f1 = f1
    Agents = {a1, a2}
    Foreign = {f1}
    Null = Null
    Limit = 1
    MaxMoves = 3
    Queries <- MCQueries
SPECIFICATION Spec
SYMMETRY Symmetry
INVARIANTS
    TypeOK
    ListedInOrder
    OwnerHeldIt
    
    
