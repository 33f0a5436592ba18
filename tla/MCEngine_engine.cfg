SPECIFICATION Spec
CONSTANTS
    dflt = dflt
    clerk = clerk
    own = own
    usr = usr
    main = main
    ext = ext
    owner = owner
    all = all
    h1 = h1
    h2 = h2
    v1 = v1
    v2 = v2
    Roles <- MCRoles
    Default = dflt
    Users <- MCUsers
    FirstOwner = own
    Spaces <- MCSpaces
    Main = main
    OwnerRole = owner
    Everywhere = all
    Holders <- MCHolders
    Validators <- MCValidators
    Power <- MCPower
    TotalPower = 3
    Self = v1
    MaxStatements = 3
    MaxDeposits = 2
    MaxRollbacks = 1
    MaxRestarts = 2
    MaxRefused = 1
    MaxTimeouts = 1
INVARIANTS
    TypeOK
    LiveMatchesReload
    TokensConserved
    EpochsInTurn
PROPERTIES
    WithdrawalsConfirmed
