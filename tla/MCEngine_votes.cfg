SPECIFICATION Spec
CONSTANTS
    dflt = dflt
    clerk = clerk
    own = own
    usr = usr
    main = main
    ext = ext
    owner = owner
    all = all
    h1 = h1
    h2 = h2
    v1 = v1
    v2 = v2
    Roles <- MCRoles
    Default = dflt
    Users <- MCUsers
    FirstOwner = own
    Spaces <- MCSpaces
    Main = main
    OwnerRole = owner
    Everywhere = all
    Holders <- MCHolders
    Validators <- MCValidators
    Power <- MCPower
    TotalPower = 3
    Self = v1
    MaxStatements = 2
    MaxDeposits = 1
    MaxRollbacks = 0
    MaxRestarts = 2
    MaxRefused = 0
    MaxTimeouts = 0
PROPERTIES
    VotesSubmitted
