\* One PDA, one validator, all instructions.
SPECIFICATION Spec
CONSTANTS
    SystemProgram = SystemProgram
    Dlp = Dlp
    NoData = NoData
    Zeroed = Zeroed
    key = key
    prog = prog
    user = user
    admin = admin
    v1 = v1
    v2 = v2
    d1 = d1
    Accounts = {key}
    OnCurve = {}
    Escrows = {}
    Programs = {prog}
    Wallets = {user, v1}
    Validators = {v1}
    Admin = user
    Slots = {1}
    TooLarge = {}
    RecordRent = 100
    MetadataRent = 10
    CommitRecordRent = 5
    VaultRent = 2
    CommitLamports = {5, 12}
    CpiPayments = {0, 1, 4}
    Depositors = {}
    Deposits = {}
    DepositsBelow = 0
    ClaimAmounts = {10}
    TopUpAmounts = {}
    TopUpsBelow = 0
    OwnerProgram <- PdaOwner
    UpgradeAuthority <- MCUpgradeAuthority
    EscrowOf <- None
    Data <- MCData
    InlineData <- MCData
    BufferData = {}
    DataRent <- MCDataRent
    ConfigRent <- MCConfigRent
    InitialAccounts <- PdaAccount
    InitialWallet <- OneValidator
    InitialConfigs <- MCInitialConfigs
INVARIANTS
    TypeOK
    PdasAreConsistent
    PdasAreRentExempt
PROPERTIES
    VaultsPayTheirOwners
    LamportsAreConserved
CHECK_DEADLOCK FALSE
