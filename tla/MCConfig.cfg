\* Two validators, two authorities, no account: vaults and configurations.
SPECIFICATION Spec
CONSTANTS
    SystemProgram = SystemProgram
    Dlp = Dlp
    NoData = NoData
    Zeroed = Zeroed
    key = key
    prog = prog
    user = user
    admin = admin
    v1 = v1
    v2 = v2
    d1 = d1
    Accounts = {}
    OnCurve = {}
    Escrows = {}
    Programs = {prog}
    Wallets = {user, admin, v1, v2}
    Validators = {v1, v2}
    Admin = admin
    Slots = {1}
    TooLarge = {}
    RecordRent = 100
    MetadataRent = 10
    CommitRecordRent = 5
    VaultRent = 2
    CommitLamports = {5, 12}
    CpiPayments = {4}
    Depositors = {}
    Deposits = {}
    DepositsBelow = 0
    ClaimAmounts = {}
    TopUpAmounts = {}
    TopUpsBelow = 0
    OwnerProgram <- None
    UpgradeAuthority <- MCUpgradeAuthority
    EscrowOf <- None
    Data <- MCData
    InlineData <- MCData
    BufferData = {}
    DataRent <- MCDataRent
    ConfigRent <- MCConfigRent
    InitialAccounts <- None
    InitialWallet <- Authorities
    InitialConfigs <- MCInitialConfigs
PROPERTIES
    ConfigurationIsPermanent
CHECK_DEADLOCK FALSE
