\* An escrow is delegated before anyone topped it up.
SPECIFICATION Spec
CONSTANTS
    SystemProgram = SystemProgram
    Dlp = Dlp
    NoData = NoData
    Zeroed = Zeroed
    key = key
    prog = prog
    user = user
    admin = admin
    v1 = v1
    v2 = v2
    d1 = d1
    Accounts = {key}
    OnCurve = {}
    Escrows = {key}
    Programs = {prog}
    Wallets = {user, v1}
    Validators = {v1}
    Admin = user
    Slots = {1}
    TooLarge = {}
    RecordRent = 100
    MetadataRent = 10
    CommitRecordRent = 5
    VaultRent = 2
    CommitLamports = {0, 8}
    CpiPayments = {4}
    Depositors = {}
    Deposits = {}
    DepositsBelow = 0
    ClaimAmounts = {}
    TopUpAmounts = {4}
    TopUpsBelow = 8
    OwnerProgram <- EscrowOwner
    UpgradeAuthority <- MCUpgradeAuthority
    EscrowOf <- EscrowWallet
    Data <- MCData
    InlineData <- MCData
    BufferData = {}
    DataRent <- MCDataRent
    ConfigRent <- MCConfigRent
    InitialAccounts <- EscrowAccount
    InitialWallet <- OneValidator
    InitialConfigs <- MCInitialConfigs
PROPERTIES
    DelegatedEscrowIsInCustody
CHECK_DEADLOCK FALSE
