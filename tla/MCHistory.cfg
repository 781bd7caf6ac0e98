\* One PDA, two validators, several sessions one after the other.
SPECIFICATION HistorySpec
CONSTANTS
    SystemProgram = SystemProgram
    Dlp = Dlp
    NoData = NoData
    Zeroed = Zeroed
    key = key
    prog = prog
    user = user
    v1 = v1
    v2 = v2
    d1 = d1
    Accounts = {key}
    OnCurve = {}
    Escrows = {}
    Programs = {prog}
    Wallets = {user, v1, v2}
    Validators = {v1, v2}
    Admin = user
    Slots = {1, 2}
    TooLarge = {}
    RecordRent = 20
    MetadataRent = 10
    CommitRecordRent = 5
    VaultRent = 2
    CommitLamports = {0, 4, 8}
    CpiPayments = {0, 4}
    Depositors = {user}
    Deposits = {3}
    DepositsBelow = 9
    OwnerProgram <- PdaOwner
    UpgradeAuthority <- MCUpgradeAuthority
    EscrowOf <- MCEscrowOf
    Data <- MCData
    InlineData <- MCData
    BufferData = {}
    DataRent <- MCDataRent
    ConfigRent <- MCConfigRent
    InitialAccounts <- PdaAccount
    InitialWallet <- MCWallet
    InitialConfigs <- Unrestricted
PROPERTIES
    RetryTakesOnlyDeposits
    ReturnedAsReleased
CHECK_DEADLOCK FALSE
