\* A commit of fewer lamports than the rent of its data.
SPECIFICATION SessionSpec
CONSTANTS
    SystemProgram = SystemProgram
    Dlp = Dlp
    NoData = NoData
    Zeroed = Zeroed
    key = key
    prog = prog
    user = user
    v1 = v1
    v2 = v2
    d1 = d1
    d2 = d2
    Accounts = {key}
    OnCurve = {}
    Escrows = {}
    Programs = {prog}
    Wallets = {user, v1, v2}
    Validators = {v1, v2}
    Admin = user
    Slots = {1, 2}
    TooLarge = {}
    RecordRent = 200
    MetadataRent = 100
    CommitRecordRent = 5
    VaultRent = 2
    CommitLamports = {0, 2, 8, 15}
    CpiPayments = {3, 4, 6}
    Depositors = {user}
    Deposits = {7}
    DepositsBelow = 12
    OwnerProgram <- PdaOwner
    UpgradeAuthority <- MCUpgradeAuthority
    EscrowOf <- MCEscrowOf
    Data <- MCData
    InlineData <- MCInlineData
    BufferData <- MCBufferData
    DataRent <- MCDataRent
    ConfigRent <- MCConfigRent
    InitialAccounts <- PdaAccount
    InitialWallet <- TwoValidators
    InitialConfigs <- RestrictedOrNot
INVARIANTS
    PendingCommitCanBeSettled
CHECK_DEADLOCK FALSE
