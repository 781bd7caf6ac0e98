\* One account that is too large at first, two validators whose vaults are opened and closed.
SPECIFICATION FairSessionSpec
CONSTANTS
    SystemProgram = SystemProgram
    Dlp = Dlp
    NoData = NoData
    Zeroed = Zeroed
    key = key
    prog = prog
    user = user
    v1 = v1
    v2 = v2
    d1 = d1
    big = big
    Accounts = {key}
    OnCurve = {}
    Escrows = {}
    Programs = {prog}
    Wallets = {user, v1, v2}
    Validators = {v1, v2}
    Admin = user
    Slots = {1}
    TooLarge = {big}
    RecordRent = 1
    MetadataRent = 1
    CommitRecordRent = 1
    VaultRent = 1
    CommitLamports = {1, 5}
    CpiPayments = {0, 2}
    Depositors = {user}
    Deposits = {1}
    DepositsBelow = 4
    OwnerProgram <- MCOwner
    UpgradeAuthority <- MCUpgradeAuthority
    EscrowOf <- MCEscrowOf
    Data <- MCData
    InlineData <- MCInlineData
    BufferData <- MCBufferData
    DataRent <- MCDataRent
    ConfigRent <- MCConfigRent
    InitialAccounts <- MCAccount
    InitialWallet <- MCWallet
    InitialConfigs <- Unrestricted
    ClaimAmounts = {}
INVARIANTS
    UndelegatableFits
    NobodyIsStuck
PROPERTIES
    PendingCommitIsSettled
    ReleasedAccountIsReturned
CHECK_DEADLOCK FALSE
