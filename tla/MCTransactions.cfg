\* One PDA, two validators, bundles of up to three instructions.
SPECIFICATION TransactionsSpec
CONSTANTS
    SystemProgram = SystemProgram
    Dlp = Dlp
    NoData = NoData
    Zeroed = Zeroed
    key = key
    prog = prog
    user = user
    v1 = v1
    v2 = v2
    d1 = d1
    Accounts = {key}
    OnCurve = {}
    Escrows = {}
    Programs = {prog}
    Wallets = {user, v1, v2}
    Validators = {v1, v2}
    Admin = user
    Slots = {1, 2}
    TooLarge = {}
    RecordRent = 20
    MetadataRent = 10
    CommitRecordRent = 5
    VaultRent = 2
    CommitLamports = {0, 8}
    CpiPayments = {0, 1, 4}
    Depositors = {user}
    Deposits = {3}
    DepositsBelow = 9
    OwnerProgram <- PdaOwner
    UpgradeAuthority <- MCUpgradeAuthority
    EscrowOf <- MCEscrowOf
    Data <- MCData
    InlineData <- MCData
    BufferData = {}
    DataRent <- MCDataRent
    ConfigRent <- MCConfigRent
    InitialAccounts <- PdaAccount
    InitialWallet <- MCWallet
    InitialConfigs <- Unrestricted
    MaxInstructions = 3
INVARIANTS
    RecordIsCovered
    CommitIsCollateralized
    BundledCommitTakesEffect
    CommitIsStrandedOnlyByEmptying
CHECK_DEADLOCK FALSE
