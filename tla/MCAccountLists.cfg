\* Transactions of one or two instructions, one of them perhaps with a wrong account.
SPECIFICATION Spec
CONSTANTS
    SystemProgram = SystemProgram
    Dlp = Dlp
    key = key
    prog = prog
    other = other
    user = user
    admin = admin
    buffer = buffer
    MaxInstructions = 2
    Wallets <- MCWallets
    Programs <- MCPrograms
    Admin <- MCAdmin
    UpgradeAuthority <- MCUpgradeAuthority
    OnCurve <- MCOnCurve
    DerivedFrom <- MCDerivedFrom
    Recorded <- MCRecorded
    Empty <- MCEmpty
    Buffer <- MCBuffer
INVARIANTS
    BuiltInstructionsAreAccepted
    ChangedAccountsAreTheRightOnes
CHECK_DEADLOCK FALSE
