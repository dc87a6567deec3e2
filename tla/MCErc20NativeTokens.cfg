CONSTANTS
    u1 = u1  u2 = u2  moduleAcc = moduleAcc  feeAcc = feeAcc  distrAcc = distrAcc  escrowAcc = escrowAcc  zeroAddr = zeroAddr
    atom = atom  mc1 = mc1  mc2 = mc2  ext1 = ext1  otherName = otherName  Nil = Nil
    Users = {u1, u2}
    Module = moduleAcc
    FeeCollector = feeAcc
    Distribution = distrAcc
    IbcEscrow = escrowAcc
    ZeroAddress = zeroAddr
    CoinDenoms = {}
    Vouchers = {}
    ModuleContracts = {}
    ExtContracts = {ext1}
    MetadataNames = {otherName}
    Amounts = {1, 2}
    Receivers = {u1, u2, zeroAddr}
    InitialCoins = 0
    InitialTokens = 2
    ReservedDenoms = {}
    CoinMetadata <- NameIsOther
    ParamChoices <- ParamsHook
    GenesisPairs <- NoPairs
    MaxLogs = 2
SPECIFICATION Spec
SYMMETRY Symmetry
INVARIANTS TokensBackCoins PendingLogsBacked 
