CONSTANTS
    u1 = u1  u2 = u2  moduleAcc = moduleAcc  feeAcc = feeAcc  distrAcc = distrAcc  escrowAcc = escrowAcc  zeroAddr = zeroAddr
    atom = atom  mc1 = mc1  mc2 = mc2  ext1 = ext1  otherName = otherName  Nil = Nil
    Users = {u1}
    Module = moduleAcc
    FeeCollector = feeAcc
    Distribution = distrAcc
    IbcEscrow = escrowAcc
    ZeroAddress = zeroAddr
    CoinDenoms = {atom}
    Vouchers = {}
    ModuleContracts = {mc1}
    ExtContracts = {ext1}
    MetadataNames = {otherName}
    Amounts = {1, 2}
    Receivers = {u1}
    InitialCoins = 3
    InitialTokens = 3
    ReservedDenoms = {}
    CoinMetadata <- NameIsBase
    ParamChoices <- ParamsOn
    GenesisPairs <- AtomPair
    MaxLogs = 1
SPECIFICATION Spec
PROPERTIES MessagesConserveValue GasfreeFeeIsExact
