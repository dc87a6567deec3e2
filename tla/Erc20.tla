-------------------------------- MODULE Erc20 --------------------------------
(***************************************************************************)
(* x/erc20: the conversion between Cosmos coins and ERC20 tokens.          *)
(*                                                                         *)
(* The variables are the committed store of the chain.  The keeper's       *)
(* methods are operators from a context to an outcome (see Ledger); a      *)
(* transaction or proposal commits the context of a successful outcome and *)
(* leaves the store alone otherwise, so a failed one is a stuttering step. *)
(*                                                                         *)
(* An Ethereum transaction is taken in steps: the transfers it makes, each *)
(* appending a log, then one iteration of the PostTxProcessing loop per    *)
(* log.  No other transaction runs while logs are pending.                 *)
(***************************************************************************)
EXTENDS TokenPairs, Sequences, FiniteSets

CONSTANTS
    Amounts,         \* the amounts messages and transfers carry
    Receivers,       \* the receivers messages and transfers name
    InitialCoins,    \* the initial coins of each user in each coin denom
    InitialTokens,   \* the initial tokens of each user in each external ERC20
    CoinMetadata,    \* the metadata RegisterCoin proposals carry
    ReservedDenoms,  \* the coin denoms that contain the EVM denom
    ParamChoices,    \* the parameter settings governance can choose
    GenesisPairs,    \* the token pairs of the genesis file
    MaxLogs          \* the most transfers in one Ethereum transaction

Params == [enableErc20 : BOOLEAN, enableEVMHook : BOOLEAN,  \* x/erc20
           sendEnabled : SUBSET Denoms,                     \* x/bank
           interopTokens : SUBSET Tokens, feeBasisPoints : 0..BasisPoints] \* x/gasfree

Log == [contract : Contracts, from : Accounts, to : Accounts, amount : Nat]

(* A genesis pair's contract is of the kind its owner says, and its denom  *)
(* is the one registration would have given it.                            *)
WellOwned(p) ==
    \/ p.owner = "OWNER_MODULE" /\ p.erc20 \in ModuleContracts /\ p.denom \in CoinDenoms
    \/ p.owner # "OWNER_MODULE" /\ p.erc20 \in ExtContracts /\ p.denom = CreateDenom(p.erc20)

ASSUME Erc20Assumption ==
    /\ Cardinality(Users) \in Nat  \* there are finitely many
    /\ Amounts \subseteq Nat \ {0}
    /\ Receivers \subseteq Accounts
    /\ InitialCoins \in Nat
    /\ InitialTokens \in Nat
    /\ CoinMetadata \subseteq {m \in Metadata : m.base \in CoinDenoms}
    /\ ParamChoices \subseteq Params
    /\ GenesisPairs \subseteq {p \in TokenPair : WellOwned(p)}
    /\ GenesisValidate(GenesisPairs)
    /\ MaxLogs \in Nat

VARIABLES
    pairs, denomMap, erc20Map,  \* the registry
    meta,                       \* bank metadata
    coin, supply,               \* bank balances and supply
    tok, total, code,           \* ERC20 balances, supply, deployed contracts
    params,                     \* module parameters
    logs,                       \* logs of the running Ethereum transaction
    phase                       \* "evm" while it executes, "hook" afterwards

vars == <<pairs, denomMap, erc20Map, meta, coin, supply, tok, total, code,
          params, logs, phase>>

Ctx == [pairs |-> pairs, denomMap |-> denomMap, erc20Map |-> erc20Map,
        meta |-> meta, coin |-> coin, supply |-> supply,
        tok |-> tok, total |-> total, code |-> code]

Contexts == [pairs    : [Ids -> TokenPair \cup {Nil}],
             denomMap : [Denoms -> Ids \cup {Nil}],
             erc20Map : [Contracts -> Ids \cup {Nil}],
             meta     : [Denoms -> Metadata \cup {Nil}],
             coin     : [Denoms -> [Accounts -> Nat]],
             supply   : [Denoms -> Nat],
             tok      : [Contracts -> [Accounts -> Nat]],
             total    : [Contracts -> Int],
             code     : SUBSET Contracts]

Commit(x) ==
    /\ pairs' = x.pairs /\ denomMap' = x.denomMap /\ erc20Map' = x.erc20Map
    /\ meta' = x.meta /\ coin' = x.coin /\ supply' = x.supply
    /\ tok' = x.tok /\ total' = x.total /\ code' = x.code

Idle == logs = <<>>

(* A transaction or proposal: all of it or nothing.                        *)
Tx(r) == Idle /\ ~Failed(r) /\ Commit(r.ctx) /\ UNCHANGED <<params, logs, phase>>

Init ==
    /\ pairs = InitGenesis(GenesisPairs).pairs
    /\ denomMap = InitGenesis(GenesisPairs).denomMap
    /\ erc20Map = InitGenesis(GenesisPairs).erc20Map
    /\ meta = [d \in Denoms |-> Nil]
    /\ coin = [d \in Denoms |-> [a \in Accounts |->
                 IF d \in CoinDenoms /\ a \in Users THEN InitialCoins ELSE 0]]
    /\ supply = [d \in Denoms |->
                 IF d \in CoinDenoms THEN InitialCoins * Cardinality(Users) ELSE 0]
    /\ tok = [c \in Contracts |-> [a \in Accounts |->
                 IF c \in ExtContracts /\ a \in Users THEN InitialTokens ELSE 0]]
    /\ total = [c \in Contracts |->
                 IF c \in ExtContracts THEN InitialTokens * Cardinality(Users) ELSE 0]
    /\ code = ExtContracts \cup ({p.erc20 : p \in GenesisPairs} \cap ModuleContracts)
    /\ params \in ParamChoices
    /\ logs = <<>>
    /\ phase = "evm"

-----------------------------------------------------------------------------
(* Governance.                                                             *)

(* Mutant: no check for an earlier registration.                           *)
RegisterCoinUnchecked(x, m, c) ==
    IF ~params.enableErc20 THEN Err("ErrERC20Disabled", x)
    ELSE IF m.base \in ReservedDenoms THEN Err("ErrEVMDenom", x)
    ELSE IF x.supply[m.base] = 0 THEN Err("ErrInvalidCoins", x)
    ELSE IF x.meta[m.base] \notin {Nil, m} THEN Err("ErrInternalTokenPair", x)
    ELSE Ok(StoreTokenPair([x EXCEPT !.meta[m.base] = m, !.code = @ \cup {c}],
                           NewTokenPair(c, m.base, "OWNER_MODULE")))

(* The check is made on the metadata's name, the indexes are keyed by its  *)
(* base.                                                                   *)
RegisterCoin(x, m, c) ==
    IF ~params.enableErc20 THEN Err("ErrERC20Disabled", x)
    ELSE IF m.base \in ReservedDenoms THEN Err("ErrEVMDenom", x)
    ELSE IF IsDenomRegistered(x, m.name) THEN Err("ErrTokenPairAlreadyExists", x)
    ELSE IF x.supply[m.base] = 0 THEN Err("ErrInvalidCoins", x)
    ELSE IF x.meta[m.base] \notin {Nil, m} THEN Err("ErrInternalTokenPair", x)
    ELSE Ok(StoreTokenPair([x EXCEPT !.meta[m.base] = m, !.code = @ \cup {c}],
                           NewTokenPair(c, m.base, "OWNER_MODULE")))

CreateCoinMetadata(x, c) ==
    LET d == CreateDenom(c)
    IN  IF c \notin x.code THEN Err("ErrEVMCall", x)
        ELSE IF x.meta[d] # Nil \/ IsDenomRegistered(x, d)
        THEN Err("ErrInternalTokenPair", x)
        ELSE Ok([x EXCEPT !.meta[d] = [base |-> d, name |-> d]])

RegisterERC20(x, c) ==
    LET created == CreateCoinMetadata(x, c)
    IN  IF ~params.enableErc20 THEN Err("ErrERC20Disabled", x)
        ELSE IF IsERC20Registered(x, c) THEN Err("ErrTokenPairAlreadyExists", x)
        ELSE IF Failed(created) THEN created
        ELSE Ok(StoreTokenPair(created.ctx,
                               NewTokenPair(c, CreateDenom(c), "OWNER_EXTERNAL")))

PairOf(x, token) == GetTokenPair(x, GetTokenPairID(x, token))

ToggleConversion(x, token) ==
    LET p == PairOf(x, token)
    IN  IF p = Nil THEN Err("ErrTokenPairNotFound", x)
        ELSE Ok(SetTokenPair(x, [p EXCEPT !.enabled = ~@]))

-----------------------------------------------------------------------------
(* Conversion.                                                             *)

MintingEnabled(x, sender, receiver, token) ==
    LET p == PairOf(x, token)
    IN  IF ~params.enableErc20 THEN "ErrERC20Disabled"
        ELSE IF p = Nil THEN "ErrTokenPairNotFound"
        ELSE IF ~p.enabled THEN "ErrERC20TokenPairDisabled"
        ELSE IF receiver \in BlockedAddrs THEN "ErrUnauthorized"
        ELSE IF sender # receiver /\ p.denom \notin params.sendEnabled THEN "ErrSendDisabled"
        ELSE "nil"

(* Mutants: the escrow is forgotten; the tokens go to the caller.          *)
ConvertCoinNativeCoinNoEscrow(x, c, d, n, sender, receiver) ==
    Erc20Mint(x, c, receiver, n)
ConvertCoinNativeCoinToModule(x, c, d, n, sender, receiver) ==
    LET escrowed == SendCoins(x, d, sender, Module, n)
    IN  IF Failed(escrowed) THEN escrowed ELSE Erc20Mint(escrowed.ctx, c, Module, n)

(* Escrow the coins, mint the tokens.                                      *)
ConvertCoinNativeCoin(x, c, d, n, sender, receiver) ==
    LET escrowed == SendCoins(x, d, sender, Module, n)
        minted   == Erc20Mint(escrowed.ctx, c, receiver, n)
    IN  IF Failed(escrowed) THEN escrowed
        ELSE IF Failed(minted) THEN minted
        ELSE IF minted.ctx.tok[c][receiver] # x.tok[c][receiver] + n
        THEN Err("ErrBalanceInvariance", minted.ctx)
        ELSE minted

(* Mutant: the tokens are not burnt.                                       *)
ConvertERC20NativeCoinNoBurn(x, c, d, n, sender, receiver) ==
    SendCoinsFromModuleToAccount(x, d, receiver, n)

(* Burn the tokens, release the escrowed coins.                            *)
ConvertERC20NativeCoin(x, c, d, n, sender, receiver) ==
    LET burnt    == Erc20Burn(x, c, sender, n)
        released == SendCoinsFromModuleToAccount(burnt.ctx, d, receiver, n)
    IN  IF Failed(burnt) THEN burnt
        ELSE IF Failed(released) THEN released
        ELSE IF \/ released.ctx.coin[d][receiver] # x.coin[d][receiver] + n
                \/ released.ctx.tok[c][sender] # x.tok[c][sender] - n
        THEN Err("ErrBalanceInvariance", released.ctx)
        ELSE released

(* Mutant: what arrived in escrow is not checked.                          *)
ConvertERC20NativeTokenUnchecked(x, c, d, n, sender, receiver, mode) ==
    LET escrowed == Erc20Transfer(x, c, sender, Module, n, mode)
        minted   == MintCoins(escrowed.ctx, d, n)
    IN  IF Failed(escrowed) THEN escrowed
        ELSE SendCoinsFromModuleToAccount(minted.ctx, d, receiver, n)

(* Escrow the tokens, mint the coins.                                      *)
ConvertERC20NativeToken(x, c, d, n, sender, receiver, mode) ==
    LET escrowed == Erc20Transfer(x, c, sender, Module, n, mode)
        minted   == MintCoins(escrowed.ctx, d, n)
        sent     == SendCoinsFromModuleToAccount(minted.ctx, d, receiver, n)
    IN  IF Failed(escrowed) THEN escrowed
        ELSE IF escrowed.ctx.tok[c][Module] # x.tok[c][Module] + n
        THEN Err("ErrBalanceInvariance", escrowed.ctx)
        ELSE IF Failed(sent) THEN sent
        ELSE IF sent.ctx.coin[d][receiver] # x.coin[d][receiver] + n
        THEN Err("ErrBalanceInvariance", sent.ctx)
        ELSE IF mode = "approval" THEN Err("ErrUnexpectedEvent", sent.ctx)
        ELSE sent

(* Mutants: what the receiver got is not checked; the receiver gets        *)
(* nothing because the tokens are sent to the module account itself.       *)
ConvertCoinNativeERC20Unchecked(x, c, d, n, sender, receiver, mode) ==
    LET escrowed == SendCoins(x, d, sender, Module, n)
        released == Erc20Transfer(escrowed.ctx, c, Module, receiver, n, mode)
    IN  IF Failed(escrowed) THEN escrowed
        ELSE IF Failed(released) THEN released
        ELSE BurnCoins(released.ctx, d, Module, n)
ConvertCoinNativeERC20ToModule(x, c, d, n, sender, receiver, mode) ==
    LET escrowed == SendCoins(x, d, sender, Module, n)
        released == Erc20Transfer(escrowed.ctx, c, Module, Module, n, mode)
    IN  IF Failed(escrowed) THEN escrowed
        ELSE IF Failed(released) THEN released
        ELSE BurnCoins(released.ctx, d, Module, n)

(* Escrow the coins, release the escrowed tokens, burn the coins.          *)
ConvertCoinNativeERC20(x, c, d, n, sender, receiver, mode) ==
    LET escrowed == SendCoins(x, d, sender, Module, n)
        released == Erc20Transfer(escrowed.ctx, c, Module, receiver, n, mode)
        burnt    == BurnCoins(released.ctx, d, Module, n)
    IN  IF Failed(escrowed) THEN escrowed
        ELSE IF Failed(released) THEN released
        ELSE IF released.ctx.tok[c][receiver] # x.tok[c][receiver] + n
        THEN Err("ErrBalanceInvariance", released.ctx)
        ELSE IF Failed(burnt) THEN burnt
        ELSE IF mode = "approval" THEN Err("ErrUnexpectedEvent", burnt.ctx)
        ELSE burnt

(* The pair of a contract without code is deleted, which is a success.     *)
ConvertCoin(x, d, n, sender, receiver, mode) ==
    LET e == MintingEnabled(x, sender, receiver, d)
        p == PairOf(x, d)
    IN  IF e # "nil" THEN Err(e, x)
        ELSE IF p.erc20 \notin x.code THEN Ok(DeleteTokenPair(x, p))
        ELSE IF p.owner = "OWNER_MODULE"
        THEN ConvertCoinNativeCoin(x, p.erc20, d, n, sender, receiver)
        ELSE IF p.owner = "OWNER_EXTERNAL"
        THEN ConvertCoinNativeERC20(x, p.erc20, d, n, sender, receiver, mode)
        ELSE Err("ErrUndefinedOwner", x)

ConvertERC20(x, c, n, sender, receiver, mode) ==
    LET e == MintingEnabled(x, sender, receiver, c)
        p == PairOf(x, c)
    IN  IF e # "nil" THEN Err(e, x)
        ELSE IF p.erc20 \notin x.code THEN Ok(DeleteTokenPair(x, p))
        ELSE IF p.owner = "OWNER_MODULE"
        THEN ConvertERC20NativeCoin(x, c, p.denom, n, sender, receiver)
        ELSE IF p.owner = "OWNER_EXTERNAL"
        THEN ConvertERC20NativeToken(x, c, p.denom, n, sender, receiver, mode)
        ELSE Err("ErrUndefinedOwner", x)

-----------------------------------------------------------------------------
(* Gas-free conversion: the fee is paid in the converted coin.             *)

ValidateGasfreeInteropToken(x, token) ==
    LET p == PairOf(x, token)
    IN  IF p = Nil THEN "ErrTokenPairNotFound"
        ELSE IF {p.denom, p.erc20} \cap params.interopTokens = {}
        THEN "ErrGasfreeTokenNotAllowed"
        ELSE "nil"

InteropFee(n) == CalculateBasisPointFee(n, params.feeBasisPoints)

(* Mutant: a fee that rounds to zero is let through.                       *)
DeductGasfreeErc20FeeZeroAllowed(x, payer, d, n) ==
    DeductBasisPointFee(x, d, n, params.feeBasisPoints, payer)

DeductGasfreeErc20Fee(x, payer, d, n) ==
    LET paid == DeductBasisPointFee(x, d, n, params.feeBasisPoints, payer)
    IN  IF ~Failed(paid) /\ InteropFee(n) = 0 /\ params.feeBasisPoints > 0
        THEN Err("ErrInsufficientAmount", paid.ctx)
        ELSE paid

SendCoinToEVM(x, d, n, sender, mode) ==
    LET e         == ValidateGasfreeInteropToken(x, d)
        converted == ConvertCoin(x, d, n, sender, sender, mode)
    IN  IF e # "nil" THEN Err(e, x)
        ELSE IF Failed(converted) THEN converted
        ELSE DeductGasfreeErc20Fee(converted.ctx, sender, d, n)

SendERC20ToCosmos(x, c, n, sender, mode) ==
    LET e         == ValidateGasfreeInteropToken(x, c)
        converted == ConvertERC20(x, c, n + InteropFee(n), sender, sender, mode)
        p         == PairOf(converted.ctx, c)
    IN  IF e # "nil" THEN Err(e, x)
        ELSE IF Failed(converted) THEN converted
        ELSE IF p = Nil THEN Err("ErrTokenPairNotFound", converted.ctx)
        ELSE DeductGasfreeErc20Fee(converted.ctx, sender, p.denom, n)

(* The ICS-20 transfer (external): a voucher goes back to its chain and is *)
(* burnt, any other coin is escrowed; the channel may refuse the packet.   *)
Transfer(x, d, n, sender, channelOpen) ==
    IF ~channelOpen THEN Err("ErrChannel", x)
    ELSE IF d \in Vouchers THEN BurnCoins(x, d, sender, n)
    ELSE SendCoins(x, d, sender, IbcEscrow, n)

InitiateIBCTransfer(x, c, n, sender, channelOpen) ==
    LET p == PairOf(x, c)
    IN  IF p = Nil THEN Err("ErrTokenPairNotFound", x)
        ELSE Transfer(x, p.denom, n, sender, channelOpen)

SendERC20ToCosmosAndIBCTransfer(x, c, n, sender, mode, channelOpen) ==
    LET e         == ValidateGasfreeInteropToken(x, c)
        converted == ConvertERC20(x, c, n + InteropFee(n), sender, sender, mode)
        sent      == InitiateIBCTransfer(converted.ctx, c, n, sender, channelOpen)
        p         == PairOf(sent.ctx, c)
    IN  IF e # "nil" THEN Err(e, x)
        ELSE IF Failed(converted) THEN converted
        ELSE IF Failed(sent) THEN sent
        ELSE IF p = Nil THEN Err("ErrTokenPairNotFound", sent.ctx)
        ELSE DeductGasfreeErc20Fee(sent.ctx, sender, p.denom, n)

-----------------------------------------------------------------------------
(* One iteration of the PostTxProcessing loop.  The loop never returns an  *)
(* error: what an iteration wrote before it failed is kept.                *)

(* Mutant: transfers to anyone are taken.                                  *)
HookAppliesToAll(x, log) ==
    LET p == PairOf(x, log.contract)
    IN  /\ params.enableErc20 /\ params.enableEVMHook
        /\ log.amount > 0
        /\ p # Nil
        /\ p.enabled

HookApplies(x, log) ==
    LET p == PairOf(x, log.contract)
    IN  /\ params.enableErc20 /\ params.enableEVMHook
        /\ log.amount > 0
        /\ p # Nil
        /\ log.to = Module
        /\ p.enabled

(* Mutant: the coins are released whatever the owner, with neither burn    *)
(* nor mint.                                                               *)
PostTxProcessingReleaseOnly(x, log) ==
    IF ~HookApplies(x, log) THEN Ok(x)
    ELSE SendCoinsFromModuleToAccount(x, PairOf(x, log.contract).denom, log.from, log.amount)

PostTxProcessing(x, log) ==
    LET p         == PairOf(x, log.contract)
        converted == IF p.owner = "OWNER_MODULE"
                     THEN Erc20Burn(x, log.contract, Module, log.amount)
                     ELSE IF p.owner = "OWNER_EXTERNAL"
                     THEN MintCoins(x, p.denom, log.amount)
                     ELSE Err("ErrUndefinedOwner", x)
    IN  IF ~HookApplies(x, log) THEN Ok(x)
        ELSE IF Failed(converted) THEN converted
        ELSE SendCoinsFromModuleToAccount(converted.ctx, p.denom, log.from, log.amount)

-----------------------------------------------------------------------------
(* The steps of the chain.                                                 *)

RegisterCoinProposal(m) ==
    \E c \in ModuleContracts \ code : Tx(RegisterCoin(Ctx, m, c))

RegisterERC20Proposal(c) == Tx(RegisterERC20(Ctx, c))

ToggleTokenConversionProposal(token) == Tx(ToggleConversion(Ctx, token))

ParameterChangeProposal ==
    /\ Idle
    /\ params' \in ParamChoices
    /\ UNCHANGED <<pairs, denomMap, erc20Map, meta, coin, supply, tok, total, code, logs, phase>>

MsgConvertCoin(d, n, sender, receiver, mode) ==
    Tx(ConvertCoin(Ctx, d, n, sender, receiver, mode))

MsgConvertERC20(c, n, sender, receiver, mode) ==
    Tx(ConvertERC20(Ctx, c, n, sender, receiver, mode))

MsgSendCoinToEVM(d, n, sender, mode) == Tx(SendCoinToEVM(Ctx, d, n, sender, mode))

MsgSendERC20ToCosmos(c, n, sender, mode) == Tx(SendERC20ToCosmos(Ctx, c, n, sender, mode))

MsgSendERC20ToCosmosAndIBCTransfer(c, n, sender, mode, channelOpen) ==
    Tx(SendERC20ToCosmosAndIBCTransfer(Ctx, c, n, sender, mode, channelOpen))

(* x/bank MsgSend (external).                                              *)
MsgSend(d, n, from, to) ==
    /\ to \notin BlockedAddrs /\ d \in params.sendEnabled
    /\ Tx(SendCoins(Ctx, d, from, to, n))

(* An Ethereum transaction transfers tokens; the log names what arrived.   *)
EvmTransfer(c, n, from, to, mode) ==
    LET r == Erc20Transfer(Ctx, c, from, to, n, mode)
        arrived == IF mode = "short" THEN n - 1 ELSE n
    IN  /\ c \in code
        /\ phase = "evm" /\ Len(logs) < MaxLogs
        /\ ~Failed(r) /\ Commit(r.ctx)
        /\ logs' = Append(logs, [contract |-> c, from |-> from, to |-> to, amount |-> arrived])
        /\ UNCHANGED <<params, phase>>

(* Mutant: every iteration sees the last log.                              *)
EvmHookLastLog ==
    /\ logs # <<>>
    /\ Commit(PostTxProcessing(Ctx, logs[Len(logs)]).ctx)
    /\ logs' = Tail(logs)
    /\ phase' = IF Tail(logs) = <<>> THEN "evm" ELSE "hook"
    /\ UNCHANGED params

EvmHook ==
    /\ logs # <<>>
    /\ Commit(PostTxProcessing(Ctx, Head(logs)).ctx)
    /\ logs' = Tail(logs)
    /\ phase' = IF Tail(logs) = <<>> THEN "evm" ELSE "hook"
    /\ UNCHANGED params

(* ERC20Burnable lets a holder destroy its own tokens; the log it emits is *)
(* a transfer to the zero address, which the hook skips.                   *)
EvmBurn(c, n, holder) == c \in code \cap ModuleContracts /\ Tx(Erc20Burn(Ctx, c, holder, n))

(* An external contract destroys itself.                                   *)
EvmSelfdestruct(c) == c \in code /\ Tx(Ok([Ctx EXCEPT !.code = @ \ {c}]))

MsgStep ==
    \E n \in Amounts, sender \in Users :
        \/ \E d \in Denoms, receiver \in Receivers, mode \in AllModes :
              MsgConvertCoin(d, n, sender, receiver, mode)
        \/ \E c \in Contracts, receiver \in Receivers : \E mode \in Modes(c) :
              MsgConvertERC20(c, n, sender, receiver, mode)
        \/ \E d \in Denoms, mode \in AllModes : MsgSendCoinToEVM(d, n, sender, mode)
        \/ \E c \in Contracts : \E mode \in Modes(c) : MsgSendERC20ToCosmos(c, n, sender, mode)
        \/ \E c \in Contracts, channelOpen \in BOOLEAN : \E mode \in Modes(c) :
              MsgSendERC20ToCosmosAndIBCTransfer(c, n, sender, mode, channelOpen)
        \/ \E d \in Denoms, receiver \in Receivers : MsgSend(d, n, sender, receiver)

EvmStep ==
    \/ \E n \in Amounts, from \in Users :
          \/ \E c \in Contracts, to \in Receivers \cup {Module} : \E mode \in Modes(c) :
                EvmTransfer(c, n, from, to, mode)
          \/ \E c \in ModuleContracts : EvmBurn(c, n, from)
    \/ EvmHook
    \/ \E c \in ExtContracts : EvmSelfdestruct(c)

GovStep ==
    \/ \E m \in CoinMetadata : RegisterCoinProposal(m)
    \/ \E c \in ExtContracts : RegisterERC20Proposal(c)
    \/ \E token \in Tokens : ToggleTokenConversionProposal(token)
    \/ ParameterChangeProposal

Next == MsgStep \/ EvmStep \/ GovStep

Spec == Init /\ [][Next]_vars

-----------------------------------------------------------------------------
(* Properties.                                                             *)

TypeOK ==
    /\ Ctx \in Contexts
    /\ params \in Params
    /\ logs \in Seq(Log)
    /\ phase \in {"evm", "hook"}

(* The registry stays consistent under registration, toggling and the      *)
(* deletion of dead pairs (token_pairs.go): a stored pair is under its own *)
(* id and found by its contract; every index entry leads to a stored pair  *)
(* with that contract or denom; and no stored pair is left without an      *)
(* entry for its denom, so every pair can still be looked up both ways.    *)
RegistryConsistent ==
    /\ \A id \in Ids : pairs[id] # Nil =>
          /\ GetID(pairs[id]) = id
          /\ erc20Map[id[1]] = id
          /\ denomMap[id[2]] # Nil
    /\ \A c \in Contracts : erc20Map[c] # Nil =>
          erc20Map[c][1] = c /\ pairs[erc20Map[c]] # Nil
    /\ \A d \in Denoms : denomMap[d] # Nil =>
          denomMap[d][2] = d /\ pairs[denomMap[d]] # Nil

(* A denomination has at most one token pair: what the check at the start  *)
(* of RegisterCoin (proposals.go) is there to ensure.                      *)
DenomRegisteredOnce ==
    \A i, j \in Ids : pairs[i] # Nil /\ pairs[j] # Nil /\ i[2] = j[2] => i = j

(* The module account holds, for every native ERC20 whose contract still   *)
(* exists, at least one escrowed token per coin in circulation, so that    *)
(* convertCoinNativeERC20 can always release the tokens of a coin.  It     *)
(* holds between any two transactions and between the iterations of the    *)
(* hook, whatever order conversions, hooks and gas-free messages come in.  *)
TokensBackCoins ==
    \A c \in ExtContracts \cap code :
        supply[CreateDenom(c)] - coin[CreateDenom(c)][Module] <= tok[c][Module]

(* How many more tokens of native ERC20 c the module account holds than    *)
(* there are coins of it outside the module account.                       *)
Out(x, d) == x.supply[d] - x.coin[d][Module]
Margin(x, c) == x.tok[c][Module] - Out(x, CreateDenom(c))

(* The tokens of c that a log says arrived at the module account.          *)
Arrived(log, c) == IF log.contract = c /\ log.to = Module THEN log.amount ELSE 0

(* Every log that PostTxProcessing has still to handle is backed, not only *)
(* the next one: what all pending logs of c say arrived (g is the running  *)
(* total) is covered by tokens for which no coin was minted yet.  The loop *)
(* mints on the strength of the log alone, so without this a hook that     *)
(* handles several logs of one transaction could mint unbacked coins.      *)
PendingLogsBacked ==
    \A c \in ExtContracts \cap code :
        \E g \in [0..Len(logs) -> 0..Margin(Ctx, c)] :
            /\ g[0] = 0
            /\ \A i \in 1..Len(logs) : g[i] = g[i - 1] + Arrived(logs[i], c)
            /\ \A i, j \in 0..Len(logs) : i <= j => g[i] <= g[j]

(* The module account escrows at least one coin per token in existence of  *)
(* a native coin's pair, so that convertERC20NativeCoin and the hook's     *)
(* burn can always release the coins of a token.                           *)
EscrowBacksTokens ==
    \A id \in Ids : pairs[id] # Nil /\ pairs[id].owner = "OWNER_MODULE" =>
        total[id[1]] <= coin[id[2]][Module]
=============================================================================
