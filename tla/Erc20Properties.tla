--------------------------- MODULE Erc20Properties ---------------------------
(***************************************************************************)
(* Properties of Erc20 that need sums over accounts or contracts, that     *)
(* speak of whole steps, or that ask what an operation would return in a   *)
(* reachable state.                                                        *)
(***************************************************************************)
EXTENDS Erc20, Functions

Holders == Accounts \ {Module}

(* The contracts whose tokens stand for denomination d.                    *)
ContractsOf(d) ==
    {c \in ModuleContracts : erc20Map[c] # Nil /\ erc20Map[c][2] = d}
        \cup {c \in ExtContracts : CreateDenom(c) = d}

TokensOf(c, as) == SumFunctionOnSet(tok[c], as)

(* The coins and tokens of d that are not in the module's keeping.         *)
Value(d) ==
    LET held == [c \in ContractsOf(d) |-> TokensOf(c, Holders)]
    IN  SumFunctionOnSet(coin[d], Holders) + SumFunction(held)

(* All holders of all contracts of a coin can redeem together: even when   *)
(* several contracts were registered for the coin, the escrow that         *)
(* convertCoinNativeCoin fills covers the tokens of every one of them.     *)
EscrowBacksAllTokens ==
    \A d \in CoinDenoms :
        SumFunction([c \in ContractsOf(d) |-> TokensOf(c, Accounts)]) <= coin[d][Module]

(* No message creates or destroys value: across MsgConvertCoin,            *)
(* MsgConvertERC20, the gas-free messages and MsgSend, coins and tokens of *)
(* a denomination together stay with their holders (fees and IBC escrow    *)
(* included).  A voucher sent back over IBC leaves the chain.              *)
MessagesConserveValue ==
    [][(\A d \in Denoms \ Vouchers : Value(d)' = Value(d)) \/ ~MsgStep]_vars

(* A transfer of tokens to the module account in an Ethereum transaction   *)
(* is converted whenever the hook accepts its log: PostTxProcessing logs   *)
(* an error and goes on, keeping the burn or the mint it has made, so a    *)
(* failing release of the coins would strand them.                         *)
HookNeverStrands ==
    logs # <<>> /\ HookApplies(Ctx, Head(logs)) =>
        PostTxProcessing(Ctx, Head(logs)).err \in {"nil", "ErrUndefinedOwner"}

(* What user u holds of the pair of denomination d and contract c.         *)
Holding(u, d, c) == coin[d][u] + tok[c][u]

(* A gas-free conversion (SendCoinToEVM, SendERC20ToCosmos) costs its      *)
(* sender the basis point fee on the message's amount and nothing else,    *)
(* the fee collector receives exactly that, and it is never zero while a   *)
(* fee is set.                                                             *)
GasfreeFeeIsExact ==
    [][\A u \in Users, n \in Amounts, c \in Contracts, d \in Denoms : \A mode \in Modes(c) :
         /\ erc20Map[c] = <<c, d>>
         /\ \/ denomMap[d] = <<c, d>> /\ MsgSendCoinToEVM(d, n, u, mode)
            \/ MsgSendERC20ToCosmos(c, n, u, mode)
         => /\ Holding(u, d, c)' = Holding(u, d, c) - InteropFee(n)
            /\ coin'[d][FeeCollector] = coin[d][FeeCollector] + InteropFee(n)
            /\ InteropFee(n) = 0 => params.feeBasisPoints = 0]_vars

(* Genesis export loses nothing: the pairs a node exports pass Validate,   *)
(* and InitGenesis rebuilds the same registry, both indexes included, from *)
(* them.                                                                   *)
GenesisRoundTrip ==
    /\ GenesisValidate(GetTokenPairs(Ctx))
    /\ InitGenesis(GetTokenPairs(Ctx)) =
          [pairs |-> pairs, erc20Map |-> erc20Map, denomMap |-> denomMap]

-----------------------------------------------------------------------------
(* What the code's own comments and messages say.                          *)

(* msg_server.go: after SendERC20ToCosmos converted the tokens, a missing  *)
(* pair "should be impossible since the token was already converted".      *)
ConvertedTokenHasPair ==
    \A c \in Contracts, n \in Amounts, u \in Users : \A mode \in Modes(c) :
        PairOf(Ctx, c) # Nil =>
            SendERC20ToCosmos(Ctx, c, n, u, mode).err # "ErrTokenPairNotFound"

(* gasfree/types: the fee "is a percentage of the amount of tokens         *)
(* converted in the message", so a fee is paid only when tokens arrive.    *)
FeeOnlyForConvertedTokens ==
    [][\A d \in Denoms, n \in Amounts, u \in Users, mode \in AllModes :
         /\ denomMap[d] # Nil
         /\ MsgSendCoinToEVM(d, n, u, mode)
         /\ coin'[d][FeeCollector] > coin[d][FeeCollector]
         => tok'[denomMap[d][1]][u] = tok[denomMap[d][1]][u] + n]_vars
=============================================================================
