------------------------------- MODULE Ledger -------------------------------
(***************************************************************************)
(* The two ledgers of Althea-L1 that x/erc20 keeps in step: the bank       *)
(* module's coins and the balances inside ERC20 contracts.                 *)
(*                                                                         *)
(* A context x is a record with (at least) the fields                      *)
(*   coin[d][a], supply[d]  bank balances and supply of each denom;        *)
(*   tok[c][a], total[c]    ERC20 balances and totalSupply of each contract;*)
(*   code                   the addresses that hold contract code.         *)
(* An operation takes a context and returns an outcome: an error code and  *)
(* the context at the moment it returned.  The context of a failed outcome *)
(* holds the writes made before the failure; whether they are kept is the  *)
(* caller's business (a transaction drops them, see Erc20 and Onboarding). *)
(***************************************************************************)
EXTENDS Integers

CONSTANTS
    Users,            \* externally owned accounts
    Module,           \* the x/erc20 module account
    FeeCollector,     \* the x/auth fee collector module account
    Distribution,     \* a module account the bank lets receive coins
    IbcEscrow,        \* the ICS-20 escrow account of the channels
    ZeroAddress,      \* the EVM zero address
    CoinDenoms,       \* denominations of Cosmos coins
    Vouchers,         \* those that are IBC vouchers, burnt when sent back
    ModuleContracts,  \* addresses the module account can deploy to
    ExtContracts      \* ERC20 contracts deployed by others

Contracts == ModuleContracts \cup ExtContracts
ModuleAccounts == {Module, FeeCollector, Distribution}
Accounts == Users \cup ModuleAccounts \cup {IbcEscrow, ZeroAddress}

(* The denomination of the coin that represents an external ERC20.         *)
CreateDenom(c) == <<"erc20", c>>
Erc20Denoms == {CreateDenom(c) : c \in ExtContracts}
Denoms == CoinDenoms \cup Erc20Denoms

(* Accounts the bank module refuses to send coins to.                      *)
BlockedAddrs == {Module, FeeCollector}

ASSUME LedgerAssumption ==
    /\ Vouchers \subseteq CoinDenoms
    /\ ModuleContracts \cap ExtContracts = {}
    /\ CoinDenoms \cap Erc20Denoms = {}
    /\ Denoms \cap Contracts = {}
    /\ Users \cap (ModuleAccounts \cup {IbcEscrow, ZeroAddress}) = {}
    /\ Module \notin {FeeCollector, Distribution, IbcEscrow, ZeroAddress}
    /\ FeeCollector \notin {Distribution, IbcEscrow, ZeroAddress}

Ok(x) == [err |-> "nil", ctx |-> x]
Err(e, x) == [err |-> e, ctx |-> x]
Failed(r) == r.err # "nil"

Debit(f, a, n) == [f EXCEPT ![a] = @ - n]
Credit(f, a, n) == [f EXCEPT ![a] = @ + n]

-----------------------------------------------------------------------------
(* The bank module (external), as x/erc20 uses it.                         *)

SendCoins(x, d, from, to, n) ==
    IF x.coin[d][from] < n
    THEN Err("ErrInsufficientFunds", x)
    ELSE Ok([x EXCEPT !.coin[d] = Credit(Debit(@, from, n), to, n)])

SendCoinsFromModuleToAccount(x, d, to, n) ==
    IF to \in BlockedAddrs
    THEN Err("ErrUnauthorized", x)
    ELSE SendCoins(x, d, Module, to, n)

MintCoins(x, d, n) ==
    Ok([x EXCEPT !.coin[d] = Credit(@, Module, n), !.supply[d] = @ + n])

(* BurnCoins panics rather than let a balance or the supply go negative;   *)
(* a panic undoes the transaction just as an error does.                   *)
BurnCoins(x, d, from, n) ==
    IF x.coin[d][from] < n \/ x.supply[d] < n
    THEN Err("ErrInsufficientFunds", x)
    ELSE Ok([x EXCEPT !.coin[d] = Debit(@, from, n), !.supply[d] = @ - n])

-----------------------------------------------------------------------------
(* ERC20 contracts.  A contract the module deployed is the                 *)
(* ERC20MinterBurnerDecimals of the repository and does what it says.  A   *)
(* call of an external contract takes one of the modes                     *)
(*   ok        the tokens move;                                            *)
(*   fail      the call reverts, or returns false and moves nothing;       *)
(*   short     one token fewer arrives than left (a fee on transfer);      *)
(*   approval  the tokens move and an Approval event is emitted.           *)
AllModes == {"ok", "fail", "short", "approval"}
Modes(c) == IF c \in ModuleContracts THEN {"ok"} ELSE AllModes

Erc20Mint(x, c, to, n) ==
    IF to = ZeroAddress
    THEN Err("ErrEVMCall", x)
    ELSE Ok([x EXCEPT !.tok[c] = Credit(@, to, n), !.total[c] = @ + n])

(* Mutant: the burn does not look at the balance.                          *)
Erc20BurnUnchecked(x, c, from, n) ==
    Ok([x EXCEPT !.tok[c] = Debit(@, from, n), !.total[c] = @ - n])

Erc20Burn(x, c, from, n) ==
    IF x.tok[c][from] < n
    THEN Err("ErrEVMCall", x)
    ELSE Ok([x EXCEPT !.tok[c] = Debit(@, from, n), !.total[c] = @ - n])

Erc20Transfer(x, c, from, to, n, mode) ==
    LET lost == IF mode = "short" THEN 1 ELSE 0
    IN  IF mode = "fail" \/ to = ZeroAddress \/ x.tok[c][from] < n
        THEN Err("ErrEVMCall", x)
        ELSE Ok([x EXCEPT !.tok[c] = Credit(Debit(@, from, n), to, n - lost),
                          !.total[c] = @ - lost])

-----------------------------------------------------------------------------
(* x/common: the basis point fee, taken in coins by the fee collector.     *)

BasisPoints == 10000

CalculateBasisPointFee(amount, bps) == (amount * bps) \div BasisPoints

DeductBasisPointFee(x, d, amount, bps, payer) ==
    LET fee == CalculateBasisPointFee(amount, bps)
    IN  IF fee = 0 THEN Ok(x)
        ELSE IF x.coin[d][payer] < fee THEN Err("ErrInsufficientFee", x)
        ELSE SendCoins(x, d, payer, FeeCollector, fee)
=============================================================================
