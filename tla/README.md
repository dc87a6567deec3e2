# Verification of Althea-L1

TLA+ modules for Althea-L1, a Cosmos SDK chain with an EVM. TLC checks small
instances of them; TLAPS proves the main invariants for every instance. What is
modelled so far is the core of the chain, the conversion between Cosmos coins and
ERC20 tokens (x/erc20) and its use on arrival of IBC transfers (x/onboarding).

## The system

| Part | State | Operations | Interacts with |
|---|---|---|---|
| x/erc20 registry | pairs, index by contract, index by denom, bank metadata | three governance proposals, deletion of dead pairs, genesis | bank, EVM |
| x/erc20 conversions | module account's coins and tokens | MsgConvertCoin, MsgConvertERC20 | registry, bank, EVM |
| x/erc20 gas-free messages | fee collector | MsgSendCoinToEVM, MsgSendERC20ToCosmos, MsgSendERC20ToCosmosAndIBCTransfer | conversions, x/gasfree, ICS-20 |
| x/erc20 EVM hook | none of its own | PostTxProcessing | EVM, bank |
| x/onboarding | switch, channel whitelist | OnRecvPacket | ICS-20, x/erc20 |
| x/common | none | basis point fee | bank |
| x/gasfree | message types, interop tokens, fee | ante decorator that bypasses gas fees | x/erc20, x/microtx |
| x/microtx | liquid accounts | Microtx, Liquify, redirect of excess balances | x/erc20, EVM |
| x/lockup | lock, exempt addresses, locked types and denoms | ante decorator | all messages |
| x/nativedex | addresses and whitelists | governance proposals that call the DEX | EVM |
| app/ante | accounts, public keys | the two decorator chains | everything |
| upgrades | parameters | handlers | x/gasfree |

What is hard to test here: a pair whose contract destroys itself between
transactions; several transfers in one Ethereum transaction, whose logs the hook
handles one by one and without ever failing the transaction; a conversion that
fails half way inside a received packet, where its writes are kept; token
contracts that revert, deliver less than asked or emit approvals. `PROJECT.json`
lists each hazard at its line.

## Modules

| Module | Models |
|---|---|
| `Ledger` | bank balances and ERC20 balances; mint, burn, transfer; the basis point fee |
| `TokenPairs` | the registry: pairs, both indexes, genesis |
| `Erc20` | proposals, conversions, gas-free messages, the hook; `Spec` and the main invariants |
| `Erc20Properties` | properties that sum over accounts or speak of a whole step |
| `Onboarding` | the IBC middleware on top of `Erc20`; `OnboardingSpec` |
| `MCErc20`, `MCOnboarding` | small instances for TLC |
| `Erc20Lemmas`, `ConversionProofs`, `HookProofs`, `Erc20Proofs`, `OnboardingProofs` | proofs |

**Contexts and outcomes.** A keeper method is an operator from a context (a
record of the store) to an outcome: an error and the context when the method
returned, which on failure still holds the writes made so far. The caller decides
what becomes of them. A transaction or proposal (`Tx`) commits only a success. The
hook commits each iteration whatever its outcome, as the loop's `continue` does.
`RecvPacket` commits the context of a failed `ConvertCoin`, because the middleware
answers with a success acknowledgement and ibc-core then keeps the writes.

**Ethereum transactions.** `EvmTransfer` appends a log, `EvmHook` handles the
first pending one. Nothing else runs while logs are pending.

**Mutants.** An operator marked "Mutant" in a comment is a deliberately wrong
variant of the definition after it. No specification uses it; it exists to show
that a property notices that mistake.

### Assumptions about what lies outside

- bank, ICS-20 and ibc-core are modelled from how the code uses them. The bank's
  panics count as failures: both undo the transaction.
- A call of an external ERC20 is `ok`, `fail`, `short` (one token fewer arrives)
  or `approval`. Its transfer log names what arrived, and its module-account
  balance changes only by transfers. A contract that forges logs or takes tokens
  out of the module account is outside the model, and `TokensBackCoins` claims
  nothing about it.
- Contracts the module deployed do what their Solidity source says, and are
  never paused.
- The hash that makes a pair's id is injective.
- A packet carries the denomination it has on this chain. That ICS-20 and
  `GetReceivedCoin` compute the same one is assumed.

## Runs

| Run | Checks | Distinct states |
|---|---|---|
| `erc20_coin_pairs` | escrow covers the tokens of all contracts of a coin; the hook strands nothing | 121,518 |
| `erc20_native_tokens` | coins of a misbehaving native ERC20 stay backed, pending logs included | 32,254 |
| `erc20_mixed` | registry, one pair per denom, both escrows, genesis export | 105,261 |
| `erc20_value` | messages conserve value; the gas-free fee is exact | 34,746 |
| `onboarding_vouchers` | a receiver of vouchers ends up with coins or tokens | 2,304 |
| `onboarding_returns` | the same for coins of a native ERC20 coming home | 4,272 |

Five more runs show a disagreement between the code and what it says of itself:

| Run | What the code does |
|---|---|
| `erc20_duplicate_denom` | RegisterCoin looks up the name, not the base: a coin is registered twice |
| `erc20_impossible_error` | a dead contract leads SendERC20ToCosmos to the error it calls impossible |
| `erc20_fee_without_conversion` | SendCoinToEVM takes its fee when it only deleted a dead pair |
| `onboarding_ack` | a sender that is no bech32 address replaces the original acknowledgement |
| `onboarding_keep` | a conversion that fails after the escrow leaves the receiver with nothing |

`erc20_mixed` checks `DenomRegisteredOnce` and `GenesisRoundTrip` with metadata
whose name is its base. The first fails otherwise, which is
`erc20_duplicate_denom`; `erc20_coin_pairs` keeps such metadata, and shows the
escrow is solvent even then. `ReceiverGetsAsset` speaks of token contracts in mode
`ok`; in the other modes it fails, which is `onboarding_keep`.

**Bounds.** One or two users, one coin, up to two deployable contracts, one native
ERC20, amounts 1 and 2, at most two logs per Ethereum transaction. Amount 1 at
5000 basis points rounds the fee to zero, amount 2 does not. Two contracts are
what a second registration needs; two logs are what one log using up another's
backing needs. `MaxVoucherSupply` bounds the vouchers that arrive. The proofs
lift these bounds for the properties they cover.

**Deadlock and fairness.** No liveness is claimed and no fairness is assumed:
every operation of these parts is one transaction that someone must submit.

## Proofs

For all constants that satisfy `LedgerAssumption`, `TokenPairsAssumption`,
`Erc20Assumption` and, for the last two, `OnboardingAssumption`:

| Theorem | States |
|---|---|
| `TypeCorrect` | `Spec => []TypeOK` |
| `RegistryAlwaysConsistent` | `Spec => []RegistryConsistent` |
| `CoinsAlwaysBacked` | `Spec => []TokensBackCoins` |
| `EveryPendingLogBacked` | `Spec => []PendingLogsBacked` |
| `OnboardingKeepsCoinsBacked` | `OnboardingSpec => []TokensBackCoins` |
| `OnboardingKeepsRegistry` | `OnboardingSpec => []RegistryConsistent` |

`TokensBackCoins` is not inductive: the hook mints what a log says, so the state
before must promise that the tokens of *every* pending log arrived and back
nothing yet. `LogsCovered` says this with a running total over the pending logs
that stays within the margin (escrowed tokens minus coins outside the module
account); it is `PendingLogsBacked`, which TLC checks first. The invariant `IInv`
is the types, the registry and `LogsCovered`.

1. `Erc20Lemmas`: each bank and ERC20 operation keeps the types and raises or
   lowers the margin by a known amount.
2. `ConversionProofs`: each conversion and gas-free message keeps a context
   `Good` (typed, consistent, backed), *also when it fails half way*.
3. `HookProofs`: a transfer adds a covered log, an iteration consumes one.
4. `Erc20Proofs`: one lemma per group of actions, then the theorems.
5. `OnboardingProofs`: since step 2 covers failures, committing them is safe.

Only model-checked: `EscrowBacksTokens`, `EscrowBacksAllTokens`,
`DenomRegisteredOnce`, `HookNeverStrands`, `MessagesConserveValue`,
`GasfreeFeeIsExact`, `GenesisRoundTrip`, `ReceiverGetsAsset`. Liveness and
induction over data (the sums over accounts) are beyond the prover.

## Not modelled, and the plan

The modelled lines are roughly a tenth of the hand-written Go. In order:

1. `Microtx`: fees, transfer, liquid accounts, redirect through `ConvertCoin`;
   the NFT's recovery; composed with `Erc20`. Property: a microtransaction
   conserves value and leaves a liquid account at or below its threshold.
2. `GasfreeAnte`: which transactions skip gas fees against which are charged
   otherwise, nested messages included.
3. `Lockup`: the decorator over nested messages against an abstract rule of which
   transfers a locked chain allows; group limiter (recursive, TLC only).
4. `AccountAnte`: account types, public keys, key replacement, upgrades.
5. `NativeDex`: proposals as calls of an external DEX.
6. `IbcDenoms`: denomination traces against ICS-20; refunds and timeouts.
7. `Peg`: an abstract two-ledger specification that `Erc20` implements.
8. Proofs: `EscrowBacksTokens`, `DenomRegisteredOnce` when name and base agree,
   the refinement of `Peg`, and the invariants of the new modules.

The command line, clients, codecs and keeper construction are input, output and
wiring, and stay out.
