------------------------------ MODULE MCErc20 ------------------------------
(* Small instances of Erc20 for TLC.                                       *)
EXTENDS Erc20Properties

LOCAL INSTANCE TLC

CONSTANTS u1, u2, moduleAcc, feeAcc, distrAcc, escrowAcc, zeroAddr, atom, mc1, mc2, ext1, otherName

Setting(erc20, hook, sends, tokens, bps) ==
    [enableErc20 |-> erc20, enableEVMHook |-> hook, sendEnabled |-> sends,
     interopTokens |-> tokens, feeBasisPoints |-> bps]

AllOn == Setting(TRUE, TRUE, Denoms, Tokens, 5000)
HookOff == Setting(TRUE, FALSE, {}, {}, 5000)
AllOff == Setting(FALSE, TRUE, Denoms, Tokens, 0)

ParamsOn == {AllOn}
ParamsHook == {AllOn, HookOff}
ParamsAll == {AllOn, HookOff, AllOff}

NameIsBase == {[base |-> d, name |-> d] : d \in CoinDenoms}
NameIsOther == {[base |-> d, name |-> n] : d \in CoinDenoms, n \in CoinDenoms \cup {otherName}}
NoPairs == {}
AtomPair == {NewTokenPair(mc1, atom, "OWNER_MODULE")}

Symmetry == Permutations(Users) \cup Permutations(ModuleContracts)
=============================================================================
