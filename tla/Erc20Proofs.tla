---------------------------- MODULE Erc20Proofs -----------------------------
(***************************************************************************)
(* The invariants of x/erc20, proved for every value of the constants.     *)
(***************************************************************************)
EXTENDS HookProofs

(* The inductive invariant: TokensBackCoins alone is not inductive, since  *)
(* an iteration of the hook mints for a transfer made in an earlier step.  *)
IInv == TypeOK /\ RegistryOK(Ctx) /\ LogsCovered(Ctx, logs)

(* Committing a context makes it the store.                                *)
LEMMA CommitCtx ==
    ASSUME NEW x \in Contexts, Commit(x)
    PROVE  Ctx' = x
BY DEF Commit, Ctx, Contexts

(* Between Ethereum transactions the store is a good context.              *)
LEMMA IdleGood ==
    ASSUME IInv, Idle
    PROVE  Good(Ctx)
<1>1. Ctx \in Contexts /\ RegistryOK(Ctx) /\ LogsCovered(Ctx, <<>>)
  BY DEF IInv, TypeOK, Idle
<1> QED BY <1>1, NoLogsCovered DEF Good

(* A transaction whose outcome is good preserves the invariant.            *)
LEMMA TxPreserves ==
    ASSUME IInv, NEW r, Good(r.ctx), Tx(r)
    PROVE  IInv'
<1>1. Ctx' = r.ctx
  BY CommitCtx DEF Good, Tx
<1>2. Good(Ctx')
  BY <1>1
<1>3. logs' = <<>> /\ params' = params /\ phase' = phase
  BY DEF Tx, Idle
<1>4. LogsCovered(Ctx', <<>>) /\ Ctx' \in Contexts /\ RegistryOK(Ctx')
  BY <1>2, NoLogsCovered DEF Good
<1> QED BY <1>3, <1>4 DEF IInv, TypeOK

(* A user is an account and not the module account.                        *)
LEMMA UserFacts ==
    ASSUME NEW u \in Users
    PROVE  u \in Accounts \ {Module}
BY LedgerAssumption DEF Accounts, ModuleAccounts

(* Every message preserves the invariant.                                  *)
LEMMA MsgPreserves == IInv /\ MsgStep => IInv'
<1> SUFFICES ASSUME IInv, NEW n \in Amounts, NEW sender \in Users,
       \/ \E d \in Denoms, receiver \in Receivers, mode \in AllModes :
             MsgConvertCoin(d, n, sender, receiver, mode)
       \/ \E c \in Contracts, receiver \in Receivers : \E mode \in Modes(c) :
             MsgConvertERC20(c, n, sender, receiver, mode)
       \/ \E d \in Denoms, mode \in AllModes : MsgSendCoinToEVM(d, n, sender, mode)
       \/ \E c \in Contracts : \E mode \in Modes(c) : MsgSendERC20ToCosmos(c, n, sender, mode)
       \/ \E c \in Contracts, channelOpen \in BOOLEAN : \E mode \in Modes(c) :
             MsgSendERC20ToCosmosAndIBCTransfer(c, n, sender, mode, channelOpen)
       \/ \E d \in Denoms, receiver \in Receivers : MsgSend(d, n, sender, receiver)
                PROVE  IInv'
  BY DEF MsgStep
<1>1. n \in Nat \ {0} /\ sender \in Accounts \ {Module} /\ params \in Params
  BY UserFacts, Erc20Assumption DEF IInv, TypeOK
<1>2. Receivers \subseteq Accounts
  BY Erc20Assumption
<1>3. Idle => Good(Ctx)
  BY IdleGood
<1>4. ASSUME NEW d \in Denoms, NEW receiver \in Receivers, NEW mode \in AllModes,
             MsgConvertCoin(d, n, sender, receiver, mode)
      PROVE  IInv'
  <2> DEFINE r == ConvertCoin(Ctx, d, n, sender, receiver, mode)
  <2>1. Tx(r) /\ Idle
    BY <1>4 DEF MsgConvertCoin, Tx
  <2>2. Good(r.ctx)
    BY <1>1, <1>2, <1>3, <2>1, ConvertCoinGood
  <2> HIDE DEF r
  <2> QED BY <2>1, <2>2, TxPreserves
<1>5. ASSUME NEW c \in Contracts, NEW receiver \in Receivers, NEW mode \in Modes(c),
             MsgConvertERC20(c, n, sender, receiver, mode)
      PROVE  IInv'
  <2> DEFINE r == ConvertERC20(Ctx, c, n, sender, receiver, mode)
  <2>1. Tx(r) /\ Idle
    BY <1>5 DEF MsgConvertERC20, Tx
  <2>2. Good(r.ctx)
    BY <1>1, <1>2, <1>3, <2>1, ConvertERC20Good
  <2> HIDE DEF r
  <2> QED BY <2>1, <2>2, TxPreserves
<1>6. ASSUME NEW d \in Denoms, NEW mode \in AllModes, MsgSendCoinToEVM(d, n, sender, mode)
      PROVE  IInv'
  <2> DEFINE r == SendCoinToEVM(Ctx, d, n, sender, mode)
  <2>1. Tx(r) /\ Idle
    BY <1>6 DEF MsgSendCoinToEVM, Tx
  <2>2. Good(r.ctx)
    BY <1>1, <1>3, <2>1, SendCoinToEVMGood
  <2> HIDE DEF r
  <2> QED BY <2>1, <2>2, TxPreserves
<1>7. ASSUME NEW c \in Contracts, NEW mode \in Modes(c), MsgSendERC20ToCosmos(c, n, sender, mode)
      PROVE  IInv'
  <2> DEFINE r == SendERC20ToCosmos(Ctx, c, n, sender, mode)
  <2>1. Tx(r) /\ Idle
    BY <1>7 DEF MsgSendERC20ToCosmos, Tx
  <2>2. Good(r.ctx)
    BY <1>1, <1>3, <2>1, SendERC20ToCosmosGood
  <2> HIDE DEF r
  <2> QED BY <2>1, <2>2, TxPreserves
<1>8. ASSUME NEW c \in Contracts, NEW open \in BOOLEAN, NEW mode \in Modes(c),
             MsgSendERC20ToCosmosAndIBCTransfer(c, n, sender, mode, open)
      PROVE  IInv'
  <2> DEFINE r == SendERC20ToCosmosAndIBCTransfer(Ctx, c, n, sender, mode, open)
  <2>1. Tx(r) /\ Idle
    BY <1>8 DEF MsgSendERC20ToCosmosAndIBCTransfer, Tx
  <2>2. Good(r.ctx)
    BY <1>1, <1>3, <2>1, SendERC20ToCosmosAndIBCTransferGood
  <2> HIDE DEF r
  <2> QED BY <2>1, <2>2, TxPreserves
<1>9. ASSUME NEW d \in Denoms, NEW receiver \in Receivers, MsgSend(d, n, sender, receiver)
      PROVE  IInv'
  <2> DEFINE r == SendCoins(Ctx, d, sender, receiver, n)
  <2>1. Tx(r) /\ Idle
    BY <1>9 DEF MsgSend, Tx
  <2>2. Ctx \in Contexts
    BY <1>3, <2>1 DEF Good
  <2>3. Safe(r.ctx, Ctx)
    BY <1>1, <1>2, <2>2, SendMargin
  <2> HIDE DEF r
  <2>4. Good(r.ctx)
    BY <1>3, <2>1, <2>3, SafeGood
  <2> QED BY <2>1, <2>4, TxPreserves
<1> QED BY <1>4, <1>5, <1>6, <1>7, <1>8, <1>9

(* Every governance proposal preserves the invariant.                      *)
LEMMA GovPreserves == IInv /\ GovStep => IInv'
<1> SUFFICES ASSUME IInv, GovStep PROVE IInv'
  OBVIOUS
<1>1. Idle => Good(Ctx)
  BY IdleGood
<1>2. ASSUME NEW m \in CoinMetadata, RegisterCoinProposal(m) PROVE IInv'
  <2>1. PICK c \in ModuleContracts \ code : Tx(RegisterCoin(Ctx, m, c))
    BY <1>2 DEF RegisterCoinProposal
  <2>2. Idle
    BY <2>1 DEF Tx
  <2>3. Ctx.code = code
    BY DEF Ctx
  <2>4. Good(RegisterCoin(Ctx, m, c).ctx)
    BY <1>1, <2>2, <2>3, RegisterCoinGood
  <2> QED BY <2>1, <2>4, TxPreserves
<1>3. ASSUME NEW c \in ExtContracts, RegisterERC20Proposal(c) PROVE IInv'
  <2>1. Tx(RegisterERC20(Ctx, c)) /\ Idle
    BY <1>3 DEF RegisterERC20Proposal, Tx
  <2>2. Good(RegisterERC20(Ctx, c).ctx)
    BY <1>1, <2>1, RegisterERC20Good
  <2> QED BY <2>1, <2>2, TxPreserves
<1>4. ASSUME NEW token \in Tokens, ToggleTokenConversionProposal(token) PROVE IInv'
  <2>1. Tx(ToggleConversion(Ctx, token)) /\ Idle
    BY <1>4 DEF ToggleTokenConversionProposal, Tx
  <2>2. Good(ToggleConversion(Ctx, token).ctx)
    BY <1>1, <2>1, ToggleConversionGood
  <2> QED BY <2>1, <2>2, TxPreserves
<1>5. ASSUME ParameterChangeProposal PROVE IInv'
  <2>1. Ctx' = Ctx /\ logs' = logs /\ phase' = phase
    BY <1>5 DEF ParameterChangeProposal, Ctx
  <2>2. params' \in Params
    BY <1>5, Erc20Assumption DEF ParameterChangeProposal
  <2> QED BY <2>1, <2>2 DEF IInv, TypeOK
<1> QED BY <1>2, <1>3, <1>4, <1>5 DEF GovStep

(* Every step of an Ethereum transaction preserves the invariant.          *)
LEMMA EvmPreserves == IInv /\ EvmStep => IInv'
<1> SUFFICES ASSUME IInv, EvmStep PROVE IInv'
  OBVIOUS
<1>1. /\ Ctx \in Contexts /\ RegistryOK(Ctx) /\ LogsCovered(Ctx, logs)
      /\ logs \in Seq(Log) /\ params \in Params /\ phase \in {"evm", "hook"}
  BY DEF IInv, TypeOK
<1>2. \A y, x : SameRegistry(y, x) /\ RegistryOK(x) => RegistryOK(y)
  BY DEF SameRegistry, RegistryOK
<1>3. ASSUME NEW n \in Amounts, NEW from \in Users, NEW c \in Contracts,
             NEW to \in Receivers \cup {Module}, NEW mode \in Modes(c),
             EvmTransfer(c, n, from, to, mode)
      PROVE  IInv'
  <2> DEFINE r == Erc20Transfer(Ctx, c, from, to, n, mode)
             log == [contract |-> c, from |-> from, to |-> to,
                     amount |-> IF mode = "short" THEN n - 1 ELSE n]
  <2>1. ~Failed(r) /\ Commit(r.ctx) /\ logs' = Append(logs, log) /\ params' = params /\ phase' = phase
    BY <1>3 DEF EvmTransfer
  <2>2. n \in Nat \ {0} /\ from \in Accounts \ {Module} /\ to \in Accounts
    BY Erc20Assumption, UserFacts, ModuleIsAccount
  <2>3. /\ log \in Log /\ log.contract = c /\ log.to = to
        /\ log.amount = IF mode = "short" THEN n - 1 ELSE n
    BY <2>2 DEF Log
  <2> HIDE DEF log
  <2>4. /\ r.ctx \in Contexts /\ SameRegistry(r.ctx, Ctx)
        /\ LogsCovered(r.ctx, Append(logs, log))
    BY <1>1, <2>1, <2>2, <2>3, TransferCovered
  <2> HIDE DEF r
  <2>5. Ctx' = r.ctx
    BY <2>1, <2>4, CommitCtx
  <2>6. Append(logs, log) \in Seq(Log)
    BY <1>1, <2>3
  <2> QED BY <1>1, <1>2, <2>1, <2>4, <2>5, <2>6 DEF IInv, TypeOK
<1>4. ASSUME NEW n \in Amounts, NEW from \in Users, NEW c \in ModuleContracts, EvmBurn(c, n, from)
      PROVE  IInv'
  <2> DEFINE r == Erc20Burn(Ctx, c, from, n)
  <2>1. Tx(r) /\ Idle
    BY <1>4 DEF EvmBurn, Tx
  <2>2. n \in Nat /\ from \in Accounts /\ c \in Contracts
    BY Erc20Assumption, UserFacts DEF Contracts
  <2>3. Safe(r.ctx, Ctx)
    BY <1>1, <2>2, Erc20BurnFacts, ModuleTokenSafe
  <2> HIDE DEF r
  <2>4. Good(r.ctx)
    BY <2>1, <2>3, IdleGood, SafeGood
  <2> QED BY <2>1, <2>4, TxPreserves
<1>5. ASSUME EvmHook PROVE IInv'
  <2> DEFINE y == PostTxProcessing(Ctx, Head(logs)).ctx
  <2>1. /\ logs # <<>> /\ Commit(y) /\ logs' = Tail(logs) /\ params' = params
        /\ phase' \in {"evm", "hook"}
    BY <1>5 DEF EvmHook
  <2>2. y \in Contexts /\ SameRegistry(y, Ctx) /\ LogsCovered(y, Tail(logs))
    BY <1>1, <2>1, HookCovered
  <2> HIDE DEF y
  <2>3. Ctx' = y
    BY <2>1, <2>2, CommitCtx
  <2>4. Tail(logs) \in Seq(Log)
    BY <1>1, <2>1
  <2> QED BY <1>1, <1>2, <2>1, <2>2, <2>3, <2>4 DEF IInv, TypeOK
<1>6. ASSUME NEW c \in ExtContracts, EvmSelfdestruct(c) PROVE IInv'
  <2> DEFINE x == [Ctx EXCEPT !.code = @ \ {c}]
  <2>1. Tx(Ok(x)) /\ Idle
    BY <1>6 DEF EvmSelfdestruct, Tx
  <2>2. /\ x \in Contexts /\ x.code = Ctx.code \ {c}
        /\ x.pairs = Ctx.pairs /\ x.denomMap = Ctx.denomMap /\ x.erc20Map = Ctx.erc20Map
        /\ SameCoins(x, Ctx) /\ SameTokens(x, Ctx)
    <3> DEFINE z == Ctx
               co == z.code \ {c}
    <3>1. z \in Contexts /\ x = [z EXCEPT !.code = co]
      BY <1>1
    <3>2. co \in SUBSET Contracts
      BY <3>1, RegistryTypes
    <3> HIDE DEF z, co
    <3>3. [z EXCEPT !.code = co] \in Contexts
      BY <3>1, <3>2 DEF Contexts
    <3> HIDE DEF x
    <3>4. x.code = co /\ x.pairs = z.pairs /\ x.denomMap = z.denomMap /\ x.erc20Map = z.erc20Map
          /\ SameCoins(x, z) /\ SameTokens(x, z)
      BY <3>1 DEF Contexts, SameCoins, SameTokens
    <3> QED BY <3>1, <3>3, <3>4 DEF co, z
  <2> HIDE DEF x
  <2>3. Good(Ctx)
    BY <2>1, IdleGood
  <2>4. RegistryOK(x)
    <3>1. ASSUME NEW id \in Ids, x.pairs[id] # Nil
          PROVE  x.pairs[id].owner = "OWNER_MODULE" => id[1] \in x.code
      <4>1. /\ WellOwned(Ctx.pairs[id]) /\ GetID(Ctx.pairs[id]) = id
            /\ Ctx.pairs[id].owner = "OWNER_MODULE" => id[1] \in Ctx.code
            /\ Ctx.pairs[id] \in TokenPair
        BY <1>1, <2>2, <3>1, RegistryTypes DEF RegistryOK
      <4>2. Ctx.pairs[id].erc20 = id[1]
        BY <4>1, PairFields
      <4>3. Ctx.pairs[id].owner = "OWNER_MODULE" => id[1] # c
        BY <4>1, <4>2, LedgerAssumption DEF WellOwned
      <4> QED BY <2>2, <4>1, <4>3
    <3> QED BY <1>1, <2>2, <3>1 DEF RegistryOK
  <2>5. \A e : Margin(x, e) = Margin(Ctx, e)
    BY <2>2 DEF Margin, Out, SameCoins, SameTokens
  <2>6. Good(x)
    BY <2>2, <2>3, <2>4, <2>5 DEF Good, Backed
  <2>7. Good(Ok(x).ctx)
    BY <2>6 DEF Ok
  <2> QED BY <2>1, <2>7, TxPreserves
<1> QED BY <1>3, <1>4, <1>5, <1>6 DEF EvmStep

(* InitGenesis stores every pair of a valid genesis under its id, contract *)
(* and denomination, and nothing else.                                     *)
LEMMA GenesisRegistry ==
    LET y == InitGenesis(GenesisPairs)
    IN  /\ y.pairs \in [Ids -> TokenPair \cup {Nil}]
        /\ y.denomMap \in [Denoms -> Ids \cup {Nil}]
        /\ y.erc20Map \in [Contracts -> Ids \cup {Nil}]
        /\ \A p \in GenesisPairs :
              y.pairs[GetID(p)] = p /\ y.erc20Map[p.erc20] = GetID(p) /\ y.denomMap[p.denom] = GetID(p)
        /\ \A id \in Ids : y.pairs[id] # Nil => y.pairs[id] \in GenesisPairs /\ GetID(y.pairs[id]) = id
        /\ \A c \in Contracts : y.erc20Map[c] # Nil =>
              \E p \in GenesisPairs : p.erc20 = c /\ y.erc20Map[c] = GetID(p)
        /\ \A d \in Denoms : y.denomMap[d] # Nil =>
              \E p \in GenesisPairs : p.denom = d /\ y.denomMap[d] = GetID(p)
<1> DEFINE G == GenesisPairs
           ps == [id \in Ids |-> IF \E p \in G : GetID(p) = id
                                THEN CHOOSE p \in G : GetID(p) = id ELSE Nil]
           em == [c \in Contracts |-> IF \E p \in G : p.erc20 = c
                                     THEN GetID(CHOOSE p \in G : p.erc20 = c) ELSE Nil]
           dm == [d \in Denoms |-> IF \E p \in G : p.denom = d
                                  THEN GetID(CHOOSE p \in G : p.denom = d) ELSE Nil]
<1>1. InitGenesis(G) = [pairs |-> ps, erc20Map |-> em, denomMap |-> dm]
  BY Zenon DEF InitGenesis
<1>2. /\ \A p \in G : /\ p \in TokenPair /\ p # Nil
                      /\ p.erc20 \in Contracts /\ p.denom \in Denoms /\ GetID(p) \in Ids
                      /\ GetID(p)[1] = p.erc20 /\ GetID(p)[2] = p.denom
      /\ \A p, q \in G : p.erc20 = q.erc20 \/ p.denom = q.denom => p = q
  BY Erc20Assumption, PairFields DEF GenesisValidate
<1>3. ASSUME NEW id \in Ids
      PROVE  \/ ps[id] = Nil /\ \A p \in G : GetID(p) # id
             \/ ps[id] \in G /\ GetID(ps[id]) = id
  BY Zenon
<1>4. ASSUME NEW c \in Contracts
      PROVE  \/ em[c] = Nil /\ \A p \in G : p.erc20 # c
             \/ \E p \in G : p.erc20 = c /\ em[c] = GetID(p)
  <2>1. CASE \E p \in G : p.erc20 = c
    <3> DEFINE p == CHOOSE p \in G : p.erc20 = c
    <3>1. p \in G /\ p.erc20 = c
      BY <2>1, Zenon
    <3>2. em[c] = GetID(p)
      BY <2>1, Zenon
    <3> QED BY <3>1, <3>2, Zenon
  <2>2. CASE ~\E p \in G : p.erc20 = c
    BY <2>2, Zenon
  <2> QED BY <2>1, <2>2
<1>5. ASSUME NEW d \in Denoms
      PROVE  \/ dm[d] = Nil /\ \A p \in G : p.denom # d
             \/ \E p \in G : p.denom = d /\ dm[d] = GetID(p)
  <2>1. CASE \E p \in G : p.denom = d
    <3> DEFINE p == CHOOSE p \in G : p.denom = d
    <3>1. p \in G /\ p.denom = d
      BY <2>1, Zenon
    <3>2. dm[d] = GetID(p)
      BY <2>1, Zenon
    <3> QED BY <3>1, <3>2, Zenon
  <2>2. CASE ~\E p \in G : p.denom = d
    BY <2>2, Zenon
  <2> QED BY <2>1, <2>2
<1>6. DOMAIN ps = Ids /\ DOMAIN em = Contracts /\ DOMAIN dm = Denoms
      /\ ps = [id \in Ids |-> ps[id]] /\ em = [c \in Contracts |-> em[c]] /\ dm = [d \in Denoms |-> dm[d]]
  BY Zenon
<1> HIDE DEF G, ps, em, dm
<1>7. ps \in [Ids -> TokenPair \cup {Nil}] /\ em \in [Contracts -> Ids \cup {Nil}]
      /\ dm \in [Denoms -> Ids \cup {Nil}]
  BY <1>2, <1>3, <1>4, <1>5, <1>6
<1>8. ASSUME NEW p \in G
      PROVE  ps[GetID(p)] = p /\ em[p.erc20] = GetID(p) /\ dm[p.denom] = GetID(p)
  <2>1. ps[GetID(p)] = p
    <3> DEFINE q == ps[GetID(p)]
    <3>1. q \in G /\ GetID(q) = GetID(p)
      BY <1>2, <1>3
    <3>2. q.erc20 = p.erc20
      BY <1>2, <3>1
    <3> QED BY <1>2, <3>1, <3>2
  <2>2. em[p.erc20] = GetID(p)
    BY <1>2, <1>4
  <2>3. dm[p.denom] = GetID(p)
    BY <1>2, <1>5
  <2> QED BY <2>1, <2>2, <2>3
<1>9. \A id \in Ids : ps[id] # Nil => ps[id] \in G /\ GetID(ps[id]) = id
  BY <1>3
<1>10. \A c \in Contracts : em[c] # Nil => \E p \in G : p.erc20 = c /\ em[c] = GetID(p)
  BY <1>4
<1>11. \A d \in Denoms : dm[d] # Nil => \E p \in G : p.denom = d /\ dm[d] = GetID(p)
  BY <1>5
<1>12. InitGenesis(G).pairs = ps /\ InitGenesis(G).erc20Map = em /\ InitGenesis(G).denomMap = dm
  BY <1>1
<1> QED BY <1>7, <1>8, <1>9, <1>10, <1>11, <1>12 DEF G

(* The invariant holds after genesis.                                      *)
LEMMA InitIInv == Init => IInv
<1> SUFFICES ASSUME Init PROVE IInv
  OBVIOUS
<1> DEFINE y == InitGenesis(GenesisPairs)
<1>1. pairs = y.pairs /\ denomMap = y.denomMap /\ erc20Map = y.erc20Map
  BY DEF Init
<1>2. /\ y.pairs \in [Ids -> TokenPair \cup {Nil}]
      /\ y.denomMap \in [Denoms -> Ids \cup {Nil}]
      /\ y.erc20Map \in [Contracts -> Ids \cup {Nil}]
      /\ \A p \in GenesisPairs :
            y.pairs[GetID(p)] = p /\ y.erc20Map[p.erc20] = GetID(p) /\ y.denomMap[p.denom] = GetID(p)
      /\ \A id \in Ids : y.pairs[id] # Nil => y.pairs[id] \in GenesisPairs /\ GetID(y.pairs[id]) = id
      /\ \A c \in Contracts : y.erc20Map[c] # Nil =>
            \E p \in GenesisPairs : p.erc20 = c /\ y.erc20Map[c] = GetID(p)
      /\ \A d \in Denoms : y.denomMap[d] # Nil =>
            \E p \in GenesisPairs : p.denom = d /\ y.denomMap[d] = GetID(p)
  BY GenesisRegistry
<1> HIDE DEF y
<1>3. Ctx \in Contexts
  <2>1. InitialCoins * Cardinality(Users) \in Nat /\ InitialTokens * Cardinality(Users) \in Nat
    BY Erc20Assumption, ProductNat
  <2> DEFINE A == InitialCoins * Cardinality(Users)
             B == InitialTokens * Cardinality(Users)
  <2>2. /\ meta = [d \in Denoms |-> Nil]
        /\ supply = [d \in Denoms |-> IF d \in CoinDenoms THEN A ELSE 0]
        /\ total = [c \in Contracts |-> IF c \in ExtContracts THEN B ELSE 0]
    BY DEF Init
  <2>3. A \in Nat /\ B \in Nat
    BY <2>1
  <2> HIDE DEF A, B
  <2>4. meta \in [Denoms -> Metadata \cup {Nil}] /\ supply \in [Denoms -> Nat]
        /\ total \in [Contracts -> Int]
    BY <2>2, <2>3
  <2>5. coin \in [Denoms -> [Accounts -> Nat]] /\ tok \in [Contracts -> [Accounts -> Nat]]
    BY Erc20Assumption DEF Init
  <2>6. code \in SUBSET Contracts
    BY DEF Init, Contracts
  <2> QED BY <1>1, <1>2, <2>4, <2>5, <2>6 DEF Ctx, Contexts
<1>4. \A p \in GenesisPairs : /\ p \in TokenPair /\ WellOwned(p)
                              /\ p.owner = "OWNER_MODULE" => p.erc20 \in code
                              /\ GetID(p) \in Ids /\ GetID(p)[1] = p.erc20 /\ GetID(p)[2] = p.denom
                              /\ GetID(p) # Nil /\ p # Nil
  <2> SUFFICES ASSUME NEW p \in GenesisPairs
               PROVE  /\ p \in TokenPair /\ WellOwned(p)
                      /\ p.owner = "OWNER_MODULE" => p.erc20 \in code
                      /\ GetID(p) \in Ids /\ GetID(p)[1] = p.erc20 /\ GetID(p)[2] = p.denom
                      /\ GetID(p) # Nil /\ p # Nil
    OBVIOUS
  <2>1. p \in TokenPair /\ WellOwned(p)
    BY Erc20Assumption
  <2>2. p.owner = "OWNER_MODULE" => p.erc20 \in code
    BY <2>1 DEF Init, WellOwned
  <2> QED BY <2>1, <2>2, PairFields
<1>5. RegistryOK(Ctx)
  <2>1. /\ Ctx.pairs = y.pairs /\ Ctx.denomMap = y.denomMap /\ Ctx.erc20Map = y.erc20Map
        /\ Ctx.code = code
    BY <1>1 DEF Ctx
  <2>2. ASSUME NEW id \in Ids, y.pairs[id] # Nil
        PROVE  /\ GetID(y.pairs[id]) = id
               /\ WellOwned(y.pairs[id])
               /\ y.pairs[id].owner = "OWNER_MODULE" => id[1] \in code
               /\ y.erc20Map[id[1]] = id
               /\ y.denomMap[id[2]] # Nil
    <3>1. PICK p \in GenesisPairs : y.pairs[id] = p /\ GetID(p) = id
      BY <1>2, <2>2
    <3>2. y.pairs[GetID(p)] = p /\ y.erc20Map[p.erc20] = GetID(p) /\ y.denomMap[p.denom] = GetID(p)
      BY <1>2
    <3>3. /\ WellOwned(p)
          /\ p.owner = "OWNER_MODULE" => p.erc20 \in code
          /\ GetID(p)[1] = p.erc20 /\ GetID(p)[2] = p.denom /\ GetID(p) # Nil /\ p # Nil
      BY <1>4, Zenon
    <3> QED BY <3>1, <3>2, <3>3
  <2>3. ASSUME NEW c \in Contracts, y.erc20Map[c] # Nil
        PROVE  y.erc20Map[c][1] = c /\ y.pairs[y.erc20Map[c]] # Nil
    <3>1. PICK p \in GenesisPairs : p.erc20 = c /\ y.erc20Map[c] = GetID(p)
      BY <1>2, <2>3
    <3>2. y.pairs[GetID(p)] = p /\ y.erc20Map[p.erc20] = GetID(p) /\ y.denomMap[p.denom] = GetID(p)
      BY <1>2
    <3>3. /\ WellOwned(p)
          /\ p.owner = "OWNER_MODULE" => p.erc20 \in code
          /\ GetID(p)[1] = p.erc20 /\ GetID(p)[2] = p.denom /\ GetID(p) # Nil /\ p # Nil
      BY <1>4, Zenon
    <3> QED BY <3>1, <3>2, <3>3
  <2>4. ASSUME NEW d \in Denoms, y.denomMap[d] # Nil
        PROVE  y.denomMap[d][2] = d /\ y.pairs[y.denomMap[d]] # Nil
    <3>1. PICK p \in GenesisPairs : p.denom = d /\ y.denomMap[d] = GetID(p)
      BY <1>2, <2>4
    <3>2. y.pairs[GetID(p)] = p /\ y.erc20Map[p.erc20] = GetID(p) /\ y.denomMap[p.denom] = GetID(p)
      BY <1>2
    <3>3. /\ WellOwned(p)
          /\ p.owner = "OWNER_MODULE" => p.erc20 \in code
          /\ GetID(p)[1] = p.erc20 /\ GetID(p)[2] = p.denom /\ GetID(p) # Nil /\ p # Nil
      BY <1>4, Zenon
    <3> QED BY <3>1, <3>2, <3>3
  <2> QED BY <2>1, <2>2, <2>3, <2>4 DEF RegistryOK
<1>6. Backed(Ctx)
  <2> SUFFICES ASSUME NEW c \in ExtContracts PROVE Margin(Ctx, c) >= 0
    BY DEF Backed
  <2>1. CreateDenom(c) \in Denoms /\ CreateDenom(c) \notin CoinDenoms /\ c \in Contracts
    BY ExtFacts
  <2>2. Module \notin Users
    BY LedgerAssumption DEF ModuleAccounts
  <2>3. /\ coin[CreateDenom(c)][Module] = 0 /\ supply[CreateDenom(c)] = 0
        /\ tok[c][Module] = 0
    BY <2>1, <2>2, ModuleIsAccount DEF Init
  <2> QED BY <2>3 DEF Margin, Out, Ctx
<1>7. /\ logs = <<>> /\ logs \in Seq(Log) /\ phase \in {"evm", "hook"} /\ params \in Params
  BY Erc20Assumption DEF Init
<1> QED BY <1>3, <1>5, <1>6, <1>7, NoLogsCovered DEF IInv, TypeOK

(* x/erc20: the inductive invariant holds in every reachable state, for    *)
(* every number of users, denominations, contracts, amounts and logs.      *)
THEOREM Erc20Invariant == Spec => []IInv
<1>1. IInv /\ [Next]_vars => IInv'
  <2> SUFFICES ASSUME IInv, [Next]_vars PROVE IInv'
    OBVIOUS
  <2>1. CASE Next
    BY <2>1, MsgPreserves, EvmPreserves, GovPreserves DEF Next
  <2>2. CASE UNCHANGED vars
    <3>1. Ctx' = Ctx /\ params' = params /\ logs' = logs /\ phase' = phase
      BY <2>2 DEF vars, Ctx
    <3> QED BY <3>1 DEF IInv, TypeOK
  <2> QED BY <2>1, <2>2
<1> QED BY <1>1, InitIInv, PTL DEF Spec

(* The stores of the bank, the contracts and the registry keep their types *)
(* under every step; in particular no balance or supply goes negative in   *)
(* the burns and sends of the conversions.                                 *)
THEOREM TypeCorrect == Spec => []TypeOK
<1>1. IInv => TypeOK
  BY DEF IInv
<1> QED BY <1>1, Erc20Invariant, PTL

(* Registration, toggling and the deletion of dead pairs (token_pairs.go)  *)
(* keep the pairs and both indexes consistent.                             *)
THEOREM RegistryAlwaysConsistent == Spec => []RegistryConsistent
<1>1. IInv => RegistryConsistent
  BY DEF IInv, RegistryOK, RegistryConsistent, Ctx
<1> QED BY <1>1, Erc20Invariant, PTL

(* PostTxProcessing never has a pending log whose tokens are not there:    *)
(* whatever the transfers of one Ethereum transaction were, minting for all *)
(* of its logs stays covered.                                              *)
THEOREM EveryPendingLogBacked == Spec => []PendingLogsBacked
<1>1. IInv => PendingLogsBacked
  <2>1. Ctx.code = code
    BY DEF Ctx
  <2> QED BY <2>1 DEF IInv, LogsCovered, PendingLogsBacked
<1> QED BY <1>1, Erc20Invariant, PTL

(* The invariant implies that the coins are backed.                        *)
LEMMA InvariantBacksCoins == IInv => TokensBackCoins
<1> SUFFICES ASSUME IInv, NEW c \in ExtContracts \cap code
             PROVE  supply[CreateDenom(c)] - coin[CreateDenom(c)][Module] <= tok[c][Module]
  BY DEF TokensBackCoins
<1>1. Ctx \in Contexts /\ LogsCovered(Ctx, logs) /\ logs \in Seq(Log)
  BY DEF IInv, TypeOK
<1>2. PICK g \in [0..Len(logs) -> 0..Margin(Ctx, c)] : g[0] = 0
  BY <1>1 DEF LogsCovered, Ctx
<1>3. Margin(Ctx, c) \in Int /\ 0 \in 0..Len(logs)
  BY <1>1, MarginType
<1>4. Margin(Ctx, c) >= 0
  BY <1>2, <1>3
<1>5. c \in Contracts /\ CreateDenom(c) \in Denoms
  BY ExtFacts
<1>6. tok[c][Module] \in Int /\ supply[CreateDenom(c)] \in Int /\ coin[CreateDenom(c)][Module] \in Int
  BY <1>1, <1>5, ContextTypes, ModuleIsAccount DEF Ctx
<1> QED BY <1>4, <1>6 DEF Margin, Out, Ctx

(* Every coin of a native ERC20 outside the module account is backed by a  *)
(* token the module account holds (convertERC20NativeToken,                *)
(* convertCoinNativeERC20, PostTxProcessing and the gas-free messages).    *)
THEOREM CoinsAlwaysBacked == Spec => []TokensBackCoins
<1> QED BY InvariantBacksCoins, Erc20Invariant, PTL
=============================================================================
