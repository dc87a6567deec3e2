-------------------------- MODULE ConversionProofs --------------------------
(***************************************************************************)
(* Every operation of the x/erc20 keeper preserves the consistency of the  *)
(* registry and the backing of the coins of external ERC20s, whatever it   *)
(* returns.  The argument is about margins: how many more tokens the module *)
(* account holds than there are coins outside it.                          *)
(***************************************************************************)
EXTENDS Erc20Lemmas

(* No external ERC20 with code has a negative margin.                      *)
Backed(x) == \A c \in ExtContracts \cap x.code : Margin(x, c) >= 0

(* What every operation preserves, on errors too.                          *)
Good(x) == x \in Contexts /\ RegistryOK(x) /\ Backed(x)

(* y differs from x in balances only, and in the favour of the margins.    *)
Safe(y, x) ==
    /\ y \in Contexts
    /\ SameRegistry(y, x)
    /\ \A c \in ExtContracts : Margin(y, c) >= Margin(x, c)

(* Doing nothing is safe.                                                  *)
LEMMA SafeRefl == ASSUME NEW x \in Contexts PROVE Safe(x, x)
BY MarginType DEF Safe, SameRegistry

(* Two safe changes in a row are safe.                                     *)
LEMMA SafeTrans ==
    ASSUME NEW x \in Contexts, NEW y, NEW z, Safe(y, x), Safe(z, y)
    PROVE  Safe(z, x)
<1>1. y \in Contexts /\ z \in Contexts
  BY DEF Safe
<1>2. \A c \in ExtContracts : Margin(z, c) >= Margin(x, c)
  BY <1>1, MarginType DEF Safe
<1> QED BY <1>1, <1>2 DEF Safe, SameRegistry

(* A safe change keeps a good context good.                                *)
LEMMA SafeGood ==
    ASSUME NEW x, Good(x), NEW y, Safe(y, x)
    PROVE  Good(y)
<1>1. RegistryOK(y)
  BY DEF Good, Safe, SameRegistry, RegistryOK
<1>2. Backed(y)
  <2> SUFFICES ASSUME NEW c \in ExtContracts \cap y.code PROVE Margin(y, c) >= 0
    BY DEF Backed
  <2>1. c \in ExtContracts \cap x.code
    BY DEF Safe, SameRegistry
  <2> QED BY <2>1, MarginType DEF Good, Safe, Backed
<1> QED BY <1>1, <1>2 DEF Good, Safe

(* How SendCoins moves the margins: a send by another account than the     *)
(* module, or of a native coin, is safe; escrowing n coins of an external  *)
(* ERC20 raises its margin by n.                                           *)
LEMMA SendMargin ==
    ASSUME NEW x \in Contexts, NEW d \in Denoms, NEW from \in Accounts, NEW to \in Accounts,
           NEW n \in Nat, NEW r, r = SendCoins(x, d, from, to, n)
    PROVE  /\ from # Module => Safe(r.ctx, x)
           /\ d \in CoinDenoms => Safe(r.ctx, x)
           /\ r.ctx \in Contexts /\ SameRegistry(r.ctx, x)
           /\ \A c \in ExtContracts : Margin(r.ctx, c) >= Margin(x, c) - n
           /\ \A c \in ExtContracts : CreateDenom(c) # d => Margin(r.ctx, c) = Margin(x, c)
           /\ from # Module /\ to = Module /\ ~Failed(r) =>
                 \A c \in ExtContracts : CreateDenom(c) = d => Margin(r.ctx, c) = Margin(x, c) + n
<1> DEFINE y == r.ctx
<1>1. /\ y \in Contexts /\ SameRegistry(y, x) /\ SameTokens(y, x)
      /\ Out(y, d) <= Out(x, d) + n
      /\ from # Module => Out(y, d) <= Out(x, d)
      /\ from # Module /\ to = Module /\ ~Failed(r) => Out(y, d) = Out(x, d) - n
      /\ \A e \in Denoms \ {d} : Out(y, e) = Out(x, e)
  BY SendCoinsFacts
<1> HIDE DEF y
<1>2. ASSUME NEW c \in ExtContracts
      PROVE  /\ Margin(y, c) >= Margin(x, c) - n
             /\ CreateDenom(c) # d => Margin(y, c) = Margin(x, c)
             /\ from # Module => Margin(y, c) >= Margin(x, c)
             /\ d \in CoinDenoms => Margin(y, c) >= Margin(x, c)
             /\ from # Module /\ to = Module /\ ~Failed(r) /\ CreateDenom(c) = d =>
                   Margin(y, c) = Margin(x, c) + n
  <2> DEFINE e == CreateDenom(c)
  <2>1. e \in Denoms /\ e \notin CoinDenoms /\ c \in Contracts
    BY ExtFacts
  <2> HIDE DEF e
  <2>2. x.tok[c][Module] \in Int /\ y.tok[c][Module] = x.tok[c][Module]
    BY <1>1, <2>1, ContextTypes, ModuleIsAccount DEF SameTokens
  <2>3. Out(x, e) \in Int /\ Out(y, e) \in Int
    BY <1>1, <2>1, ContextTypes, ModuleIsAccount DEF Out
  <2> HIDE DEF Out
  <2>4. Margin(x, c) = x.tok[c][Module] - Out(x, e) /\ Margin(y, c) = y.tok[c][Module] - Out(y, e)
    BY DEF Margin, e
  <2>5. CASE e = d
    BY <1>1, <2>1, <2>2, <2>3, <2>4, <2>5 DEF e
  <2>6. CASE e # d
    BY <1>1, <2>1, <2>2, <2>3, <2>4, <2>6 DEF e
  <2> QED BY <2>5, <2>6
<1> QED BY <1>1, <1>2 DEF Safe, y

(* A bank operation that does not raise the coins outside the module       *)
(* account is safe.                                                        *)
LEMMA BankMargin ==
    ASSUME NEW x \in Contexts, NEW y \in Contexts, SameRegistry(y, x), SameTokens(y, x),
           \A e \in Denoms : Out(y, e) <= Out(x, e)
    PROVE  Safe(y, x)
<1>1. ASSUME NEW c \in ExtContracts PROVE Margin(y, c) >= Margin(x, c)
  <2> DEFINE e == CreateDenom(c)
  <2>1. e \in Denoms /\ c \in Contracts
    BY ExtFacts
  <2>2. x.tok[c][Module] \in Int /\ y.tok[c][Module] = x.tok[c][Module]
    BY <2>1, ContextTypes, ModuleIsAccount DEF SameTokens
  <2>3. Out(x, e) \in Int /\ Out(y, e) \in Int
    BY <2>1, ContextTypes, ModuleIsAccount DEF Out
  <2> QED BY <2>1, <2>2, <2>3 DEF Margin
<1> QED BY <1>1 DEF Safe

(* A change of token balances moves a margin by what the module account    *)
(* gains.                                                                  *)
LEMMA TokenMargin ==
    ASSUME NEW x \in Contexts, NEW y \in Contexts, SameRegistry(y, x), SameCoins(y, x),
           NEW c \in ExtContracts
    PROVE  Margin(y, c) - Margin(x, c) = y.tok[c][Module] - x.tok[c][Module]
<1>1. CreateDenom(c) \in Denoms /\ c \in Contracts
  BY ExtFacts
<1>2. Out(x, CreateDenom(c)) = Out(y, CreateDenom(c)) /\ Out(x, CreateDenom(c)) \in Int
  BY <1>1, ContextTypes, ModuleIsAccount DEF Out, SameCoins
<1>3. x.tok[c][Module] \in Int /\ y.tok[c][Module] \in Int
  BY <1>1, ContextTypes, ModuleIsAccount
<1> QED BY <1>2, <1>3 DEF Margin

(* A call of one of the module's own contracts is safe.                    *)
LEMMA ModuleTokenSafe ==
    ASSUME NEW x \in Contexts, NEW y \in Contexts, SameRegistry(y, x), SameCoins(y, x),
           NEW c \in ModuleContracts, \A e \in Contracts \ {c} : y.tok[e] = x.tok[e]
    PROVE  Safe(y, x)
<1>1. ASSUME NEW e \in ExtContracts PROVE Margin(y, e) >= Margin(x, e)
  <2>1. y.tok[e] = x.tok[e] /\ e \in Contracts
    BY ExtFacts
  <2>2. y.tok[e][Module] - x.tok[e][Module] = 0
    BY <2>1, ContextTypes, ModuleIsAccount
  <2> QED BY <2>2, TokenMargin, MarginType
<1> QED BY <1>1 DEF Safe

(* How a token transfer moves the margins.                                 *)
LEMMA TransferMargin ==
    ASSUME NEW x \in Contexts, NEW c \in ExtContracts, NEW from \in Accounts, NEW to \in Accounts,
           NEW n \in Nat \ {0}, NEW mode, NEW r, r = Erc20Transfer(x, c, from, to, n, mode)
    PROVE  /\ r.ctx \in Contexts /\ SameRegistry(r.ctx, x)
           /\ from # Module => Safe(r.ctx, x)
           /\ Margin(r.ctx, c) >= Margin(x, c) - n
           /\ Margin(r.ctx, c) - Margin(x, c) = r.ctx.tok[c][Module] - x.tok[c][Module]
           /\ \A e \in ExtContracts \ {c} : Margin(r.ctx, e) = Margin(x, e)
<1> DEFINE y == r.ctx
<1>0. c \in Contracts
  BY ExtFacts
<1>1. /\ y \in Contexts
      /\ SameRegistry(y, x) /\ SameCoins(y, x)
      /\ \A e \in Contracts \ {c} : y.tok[e] = x.tok[e]
      /\ y.tok[c][Module] >= x.tok[c][Module] - n
      /\ from # Module => y.tok[c][Module] >= x.tok[c][Module]
  BY <1>0, Erc20TransferFacts
<1> HIDE DEF y
<1>2. \A e \in ExtContracts : /\ Margin(y, e) - Margin(x, e) = y.tok[e][Module] - x.tok[e][Module]
                              /\ Margin(x, e) \in Int /\ Margin(y, e) \in Int
                              /\ x.tok[e][Module] \in Int /\ y.tok[e][Module] \in Int
                              /\ e \in Contracts
  BY <1>1, TokenMargin, MarginType, ContextTypes, ModuleIsAccount, ExtFacts
<1>3. \A e \in ExtContracts \ {c} : Margin(y, e) = Margin(x, e)
  BY <1>1, <1>2
<1>4. Margin(y, c) >= Margin(x, c) - n /\ (from # Module => Margin(y, c) >= Margin(x, c))
  BY <1>1, <1>2
<1> QED BY <1>1, <1>2, <1>3, <1>4 DEF Safe, y

(* How SendCoinsFromModuleToAccount moves the margins: by at most n, and   *)
(* not at all for a native coin.                                           *)
LEMMA ReleaseMargin ==
    ASSUME NEW x \in Contexts, NEW d \in Denoms, NEW to \in Accounts, NEW n \in Nat,
           NEW r, r = SendCoinsFromModuleToAccount(x, d, to, n)
    PROVE  /\ r.ctx \in Contexts /\ SameRegistry(r.ctx, x)
           /\ d \in CoinDenoms => Safe(r.ctx, x)
           /\ \A c \in ExtContracts : Margin(r.ctx, c) >= Margin(x, c) - n
           /\ \A c \in ExtContracts : CreateDenom(c) # d => Margin(r.ctx, c) = Margin(x, c)
<1>1. CASE to \in BlockedAddrs
  <2>1. r.ctx = x
    BY <1>1 DEF SendCoinsFromModuleToAccount, Err
  <2>2. \A c \in ExtContracts : Margin(x, c) >= Margin(x, c) - n
    BY MarginType
  <2> QED BY <2>1, <2>2, SafeRefl DEF SameRegistry
<1>2. CASE to \notin BlockedAddrs
  <2>1. r = SendCoins(x, d, Module, to, n)
    BY <1>2 DEF SendCoinsFromModuleToAccount
  <2> QED BY <2>1, SendMargin, ModuleIsAccount
<1> QED BY <1>1, <1>2

(* convertCoinNativeCoin is safe, wherever it stops.                       *)
LEMMA ConvertCoinNativeCoinSafe ==
    ASSUME NEW x \in Contexts, NEW c \in ModuleContracts, NEW d \in CoinDenoms, NEW n \in Nat,
           NEW sender \in Accounts \ {Module}, NEW receiver \in Accounts
    PROVE  Safe(ConvertCoinNativeCoin(x, c, d, n, sender, receiver).ctx, x)
<1> DEFINE escrowed == SendCoins(x, d, sender, Module, n)
           minted   == Erc20Mint(escrowed.ctx, c, receiver, n)
<1>0. d \in Denoms /\ c \in Contracts
  BY DEF Denoms, Contracts
<1>1. Safe(escrowed.ctx, x)
  BY <1>0, SendMargin, ModuleIsAccount
<1> HIDE DEF escrowed
<1>2. escrowed.ctx \in Contexts
  BY <1>1 DEF Safe
<1>3. Safe(minted.ctx, escrowed.ctx)
  BY <1>0, <1>2, Erc20MintFacts, ModuleTokenSafe
<1> HIDE DEF minted
<1>4. Safe(minted.ctx, x)
  BY <1>1, <1>3, SafeTrans
<1>5. ConvertCoinNativeCoin(x, c, d, n, sender, receiver).ctx \in {escrowed.ctx, minted.ctx}
  BY DEF ConvertCoinNativeCoin, Err, escrowed, minted
<1> QED BY <1>1, <1>4, <1>5

(* convertERC20NativeCoin is safe, wherever it stops.                      *)
LEMMA ConvertERC20NativeCoinSafe ==
    ASSUME NEW x \in Contexts, NEW c \in ModuleContracts, NEW d \in CoinDenoms, NEW n \in Nat,
           NEW sender \in Accounts, NEW receiver \in Accounts
    PROVE  Safe(ConvertERC20NativeCoin(x, c, d, n, sender, receiver).ctx, x)
<1> DEFINE burnt    == Erc20Burn(x, c, sender, n)
           released == SendCoinsFromModuleToAccount(burnt.ctx, d, receiver, n)
<1>0. d \in Denoms /\ c \in Contracts
  BY DEF Denoms, Contracts
<1>1. Safe(burnt.ctx, x)
  BY <1>0, Erc20BurnFacts, ModuleTokenSafe
<1> HIDE DEF burnt
<1>2. burnt.ctx \in Contexts
  BY <1>1 DEF Safe
<1>3. Safe(released.ctx, burnt.ctx)
  BY <1>0, <1>2, ReleaseMargin
<1> HIDE DEF released
<1>4. Safe(released.ctx, x)
  BY <1>1, <1>3, SafeTrans
<1>5. ConvertERC20NativeCoin(x, c, d, n, sender, receiver).ctx \in {burnt.ctx, released.ctx}
  BY DEF ConvertERC20NativeCoin, Err, burnt, released
<1> QED BY <1>1, <1>4, <1>5

(* Minting n coins of an external ERC20 and sending them out costs its     *)
(* margin at most n.                                                       *)
LEMMA MintRelease ==
    ASSUME NEW x \in Contexts, NEW c \in ExtContracts, NEW n \in Nat, NEW receiver \in Accounts,
           NEW y, y = SendCoinsFromModuleToAccount(
                        MintCoins(x, CreateDenom(c), n).ctx, CreateDenom(c), receiver, n).ctx
    PROVE  /\ y \in Contexts /\ SameRegistry(y, x)
           /\ Margin(y, c) >= Margin(x, c) - n
           /\ \A e \in ExtContracts \ {c} : Margin(y, e) >= Margin(x, e)
<1> DEFINE d == CreateDenom(c)
           m == MintCoins(x, d, n)
<1>0. d \in Denoms /\ \A e \in ExtContracts \ {c} : CreateDenom(e) # d
  BY ExtFacts
<1>1. Safe(m.ctx, x)
  <2>1. \A e \in Denoms : Out(x, e) \in Int
    BY ContextTypes, ModuleIsAccount DEF Out
  <2>2. /\ m.ctx \in Contexts /\ SameRegistry(m.ctx, x) /\ SameTokens(m.ctx, x)
        /\ \A e \in Denoms : Out(m.ctx, e) = Out(x, e)
    BY <1>0, MintCoinsFacts
  <2> HIDE DEF m
  <2> QED BY <2>1, <2>2, BankMargin
<1>5. y = SendCoinsFromModuleToAccount(m.ctx, d, receiver, n).ctx
  OBVIOUS
<1> HIDE DEF d, m
<1>2. m.ctx \in Contexts
  BY <1>1 DEF Safe
<1>3. /\ y \in Contexts /\ SameRegistry(y, m.ctx)
      /\ \A e \in ExtContracts : Margin(y, e) >= Margin(m.ctx, e) - n
      /\ \A e \in ExtContracts : CreateDenom(e) # d => Margin(y, e) = Margin(m.ctx, e)
  BY <1>0, <1>2, <1>5, ReleaseMargin
<1>4. \A e \in ExtContracts : /\ Margin(m.ctx, e) >= Margin(x, e)
                              /\ Margin(x, e) \in Int /\ Margin(m.ctx, e) \in Int /\ Margin(y, e) \in Int
  BY <1>1, <1>2, <1>3, MarginType DEF Safe
<1>6. SameRegistry(y, x)
  BY <1>1, <1>3 DEF Safe, SameRegistry
<1> QED BY <1>0, <1>3, <1>4, <1>6

(* convertERC20NativeToken is safe, wherever it stops: it mints only after *)
(* the check that the module's token balance grew by n.                    *)
LEMMA ConvertERC20NativeTokenSafe ==
    ASSUME NEW x \in Contexts, NEW c \in ExtContracts, NEW n \in Nat \ {0},
           NEW sender \in Accounts \ {Module}, NEW receiver \in Accounts, NEW mode
    PROVE  Safe(ConvertERC20NativeToken(x, c, CreateDenom(c), n, sender, receiver, mode).ctx, x)
<1> DEFINE d == CreateDenom(c)
           escrowed == Erc20Transfer(x, c, sender, Module, n, mode)
           minted   == MintCoins(escrowed.ctx, d, n)
           sent     == SendCoinsFromModuleToAccount(minted.ctx, d, receiver, n)
           r == ConvertERC20NativeToken(x, c, d, n, sender, receiver, mode)
<1>1. Safe(escrowed.ctx, x) /\ escrowed.ctx \in Contexts
  BY TransferMargin, ModuleIsAccount DEF Safe
<1>2. Margin(escrowed.ctx, c) - Margin(x, c) = escrowed.ctx.tok[c][Module] - x.tok[c][Module]
  BY TransferMargin, ModuleIsAccount
<1>3. \/ r.ctx = escrowed.ctx
      \/ r.ctx = sent.ctx /\ escrowed.ctx.tok[c][Module] = x.tok[c][Module] + n
  BY DEF ConvertERC20NativeToken, Err
<1> HIDE DEF escrowed
<1>4. /\ sent.ctx \in Contexts /\ SameRegistry(sent.ctx, escrowed.ctx)
      /\ Margin(sent.ctx, c) >= Margin(escrowed.ctx, c) - n
      /\ \A e \in ExtContracts \ {c} : Margin(sent.ctx, e) >= Margin(escrowed.ctx, e)
  BY <1>1, MintRelease
<1> HIDE DEF d, minted, sent, r
<1>5. ASSUME escrowed.ctx.tok[c][Module] = x.tok[c][Module] + n PROVE Safe(sent.ctx, x)
  <2>1. SameRegistry(sent.ctx, x)
    BY <1>1, <1>4 DEF Safe, SameRegistry
  <2>2. x.tok[c][Module] \in Int
    BY ContextTypes, ModuleIsAccount, ExtFacts
  <2>3. \A e \in ExtContracts : /\ Margin(escrowed.ctx, e) >= Margin(x, e)
                                /\ Margin(x, e) \in Int /\ Margin(escrowed.ctx, e) \in Int
                                /\ Margin(sent.ctx, e) \in Int
    BY <1>1, <1>4, MarginType DEF Safe
  <2>4. Margin(escrowed.ctx, c) = Margin(x, c) + n
    BY <1>2, <1>5, <2>2, <2>3
  <2>5. \A e \in ExtContracts : Margin(sent.ctx, e) >= Margin(x, e)
    BY <1>4, <2>3, <2>4
  <2> QED BY <1>4, <2>1, <2>5 DEF Safe
<1> QED BY <1>1, <1>3, <1>5 DEF r, d

(* convertCoinNativeERC20 is safe, wherever it stops: the n coins are in   *)
(* the module account before the n tokens leave it.                        *)
LEMMA ConvertCoinNativeERC20Safe ==
    ASSUME NEW x \in Contexts, NEW c \in ExtContracts, NEW n \in Nat \ {0},
           NEW sender \in Accounts \ {Module}, NEW receiver \in Accounts, NEW mode
    PROVE  Safe(ConvertCoinNativeERC20(x, c, CreateDenom(c), n, sender, receiver, mode).ctx, x)
<1> DEFINE d == CreateDenom(c)
           escrowed == SendCoins(x, d, sender, Module, n)
           released == Erc20Transfer(escrowed.ctx, c, Module, receiver, n, mode)
           burnt    == BurnCoins(released.ctx, d, Module, n)
           r == ConvertCoinNativeERC20(x, c, d, n, sender, receiver, mode)
<1>0. d \in Denoms
  BY ExtFacts
<1>1. Safe(escrowed.ctx, x) /\ escrowed.ctx \in Contexts
  BY <1>0, SendMargin, ModuleIsAccount DEF Safe
<1>2. ~Failed(escrowed) => Margin(escrowed.ctx, c) = Margin(x, c) + n
  BY <1>0, SendMargin, ModuleIsAccount
<1>3. \/ r.ctx = escrowed.ctx
      \/ r.ctx \in {released.ctx, burnt.ctx} /\ ~Failed(escrowed)
  BY DEF ConvertCoinNativeERC20, Err
<1> HIDE DEF escrowed, d
<1>4. /\ released.ctx \in Contexts /\ SameRegistry(released.ctx, escrowed.ctx)
      /\ Margin(released.ctx, c) >= Margin(escrowed.ctx, c) - n
      /\ \A e \in ExtContracts \ {c} : Margin(released.ctx, e) = Margin(escrowed.ctx, e)
  BY <1>1, TransferMargin, ModuleIsAccount
<1> HIDE DEF released
<1>5. Safe(burnt.ctx, released.ctx)
  <2>1. /\ burnt.ctx \in Contexts
        /\ SameRegistry(burnt.ctx, released.ctx) /\ SameTokens(burnt.ctx, released.ctx)
        /\ \A e \in Denoms : Out(burnt.ctx, e) <= Out(released.ctx, e)
    BY <1>0, <1>4, BurnCoinsFacts, ModuleIsAccount
  <2> HIDE DEF burnt
  <2> QED BY <1>4, <2>1, BankMargin
<1> HIDE DEF burnt, r
<1>6. ASSUME ~Failed(escrowed) PROVE Safe(released.ctx, x)
  <2>1. SameRegistry(released.ctx, x)
    BY <1>1, <1>4 DEF Safe, SameRegistry
  <2>2. \A e \in ExtContracts : /\ Margin(escrowed.ctx, e) >= Margin(x, e)
                                /\ Margin(x, e) \in Int /\ Margin(escrowed.ctx, e) \in Int
                                /\ Margin(released.ctx, e) \in Int
    BY <1>1, <1>4, MarginType DEF Safe
  <2>3. \A e \in ExtContracts : Margin(released.ctx, e) >= Margin(x, e)
    BY <1>2, <1>4, <1>6, <2>2
  <2> QED BY <1>4, <2>1, <2>3 DEF Safe
<1>7. ASSUME ~Failed(escrowed) PROVE Safe(burnt.ctx, x)
  BY <1>5, <1>6, <1>7, SafeTrans
<1> QED BY <1>1, <1>3, <1>6, <1>7 DEF r, d

(* Deleting a dead pair keeps a good context good.                         *)
LEMMA DeleteGood ==
    ASSUME NEW x, Good(x), NEW p \in TokenPair, WellOwned(p),
           x.pairs[GetID(p)] = p, p.erc20 \notin x.code
    PROVE  Good(DeleteTokenPair(x, p))
<1> DEFINE y == DeleteTokenPair(x, p)
<1>1. /\ y \in Contexts /\ RegistryOK(y)
      /\ y.code = x.code /\ SameCoins(y, x) /\ SameTokens(y, x)
  BY DeleteFacts DEF Good
<1> HIDE DEF y
<1>2. \A c : Margin(y, c) = Margin(x, c)
  BY <1>1 DEF Margin, Out, SameCoins, SameTokens
<1> QED BY <1>1, <1>2 DEF Good, Backed, y

(* ConvertCoin keeps a good context good, also when it returns an error    *)
(* after some of its writes.                                               *)
LEMMA ConvertCoinGood ==
    ASSUME NEW x, Good(x), NEW d \in Denoms, NEW n \in Nat \ {0},
           NEW sender \in Accounts \ {Module}, NEW receiver \in Accounts, NEW mode
    PROVE  Good(ConvertCoin(x, d, n, sender, receiver, mode).ctx)
<1> DEFINE p == PairOf(x, d)
           r == ConvertCoin(x, d, n, sender, receiver, mode)
<1>0. x \in Contexts /\ RegistryOK(x) /\ d \in Tokens
  BY DEF Good, Tokens
<1>1. CASE MintingEnabled(x, sender, receiver, d) # "nil"
  BY <1>1 DEF ConvertCoin, Err
<1>2. CASE MintingEnabled(x, sender, receiver, d) = "nil"
  <2>1. p # Nil
    BY <1>2 DEF MintingEnabled
  <2>2. p \in TokenPair /\ WellOwned(p) /\ x.pairs[GetID(p)] = p /\ p.denom = d
    BY <1>0, <2>1, PairOfFacts
  <2>3. r = IF p.erc20 \notin x.code THEN Ok(DeleteTokenPair(x, p))
            ELSE IF p.owner = "OWNER_MODULE"
            THEN ConvertCoinNativeCoin(x, p.erc20, d, n, sender, receiver)
            ELSE IF p.owner = "OWNER_EXTERNAL"
            THEN ConvertCoinNativeERC20(x, p.erc20, d, n, sender, receiver, mode)
            ELSE Err("ErrUndefinedOwner", x)
    BY <1>2 DEF ConvertCoin
  <2> HIDE DEF p, r
  <2>4. CASE p.erc20 \notin x.code
    BY <2>2, <2>3, <2>4, DeleteGood DEF Ok, r
  <2>5. CASE p.erc20 \in x.code /\ p.owner = "OWNER_MODULE"
    <3>1. p.erc20 \in ModuleContracts /\ d \in CoinDenoms
      BY <2>2, <2>5 DEF WellOwned
    <3>2. Safe(r.ctx, x)
      BY <1>0, <2>3, <2>5, <3>1, ConvertCoinNativeCoinSafe
    <3> QED BY <3>2, SafeGood DEF r
  <2>6. CASE p.erc20 \in x.code /\ p.owner = "OWNER_EXTERNAL"
    <3>1. p.erc20 \in ExtContracts /\ d = CreateDenom(p.erc20)
      BY <2>2, <2>6 DEF WellOwned
    <3>2. Safe(r.ctx, x)
      BY <1>0, <2>3, <2>6, <3>1, ConvertCoinNativeERC20Safe
    <3> QED BY <3>2, SafeGood DEF r
  <2>7. CASE p.erc20 \in x.code /\ p.owner \notin {"OWNER_MODULE", "OWNER_EXTERNAL"}
    BY <2>3, <2>7 DEF Err, r
  <2> QED BY <2>4, <2>5, <2>6, <2>7
<1> QED BY <1>1, <1>2

(* ConvertERC20 keeps a good context good, also when it returns an error   *)
(* after some of its writes.                                               *)
LEMMA ConvertERC20Good ==
    ASSUME NEW x, Good(x), NEW c \in Contracts, NEW n \in Nat \ {0},
           NEW sender \in Accounts \ {Module}, NEW receiver \in Accounts, NEW mode
    PROVE  Good(ConvertERC20(x, c, n, sender, receiver, mode).ctx)
<1> DEFINE p == PairOf(x, c)
           r == ConvertERC20(x, c, n, sender, receiver, mode)
<1>0. x \in Contexts /\ RegistryOK(x) /\ c \in Tokens
  BY DEF Good, Tokens
<1>1. CASE MintingEnabled(x, sender, receiver, c) # "nil"
  BY <1>1 DEF ConvertERC20, Err
<1>2. CASE MintingEnabled(x, sender, receiver, c) = "nil"
  <2>1. p # Nil
    BY <1>2 DEF MintingEnabled
  <2>2. p \in TokenPair /\ WellOwned(p) /\ x.pairs[GetID(p)] = p /\ p.erc20 = c
    BY <1>0, <2>1, PairOfFacts
  <2>3. r = IF p.erc20 \notin x.code THEN Ok(DeleteTokenPair(x, p))
            ELSE IF p.owner = "OWNER_MODULE"
            THEN ConvertERC20NativeCoin(x, c, p.denom, n, sender, receiver)
            ELSE IF p.owner = "OWNER_EXTERNAL"
            THEN ConvertERC20NativeToken(x, c, p.denom, n, sender, receiver, mode)
            ELSE Err("ErrUndefinedOwner", x)
    BY <1>2 DEF ConvertERC20
  <2> HIDE DEF p, r
  <2>4. CASE p.erc20 \notin x.code
    BY <2>2, <2>3, <2>4, DeleteGood DEF Ok, r
  <2>5. CASE p.erc20 \in x.code /\ p.owner = "OWNER_MODULE"
    <3>1. c \in ModuleContracts /\ p.denom \in CoinDenoms
      BY <2>2, <2>5 DEF WellOwned
    <3>2. Safe(r.ctx, x)
      BY <1>0, <2>3, <2>5, <3>1, ConvertERC20NativeCoinSafe
    <3> QED BY <3>2, SafeGood DEF r
  <2>6. CASE p.erc20 \in x.code /\ p.owner = "OWNER_EXTERNAL"
    <3>1. c \in ExtContracts /\ p.denom = CreateDenom(c)
      BY <2>2, <2>6 DEF WellOwned
    <3>2. Safe(r.ctx, x)
      BY <1>0, <2>3, <2>6, <3>1, ConvertERC20NativeTokenSafe
    <3> QED BY <3>2, SafeGood DEF r
  <2>7. CASE p.erc20 \in x.code /\ p.owner \notin {"OWNER_MODULE", "OWNER_EXTERNAL"}
    BY <2>3, <2>7 DEF Err, r
  <2> QED BY <2>4, <2>5, <2>6, <2>7
<1> QED BY <1>1, <1>2

(* Naturals are closed under multiplication.                               *)
LEMMA ProductNat == ASSUME NEW a \in Nat, NEW b \in Nat PROVE a * b \in Nat
OBVIOUS

(* Dividing a natural by the basis points gives a natural.                 *)
LEMMA QuotientNat == ASSUME NEW a \in Nat PROVE a \div BasisPoints \in Nat
BY DEF BasisPoints

(* The basis point fee is a natural.                                       *)
LEMMA FeeType ==
    ASSUME NEW n \in Nat, NEW bps \in 0..BasisPoints
    PROVE  CalculateBasisPointFee(n, bps) \in Nat
<1>1. bps \in Nat
  BY DEF BasisPoints
<1> QED BY <1>1, ProductNat, QuotientNat DEF CalculateBasisPointFee

(* Deducting the gas-free fee keeps a good context good.                   *)
LEMMA DeductFeeGood ==
    ASSUME params \in Params, NEW x, Good(x), NEW d \in Denoms, NEW n \in Nat,
           NEW payer \in Accounts \ {Module}
    PROVE  Good(DeductGasfreeErc20Fee(x, payer, d, n).ctx)
<1> DEFINE bps == params.feeBasisPoints
           fee == CalculateBasisPointFee(n, bps)
           sent == SendCoins(x, d, payer, FeeCollector, fee)
           paid == DeductBasisPointFee(x, d, n, bps, payer)
<1>1. fee \in Nat
  BY FeeType DEF Params
<1>2. FeeCollector \in Accounts /\ x \in Contexts
  BY DEF Accounts, ModuleAccounts, Good
<1> HIDE DEF fee
<1>3. Good(sent.ctx)
  BY <1>1, <1>2, SendMargin, SafeGood
<1>4. paid.ctx \in {x, sent.ctx}
  BY DEF DeductBasisPointFee, Ok, Err, fee
<1> HIDE DEF sent, bps
<1>5. DeductGasfreeErc20Fee(x, payer, d, n).ctx = paid.ctx
  BY DEF DeductGasfreeErc20Fee, Err, bps
<1> QED BY <1>3, <1>4, <1>5

(* SendCoinToEVM keeps a good context good.                                *)
LEMMA SendCoinToEVMGood ==
    ASSUME params \in Params, NEW x, Good(x), NEW d \in Denoms, NEW n \in Nat \ {0},
           NEW sender \in Accounts \ {Module}, NEW mode
    PROVE  Good(SendCoinToEVM(x, d, n, sender, mode).ctx)
<1> DEFINE converted == ConvertCoin(x, d, n, sender, sender, mode)
           charged == DeductGasfreeErc20Fee(converted.ctx, sender, d, n)
<1>1. Good(converted.ctx)
  BY ConvertCoinGood
<1>2. SendCoinToEVM(x, d, n, sender, mode).ctx \in {x, converted.ctx, charged.ctx}
  BY DEF SendCoinToEVM, Err
<1> HIDE DEF converted
<1>3. Good(charged.ctx)
  BY <1>1, DeductFeeGood
<1> QED BY <1>1, <1>2, <1>3

(* The pair found for a contract has a denomination of the chain.          *)
LEMMA PairDenom ==
    ASSUME NEW x, Good(x), NEW c \in Contracts, PairOf(x, c) # Nil
    PROVE  PairOf(x, c).denom \in Denoms
<1>1. c \in Tokens
  BY DEF Tokens
<1>2. PairOf(x, c) \in TokenPair
  BY <1>1, PairOfFacts DEF Good
<1> QED BY <1>2, PairFields

(* SendERC20ToCosmos keeps a good context good.                            *)
LEMMA SendERC20ToCosmosGood ==
    ASSUME params \in Params, NEW x, Good(x), NEW c \in Contracts, NEW n \in Nat \ {0},
           NEW sender \in Accounts \ {Module}, NEW mode
    PROVE  Good(SendERC20ToCosmos(x, c, n, sender, mode).ctx)
<1> DEFINE converted == ConvertERC20(x, c, n + InteropFee(n), sender, sender, mode)
           p == PairOf(converted.ctx, c)
           charged == DeductGasfreeErc20Fee(converted.ctx, sender, p.denom, n)
<1>1. InteropFee(n) \in Nat
  BY FeeType DEF InteropFee, Params
<1>2. n + InteropFee(n) \in Nat \ {0}
  BY <1>1
<1>3. Good(converted.ctx)
  BY <1>2, ConvertERC20Good
<1>4. \/ SendERC20ToCosmos(x, c, n, sender, mode).ctx \in {x, converted.ctx}
      \/ p # Nil /\ SendERC20ToCosmos(x, c, n, sender, mode).ctx = charged.ctx
  BY DEF SendERC20ToCosmos, Err
<1> HIDE DEF converted
<1>5. p # Nil => Good(charged.ctx)
  BY <1>3, PairDenom, DeductFeeGood
<1> QED BY <1>3, <1>4, <1>5

(* The ICS-20 transfer that initiateIBCTransfer makes keeps a good context *)
(* good.                                                                   *)
LEMMA TransferGood ==
    ASSUME NEW x, Good(x), NEW c \in Contracts, NEW n \in Nat \ {0},
           NEW sender \in Accounts \ {Module}, NEW open
    PROVE  Good(InitiateIBCTransfer(x, c, n, sender, open).ctx)
<1> DEFINE p == PairOf(x, c)
           d == p.denom
           r == InitiateIBCTransfer(x, c, n, sender, open)
           burnt == BurnCoins(x, d, sender, n)
           sent == SendCoins(x, d, sender, IbcEscrow, n)
<1>1. CASE p = Nil
  BY <1>1 DEF InitiateIBCTransfer, Err
<1>2. CASE p # Nil
  <2>1. d \in Denoms /\ x \in Contexts /\ IbcEscrow \in Accounts
    BY <1>2, PairDenom DEF Good, Accounts
  <2>2. r.ctx \in {x, burnt.ctx, sent.ctx}
    BY <1>2 DEF InitiateIBCTransfer, Transfer, Err
  <2> HIDE DEF p, d, r
  <2>3. Good(burnt.ctx)
    <3>1. /\ burnt.ctx \in Contexts
          /\ SameRegistry(burnt.ctx, x) /\ SameTokens(burnt.ctx, x)
          /\ \A e \in Denoms : Out(burnt.ctx, e) <= Out(x, e)
      BY <2>1, BurnCoinsFacts
    <3> HIDE DEF burnt
    <3> QED BY <2>1, <3>1, BankMargin, SafeGood
  <2>4. Good(sent.ctx)
    BY <2>1, SendMargin, SafeGood
  <2> HIDE DEF burnt, sent
  <2> QED BY <2>2, <2>3, <2>4 DEF r
<1> QED BY <1>1, <1>2

(* SendERC20ToCosmosAndIBCTransfer keeps a good context good.              *)
LEMMA SendERC20ToCosmosAndIBCTransferGood ==
    ASSUME params \in Params, NEW x, Good(x), NEW c \in Contracts, NEW n \in Nat \ {0},
           NEW sender \in Accounts \ {Module}, NEW mode, NEW open
    PROVE  Good(SendERC20ToCosmosAndIBCTransfer(x, c, n, sender, mode, open).ctx)
<1> DEFINE converted == ConvertERC20(x, c, n + InteropFee(n), sender, sender, mode)
           sent == InitiateIBCTransfer(converted.ctx, c, n, sender, open)
           p == PairOf(sent.ctx, c)
           charged == DeductGasfreeErc20Fee(sent.ctx, sender, p.denom, n)
           r == SendERC20ToCosmosAndIBCTransfer(x, c, n, sender, mode, open)
<1>1. InteropFee(n) \in Nat
  BY FeeType DEF InteropFee, Params
<1>2. n + InteropFee(n) \in Nat \ {0}
  BY <1>1
<1>3. Good(converted.ctx)
  BY <1>2, ConvertERC20Good
<1>4. \/ r.ctx \in {x, converted.ctx, sent.ctx}
      \/ p # Nil /\ r.ctx = charged.ctx
  BY DEF SendERC20ToCosmosAndIBCTransfer, Err
<1> HIDE DEF converted
<1>5. Good(sent.ctx)
  BY <1>3, TransferGood
<1> HIDE DEF sent
<1>6. p # Nil => Good(charged.ctx)
  BY <1>5, PairDenom, DeductFeeGood
<1> HIDE DEF p, charged, r
<1> QED BY <1>3, <1>4, <1>5, <1>6 DEF r

-----------------------------------------------------------------------------
(* RegisterCoin keeps a good context good: it deploys to an address that   *)
(* had no code, and no module-owned pair has such a contract.              *)
LEMMA RegisterCoinGood ==
    ASSUME NEW x, Good(x), NEW m \in CoinMetadata, NEW c \in ModuleContracts \ x.code
    PROVE  Good(RegisterCoin(x, m, c).ctx)
<1> DEFINE x1 == [x EXCEPT !.meta[m.base] = m, !.code = @ \cup {c}]
           p == NewTokenPair(c, m.base, "OWNER_MODULE")
           y == StoreTokenPair(x1, p)
<1>0. x \in Contexts /\ RegistryOK(x) /\ Backed(x)
  BY DEF Good
<1>1. m \in Metadata /\ m.base \in CoinDenoms /\ m.base \in Denoms /\ c \in Contracts
  BY Erc20Assumption DEF Denoms, Contracts
<1>2. /\ x1 \in Contexts
      /\ x1.pairs = x.pairs /\ x1.denomMap = x.denomMap /\ x1.erc20Map = x.erc20Map
      /\ x1.code = x.code \cup {c} /\ SameCoins(x1, x) /\ SameTokens(x1, x)
  <2> DEFINE me == [x.meta EXCEPT ![m.base] = m]
             co == x.code \cup {c}
  <2>1. me \in [Denoms -> Metadata \cup {Nil}] /\ co \in SUBSET Contracts
    BY <1>0, <1>1, RegistryTypes
  <2>2. x1 = [x EXCEPT !.meta = me, !.code = co]
    BY <1>0, <1>1 DEF Contexts
  <2> HIDE DEF me, x1
  <2>3. x1 \in Contexts
    BY <1>0, <2>1, <2>2 DEF Contexts
  <2> QED BY <1>0, <2>2, <2>3 DEF Contexts, SameCoins, SameTokens
<1>3. /\ p \in TokenPair /\ WellOwned(p) /\ p.erc20 = c /\ p.owner = "OWNER_MODULE"
  BY <1>1 DEF NewTokenPair, TokenPair, Owners, WellOwned
<1>4. RegisterCoin(x, m, c).ctx \in {x, y}
  BY DEF RegisterCoin, Err, Ok
<1> HIDE DEF x1, p
<1>5. RegistryOK(x1)
  BY <1>0, <1>2 DEF RegistryOK
<1>6. x.erc20Map[c] = Nil
  <2> SUFFICES ASSUME x.erc20Map[c] # Nil PROVE FALSE
    OBVIOUS
  <2> DEFINE id == x.erc20Map[c]
             q == x.pairs[id]
  <2>1. id \in Ids /\ id[1] = c /\ q # Nil
    BY <1>0, <1>1, RegistryTypes DEF RegistryOK
  <2>2. q \in TokenPair /\ WellOwned(q) /\ GetID(q) = id
    BY <1>0, <2>1, RegistryTypes DEF RegistryOK
  <2>3. q.erc20 = c
    BY <2>1, <2>2, PairFields
  <2>4. q.owner = "OWNER_MODULE"
    BY <2>2, <2>3, LedgerAssumption DEF WellOwned
  <2>5. c \in x.code
    BY <1>0, <2>1, <2>4 DEF RegistryOK
  <2> QED BY <2>5
<1>7. /\ y \in Contexts /\ RegistryOK(y)
      /\ y.code = x1.code /\ SameCoins(y, x1) /\ SameTokens(y, x1)
  BY <1>2, <1>3, <1>5, <1>6, StoreFacts
<1> HIDE DEF y
<1>8. \A e : Margin(y, e) = Margin(x, e)
  BY <1>2, <1>7 DEF Margin, Out, SameCoins, SameTokens
<1>9. ExtContracts \cap y.code = ExtContracts \cap x.code
  BY <1>2, <1>7, LedgerAssumption
<1>10. Good(y)
  BY <1>0, <1>7, <1>8, <1>9 DEF Good, Backed
<1> QED BY <1>4, <1>10

(* RegisterERC20 keeps a good context good: it refuses a contract that is  *)
(* registered.                                                             *)
LEMMA RegisterERC20Good ==
    ASSUME NEW x, Good(x), NEW c \in ExtContracts
    PROVE  Good(RegisterERC20(x, c).ctx)
<1> DEFINE d == CreateDenom(c)
           x1 == [x EXCEPT !.meta[d] = [base |-> d, name |-> d]]
           p == NewTokenPair(c, d, "OWNER_EXTERNAL")
           y == StoreTokenPair(x1, p)
<1>0. x \in Contexts /\ RegistryOK(x) /\ Backed(x)
  BY DEF Good
<1>1. d \in Denoms /\ c \in Contracts
  BY ExtFacts
<1>2. /\ x1 \in Contexts
      /\ x1.pairs = x.pairs /\ x1.denomMap = x.denomMap /\ x1.erc20Map = x.erc20Map
      /\ x1.code = x.code /\ SameCoins(x1, x) /\ SameTokens(x1, x)
  <2> DEFINE me == [x.meta EXCEPT ![d] = [base |-> d, name |-> d]]
  <2> HIDE DEF d
  <2>0. [base |-> d, name |-> d] \in Metadata
    BY <1>1 DEF Metadata
  <2>1. me \in [Denoms -> Metadata \cup {Nil}]
    BY <1>0, <1>1, <2>0, RegistryTypes
  <2>2. x1 = [x EXCEPT !.meta = me]
    BY <1>0, <1>1 DEF Contexts
  <2> HIDE DEF me, x1
  <2>3. x1 \in Contexts
    BY <1>0, <2>1, <2>2 DEF Contexts
  <2> QED BY <1>0, <2>2, <2>3 DEF Contexts, SameCoins, SameTokens
<1>3. /\ p \in TokenPair /\ WellOwned(p) /\ p.erc20 = c /\ p.owner # "OWNER_MODULE"
  BY <1>1 DEF NewTokenPair, TokenPair, Owners, WellOwned
<1>4. \/ RegisterERC20(x, c).ctx = x
      \/ RegisterERC20(x, c).ctx = y /\ x.erc20Map[c] = Nil
  <2> DEFINE created == CreateCoinMetadata(x, c)
             r == RegisterERC20(x, c)
  <2>1. \/ created = Err("ErrEVMCall", x)
        \/ created = Err("ErrInternalTokenPair", x)
        \/ created = Ok(x1)
    BY Zenon DEF CreateCoinMetadata
  <2> HIDE DEF x1, created
  <2>2. IF Failed(created) THEN created.ctx = x ELSE created.ctx = x1
    BY <2>1 DEF Err, Ok, Failed
  <2>3. \/ r \in {Err("ErrERC20Disabled", x), Err("ErrTokenPairAlreadyExists", x)}
        \/ r = created /\ Failed(created)
        \/ ~Failed(created) /\ x.erc20Map[c] = Nil /\ r = Ok(StoreTokenPair(created.ctx, p))
    BY Zenon DEF RegisterERC20, IsERC20Registered, created
  <2> HIDE DEF r, p
  <2> QED BY <2>2, <2>3 DEF Ok, Err, r
<1> HIDE DEF x1, p
<1>5. RegistryOK(x1)
  BY <1>0, <1>2 DEF RegistryOK
<1>7. x.erc20Map[c] = Nil =>
        /\ y \in Contexts /\ RegistryOK(y)
        /\ y.code = x1.code /\ SameCoins(y, x1) /\ SameTokens(y, x1)
  BY <1>2, <1>3, <1>5, StoreFacts
<1> HIDE DEF y
<1>8. x.erc20Map[c] = Nil => \A e : Margin(y, e) = Margin(x, e)
  BY <1>2, <1>7 DEF Margin, Out, SameCoins, SameTokens
<1>10. x.erc20Map[c] = Nil => Good(y)
  BY <1>0, <1>2, <1>7, <1>8 DEF Good, Backed
<1> QED BY <1>4, <1>10

(* ToggleConversion keeps a good context good.                             *)
LEMMA ToggleConversionGood ==
    ASSUME NEW x, Good(x), NEW token \in Tokens
    PROVE  Good(ToggleConversion(x, token).ctx)
<1> DEFINE p == PairOf(x, token)
           q == [p EXCEPT !.enabled = ~@]
           y == SetTokenPair(x, q)
<1>0. x \in Contexts /\ RegistryOK(x) /\ Backed(x)
  BY DEF Good
<1>1. CASE p = Nil
  BY <1>1 DEF ToggleConversion, Err
<1>2. CASE p # Nil
  <2>1. p \in TokenPair /\ WellOwned(p) /\ x.pairs[GetID(p)] = p
    BY <1>0, <1>2, PairOfFacts
  <2>2. ToggleConversion(x, token).ctx = y
    BY <1>2 DEF ToggleConversion, Ok
  <2> HIDE DEF p
  <2>3. q \in TokenPair /\ q.erc20 = p.erc20 /\ q.denom = p.denom /\ q.owner = p.owner
    BY <2>1 DEF TokenPair
  <2> HIDE DEF q
  <2>4. WellOwned(q) /\ GetID(q) = GetID(p)
    BY <2>1, <2>3 DEF WellOwned, GetID
  <2> DEFINE i == GetID(p)
             ps == [x.pairs EXCEPT ![i] = q]
  <2>5. i \in Ids /\ i # Nil /\ q # Nil /\ i = GetID(q) /\ x.pairs[i] = p /\ p # Nil
    BY <1>2, <2>1, <2>3, <2>4, PairFields
  <2> HIDE DEF i
  <2>6. /\ ps \in [Ids -> TokenPair \cup {Nil}]
        /\ ps[i] = q /\ \A j \in Ids \ {i} : ps[j] = x.pairs[j]
    BY <1>0, <2>3, <2>5, RegistryTypes
  <2>7. y = [x EXCEPT !.pairs = ps]
    BY <1>0, <2>5 DEF SetTokenPair, Contexts
  <2> HIDE DEF ps, y
  <2>8. y \in Contexts
    BY <1>0, <2>6, <2>7 DEF Contexts
  <2>9. /\ y.pairs = ps /\ y.denomMap = x.denomMap /\ y.erc20Map = x.erc20Map
        /\ y.code = x.code /\ SameCoins(y, x) /\ SameTokens(y, x)
    BY <1>0, <2>7 DEF Contexts, SameCoins, SameTokens
  <2>10. \A id \in Ids : /\ y.pairs[id] # Nil <=> x.pairs[id] # Nil
                         /\ y.pairs[id] # Nil =>
                               /\ GetID(y.pairs[id]) = GetID(x.pairs[id])
                               /\ WellOwned(y.pairs[id])
                               /\ y.pairs[id].owner = x.pairs[id].owner
    <3> SUFFICES ASSUME NEW id \in Ids
                 PROVE  /\ y.pairs[id] # Nil <=> x.pairs[id] # Nil
                        /\ y.pairs[id] # Nil =>
                              /\ GetID(y.pairs[id]) = GetID(x.pairs[id])
                              /\ WellOwned(y.pairs[id])
                              /\ y.pairs[id].owner = x.pairs[id].owner
      OBVIOUS
    <3>1. CASE id = i
      BY <3>1, <2>3, <2>4, <2>5, <2>6, <2>9
    <3>2. CASE id # i
      BY <3>2, <1>0, <2>6, <2>9 DEF RegistryOK
    <3> QED BY <3>1, <3>2
  <2>11. RegistryOK(y)
    <3>1. \A id \in Ids : y.pairs[id] # Nil =>
             /\ GetID(y.pairs[id]) = id
             /\ WellOwned(y.pairs[id])
             /\ y.pairs[id].owner = "OWNER_MODULE" => id[1] \in y.code
             /\ y.erc20Map[id[1]] = id
             /\ y.denomMap[id[2]] # Nil
      BY <1>0, <2>9, <2>10 DEF RegistryOK
    <3>2. ASSUME NEW c \in Contracts, y.erc20Map[c] # Nil
          PROVE  y.erc20Map[c][1] = c /\ y.pairs[y.erc20Map[c]] # Nil
      <4>1. y.erc20Map[c] \in Ids
        BY <1>0, <2>9, <3>2, RegistryTypes
      <4>2. x.erc20Map[c][1] = c /\ x.pairs[x.erc20Map[c]] # Nil
        BY <1>0, <2>9, <3>2 DEF RegistryOK
      <4> QED BY <2>9, <2>10, <4>1, <4>2
    <3>3. ASSUME NEW d \in Denoms, y.denomMap[d] # Nil
          PROVE  y.denomMap[d][2] = d /\ y.pairs[y.denomMap[d]] # Nil
      <4>1. y.denomMap[d] \in Ids
        BY <1>0, <2>9, <3>3, RegistryTypes
      <4>2. x.denomMap[d][2] = d /\ x.pairs[x.denomMap[d]] # Nil
        BY <1>0, <2>9, <3>3 DEF RegistryOK
      <4> QED BY <2>9, <2>10, <4>1, <4>2
    <3> QED BY <3>1, <3>2, <3>3 DEF RegistryOK
  <2>12. \A e : Margin(y, e) = Margin(x, e)
    BY <2>9 DEF Margin, Out, SameCoins, SameTokens
  <2>13. Good(y)
    BY <1>0, <2>8, <2>9, <2>11, <2>12 DEF Good, Backed
  <2> QED BY <2>2, <2>13
<1> QED BY <1>1, <1>2
=============================================================================
