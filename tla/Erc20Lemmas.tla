---------------------------- MODULE Erc20Lemmas -----------------------------
(***************************************************************************)
(* What the operations of the ledgers and of the token pair registry do to *)
(* a context: the facts the proofs about the conversions rest on.          *)
(***************************************************************************)
EXTENDS Erc20, TLAPS

(* What an operation leaves alone.                                         *)
SameRegistry(y, x) ==
    /\ y.pairs = x.pairs /\ y.denomMap = x.denomMap /\ y.erc20Map = x.erc20Map
    /\ y.meta = x.meta /\ y.code = x.code
SameCoins(y, x) == y.coin = x.coin /\ y.supply = x.supply
SameTokens(y, x) == y.tok = x.tok /\ y.total = x.total

(* The writes the ledger operations make, as operators the provers can     *)
(* treat as one term.                                                      *)
SetCoin(x, d, f) == [x EXCEPT !.coin[d] = f]
SetCoinSupply(x, d, f, s) == [x EXCEPT !.coin[d] = f, !.supply[d] = s]
SetTok(x, c, f, s) == [x EXCEPT !.tok[c] = f, !.total[c] = s]

(* Writing one denomination's balances and supply gives a context that     *)
(* differs from the old one there only.                                    *)
LEMMA CoinUpdate ==
    ASSUME NEW x \in Contexts, NEW d \in Denoms, NEW f \in [Accounts -> Nat], NEW s \in Nat
    PROVE  LET y == SetCoinSupply(x, d, f, s)
           IN  /\ y \in Contexts
               /\ SameRegistry(y, x) /\ SameTokens(y, x)
               /\ y.coin[d] = f /\ y.supply[d] = s
               /\ \A e \in Denoms \ {d} : y.coin[e] = x.coin[e] /\ y.supply[e] = x.supply[e]
<1> DEFINE y == SetCoinSupply(x, d, f, s)
           g == [x.coin EXCEPT ![d] = f]
           t == [x.supply EXCEPT ![d] = s]
<1>1. g \in [Denoms -> [Accounts -> Nat]] /\ t \in [Denoms -> Nat]
  BY DEF Contexts
<1>2. y = [x EXCEPT !.coin = g, !.supply = t]
  BY DEF Contexts, SetCoinSupply
<1>3. g[d] = f /\ t[d] = s /\ \A e \in Denoms \ {d} : g[e] = x.coin[e] /\ t[e] = x.supply[e]
  BY DEF Contexts
<1> HIDE DEF y, g, t
<1>4. y \in Contexts
  BY <1>1, <1>2 DEF Contexts
<1>5. SameRegistry(y, x) /\ SameTokens(y, x) /\ y.coin = g /\ y.supply = t
  BY <1>2 DEF Contexts, SameRegistry, SameTokens
<1> QED BY <1>3, <1>4, <1>5 DEF y

(* The same for the balances alone.                                        *)
LEMMA CoinMove ==
    ASSUME NEW x \in Contexts, NEW d \in Denoms, NEW f \in [Accounts -> Nat]
    PROVE  LET y == SetCoin(x, d, f)
           IN  /\ y \in Contexts
               /\ SameRegistry(y, x) /\ SameTokens(y, x)
               /\ y.coin[d] = f /\ y.supply = x.supply
               /\ \A e \in Denoms \ {d} : y.coin[e] = x.coin[e]
<1> DEFINE y == SetCoin(x, d, f)
           g == [x.coin EXCEPT ![d] = f]
<1>1. g \in [Denoms -> [Accounts -> Nat]]
  BY DEF Contexts
<1>2. y = [x EXCEPT !.coin = g]
  BY DEF Contexts, SetCoin
<1>3. g[d] = f /\ \A e \in Denoms \ {d} : g[e] = x.coin[e]
  BY DEF Contexts
<1> HIDE DEF y, g
<1>4. y \in Contexts
  BY <1>1, <1>2 DEF Contexts
<1>5. SameRegistry(y, x) /\ SameTokens(y, x) /\ y.coin = g /\ y.supply = x.supply
  BY <1>2 DEF Contexts, SameRegistry, SameTokens
<1> QED BY <1>3, <1>4, <1>5 DEF y

(* The same for one contract's balances and totalSupply.                   *)
LEMMA TokenUpdate ==
    ASSUME NEW x \in Contexts, NEW c \in Contracts, NEW f \in [Accounts -> Nat], NEW s \in Int
    PROVE  LET y == SetTok(x, c, f, s)
           IN  /\ y \in Contexts
               /\ SameRegistry(y, x) /\ SameCoins(y, x)
               /\ y.tok[c] = f /\ y.total[c] = s
               /\ \A e \in Contracts \ {c} : y.tok[e] = x.tok[e] /\ y.total[e] = x.total[e]
<1> DEFINE y == SetTok(x, c, f, s)
           g == [x.tok EXCEPT ![c] = f]
           t == [x.total EXCEPT ![c] = s]
<1>1. g \in [Contracts -> [Accounts -> Nat]] /\ t \in [Contracts -> Int]
  BY DEF Contexts
<1>2. y = [x EXCEPT !.tok = g, !.total = t]
  BY DEF Contexts, SetTok
<1>3. g[c] = f /\ t[c] = s /\ \A e \in Contracts \ {c} : g[e] = x.tok[e] /\ t[e] = x.total[e]
  BY DEF Contexts
<1> HIDE DEF y, g, t
<1>4. y \in Contexts
  BY <1>1, <1>2 DEF Contexts
<1>5. SameRegistry(y, x) /\ SameCoins(y, x) /\ y.tok = g /\ y.total = t
  BY <1>2 DEF Contexts, SameRegistry, SameCoins
<1> QED BY <1>3, <1>4, <1>5 DEF y

-----------------------------------------------------------------------------

(* The types of the ledger entries of a context.                           *)
LEMMA ContextTypes ==
    ASSUME NEW x \in Contexts
    PROVE  /\ \A d \in Denoms : x.coin[d] \in [Accounts -> Nat] /\ x.supply[d] \in Nat
           /\ \A c \in Contracts : x.tok[c] \in [Accounts -> Nat] /\ x.total[c] \in Int
BY DEF Contexts

(* The x/erc20 module account is an account.                               *)
LEMMA ModuleIsAccount == Module \in Accounts
BY DEF Accounts, ModuleAccounts

(* The denomination of an external ERC20 is no coin denomination and       *)
(* belongs to that contract alone.                                         *)
LEMMA ExtFacts ==
    ASSUME NEW c \in ExtContracts
    PROVE  /\ c \in Contracts /\ c \notin ModuleContracts
           /\ CreateDenom(c) \in Denoms /\ CreateDenom(c) \notin CoinDenoms
           /\ \A e \in ExtContracts : CreateDenom(e) = CreateDenom(c) => e = c
BY LedgerAssumption DEF Contracts, Denoms, Erc20Denoms, CreateDenom

(* The margin of an external ERC20 is an integer.                          *)
LEMMA MarginType ==
    ASSUME NEW x \in Contexts, NEW c \in ExtContracts
    PROVE  Margin(x, c) \in Int
BY ContextTypes, ModuleIsAccount, ExtFacts DEF Margin, Out

(* The bank's SendCoins changes no token and no other denomination; only   *)
(* a send by the module account can raise the coins outside it.            *)
LEMMA SendCoinsFacts ==
    ASSUME NEW x \in Contexts, NEW d \in Denoms, NEW from \in Accounts, NEW to \in Accounts,
           NEW n \in Nat, NEW r, r = SendCoins(x, d, from, to, n)
    PROVE  /\ r.ctx \in Contexts
           /\ SameRegistry(r.ctx, x) /\ SameTokens(r.ctx, x)
           /\ Out(r.ctx, d) <= Out(x, d) + n
           /\ from # Module => Out(r.ctx, d) <= Out(x, d)
           /\ from # Module /\ to = Module /\ ~Failed(r) => Out(r.ctx, d) = Out(x, d) - n
           /\ \A e \in Denoms \ {d} : Out(r.ctx, e) = Out(x, e)
<1> DEFINE f == Credit(Debit(x.coin[d], from, n), to, n)
<1>1. x.coin[d] \in [Accounts -> Nat] /\ x.supply[d] \in Nat
  BY ContextTypes
<1>2. CASE x.coin[d][from] < n
  <2>1. r = [err |-> "ErrInsufficientFunds", ctx |-> x]
    BY <1>2 DEF SendCoins, Err
  <2>2. r.ctx = x /\ Failed(r)
    BY <2>1 DEF Failed
  <2> QED BY <1>1, <2>2, ModuleIsAccount DEF Out, SameRegistry, SameTokens
<1>3. CASE ~(x.coin[d][from] < n)
  <2>1. f \in [Accounts -> Nat]
    BY <1>1, <1>3 DEF Credit, Debit
  <2>2. /\ f[Module] >= x.coin[d][Module] - n
        /\ from # Module => f[Module] >= x.coin[d][Module]
        /\ from # Module /\ to = Module => f[Module] = x.coin[d][Module] + n
    BY <1>1, ModuleIsAccount DEF Credit, Debit
  <2>3. r = [err |-> "nil", ctx |-> SetCoin(x, d, f)]
    BY <1>3 DEF SendCoins, Ok, SetCoin
  <2>4. r.ctx = SetCoin(x, d, f) /\ ~Failed(r)
    BY <2>3 DEF Failed
  <2> HIDE DEF f
  <2>5. /\ r.ctx \in Contexts
        /\ SameRegistry(r.ctx, x) /\ SameTokens(r.ctx, x)
        /\ r.ctx.coin[d] = f /\ r.ctx.supply = x.supply
        /\ \A e \in Denoms \ {d} : r.ctx.coin[e] = x.coin[e]
    BY <2>1, <2>4, CoinMove
  <2> QED BY <1>1, <2>1, <2>2, <2>5, ModuleIsAccount DEF Out
<1> QED BY <1>2, <1>3

(* MintCoins mints into the module account, so the coins outside it stay   *)
(* the same.                                                               *)
LEMMA MintCoinsFacts ==
    ASSUME NEW x \in Contexts, NEW d \in Denoms, NEW n \in Nat, NEW r, r = MintCoins(x, d, n)
    PROVE  /\ r.ctx \in Contexts /\ ~Failed(r)
           /\ SameRegistry(r.ctx, x) /\ SameTokens(r.ctx, x)
           /\ \A e \in Denoms : Out(r.ctx, e) = Out(x, e)
<1> DEFINE f == Credit(x.coin[d], Module, n)
           s == x.supply[d] + n
<1>1. x.coin[d] \in [Accounts -> Nat] /\ x.supply[d] \in Nat
  BY ContextTypes
<1>2. f \in [Accounts -> Nat] /\ f[Module] = x.coin[d][Module] + n
  BY <1>1, ModuleIsAccount DEF Credit
<1>3. s \in Nat
  BY <1>1
<1>4. r = [err |-> "nil", ctx |-> SetCoinSupply(x, d, f, s)]
  BY DEF MintCoins, Ok, SetCoinSupply
<1>5. r.ctx = SetCoinSupply(x, d, f, s) /\ ~Failed(r)
  BY <1>4 DEF Failed
<1> HIDE DEF f, s
<1>6. /\ r.ctx \in Contexts
      /\ SameRegistry(r.ctx, x) /\ SameTokens(r.ctx, x)
      /\ r.ctx.coin[d] = f /\ r.ctx.supply[d] = s
      /\ \A e \in Denoms \ {d} : r.ctx.coin[e] = x.coin[e] /\ r.ctx.supply[e] = x.supply[e]
  BY <1>2, <1>3, <1>5, CoinUpdate
<1> QED BY <1>1, <1>2, <1>5, <1>6, ModuleIsAccount DEF Out, s

(* BurnCoins never raises the coins outside the module account.            *)
LEMMA BurnCoinsFacts ==
    ASSUME NEW x \in Contexts, NEW d \in Denoms, NEW from \in Accounts, NEW n \in Nat,
           NEW r, r = BurnCoins(x, d, from, n)
    PROVE  /\ r.ctx \in Contexts
           /\ SameRegistry(r.ctx, x) /\ SameTokens(r.ctx, x)
           /\ \A e \in Denoms : Out(r.ctx, e) <= Out(x, e)
<1> DEFINE f == Debit(x.coin[d], from, n)
           s == x.supply[d] - n
<1>1. x.coin[d] \in [Accounts -> Nat] /\ x.supply[d] \in Nat
  BY ContextTypes
<1>0. \A e \in Denoms : Out(x, e) \in Int
  BY ContextTypes, ModuleIsAccount DEF Out
<1>2. CASE x.coin[d][from] < n \/ x.supply[d] < n
  <2>1. r.ctx = x
    BY <1>2 DEF BurnCoins, Err
  <2> QED BY <2>1, <1>0 DEF SameRegistry, SameTokens
<1>3. CASE ~(x.coin[d][from] < n \/ x.supply[d] < n)
  <2>1. f \in [Accounts -> Nat] /\ s \in Nat
    BY <1>1, <1>3 DEF Debit
  <2>2. f[Module] >= x.coin[d][Module] - n
    BY <1>1, ModuleIsAccount DEF Debit
  <2>3. r = [err |-> "nil", ctx |-> SetCoinSupply(x, d, f, s)]
    BY <1>3 DEF BurnCoins, Ok, SetCoinSupply
  <2>4. r.ctx = SetCoinSupply(x, d, f, s)
    BY <2>3
  <2> HIDE DEF f, s
  <2>5. /\ r.ctx \in Contexts
        /\ SameRegistry(r.ctx, x) /\ SameTokens(r.ctx, x)
        /\ r.ctx.coin[d] = f /\ r.ctx.supply[d] = s
        /\ \A e \in Denoms \ {d} : r.ctx.coin[e] = x.coin[e] /\ r.ctx.supply[e] = x.supply[e]
    BY <2>1, <2>4, CoinUpdate
  <2>6. Out(r.ctx, d) <= Out(x, d)
    BY <1>1, <2>1, <2>2, <2>5, ModuleIsAccount DEF Out, s
  <2>7. \A e \in Denoms \ {d} : Out(r.ctx, e) = Out(x, e)
    BY <2>5 DEF Out
  <2> QED BY <1>0, <2>5, <2>6, <2>7
<1> QED BY <1>2, <1>3

(* A mint of the module's own contract touches that contract only.         *)
LEMMA Erc20MintFacts ==
    ASSUME NEW x \in Contexts, NEW c \in Contracts, NEW to \in Accounts, NEW n \in Nat,
           NEW r, r = Erc20Mint(x, c, to, n)
    PROVE  /\ r.ctx \in Contexts
           /\ SameRegistry(r.ctx, x) /\ SameCoins(r.ctx, x)
           /\ \A e \in Contracts \ {c} : r.ctx.tok[e] = x.tok[e]
<1> DEFINE f == Credit(x.tok[c], to, n)
           s == x.total[c] + n
<1>1. x.tok[c] \in [Accounts -> Nat] /\ x.total[c] \in Int
  BY ContextTypes
<1>2. CASE to = ZeroAddress
  <2>1. r.ctx = x
    BY <1>2 DEF Erc20Mint, Err
  <2> QED BY <2>1 DEF SameRegistry, SameCoins
<1>3. CASE to # ZeroAddress
  <2>1. f \in [Accounts -> Nat] /\ s \in Int
    BY <1>1 DEF Credit
  <2>2. r.ctx = SetTok(x, c, f, s)
    BY <1>3 DEF Erc20Mint, Ok, SetTok
  <2> HIDE DEF f, s
  <2> QED BY <2>1, <2>2, TokenUpdate
<1> QED BY <1>2, <1>3

(* A burn touches the contract it is made on only.                         *)
LEMMA Erc20BurnFacts ==
    ASSUME NEW x \in Contexts, NEW c \in Contracts, NEW from \in Accounts, NEW n \in Nat,
           NEW r, r = Erc20Burn(x, c, from, n)
    PROVE  /\ r.ctx \in Contexts
           /\ SameRegistry(r.ctx, x) /\ SameCoins(r.ctx, x)
           /\ \A e \in Contracts \ {c} : r.ctx.tok[e] = x.tok[e]
<1> DEFINE f == Debit(x.tok[c], from, n)
           s == x.total[c] - n
<1>1. x.tok[c] \in [Accounts -> Nat] /\ x.total[c] \in Int
  BY ContextTypes
<1>2. CASE x.tok[c][from] < n
  <2>1. r.ctx = x
    BY <1>2 DEF Erc20Burn, Err
  <2> QED BY <2>1 DEF SameRegistry, SameCoins
<1>3. CASE ~(x.tok[c][from] < n)
  <2>1. f \in [Accounts -> Nat] /\ s \in Int
    BY <1>1, <1>3 DEF Debit
  <2>2. r.ctx = SetTok(x, c, f, s)
    BY <1>3 DEF Erc20Burn, Ok, SetTok
  <2> HIDE DEF f, s
  <2> QED BY <2>1, <2>2, TokenUpdate
<1> QED BY <1>2, <1>3

(* A token transfer, whatever its mode: the module's balance falls by at   *)
(* most n, never when another account sends, and rises by what the log of  *)
(* the transfer says when it is the recipient.                             *)
LEMMA Erc20TransferFacts ==
    ASSUME NEW x \in Contexts, NEW c \in Contracts, NEW from \in Accounts, NEW to \in Accounts,
           NEW n \in Nat \ {0}, NEW mode, NEW r, r = Erc20Transfer(x, c, from, to, n, mode)
    PROVE  /\ r.ctx \in Contexts
           /\ SameRegistry(r.ctx, x) /\ SameCoins(r.ctx, x)
           /\ \A e \in Contracts \ {c} : r.ctx.tok[e] = x.tok[e]
           /\ r.ctx.tok[c][Module] >= x.tok[c][Module] - n
           /\ from # Module => r.ctx.tok[c][Module] >= x.tok[c][Module]
           /\ from # Module /\ to = Module /\ ~Failed(r) =>
                 r.ctx.tok[c][Module] = x.tok[c][Module] + (IF mode = "short" THEN n - 1 ELSE n)
<1> DEFINE lost == IF mode = "short" THEN 1 ELSE 0
           f == Credit(Debit(x.tok[c], from, n), to, n - lost)
           s == x.total[c] - lost
<1>1. x.tok[c] \in [Accounts -> Nat] /\ x.total[c] \in Int
  BY ContextTypes
<1>2. CASE mode = "fail" \/ to = ZeroAddress \/ x.tok[c][from] < n
  <2>1. r = [err |-> "ErrEVMCall", ctx |-> x]
    BY <1>2 DEF Erc20Transfer, Err
  <2>2. r.ctx = x /\ Failed(r)
    BY <2>1 DEF Failed
  <2> QED BY <1>1, <2>2, ModuleIsAccount DEF SameRegistry, SameCoins
<1>3. CASE ~(mode = "fail" \/ to = ZeroAddress \/ x.tok[c][from] < n)
  <2>0. lost \in {0, 1} /\ n - lost \in Nat /\ n - lost = (IF mode = "short" THEN n - 1 ELSE n)
    OBVIOUS
  <2>2. r = [err |-> "nil", ctx |-> SetTok(x, c, f, s)]
    BY <1>3 DEF Erc20Transfer, Ok, SetTok
  <2>3. r.ctx = SetTok(x, c, f, s) /\ ~Failed(r)
    BY <2>2 DEF Failed
  <2> HIDE DEF lost
  <2>1. f \in [Accounts -> Nat] /\ s \in Int
    BY <1>1, <1>3, <2>0 DEF Credit, Debit
  <2>4. /\ f[Module] >= x.tok[c][Module] - n
        /\ from # Module => f[Module] >= x.tok[c][Module]
        /\ from # Module /\ to = Module => f[Module] = x.tok[c][Module] + (n - lost)
    BY <1>1, <2>0, ModuleIsAccount DEF Credit, Debit
  <2> HIDE DEF f, s
  <2>5. /\ r.ctx \in Contexts
        /\ SameRegistry(r.ctx, x) /\ SameCoins(r.ctx, x)
        /\ r.ctx.tok[c] = f
        /\ \A e \in Contracts \ {c} : r.ctx.tok[e] = x.tok[e]
    BY <2>1, <2>3, TokenUpdate
  <2> QED BY <2>0, <2>3, <2>4, <2>5
<1> QED BY <1>2, <1>3

-----------------------------------------------------------------------------
(* The registry part of the inductive invariant: RegistryConsistent, and   *)
(* that a stored pair is well-owned and a module-owned one has code, which *)
(* the deletion of dead pairs and the deployment of new ones rely on.      *)
RegistryOK(x) ==
    /\ \A id \in Ids : x.pairs[id] # Nil =>
          /\ GetID(x.pairs[id]) = id
          /\ WellOwned(x.pairs[id])
          /\ x.pairs[id].owner = "OWNER_MODULE" => id[1] \in x.code
          /\ x.erc20Map[id[1]] = id
          /\ x.denomMap[id[2]] # Nil
    /\ \A c \in Contracts : x.erc20Map[c] # Nil =>
          x.erc20Map[c][1] = c /\ x.pairs[x.erc20Map[c]] # Nil
    /\ \A d \in Denoms : x.denomMap[d] # Nil =>
          x.denomMap[d][2] = d /\ x.pairs[x.denomMap[d]] # Nil

(* The types of the registry's entries in a context.                       *)
LEMMA RegistryTypes ==
    ASSUME NEW x \in Contexts
    PROVE  /\ x.pairs \in [Ids -> TokenPair \cup {Nil}]
           /\ x.denomMap \in [Denoms -> Ids \cup {Nil}]
           /\ x.erc20Map \in [Contracts -> Ids \cup {Nil}]
           /\ x.meta \in [Denoms -> Metadata \cup {Nil}]
           /\ x.code \in SUBSET Contracts
BY DEF Contexts

(* The types of a pair's fields and of its id.                             *)
LEMMA PairFields ==
    ASSUME NEW p \in TokenPair
    PROVE  /\ p.erc20 \in Contracts /\ p.denom \in Denoms /\ p.owner \in Owners
           /\ GetID(p) \in Ids /\ GetID(p)[1] = p.erc20 /\ GetID(p)[2] = p.denom
           /\ p # Nil /\ GetID(p) # Nil
BY TokenPairsAssumption DEF TokenPair, Ids, GetID

(* An id is the contract and the denomination of its pair.                 *)
LEMMA IdFields ==
    ASSUME NEW id \in Ids
    PROVE  id[1] \in Contracts /\ id[2] \in Denoms /\ id = <<id[1], id[2]>> /\ id # Nil
BY TokenPairsAssumption DEF Ids

(* A lookup by contract or by denomination finds a well-owned stored pair  *)
(* of that contract or denomination.                                       *)
LEMMA PairOfFacts ==
    ASSUME NEW x \in Contexts, RegistryOK(x), NEW token \in Tokens,
           NEW p, p = PairOf(x, token), p # Nil
    PROVE  /\ p \in TokenPair /\ WellOwned(p) /\ x.pairs[GetID(p)] = p
           /\ token \in Contracts => p.erc20 = token
           /\ token \in Denoms => p.denom = token
<1> DEFINE id == GetTokenPairID(x, token)
<1>1. id \in Ids /\ p = x.pairs[id]
  BY RegistryTypes DEF PairOf, GetTokenPair, GetTokenPairID, Tokens
<1>2. token \in Contracts => id = x.erc20Map[token] /\ id[1] = token
  BY <1>1, IdFields DEF RegistryOK, GetTokenPairID
<1>3. token \in Denoms => id = x.denomMap[token] /\ id[2] = token
  BY <1>1, IdFields, LedgerAssumption DEF RegistryOK, GetTokenPairID
<1> HIDE DEF id
<1>4. p \in TokenPair
  BY <1>1, RegistryTypes
<1>5. GetID(p) = id /\ WellOwned(p)
  BY <1>1 DEF RegistryOK
<1> QED BY <1>1, <1>2, <1>3, <1>4, <1>5, PairFields

(* Registering a pair for a contract without one keeps the registry        *)
(* consistent.                                                             *)
LEMMA StoreFacts ==
    ASSUME NEW x \in Contexts, RegistryOK(x), NEW p \in TokenPair, WellOwned(p),
           x.erc20Map[p.erc20] = Nil,
           p.owner = "OWNER_MODULE" => p.erc20 \in x.code,
           NEW y, y = StoreTokenPair(x, p)
    PROVE  /\ y \in Contexts /\ RegistryOK(y)
           /\ y.code = x.code /\ SameCoins(y, x) /\ SameTokens(y, x)
<1> DEFINE i == GetID(p)
           ps == [x.pairs EXCEPT ![i] = p]
           dm == [x.denomMap EXCEPT ![p.denom] = i]
           em == [x.erc20Map EXCEPT ![p.erc20] = i]
<1>1. /\ i \in Ids /\ i # Nil /\ p # Nil /\ p.erc20 \in Contracts /\ p.denom \in Denoms
      /\ i[1] = p.erc20 /\ i[2] = p.denom
  BY PairFields
<1>2. y = [x EXCEPT !.pairs = ps, !.denomMap = dm, !.erc20Map = em]
  BY DEF StoreTokenPair, Contexts
<1> HIDE DEF i
<1>3. /\ ps \in [Ids -> TokenPair \cup {Nil}]
      /\ dm \in [Denoms -> Ids \cup {Nil}]
      /\ em \in [Contracts -> Ids \cup {Nil}]
  BY <1>1, RegistryTypes
<1>4. /\ ps[i] = p /\ \A j \in Ids \ {i} : ps[j] = x.pairs[j]
      /\ dm[p.denom] = i /\ \A d \in Denoms \ {p.denom} : dm[d] = x.denomMap[d]
      /\ em[p.erc20] = i /\ \A c \in Contracts \ {p.erc20} : em[c] = x.erc20Map[c]
  BY <1>1, RegistryTypes
<1> HIDE DEF ps, dm, em
<1>5. y \in Contexts
  BY <1>2, <1>3 DEF Contexts
<1>6. /\ y.pairs = ps /\ y.denomMap = dm /\ y.erc20Map = em
      /\ y.code = x.code /\ SameCoins(y, x) /\ SameTokens(y, x)
  BY <1>2 DEF Contexts, SameCoins, SameTokens
<1>7. ASSUME NEW id \in Ids, y.pairs[id] # Nil
      PROVE  /\ GetID(y.pairs[id]) = id
             /\ WellOwned(y.pairs[id])
             /\ y.pairs[id].owner = "OWNER_MODULE" => id[1] \in y.code
             /\ y.erc20Map[id[1]] = id
             /\ y.denomMap[id[2]] # Nil
  <2>1. CASE id = i
    BY <2>1, <1>1, <1>4, <1>6 DEF i
  <2>2. CASE id # i
    <3>1. y.pairs[id] = x.pairs[id] /\ x.erc20Map[id[1]] = id /\ x.denomMap[id[2]] # Nil
      BY <2>2, <1>4, <1>6, <1>7 DEF RegistryOK
    <3>2. id[1] # p.erc20
      BY <3>1, <1>7, IdFields
    <3> QED BY <3>1, <3>2, <1>1, <1>4, <1>6, <1>7, IdFields DEF RegistryOK
  <2> QED BY <2>1, <2>2
<1>8. ASSUME NEW c \in Contracts, y.erc20Map[c] # Nil
      PROVE  y.erc20Map[c][1] = c /\ y.pairs[y.erc20Map[c]] # Nil
  BY <1>8, <1>1, <1>4, <1>6, RegistryTypes DEF RegistryOK
<1>9. ASSUME NEW d \in Denoms, y.denomMap[d] # Nil
      PROVE  y.denomMap[d][2] = d /\ y.pairs[y.denomMap[d]] # Nil
  BY <1>9, <1>1, <1>4, <1>6, RegistryTypes DEF RegistryOK
<1> QED BY <1>5, <1>6, <1>7, <1>8, <1>9 DEF RegistryOK

(* Deleting the pair of a contract without code (ConvertCoin and           *)
(* ConvertERC20 do) keeps the registry consistent: such a contract is      *)
(* external, so no other pair shares its denomination.                     *)
LEMMA DeleteFacts ==
    ASSUME NEW x \in Contexts, RegistryOK(x), NEW p \in TokenPair, WellOwned(p),
           x.pairs[GetID(p)] = p, p.erc20 \notin x.code,
           NEW y, y = DeleteTokenPair(x, p)
    PROVE  /\ y \in Contexts /\ RegistryOK(y)
           /\ y.code = x.code /\ SameCoins(y, x) /\ SameTokens(y, x)
<1> DEFINE i == GetID(p)
           ps == [x.pairs EXCEPT ![i] = Nil]
           dm == [x.denomMap EXCEPT ![p.denom] = Nil]
           em == [x.erc20Map EXCEPT ![p.erc20] = Nil]
<1>1. /\ i \in Ids /\ i # Nil /\ p # Nil /\ p.erc20 \in Contracts /\ p.denom \in Denoms
      /\ i[1] = p.erc20 /\ i[2] = p.denom
  BY PairFields
<1>2. y = [x EXCEPT !.pairs = ps, !.denomMap = dm, !.erc20Map = em]
  BY DEF DeleteTokenPair, Contexts
<1>a. x.pairs[i] = p
  OBVIOUS
<1> HIDE DEF i
<1>3. /\ ps \in [Ids -> TokenPair \cup {Nil}]
      /\ dm \in [Denoms -> Ids \cup {Nil}]
      /\ em \in [Contracts -> Ids \cup {Nil}]
  BY <1>1, RegistryTypes
<1>4. /\ ps[i] = Nil /\ \A j \in Ids \ {i} : ps[j] = x.pairs[j]
      /\ dm[p.denom] = Nil /\ \A d \in Denoms \ {p.denom} : dm[d] = x.denomMap[d]
      /\ em[p.erc20] = Nil /\ \A c \in Contracts \ {p.erc20} : em[c] = x.erc20Map[c]
  BY <1>1, RegistryTypes
<1> HIDE DEF ps, dm, em
<1>5. y \in Contexts
  BY <1>2, <1>3 DEF Contexts
<1>6. /\ y.pairs = ps /\ y.denomMap = dm /\ y.erc20Map = em
      /\ y.code = x.code /\ SameCoins(y, x) /\ SameTokens(y, x)
  BY <1>2 DEF Contexts, SameCoins, SameTokens
<1>b. p.erc20 \in ExtContracts /\ p.denom = CreateDenom(p.erc20)
  BY <1>1, <1>a DEF RegistryOK, WellOwned
<1>7. ASSUME NEW id \in Ids, y.pairs[id] # Nil
      PROVE  /\ GetID(y.pairs[id]) = id
             /\ WellOwned(y.pairs[id])
             /\ y.pairs[id].owner = "OWNER_MODULE" => id[1] \in y.code
             /\ y.erc20Map[id[1]] = id
             /\ y.denomMap[id[2]] # Nil
  <2>1. id # i /\ y.pairs[id] = x.pairs[id]
    BY <1>4, <1>6, <1>7
  <2> DEFINE q == x.pairs[id]
  <2>2. /\ GetID(q) = id /\ WellOwned(q) /\ x.erc20Map[id[1]] = id /\ x.denomMap[id[2]] # Nil
        /\ q.owner = "OWNER_MODULE" => id[1] \in y.code
    BY <2>1, <1>6, <1>7 DEF RegistryOK
  <2>3. x.erc20Map[i[1]] = i
    BY <1>1, <1>a DEF RegistryOK
  <2>4. id[1] # p.erc20
    BY <2>1, <2>2, <2>3, <1>1
  <2>5. q \in TokenPair
    BY <2>1, <1>7, RegistryTypes
  <2>6. q.erc20 = id[1] /\ q.denom = id[2]
    BY <2>2, <2>5, PairFields
  <2> HIDE DEF q
  <2>7. id[2] # p.denom
    BY <2>2, <2>4, <2>6, <1>b, ExtFacts DEF WellOwned
  <2> QED BY <2>1, <2>2, <2>4, <2>7, <1>4, <1>6, IdFields DEF q
<1>8. ASSUME NEW c \in Contracts, y.erc20Map[c] # Nil
      PROVE  y.erc20Map[c][1] = c /\ y.pairs[y.erc20Map[c]] # Nil
  BY <1>8, <1>1, <1>4, <1>6, RegistryTypes DEF RegistryOK
<1>9. ASSUME NEW d \in Denoms, y.denomMap[d] # Nil
      PROVE  y.denomMap[d][2] = d /\ y.pairs[y.denomMap[d]] # Nil
  BY <1>9, <1>1, <1>4, <1>6, RegistryTypes DEF RegistryOK
<1> QED BY <1>5, <1>6, <1>7, <1>8, <1>9 DEF RegistryOK
=============================================================================
