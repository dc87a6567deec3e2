----------------------------- MODULE HookProofs -----------------------------
(***************************************************************************)
(* The logs of an Ethereum transaction that PostTxProcessing has still to  *)
(* handle stay covered by the margins.  What the logs add up to is a running *)
(* total, so that appending a log and taking the first one away need no    *)
(* induction.                                                              *)
(***************************************************************************)
EXTENDS ConversionProofs

(* PendingLogsBacked, of any context and any logs.                         *)
LogsCovered(x, l) ==
    \A c \in ExtContracts \cap x.code :
        \E g \in [0..Len(l) -> 0..Margin(x, c)] :
            /\ g[0] = 0
            /\ \A i \in 1..Len(l) : g[i] = g[i - 1] + Arrived(l[i], c)
            /\ \A i, j \in 0..Len(l) : i <= j => g[i] <= g[j]

(* With no pending log, covering the logs is being backed.                 *)
LEMMA NoLogsCovered ==
    ASSUME NEW x \in Contexts
    PROVE  LogsCovered(x, <<>>) <=> Backed(x)
<1>1. ASSUME LogsCovered(x, <<>>), NEW c \in ExtContracts \cap x.code
      PROVE  Margin(x, c) >= 0
  <2>1. PICK g \in [0..0 -> 0..Margin(x, c)] : g[0] = 0
    BY <1>1 DEF LogsCovered
  <2> QED BY <2>1, MarginType
<1>2. ASSUME Backed(x), NEW c \in ExtContracts \cap x.code
      PROVE  \E g \in [0..Len(<<>>) -> 0..Margin(x, c)] :
                /\ g[0] = 0
                /\ \A i \in 1..Len(<<>>) : g[i] = g[i - 1] + Arrived(<<>>[i], c)
                /\ \A i, j \in 0..Len(<<>>) : i <= j => g[i] <= g[j]
  <2> DEFINE g == [i \in 0..0 |-> 0]
  <2>1. g \in [0..0 -> 0..Margin(x, c)] /\ g[0] = 0
    BY <1>2, MarginType DEF Backed
  <2>2. /\ Len(<<>>) = 0 /\ \A i \in 1..Len(<<>>) : FALSE
        /\ \A i \in 0..Len(<<>>) : i = 0
    OBVIOUS
  <2> HIDE DEF g
  <2>3. g[0] <= g[0]
    BY <2>1
  <2>4. \A i, j \in 0..Len(<<>>) : i <= j => g[i] <= g[j]
    BY <2>2, <2>3, Zenon
  <2>5. \A i \in 1..Len(<<>>) : g[i] = g[i - 1] + Arrived(<<>>[i], c)
    BY <2>2, Zenon
  <2>6. g \in [0..Len(<<>>) -> 0..Margin(x, c)]
    BY <2>1, <2>2
  <2> QED BY <2>1, <2>4, <2>5, <2>6, Zenon
<1> QED BY <1>1, <1>2 DEF Backed, LogsCovered

(* A transfer in an Ethereum transaction is covered together with the log  *)
(* it appends.                                                             *)
LEMMA TransferCovered ==
    ASSUME NEW x \in Contexts, NEW l \in Seq(Log), LogsCovered(x, l),
           NEW c \in Contracts, NEW from \in Accounts \ {Module}, NEW to \in Accounts,
           NEW n \in Nat \ {0}, NEW mode, NEW r, r = Erc20Transfer(x, c, from, to, n, mode),
           ~Failed(r), NEW log \in Log, log.contract = c, log.to = to,
           log.amount = IF mode = "short" THEN n - 1 ELSE n
    PROVE  /\ r.ctx \in Contexts /\ SameRegistry(r.ctx, x)
           /\ LogsCovered(r.ctx, Append(l, log))
<1> DEFINE y == r.ctx
<1>1. /\ y \in Contexts
      /\ SameRegistry(y, x) /\ SameCoins(y, x)
      /\ \A e \in Contracts \ {c} : y.tok[e] = x.tok[e]
      /\ y.tok[c][Module] >= x.tok[c][Module]
      /\ to = Module => y.tok[c][Module] = x.tok[c][Module] + log.amount
  BY Erc20TransferFacts
<1> HIDE DEF y
<1>2. ASSUME NEW e \in ExtContracts PROVE Margin(y, e) >= Margin(x, e) + Arrived(log, e)
  <2>1. e \in Contracts
    BY ExtFacts
  <2>2. /\ Margin(y, e) - Margin(x, e) = y.tok[e][Module] - x.tok[e][Module]
        /\ Margin(y, e) \in Int /\ Margin(x, e) \in Int
        /\ y.tok[e][Module] \in Int /\ x.tok[e][Module] \in Int
    <3>1. y.tok[e][Module] \in Int /\ x.tok[e][Module] \in Int
      BY <1>1, <2>1, ContextTypes, ModuleIsAccount
    <3>2. Margin(y, e) \in Int /\ Margin(x, e) \in Int
      BY <1>1, MarginType
    <3>3. Margin(y, e) - Margin(x, e) = y.tok[e][Module] - x.tok[e][Module]
      BY <1>1, TokenMargin
    <3> QED BY <3>1, <3>2, <3>3
  <2>3. log.amount \in Nat
    BY DEF Log
  <2>4. y.tok[e][Module] - x.tok[e][Module] >= Arrived(log, e)
    <3>1. CASE e = c
      BY <3>1, <1>1, <2>2, <2>3 DEF Arrived
    <3>2. CASE e # c
      <4>1. y.tok[e] = x.tok[e] /\ Arrived(log, e) = 0
        BY <3>2, <1>1, <2>1 DEF Arrived
      <4> QED BY <4>1, <2>2
    <3> QED BY <3>1, <3>2
  <2>5. Arrived(log, e) \in Nat
    BY <2>3 DEF Arrived
  <2> QED BY <2>2, <2>4, <2>5
<1>3. ASSUME NEW e \in ExtContracts \cap y.code
      PROVE  \E h \in [0..Len(Append(l, log)) -> 0..Margin(y, e)] :
                /\ h[0] = 0
                /\ \A i \in 1..Len(Append(l, log)) :
                      h[i] = h[i - 1] + Arrived(Append(l, log)[i], e)
                /\ \A i, j \in 0..Len(Append(l, log)) : i <= j => h[i] <= h[j]
  <2> DEFINE k == Len(l)
             a == Arrived(log, e)
             M == Margin(x, e)
             N == Margin(y, e)
  <2>1. k \in Nat /\ a \in Nat /\ M \in Int /\ N \in Int /\ N >= M + a
    BY <1>1, <1>2, MarginType DEF Arrived, Log
  <2>2. PICK g \in [0..k -> 0..M] :
               /\ g[0] = 0
               /\ \A i \in 1..k : g[i] = g[i - 1] + Arrived(l[i], e)
               /\ \A i, j \in 0..k : i <= j => g[i] <= g[j]
    BY <1>1 DEF LogsCovered, SameRegistry
  <2> DEFINE h == [i \in 0..(k + 1) |-> IF i = k + 1 THEN g[k] + a ELSE g[i]]
  <2>3. /\ Len(Append(l, log)) = k + 1
        /\ Append(l, log)[k + 1] = log
        /\ \A i \in 1..k : Append(l, log)[i] = l[i]
    OBVIOUS
  <2> HIDE DEF k, a, M, N
  <2>4. h \in [0..(k + 1) -> 0..N]
    BY <2>1, <2>2
  <2>5. h[0] = 0 /\ h[k + 1] = g[k] + a /\ \A i \in 0..k : h[i] = g[i]
    BY <2>1, <2>2
  <2> HIDE DEF h
  <2>6. ASSUME NEW i \in 1..(k + 1) PROVE h[i] = h[i - 1] + Arrived(Append(l, log)[i], e)
    <3>1. CASE i = k + 1
      BY <3>1, <2>1, <2>3, <2>5 DEF a
    <3>2. CASE i # k + 1
      <4>1. i \in 1..k /\ i - 1 \in 0..k /\ i \in 0..k
        BY <3>2, <2>1
      <4> QED BY <4>1, <2>2, <2>3, <2>5
    <3> QED BY <3>1, <3>2
  <2>7. ASSUME NEW i \in 0..(k + 1), NEW j \in 0..(k + 1), i <= j PROVE h[i] <= h[j]
    <3>1. g[k] \in Nat /\ \A m \in 0..k : g[m] \in Nat /\ g[m] <= g[k]
      BY <2>1, <2>2
    <3>2. CASE j = k + 1
      <4>1. CASE i = k + 1
        BY <4>1, <3>1, <3>2, <2>1, <2>5
      <4>2. CASE i # k + 1
        <5>1. i \in 0..k
          BY <4>2, <2>1
        <5>2. h[i] = g[i] /\ g[i] \in Nat /\ g[i] <= g[k]
          BY <5>1, <3>1, <2>5
        <5> QED BY <5>2, <3>1, <3>2, <2>1, <2>5
      <4> QED BY <4>1, <4>2
    <3>3. CASE j # k + 1
      <4>1. i \in 0..k /\ j \in 0..k
        BY <3>3, <2>1, <2>7
      <4> QED BY <4>1, <2>2, <2>5, <2>7
    <3> QED BY <3>2, <3>3
  <2> QED BY <2>3, <2>4, <2>5, <2>6, <2>7 DEF N
<1> QED BY <1>1, <1>3 DEF LogsCovered, y

(* One iteration of PostTxProcessing costs a margin at most what its log   *)
(* says arrived.                                                           *)
LEMMA HookMargin ==
    ASSUME NEW x \in Contexts, RegistryOK(x), NEW log \in Log,
           NEW y, y = PostTxProcessing(x, log).ctx
    PROVE  /\ y \in Contexts /\ SameRegistry(y, x)
           /\ \A c \in ExtContracts : Margin(y, c) >= Margin(x, c) - Arrived(log, c)
<1> DEFINE p == PairOf(x, log.contract)
           n == log.amount
           c == log.contract
<1>0. c \in Contracts /\ n \in Nat /\ log.from \in Accounts /\ c \in Tokens
  BY DEF Log, Tokens
<1>1. \A e \in ExtContracts : Arrived(log, e) \in Nat
  BY <1>0 DEF Arrived
<1>2. ASSUME Safe(y, x)
      PROVE  /\ y \in Contexts /\ SameRegistry(y, x)
             /\ \A e \in ExtContracts : Margin(y, e) >= Margin(x, e) - Arrived(log, e)
  <2>1. y \in Contexts
    BY <1>2 DEF Safe
  <2> QED BY <1>1, <1>2, <2>1, MarginType DEF Safe
<1>3. CASE ~HookApplies(x, log)
  <2>1. y = x
    BY <1>3 DEF PostTxProcessing, Ok
  <2> QED BY <1>2, <2>1, SafeRefl
<1>4. CASE HookApplies(x, log)
  <2>1. p # Nil /\ log.to = Module
    BY <1>4 DEF HookApplies
  <2>2. p \in TokenPair /\ WellOwned(p) /\ p.erc20 = c
    BY <1>0, <2>1, PairOfFacts
  <2>3. CASE p.owner = "OWNER_MODULE"
    <3> DEFINE burnt == Erc20Burn(x, c, Module, n)
               released == SendCoinsFromModuleToAccount(burnt.ctx, p.denom, log.from, n)
    <3>1. y = burnt.ctx \/ y = released.ctx
      BY <1>4, <2>3 DEF PostTxProcessing
    <3> HIDE DEF p, n, c
    <3>2. c \in ModuleContracts /\ p.denom \in CoinDenoms /\ p.denom \in Denoms
      BY <2>2, <2>3 DEF WellOwned, Denoms
    <3>3. Safe(burnt.ctx, x)
      BY <1>0, <3>2, Erc20BurnFacts, ModuleTokenSafe, ModuleIsAccount
    <3> HIDE DEF burnt
    <3>4. Safe(released.ctx, burnt.ctx)
      <4>1. burnt.ctx \in Contexts
        BY <3>3 DEF Safe
      <4> QED BY <1>0, <3>2, <4>1, ReleaseMargin
    <3> HIDE DEF released
    <3>5. Safe(y, x)
      BY <3>1, <3>3, <3>4, SafeTrans
    <3> QED BY <1>2, <3>5
  <2>4. CASE p.owner = "OWNER_EXTERNAL"
    <3> DEFINE d == CreateDenom(c)
               minted == MintCoins(x, d, n)
               sent == SendCoinsFromModuleToAccount(minted.ctx, d, log.from, n)
    <3>1. c \in ExtContracts /\ p.denom = d
      BY <2>2, <2>4 DEF WellOwned
    <3>2. d \in Denoms
      BY <3>1, ExtFacts
    <3>3. ~Failed(minted)
      BY <1>0, <3>2, MintCoinsFacts
    <3>4. y = sent.ctx
      BY <1>4, <2>4, <3>1, <3>3 DEF PostTxProcessing
    <3> HIDE DEF p
    <3>5. /\ y \in Contexts /\ SameRegistry(y, x)
          /\ Margin(y, c) >= Margin(x, c) - n
          /\ \A e \in ExtContracts \ {c} : Margin(y, e) >= Margin(x, e)
      BY <1>0, <3>1, <3>4, MintRelease
    <3>6. Arrived(log, c) = n
      BY <2>1 DEF Arrived
    <3>7. ASSUME NEW e \in ExtContracts PROVE Margin(y, e) >= Margin(x, e) - Arrived(log, e)
      <4>1. Margin(y, e) \in Int /\ Margin(x, e) \in Int /\ Arrived(log, e) \in Nat
        BY <1>1, <3>5, MarginType
      <4> HIDE DEF n, c
      <4> QED BY <4>1, <3>5, <3>6
    <3> QED BY <3>5, <3>7
  <2>5. CASE p.owner \notin {"OWNER_MODULE", "OWNER_EXTERNAL"}
    <3>1. y = x
      BY <1>4, <2>5 DEF PostTxProcessing, Err, Failed
    <3> QED BY <1>2, <3>1, SafeRefl
  <2> QED BY <2>3, <2>4, <2>5
<1> QED BY <1>3, <1>4

(* One iteration of PostTxProcessing leaves the remaining logs covered.    *)
LEMMA HookCovered ==
    ASSUME NEW x \in Contexts, RegistryOK(x), NEW l \in Seq(Log), l # <<>>, LogsCovered(x, l),
           NEW y, y = PostTxProcessing(x, Head(l)).ctx
    PROVE  y \in Contexts /\ SameRegistry(y, x) /\ LogsCovered(y, Tail(l))
<1>0. Head(l) \in Log /\ Head(l) = l[1] /\ Len(l) \in Nat \ {0}
  OBVIOUS
<1>1. /\ y \in Contexts /\ SameRegistry(y, x)
      /\ \A c \in ExtContracts : Margin(y, c) >= Margin(x, c) - Arrived(Head(l), c)
  BY <1>0, HookMargin
<1>2. ASSUME NEW c \in ExtContracts \cap y.code
      PROVE  \E h \in [0..Len(Tail(l)) -> 0..Margin(y, c)] :
                /\ h[0] = 0
                /\ \A i \in 1..Len(Tail(l)) : h[i] = h[i - 1] + Arrived(Tail(l)[i], c)
                /\ \A i, j \in 0..Len(Tail(l)) : i <= j => h[i] <= h[j]
  <2> DEFINE k == Len(Tail(l))
             a == Arrived(Head(l), c)
             M == Margin(x, c)
             N == Margin(y, c)
  <2>1. k \in Nat /\ Len(l) = k + 1 /\ a \in Nat /\ M \in Int /\ N \in Int /\ N >= M - a
    BY <1>0, <1>1, MarginType DEF Arrived, Log
  <2>2. PICK g \in [0..(k + 1) -> 0..M] :
               /\ g[0] = 0
               /\ \A i \in 1..(k + 1) : g[i] = g[i - 1] + Arrived(l[i], c)
               /\ \A i, j \in 0..(k + 1) : i <= j => g[i] <= g[j]
    BY <1>1, <2>1 DEF LogsCovered, SameRegistry
  <2> DEFINE h == [i \in 0..k |-> g[i + 1] - a]
  <2>3. \A i \in 1..k : Tail(l)[i] = l[i + 1]
    BY <1>0
  <2> HIDE DEF k, M, N
  <2>4. g[1] = a
    <3>1. 1 \in 1..(k + 1) /\ 0 \in 0..(k + 1)
      BY <2>1
    <3>2. g[1] = g[0] + Arrived(l[1], c)
      BY <2>2, <3>1
    <3> QED BY <3>2, <2>1, <2>2, <1>0
  <2> HIDE DEF a
  <2>5. \A i \in 0..k : g[i + 1] \in 0..M /\ a <= g[i + 1]
    BY <2>1, <2>2, <2>4
  <2>6. h \in [0..k -> 0..N]
    BY <2>1, <2>5
  <2>7. h[0] = 0 /\ \A i \in 0..k : h[i] = g[i + 1] - a
    BY <2>1, <2>4
  <2> HIDE DEF h
  <2>8. ASSUME NEW i \in 1..k PROVE h[i] = h[i - 1] + Arrived(Tail(l)[i], c)
    <3>1. /\ i \in 0..k /\ i - 1 \in 0..k /\ i + 1 \in 1..(k + 1) /\ (i - 1) + 1 = i
          /\ (i + 1) - 1 = i
      BY <2>1
    <3>2. h[i] = g[i + 1] - a /\ h[i - 1] = g[i] - a
      BY <3>1, <2>7
    <3>3. g[i + 1] = g[i] + Arrived(l[i + 1], c)
      BY <3>1, <2>2
    <3>4. Arrived(l[i + 1], c) \in Nat /\ g[i] \in Nat
      <4>1. l[i + 1] \in Log
        BY <3>1, <2>1
      <4>2. i \in 0..(k + 1)
        BY <2>1
      <4> QED BY <4>1, <4>2, <2>1, <2>2 DEF Arrived, Log
    <3> QED BY <3>2, <3>3, <3>4, <2>1, <2>3
  <2>9. ASSUME NEW i \in 0..k, NEW j \in 0..k, i <= j PROVE h[i] <= h[j]
    <3>1. i + 1 \in 0..(k + 1) /\ j + 1 \in 0..(k + 1) /\ i + 1 <= j + 1
      BY <2>1, <2>9
    <3>2. g[i + 1] <= g[j + 1] /\ g[i + 1] \in Nat /\ g[j + 1] \in Nat
      BY <3>1, <2>1, <2>2
    <3>3. h[i] = g[i + 1] - a /\ h[j] = g[j + 1] - a
      BY <2>7
    <3>4. a \in Nat
      BY <2>1
    <3> HIDE DEF h, a
    <3>5. g[i + 1] - a <= g[j + 1] - a
      BY <3>2, <3>4
    <3> QED BY <3>3, <3>5
  <2> QED BY <2>6, <2>7, <2>8, <2>9 DEF k, N
<1> QED BY <1>1, <1>2 DEF LogsCovered
=============================================================================
