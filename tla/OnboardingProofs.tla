-------------------------- MODULE OnboardingProofs --------------------------
(***************************************************************************)
(* The invariants of x/erc20 survive x/onboarding, which commits what a    *)
(* failed ConvertCoin wrote.                                               *)
(***************************************************************************)
EXTENDS Onboarding, Erc20Proofs

(* Receiving a packet in the ICS-20 application keeps a good context good. *)
LEMMA TransferOnRecvPacketGood ==
    ASSUME NEW x, Good(x), NEW pkt \in Packet
    PROVE  Good(TransferOnRecvPacket(x, pkt).ctx)
<1> DEFINE d == pkt.denom
           to == pkt.receiver
           n == pkt.amount
           r == TransferOnRecvPacket(x, pkt)
           sent == SendCoins(x, d, IbcEscrow, to, n)
           f == Credit(x.coin[d], to, n)
           s == x.supply[d] + n
           minted == SetCoinSupply(x, d, f, s)
<1>1. d \in Denoms /\ n \in Nat /\ to \in Accounts /\ x \in Contexts
  BY Erc20Assumption DEF Packet, Good
<1>2. IbcEscrow \in Accounts /\ IbcEscrow # Module
  BY LedgerAssumption DEF Accounts
<1>3. \/ r.ctx \in {x, sent.ctx}
      \/ d \in Vouchers /\ r.ctx = minted
  BY DEF TransferOnRecvPacket, Err, Ok, SetCoinSupply
<1> HIDE DEF d, to, n, r
<1>4. Good(sent.ctx)
  BY <1>1, <1>2, SendMargin, SafeGood
<1> HIDE DEF sent
<1>5. ASSUME d \in Vouchers PROVE Good(minted)
  <2>1. d \in CoinDenoms
    BY <1>5, LedgerAssumption
  <2>2. f \in [Accounts -> Nat] /\ s \in Nat
    BY <1>1, ContextTypes DEF Credit
  <2> HIDE DEF f, s
  <2>3. /\ minted \in Contexts /\ SameRegistry(minted, x) /\ SameTokens(minted, x)
        /\ \A e \in Denoms \ {d} : minted.coin[e] = x.coin[e] /\ minted.supply[e] = x.supply[e]
    BY <1>1, <2>2, CoinUpdate
  <2> HIDE DEF minted
  <2>4. ASSUME NEW c \in ExtContracts PROVE Margin(minted, c) >= Margin(x, c)
    <3>1. CreateDenom(c) \in Denoms \ {d}
      BY <2>1, ExtFacts
    <3>2. Margin(minted, c) = Margin(x, c)
      BY <2>3, <3>1 DEF Margin, Out, SameTokens
    <3> QED BY <1>1, <3>2, MarginType
  <2> QED BY <2>3, <2>4, SafeGood DEF Safe
<1> QED BY <1>3, <1>4, <1>5 DEF r

(* The keeper's OnRecvPacket keeps a good context good, although it passes *)
(* on what a failed ConvertCoin left: module accounts never convert.       *)
LEMMA OnRecvPacketGood ==
    ASSUME NEW x, Good(x), NEW pkt \in Packet, NEW mode
    PROVE  Good(OnRecvPacket(x, pkt, mode).ctx)
<1> DEFINE u == pkt.receiver
           r == ConvertCoin(x, pkt.denom, pkt.amount, u, u, mode)
<1>1. /\ pkt.denom \in Denoms /\ pkt.amount \in Nat \ {0} /\ u \in Accounts
  BY Erc20Assumption DEF Packet
<1>2. \/ OnRecvPacket(x, pkt, mode).ctx = x
      \/ u \notin ModuleAccounts /\ OnRecvPacket(x, pkt, mode).ctx = r.ctx
  BY DEF OnRecvPacket, ConvertsOnArrival
<1>3. u \notin ModuleAccounts => Good(r.ctx)
  BY <1>1, ConvertCoinGood DEF ModuleAccounts
<1> HIDE DEF r, u
<1> QED BY <1>2, <1>3

OnboardingIInv == IInv /\ OnboardingTypeOK

(* A received packet preserves the invariant, whatever is acknowledged.    *)
LEMMA RecvPacketPreserves ==
    ASSUME OnboardingIInv, NEW pkt \in Packet, NEW mode \in AllModes, RecvPacket(pkt, mode)
    PROVE  OnboardingIInv'
<1> DEFINE received == TransferOnRecvPacket(Ctx, pkt)
           handled == OnRecvPacket(received.ctx, pkt, mode)
<1>1. Good(Ctx) /\ Idle
  BY IdleGood DEF OnboardingIInv, RecvPacket
<1>2. Good(received.ctx)
  BY <1>1, TransferOnRecvPacketGood
<1>3. Good(handled.ctx)
  BY <1>2, OnRecvPacketGood
<1>4. /\ Commit(Ctx) \/ Commit(handled.ctx)
      /\ params' = params /\ logs' = logs /\ phase' = phase /\ onboarding' = onboarding
      /\ \/ ack' = [transfer |-> "error", stack |-> "error"]
         \/ ack' = [transfer |-> "success", stack |-> handled.ack]
  BY DEF RecvPacket
<1>5. handled.ack \in {"success", "error"}
  BY DEF OnRecvPacket
<1> HIDE DEF received, handled
<1>6. Good(Ctx')
  BY <1>1, <1>3, <1>4, CommitCtx DEF Good
<1>7. logs' = <<>>
  BY <1>1, <1>4 DEF Idle
<1>8. LogsCovered(Ctx', <<>>) /\ Ctx' \in Contexts /\ RegistryOK(Ctx')
  BY <1>6, NoLogsCovered DEF Good
<1>9. IInv'
  BY <1>4, <1>7, <1>8 DEF IInv, TypeOK, OnboardingIInv
<1>10. ack' \in [transfer : Acks, stack : Acks]
  BY <1>4, <1>5 DEF Acks
<1> QED BY <1>4, <1>9, <1>10 DEF OnboardingIInv, OnboardingTypeOK, IInv

(* x/onboarding on top of x/erc20: the inductive invariant of x/erc20      *)
(* holds in every reachable state although RecvPacket commits the writes   *)
(* of failed conversions.                                                  *)
THEOREM OnboardingInvariant == OnboardingSpec => []OnboardingIInv
<1>1. OnboardingInit => OnboardingIInv
  <2> SUFFICES ASSUME OnboardingInit PROVE OnboardingIInv
    OBVIOUS
  <2>1. IInv
    BY InitIInv DEF OnboardingInit
  <2>2. onboarding \in OnboardingParams /\ ack \in [transfer : Acks, stack : Acks]
    BY OnboardingAssumption DEF OnboardingInit, Acks
  <2> QED BY <2>1, <2>2 DEF OnboardingIInv, OnboardingTypeOK, IInv
<1>2. OnboardingIInv /\ [OnboardingNext]_ovars => OnboardingIInv'
  <2> SUFFICES ASSUME OnboardingIInv, [OnboardingNext]_ovars PROVE OnboardingIInv'
    OBVIOUS
  <2>1. CASE Next /\ UNCHANGED <<onboarding, ack>>
    <3>1. IInv'
      BY <2>1, MsgPreserves, EvmPreserves, GovPreserves DEF Next, OnboardingIInv
    <3> QED BY <2>1, <3>1 DEF OnboardingIInv, OnboardingTypeOK, IInv
  <2>2. CASE \E pkt \in Packet, mode \in AllModes : RecvPacket(pkt, mode)
    BY <2>2, RecvPacketPreserves
  <2>3. CASE OnboardingParameterChange
    <3>1. /\ Ctx' = Ctx /\ params' = params /\ logs' = logs /\ phase' = phase /\ ack' = ack
          /\ onboarding' \in OnboardingChoices
      BY <2>3 DEF OnboardingParameterChange, vars, Ctx
    <3> QED BY <3>1, OnboardingAssumption DEF OnboardingIInv, OnboardingTypeOK, IInv, TypeOK
  <2>4. CASE UNCHANGED ovars
    <3>1. /\ Ctx' = Ctx /\ params' = params /\ logs' = logs /\ phase' = phase /\ ack' = ack
          /\ onboarding' = onboarding
      BY <2>4 DEF ovars, vars, Ctx
    <3> QED BY <3>1 DEF OnboardingIInv, OnboardingTypeOK, IInv, TypeOK
  <2> QED BY <2>1, <2>2, <2>3, <2>4 DEF OnboardingNext
<1> QED BY <1>1, <1>2, PTL DEF OnboardingSpec

(* Every coin of a native ERC20 outside the module account stays backed by *)
(* an escrowed token when conversions on arrival fail half way             *)
(* (ibc_callbacks.go ignores ConvertCoin's error and keeps its writes).    *)
THEOREM OnboardingKeepsCoinsBacked == OnboardingSpec => []TokensBackCoins
<1>1. OnboardingIInv => TokensBackCoins
  BY InvariantBacksCoins DEF OnboardingIInv
<1> QED BY <1>1, OnboardingInvariant, PTL

(* The registry stays consistent when packets are converted on arrival,    *)
(* which may delete the pair of a dead contract.                           *)
THEOREM OnboardingKeepsRegistry == OnboardingSpec => []RegistryConsistent
<1>1. OnboardingIInv => RegistryConsistent
  BY DEF OnboardingIInv, IInv, RegistryOK, RegistryConsistent, Ctx
<1> QED BY <1>1, OnboardingInvariant, PTL
=============================================================================
