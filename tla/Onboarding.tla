----------------------------- MODULE Onboarding -----------------------------
(***************************************************************************)
(* x/onboarding: the IBC middleware that converts a coin received over IBC *)
(* to its ERC20, on top of the x/erc20 keeper it calls.                    *)
(*                                                                         *)
(* ibc-core keeps what a callback wrote when its acknowledgement is a      *)
(* success and drops it when it is an error.  The middleware calls         *)
(* ConvertCoin on the context of the receive and answers a failed          *)
(* conversion with the transfer's success, so here, unlike in a            *)
(* transaction, the writes of a failed ConvertCoin stay.                   *)
(***************************************************************************)
EXTENDS Erc20

CONSTANTS
    Channels,           \* the channels packets arrive on
    OnboardingChoices,  \* the onboarding settings governance can choose
    MaxVoucherSupply    \* bound on the vouchers that arrive

OnboardingParams == [enableOnboarding : BOOLEAN, whitelistedChannels : SUBSET Channels]

ASSUME OnboardingAssumption ==
    /\ OnboardingChoices \subseteq OnboardingParams
    /\ MaxVoucherSupply \in Nat

VARIABLES
    onboarding,  \* the parameters of x/onboarding
    ack          \* the acknowledgements of the last packet: of the transfer
                 \* application and of the whole stack

ovars == <<vars, onboarding, ack>>

(* A packet as it reaches this chain: the coin it becomes here, its        *)
(* receiver, its channel, and whether its sender is a bech32 address       *)
(* (other chains may use another format).                                  *)
Packet == [denom : Denoms, amount : Amounts, receiver : Receivers,
           channel : Channels, senderIsBech32 : BOOLEAN]

Acks == {"none", "success", "error"}

(* The ICS-20 application (external): a voucher is minted to the receiver, *)
(* a coin that left from here is released from escrow.                     *)
TransferOnRecvPacket(x, pkt) ==
    LET d == pkt.denom
    IN  IF pkt.receiver \in BlockedAddrs THEN Err("ErrUnauthorized", x)
        ELSE IF d \notin Vouchers THEN SendCoins(x, d, IbcEscrow, pkt.receiver, pkt.amount)
        ELSE Ok([x EXCEPT !.coin[d] = Credit(@, pkt.receiver, pkt.amount),
                          !.supply[d] = @ + pkt.amount])

(* Whether the keeper gets as far as ConvertCoin.                          *)
ConvertsOnArrival(x, pkt) ==
    LET p == PairOf(x, pkt.denom)
    IN  /\ pkt.receiver \notin ModuleAccounts
        /\ p # Nil
        /\ p.enabled

(* The keeper's OnRecvPacket, after a successful transfer: the stack's     *)
(* acknowledgement and the context it leaves.                              *)
OnRecvPacket(x, pkt, mode) ==
    IF \/ ~onboarding.enableOnboarding
       \/ pkt.channel \notin onboarding.whitelistedChannels
    THEN [ack |-> "success", ctx |-> x]
    ELSE IF ~pkt.senderIsBech32 THEN [ack |-> "error", ctx |-> x]
    ELSE IF ~ConvertsOnArrival(x, pkt) THEN [ack |-> "success", ctx |-> x]
    ELSE [ack |-> "success",
          ctx |-> ConvertCoin(x, pkt.denom, pkt.amount, pkt.receiver, pkt.receiver, mode).ctx]

(* The middleware's OnRecvPacket inside ibc-core's receive.                *)
RecvPacket(pkt, mode) ==
    LET received == TransferOnRecvPacket(Ctx, pkt)
        handled  == OnRecvPacket(received.ctx, pkt, mode)
    IN  /\ Idle
        /\ pkt.denom \in Vouchers => supply[pkt.denom] + pkt.amount <= MaxVoucherSupply
        /\ IF Failed(received)
           THEN Commit(Ctx) /\ ack' = [transfer |-> "error", stack |-> "error"]
           ELSE /\ Commit(IF handled.ack = "success" THEN handled.ctx ELSE Ctx)
                /\ ack' = [transfer |-> "success", stack |-> handled.ack]
        /\ UNCHANGED <<params, logs, phase, onboarding>>

OnboardingParameterChange ==
    /\ Idle
    /\ onboarding' \in OnboardingChoices
    /\ UNCHANGED <<vars, ack>>

OnboardingInit ==
    /\ Init
    /\ onboarding \in OnboardingChoices
    /\ ack = [transfer |-> "none", stack |-> "none"]

OnboardingNext ==
    \/ Next /\ UNCHANGED <<onboarding, ack>>
    \/ \E pkt \in Packet, mode \in AllModes : RecvPacket(pkt, mode)
    \/ OnboardingParameterChange

OnboardingSpec == OnboardingInit /\ [][OnboardingNext]_ovars

-----------------------------------------------------------------------------
(* Properties.  The solvency and registry invariants of Erc20 are checked  *)
(* of OnboardingSpec as well: they must survive the half-done conversions  *)
(* that RecvPacket commits.                                                *)

OnboardingTypeOK ==
    /\ TypeOK
    /\ onboarding \in OnboardingParams
    /\ ack \in [transfer : Acks, stack : Acks]

(* What the receiver of a packet holds of its coin, as coins or as tokens  *)
(* of the contract the coin is converted to.                               *)
Received(pkt, c) == coin[pkt.denom][pkt.receiver] + tok[c][pkt.receiver]

(* A user who is sent n coins over IBC ends up with n more coins or tokens *)
(* whenever the stack acknowledges success and the token contract works as *)
(* it should: OnRecvPacket never leaves the coins in between, although it  *)
(* ignores ConvertCoin's errors.  It rests on the solvency of the escrow.  *)
ReceiverGetsAsset ==
    [][\A pkt \in Packet, c \in Contracts :
         /\ ack'.stack = "success"
         /\ pkt.receiver \in Users
         /\ denomMap[pkt.denom] \in {Nil, <<c, pkt.denom>>}
         /\ RecvPacket(pkt, "ok")
         => Received(pkt, c)' = Received(pkt, c) + pkt.amount]_ovars

-----------------------------------------------------------------------------
(* What the comment and the tests of OnRecvPacket say.                     *)

(* ibc_callbacks.go: "It always returns original ACK".                     *)
AckIsOriginal == ack.transfer = "success" => ack.stack = "success"

(* ibc_callbacks.go: when "the conversion fails, it does not revert IBC    *)
(* transfer and the asset transferred to Althea-L1 will still remain": the *)
(* receiver holds the coins, or the tokens, also after a failure.          *)
FailedConversionKeepsAsset ==
    [][\A pkt \in Packet, c \in Contracts, mode \in AllModes :
         /\ pkt.receiver \in Users
         /\ denomMap[pkt.denom] = <<c, pkt.denom>>
         /\ RecvPacket(pkt, mode)
         /\ ack'.stack = "success"
         => coin'[pkt.denom][pkt.receiver] + tok'[c][pkt.receiver] >
               coin[pkt.denom][pkt.receiver] + tok[c][pkt.receiver]]_ovars
=============================================================================
