---------------------------- MODULE PaymentFlow -----------------------------
(***************************************************************************)
(* From the request of a user to the amounts of a payment in both          *)
(* currencies, with its fees: LightningPaymentFlowBuilder and              *)
(* OnChainPaymentFlowBuilder, and the journals they lead to.  A wallet is  *)
(* a pair of an account and a currency.  Prices are a ratio; the dealer,   *)
(* which is external, rounds in its own favour.                            *)
(***************************************************************************)
EXTENDS EntryBuilder

CONSTANTS FeeCap,               \* FEECAP_BASIS_POINTS
          DustThreshold,        \* of an on-chain payment, in satoshis
          MinBankFee,           \* withdrawDefaultMin
          WithdrawRatio,        \* feeRatioAsBasisPoints
          ThresholdImbalance,   \* thresholdImbalance
          FlowAmounts,          \* the amounts, fees and price ratios for which
          FlowFees,             \* the properties of the flows are evaluated
          FlowRatios

ASSUME FlowConstants ==
  /\ FeeCap \in Nat /\ MinBankFee \in Nat /\ WithdrawRatio \in Nat
  /\ ThresholdImbalance \in Int
  /\ DustThreshold \in Nat /\ DustThreshold > 1

NoAmount == -1                          \* an amount that is not set
NoWallet == <<"none", "none">>          \* the recipient is not of this bank
CurrencyOf(wallet) == wallet[2]
AccountOf(wallet) == wallet[1]

Failed(error) == [error |-> error]
IsError(f) == "error" \in DOMAIN f

(***************************************************************************)
(* Prices.                                                                 *)
(***************************************************************************)
UsdFromBtcMid(r, btc) == ConvertFromBtc(r, btc)

BtcFromUsdMid(r, usd) == ConvertFromUsd(r, usd)

(* The dealer sells USD to a sender of BTC and buys USD from others.       *)
DealerUsdFromBtc(r, senderCurrency, btc) ==
  IF senderCurrency = BTC THEN ConvertFromBtcToFloor(r, btc)
  ELSE ConvertFromBtcToCeil(r, btc)

DealerBtcFromUsd(r, senderCurrency, usd) ==
  IF senderCurrency = BTC THEN DivCeil(usd * r.btc, r.usd)
  ELSE DivFloor(usd * r.btc, r.usd)

(***************************************************************************)
(* The steps of the builders.  A request "in" has a sender, a recipient,   *)
(* an amount, "unchecked" if that is in the sender's currency and not from *)
(* an invoice, and the cents fixed by an invoice of a USD wallet.          *)
(***************************************************************************)
IsIntraLedger(in) == in.recipient # NoWallet

WithSenderWallet(in) ==
  LET fee == IF IsIntraLedger(in) THEN 0 ELSE MaxProtocolAndBankFee(in.amount, FeeCap)
      otherFee == IF IsIntraLedger(in) THEN 0 ELSE NoAmount
  IN IF in.unchecked /\ CurrencyOf(in.sender) = USD
     THEN [btc |-> NoAmount, usd |-> in.amount, btcFee |-> otherFee, usdFee |-> fee]
     ELSE [btc |-> in.amount, usd |-> NoAmount, btcFee |-> fee, usdFee |-> otherFee]

RecipientError(in) ==
  CASE in.recipient = in.sender -> "SelfPayment"
    [] CurrencyOf(in.recipient) = USD /\ (in.invoiceUsd # NoAmount) = in.unchecked ->
         "InvalidBuilderState"
    [] OTHER -> "none"

WithRecipientWallet(in, amounts) ==
  IF in.invoiceUsd = NoAmount THEN amounts ELSE [amounts EXCEPT !.usd = in.invoiceUsd]

(* The other currency from the one that is known.  The fee in cents is     *)
(* rounded up, the fee in satoshis to the nearest.                         *)
FromBtc(amounts, usd) ==
  LET ratio == [btc |-> amounts.btc, usd |-> usd]
  IN IF ~IsRatio(ratio) THEN Failed("ZeroAmountPriceRatio")
     ELSE [amounts EXCEPT !.usd = usd,
                          !.usdFee = ConvertFromBtcToCeil(ratio, amounts.btcFee)]

FromUsd(amounts, btc) ==
  LET ratio == [btc |-> btc, usd |-> amounts.usd]
  IN IF ~IsRatio(ratio) THEN Failed("ZeroAmountPriceRatio")
     ELSE [amounts EXCEPT !.btc = btc,
                          !.btcFee = ConvertFromUsd(ratio, amounts.usdFee)]

Flow(in, recipient, amounts) ==
  IF IsError(amounts) THEN amounts
  ELSE [sender |-> in.sender, recipient |-> recipient,
        btc |-> amounts.btc, usd |-> amounts.usd,
        btcFee |-> amounts.btcFee, usdFee |-> amounts.usdFee]

(* Satoshis worth less than a cent go to the BTC wallet of the recipient,  *)
(* at the mid price.                                                       *)
FallbackMid(in, amounts, r) ==
  LET btcWallet == <<AccountOf(in.recipient), BTC>>
  IN IF ~IsIntraLedger(in) THEN Failed("RecipientBtcWalletMissing")
     ELSE IF btcWallet = in.sender THEN Failed("SubOneCentSatAmountForUsdSelfSend")
     ELSE Flow(in, btcWallet, FromBtc(amounts, UsdFromBtcMid(r, amounts.btc)))

DealerFallbackMid(in, amounts, r) ==
  LET byDealer ==
        FromBtc(amounts, DealerUsdFromBtc(r, CurrencyOf(in.sender), amounts.btc))
  IN IF IsError(byDealer) THEN FallbackMid(in, amounts, r)
     ELSE Flow(in, in.recipient, byDealer)

WithConversion(in, amounts, r) ==
  LET senderCurrency == CurrencyOf(in.sender)
      noConversionRequired ==
        IF IsIntraLedger(in) THEN senderCurrency = CurrencyOf(in.recipient)
        ELSE senderCurrency = BTC
      hasBtcAmounts == amounts.btc # NoAmount /\ amounts.btcFee # NoAmount
      hasUsdAmounts == amounts.usd # NoAmount /\ amounts.usdFee # NoAmount
      isUsdRecipient == CurrencyOf(in.recipient) = USD
  IN IF /\ hasBtcAmounts /\ hasUsdAmounts
        /\ noConversionRequired \/ isUsdRecipient
     THEN Flow(in, in.recipient, amounts)
     ELSE IF noConversionRequired /\ hasBtcAmounts
     THEN Flow(in, in.recipient, FromBtc(amounts, UsdFromBtcMid(r, amounts.btc)))
     ELSE IF noConversionRequired
     THEN Flow(in, in.recipient, FromUsd(amounts, BtcFromUsdMid(r, amounts.usd)))
     ELSE IF hasBtcAmounts
     THEN DealerFallbackMid(in, amounts, r)
     ELSE Flow(in, in.recipient,
               FromUsd(amounts, DealerBtcFromUsd(r, senderCurrency, amounts.usd)))

LightningFlow(in, r) ==
  IF in.amount = 0 THEN Failed("InvalidAmount")
  ELSE IF IsIntraLedger(in) /\ RecipientError(in) # "none"
  THEN Failed(RecipientError(in))
  ELSE WithConversion(in, WithRecipientWallet(in, WithSenderWallet(in)), r)

(* A probe found a route: its fee replaces the cap.                        *)
WithRoute(flow, routeFee) ==
  [flow EXCEPT !.btcFee = routeFee,
               !.usdFee = ConvertFromBtcToCeil([btc |-> flow.btc, usd |-> flow.usd],
                                               routeFee)]

(***************************************************************************)
(* On chain.  A request also says whether the wallet is to be emptied, and *)
(* the miner's fee and the imbalance of the wallet that are found for it.  *)
(***************************************************************************)
ProposedAmounts(in) ==
  IF in.currency = BTC
  THEN [btc |-> in.amount, usd |-> NoAmount, btcFee |-> 0, usdFee |-> 0]
  ELSE [btc |-> NoAmount, usd |-> in.amount, btcFee |-> 0, usdFee |-> 0]

OnChainConversion(in, r) == WithConversion(in, ProposedAmounts(in), r)

(* Mutant: the fee comes on top of all that the wallet has.                *)
SendAllAmountsAndFee(proposed, fee) == [btc |-> proposed.btc, usd |-> proposed.usd]

(* A negative rest in cents becomes one satoshi at most: below the dust.   *)
SendAllAmounts(proposed, fee) ==
  IF CurrencyOf(proposed.sender) = BTC
  THEN LET btc == proposed.btc - fee.btc
       IN [btc |-> btc,
           usd |-> IF btc < 0 THEN 0 ELSE ConvertFromBtc(proposed, btc)]
  ELSE LET usd == proposed.usd - fee.usd
       IN [btc |-> IF usd < 0 THEN 1 ELSE ConvertFromUsd(proposed, usd), usd |-> usd]

WithMinerFee(in, proposed) ==
  LET bankFeeBtc == WithdrawalBankFee(proposed.btc, MinBankFee, in.imbalance,
                                      ThresholdImbalance, WithdrawRatio)
      feeBtc == bankFeeBtc + in.minerFee
      fee == [btc |-> feeBtc, usd |-> ConvertFromBtcToCeil(proposed, feeBtc)]
      amounts == IF in.sendAll THEN SendAllAmounts(proposed, fee)
                 ELSE [btc |-> proposed.btc, usd |-> proposed.usd]
  IN IF amounts.btc < DustThreshold THEN Failed("LessThanDustThreshold")
     ELSE [sender |-> in.sender, recipient |-> NoWallet,
           btc |-> amounts.btc, usd |-> amounts.usd,
           btcFee |-> fee.btc, usdFee |-> fee.usd,
           bankFee |-> [btc |-> bankFeeBtc,
                        usd |-> ConvertFromBtcToCeil(proposed, bankFeeBtc)]]

OnChainFlow(in, r) ==
  LET proposed == OnChainConversion(in, r)
  IN IF IsIntraLedger(in) /\ in.recipient = in.sender THEN Failed("SelfPayment")
     ELSE IF IsError(proposed) \/ IsIntraLedger(in) THEN proposed
     ELSE IF proposed.btc < DustThreshold THEN Failed("LessThanDustThreshold")
     ELSE WithMinerFee(in, proposed)

(***************************************************************************)
(* The journals of the ledger facade.                                      *)
(***************************************************************************)
PaymentAmounts(f) == [btc |-> f.btc, usd |-> f.usd]

TotalAmounts(f) == [btc |-> f.btc + f.btcFee, usd |-> f.usd + f.usdFee]

(* Mutant: the fee is not looked at.                                       *)
CoversSendWithoutFee(balance, f) ==
  balance >= Of(PaymentAmounts(f), CurrencyOf(f.sender))

(* checkBalanceForSend: the total, in the sender's currency.               *)
CoversSend(balance, f) == balance >= Of(TotalAmounts(f), CurrencyOf(f.sender))

RecordIntraledger(f) ==
  Journal(PaymentAmounts(f), Zero, CurrencyOf(f.sender), CurrencyOf(f.recipient))

RecordSendOffChain(f) == Journal(TotalAmounts(f), Zero, CurrencyOf(f.sender), BTC)

RecordSendOnChain(f) == Journal(TotalAmounts(f), f.bankFee, CurrencyOf(f.sender), BTC)

RecordReceiveOffChain(amounts, currency) == Journal(amounts, Zero, BTC, currency)

RecordReceiveOnChain(amounts, bankFee, currency) ==
  Journal(Plus(amounts, bankFee), bankFee, BTC, currency)

(***************************************************************************)
(* Bounded inputs.  Two accounts with both wallets cover every relation of *)
(* a sender and a recipient.                                               *)
(***************************************************************************)
FlowWallets == {"alice", "bob"} \X Currencies

LightningInputs ==
  {in \in [sender : {"alice"} \X Currencies, recipient : FlowWallets \cup {NoWallet},
           unchecked : BOOLEAN, amount : FlowAmounts,
           invoiceUsd : FlowAmounts \cup {NoAmount}] :
     in.invoiceUsd # NoAmount => ~in.unchecked /\ CurrencyOf(in.recipient) = USD}

OnChainInputs ==
  {in \in [sender : {"alice"} \X Currencies, recipient : FlowWallets \cup {NoWallet},
           currency : Currencies, amount : FlowAmounts, sendAll : BOOLEAN,
           minerFee : FlowFees, imbalance : {-1, 0, 3}] :
     in.sendAll => in.currency = CurrencyOf(in.sender)}

FlowsWithoutRoute ==
  {f \in {LightningFlow(in, r) : in \in LightningInputs, r \in FlowRatios} : ~IsError(f)}

FlowsWithRoute ==
  {WithRoute(f, fee) : f \in {g \in FlowsWithoutRoute : g.recipient = NoWallet},
                       fee \in FlowFees}

Flows == FlowsWithoutRoute \cup FlowsWithRoute
=============================================================================
