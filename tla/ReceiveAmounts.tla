--------------------------- MODULE ReceiveAmounts ---------------------------
(***************************************************************************)
(* What a wallet is credited for what came in: WalletAddressReceiver for   *)
(* an output on chain, WalletInvoiceReceiver for a Lightning invoice, and  *)
(* the amounts that the invoice builder fixes for an invoice.              *)
(***************************************************************************)
EXTENDS PaymentFlow

CONSTANTS DepositMinFee, DepositThreshold, DepositRatio

(* Both receivers: the fee in cents is rounded up, the rest is credited.   *)
Received(wallet, btc, usd, btcFee) ==
  LET ratio == [btc |-> btc, usd |-> usd]
      fee == [btc |-> btcFee, usd |-> ConvertFromBtcToCeil(ratio, btcFee)]
  IN IF ~IsRatio(ratio) THEN Failed("ZeroAmountPriceRatio")
     ELSE [wallet |-> wallet, credit |-> Less(ratio, fee), bankFee |-> fee]

(* The dealer buys the satoshis that come in for a USD wallet.             *)
DealerBuysBtc(r, btc) == DealerUsdFromBtc(r, BTC, btc)

WalletAddressReceiver(wallet, btc, fee, r) ==
  LET received == Received(wallet, btc,
                           IF CurrencyOf(wallet) = BTC THEN UsdFromBtcMid(r, btc)
                           ELSE DealerBuysBtc(r, btc),
                           fee)
  IN IF IsError(received) THEN received
     ELSE IF received.credit.btc <= 0 \/ received.credit.usd <= 0
     THEN Failed("AmountLessThanFee")
     ELSE received

(* Mutant: the price of the moment also for an invoice that fixed one.     *)
WalletInvoiceReceiverAtMarket(wallet, invoiceUsd, btc, r) ==
  IF CurrencyOf(wallet) = BTC THEN Received(wallet, btc, UsdFromBtcMid(r, btc), 0)
  ELSE Received(wallet, btc, DealerBuysBtc(r, btc), 0)

(* Less than a cent for a USD wallet is credited to the BTC wallet.        *)
WalletInvoiceReceiver(wallet, invoiceUsd, btc, r) ==
  LET byDealer == Received(wallet, btc, DealerBuysBtc(r, btc), 0)
      btcWallet == <<AccountOf(wallet), BTC>>
  IN IF CurrencyOf(wallet) = BTC THEN Received(wallet, btc, UsdFromBtcMid(r, btc), 0)
     ELSE IF invoiceUsd # NoAmount THEN Received(wallet, btc, invoiceUsd, 0)
     ELSE IF IsError(byDealer) THEN Received(btcWallet, btc, UsdFromBtcMid(r, btc), 0)
     ELSE byDealer

(* WIBWithExpiration.withAmount: the satoshis of the invoice, and for a    *)
(* USD wallet the cents it is worth.                                       *)
InvoiceAmounts(wallet, amount, currency, r) ==
  IF CurrencyOf(wallet) = BTC
  THEN IF currency # BTC THEN Failed("InvalidBuilderState")
       ELSE [btc |-> amount, usd |-> NoAmount]
  ELSE IF currency = USD
  THEN [btc |-> DealerBtcFromUsd(r, BTC, amount), usd |-> amount]
  ELSE IF DealerBuysBtc(r, amount) = 0 THEN Failed("SubOneCentSatAmountForUsdReceive")
  ELSE [btc |-> amount, usd |-> DealerBuysBtc(r, amount)]

ReceiptJournal(received) ==
  RecordReceiveOnChain(received.credit, received.bankFee, CurrencyOf(received.wallet))

DepositFee(btc) == OnChainDepositFee(btc, DepositMinFee, DepositThreshold, DepositRatio)

ReceivingWallets == {"bob"} \X Currencies
=============================================================================
