------------------------------- MODULE Amounts -------------------------------
(***************************************************************************)
(* The arithmetic on satoshis and cents: rounding, price ratios, fees,     *)
(* reimbursements and limits.  All of it is pure; the payment flows and    *)
(* the transfers are built from it.  An amount of money in both currencies *)
(* is a record [btc, usd]; a ratio is the pair of amounts it was made of.  *)
(***************************************************************************)
EXTENDS Integers

BTC == "BTC"
USD == "USD"

(* AmountCalculator: bigint division truncates, and the remainder of a     *)
(* negative amount (only a volume may be one) is never more than half.     *)
DivRound(a, b) ==
  IF a < 0 THEN -((-a) \div b)
  ELSE IF a % b > b \div 2 THEN a \div b + 1 ELSE a \div b

DivFloor(a, b) == a \div b

DivCeil(a, b) == IF a % b > 0 THEN a \div b + 1 ELSE a \div b

MulBasisPoints(a, basisPoints) == DivRound(a * basisPoints, 10000)

MinAmount(a, b) == IF b < a THEN b ELSE a

MaxAmount(a, b) == IF b > a THEN b ELSE a

(* "amount || 1n": what is not nothing is converted to at least one unit.  *)
AtLeastOne(n) == IF n = 0 THEN 1 ELSE n

(* WalletPriceRatio refuses a zero on either side.                         *)
IsRatio(r) == r.usd # 0 /\ r.btc # 0

ConvertFromUsd(r, usd) ==
  IF usd = 0 THEN 0 ELSE AtLeastOne(DivRound(usd * r.btc, r.usd))

ConvertFromBtc(r, btc) ==
  IF btc = 0 THEN 0 ELSE AtLeastOne(DivRound(btc * r.usd, r.btc))

ConvertFromBtcToFloor(r, btc) == DivFloor(btc * r.usd, r.btc)

ConvertFromBtcToCeil(r, btc) == DivCeil(btc * r.usd, r.btc)

(* LnFees *)
MaxProtocolAndBankFee(amount, feeCap) ==
  IF amount = 0 THEN 0 ELSE AtLeastOne(MulBasisPoints(amount, feeCap))

(* verifyMaxFee: may a payment without a route offer this fee, in sats?    *)
VerifyMaxFee(maxFee, amounts, r, senderCurrency, fromNoAmountInvoice, feeCap) ==
  LET btcMax == MaxProtocolAndBankFee(amounts.btc, feeCap)
      usdMax == ConvertFromUsd(r, MaxProtocolAndBankFee(amounts.usd, feeCap))
      calculated == IF senderCurrency = BTC THEN btcMax
                    ELSE IF fromNoAmountInvoice THEN usdMax
                    ELSE MaxAmount(btcMax, usdMax)
  IN ~ /\ senderCurrency = BTC \/ maxFee > ConvertFromUsd(r, 1)
       /\ maxFee > calculated

(* FeeReimbursement: what is given back of a prepaid fee.                  *)
HasReimbursement(prepaidBtc, actualFee) == prepaidBtc - actualFee >= 0

(* Mutant: rounded to the nearest cent, whatever the node charged.         *)
GetReimbursementRounded(prepaidBtc, actualFee, r) ==
  [btc |-> prepaidBtc - actualFee, usd |-> ConvertFromBtc(r, prepaidBtc - actualFee)]

GetReimbursement(prepaidBtc, actualFee, r) ==
  LET difference == prepaidBtc - actualFee
  IN [btc |-> difference,
      usd |-> IF actualFee = 0 THEN ConvertFromBtc(r, difference)
              ELSE ConvertFromBtcToFloor(r, difference)]

OnChainDepositFee(amount, minBankFee, minBankFeeThreshold, ratio) ==
  IF amount < minBankFeeThreshold THEN minBankFee
  ELSE IF ratio = 0 THEN 0 ELSE MulBasisPoints(amount, ratio)

(* OnChainFees.withdrawalFee: only what the wallet sends beyond what it    *)
(* took in pays the ratio.                                                 *)
WithdrawalBankFee(amount, minBankFee, imbalance, thresholdImbalance, ratio) ==
  LET withImbalance == imbalance - thresholdImbalance + amount
      base == MaxAmount(MinAmount(withImbalance, amount), 0)
  IN MaxAmount(minBankFee, MulBasisPoints(base, ratio))

(* AccountTxVolumeRemaining and AccountTxVolumeLimitChecker: both wallets' *)
(* volumes in cents, against the limit of the account's level.             *)
VolumeInUsd(r, volume) == ConvertFromBtc(r, volume.btc) + volume.usd

(* Mutant: nothing was sent before.                                        *)
VolumeRemainingOfFirst(limit, r, volume) == limit

VolumeRemaining(limit, r, volume) == MaxAmount(0, limit - VolumeInUsd(r, volume))

WithinLimit(amountUsd, limit, r, volume) ==
  VolumeRemaining(limit, r, volume) >= amountUsd
=============================================================================
