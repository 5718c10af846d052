---------------------------- MODULE EntryBuilder ----------------------------
(***************************************************************************)
(* The journals of the ledger.  A journal debits one account and credits   *)
(* another, which may hold the other currency: then the dealer's two       *)
(* accounts exchange the amounts.  The bank's fee is always credited in    *)
(* BTC, even when both accounts hold USD.  Credits are positive and debits *)
(* negative; an entry of zero is no entry.                                 *)
(***************************************************************************)
EXTENDS Amounts

Currencies == {BTC, USD}

Of(amounts, currency) == IF currency = BTC THEN amounts.btc ELSE amounts.usd

Less(a, b) == [btc |-> a.btc - b.btc, usd |-> a.usd - b.usd]

Plus(a, b) == [btc |-> a.btc + b.btc, usd |-> a.usd + b.usd]

Zero == [btc |-> 0, usd |-> 0]

DealerEntries(withFees, bankFee, debitCurrency, creditCurrency) ==
  IF debitCurrency = USD /\ creditCurrency = USD /\ bankFee.usd > 0
  THEN [btc |-> -bankFee.btc, usd |-> bankFee.usd]
  ELSE IF debitCurrency = USD /\ creditCurrency = BTC
  THEN [btc |-> -withFees.btc, usd |-> withFees.usd]
  ELSE IF debitCurrency = BTC /\ creditCurrency = USD
  THEN [btc |-> withFees.btc - bankFee.btc, usd |-> -(withFees.usd - bankFee.usd)]
  ELSE Zero

DebitAccount(withFees, debitCurrency) == -Of(withFees, debitCurrency)

CreditAccount(withFees, bankFee, creditCurrency) ==
  Of(Less(withFees, bankFee), creditCurrency)

Journal(withFees, bankFee, debitCurrency, creditCurrency) ==
  [debitCurrency |-> debitCurrency,
   creditCurrency |-> creditCurrency,
   bankOwner |-> bankFee.btc,
   debit |-> DebitAccount(withFees, debitCurrency),
   dealer |-> DealerEntries(withFees, bankFee, debitCurrency, creditCurrency),
   credit |-> CreditAccount(withFees, bankFee, creditCurrency)]

(* What the entries in one currency add up to.                             *)
Net(journal, currency) ==
    (IF journal.debitCurrency = currency THEN journal.debit ELSE 0)
  + (IF journal.creditCurrency = currency THEN journal.credit ELSE 0)
  + Of(journal.dealer, currency)
  + (IF currency = BTC THEN journal.bankOwner ELSE 0)

(* A journal neither makes nor destroys money of any currency.             *)
Balances(journal) == \A c \in Currencies : Net(journal, c) = 0
=============================================================================
