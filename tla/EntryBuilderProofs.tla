------------------------- MODULE EntryBuilderProofs -------------------------
(***************************************************************************)
(* Journals balance in each currency, for every amount.                    *)
(***************************************************************************)
EXTENDS EntryBuilder, TLAPS

BothAmounts == [btc : Nat, usd : Nat]

(* A journal of EntryBuilder balances, whatever the two currencies and the *)
(* amounts are, as long as a payment from USD to USD whose bank fee is a   *)
(* satoshi or more charges a cent or more for it: the dealer changes the   *)
(* fee only if the fee in cents is positive.                               *)
THEOREM JournalsBalance ==
  ASSUME NEW withFees \in BothAmounts, NEW bankFee \in BothAmounts,
         NEW dc \in Currencies, NEW cc \in Currencies,
         dc = USD /\ cc = USD /\ bankFee.btc > 0 => bankFee.usd > 0
  PROVE  Balances(Journal(withFees, bankFee, dc, cc))
<1> DEFINE j == Journal(withFees, bankFee, dc, cc)
<1>1. CASE dc = BTC /\ cc = BTC
  BY <1>1 DEF Balances, Net, Journal, DebitAccount, CreditAccount, DealerEntries,
     Of, Less, Zero, Currencies, BTC, USD, BothAmounts
<1>2. CASE dc = BTC /\ cc = USD
  BY <1>2 DEF Balances, Net, Journal, DebitAccount, CreditAccount, DealerEntries,
     Of, Less, Zero, Currencies, BTC, USD, BothAmounts
<1>3. CASE dc = USD /\ cc = BTC
  BY <1>3 DEF Balances, Net, Journal, DebitAccount, CreditAccount, DealerEntries,
     Of, Less, Zero, Currencies, BTC, USD, BothAmounts
<1>4. CASE dc = USD /\ cc = USD
  BY <1>4 DEF Balances, Net, Journal, DebitAccount, CreditAccount, DealerEntries,
     Of, Less, Zero, Currencies, BTC, USD, BothAmounts
<1>5. QED
  BY <1>1, <1>2, <1>3, <1>4 DEF Currencies
=============================================================================
