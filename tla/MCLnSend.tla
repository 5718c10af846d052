------------------------------ MODULE MCLnSend ------------------------------
(***************************************************************************)
(* Small instances of LnSend.  One account has a BTC and a USD wallet.     *)
(***************************************************************************)
EXTENDS LnSend, FiniteSetsExt, TLC

CONSTANTS a1, a2, a3, u1, u2, h1, h2, btc, usd

UpdaterSymmetry == Permutations(Updaters)
AllToOne(S, v) == [x \in S |-> v]
BothBtc == AllToOne(Wallets, btc)
AmountOne == AllToOne(Attempts, 1)
AmountGrows == [a \in Attempts |-> IF a = a1 THEN 1 ELSE 2]
FeeOne == AllToOne(Attempts, 1)
BalanceTwo == AllToOne(Wallets, 2)
BalanceFive == AllToOne(Wallets, 5)

\* A payment by each wallet, of different invoices.
HashOfTwo == (a1 :> h1) @@ (a2 :> h2)
WalletOfTwo == (a1 :> btc) @@ (a2 :> usd)

\* Attempts at the same invoice.
HashOfRetry == AllToOne(Attempts, h1)
WalletOfBtc == AllToOne(Attempts, btc)
WalletOfUsd == AllToOne(Attempts, usd)
HashOfRetryAndOther == (a1 :> h1) @@ (a2 :> h1) @@ (a3 :> h2)

SumOver(S, f(_)) == MapThenSumSet(f, S)
Quiet ==
    /\ pending = {}
    /\ \A p \in Procs : pc[p] \notin Locked
    /\ \A h \in Hashes : lnd[h].status # "inflight"
\* Once nothing is pending, what the wallets hold is what they held at first less what
\* the node paid: the accounts of the users equal the BTC that the node manages.
AssetsEqualLiabilities ==
    LET Held(w) == balance[w]
        HeldAtFirst(w) == InitBalance[w]
        Paid(h) == IF lnd[h].status = "settled" THEN Amount[lnd[h].by] + lnd[h].fee ELSE 0
    IN  Quiet => SumOver(Wallets, Held) + SumOver(Hashes, Paid) = SumOver(Wallets, HeldAtFirst)
=============================================================================
