---------------------------- MODULE MCTransfers -----------------------------
(***************************************************************************)
(* A small instance of Transfers: two users, prices of 3 satoshis and of 5 *)
(* satoshis for 2 cents, and amounts at which the roundings, the fallback, *)
(* the limits and the balances matter.                                     *)
(***************************************************************************)
EXTENDS Transfers, TLC

W(user, currency) == <<user, currency>>
Pay(kind, sender, recipient, amount) ==
  [kind |-> kind, sender |-> sender, recipient |-> recipient, amount |-> amount]

Claim(user, quiz) == [kind |-> "quiz", account |-> user, quiz |-> quiz]

Ln(kind, currency, amount, hash) ==
  [kind |-> kind, sender |-> W("alice", currency), recipient |-> NoWallet,
   amount |-> amount, hash |-> hash]

OwnPayments ==
  {Pay("intraledger", W("alice", BTC), W("bob", USD), 1),
   Pay("intraledger", W("alice", BTC), W("bob", BTC), 7),
   Pay("intraledger", W("alice", USD), W("bob", BTC), 4),
   Pay("intraledger", W("alice", BTC), W("alice", USD), 4),
   Claim("bob", "q1"), Claim("bob", "q2")}
LightningPayments ==
  { {Ln("lightning", BTC, 7, "h1"), Ln("probe", BTC, 7, "h1"),
     Pay("intraledger", W("alice", BTC), W("bob", BTC), 5)},
    {Ln("noAmount", USD, 3, "h2"), Ln("probeNoAmount", USD, 3, "h2")},
    {Ln("lightning", USD, 11, "h3")} }
KeyedRequests ==
  {Pay("intraledger", W("alice", BTC), W("bob", BTC), 7), Claim("bob", "q1")}
FiveScenarios ==
  {[requests |-> OwnPayments, keys |-> {}, faults |-> 1, expiries |-> 0],
   [requests |-> KeyedRequests, keys |-> {"k"}, faults |-> 1, expiries |-> 0]}
    \cup {[requests |-> R, keys |-> {}, faults |-> 0, expiries |-> 1] : R \in LightningPayments}
TwoSections == << <<"q1">>, <<"q2">> >>
TwoRatios == {[btc |-> 3, usd |-> 1], [btc |-> 5, usd |-> 2]}
SomeLimits == [k \in VolumeKinds |-> CASE k = "intra" -> 4 [] k = "trade" -> 3 [] OTHER -> 5]
SomeBalance == [w \in Wallets |-> CASE w = W("alice", BTC) -> 12
                                    [] w = W("alice", USD) -> 12
                                    [] w = W(Funder, BTC) -> 3
                                    [] OTHER -> 0]
Symmetry == Permutations(Procs)
FlowRatioSet == {[btc |-> 3, usd |-> 1], [btc |-> 5, usd |-> 2],
                 [btc |-> 1, usd |-> 1], [btc |-> 7, usd |-> 3]}
=============================================================================
