---------------------------- MODULE MCOnChainSend ----------------------------
(***************************************************************************)
(* Small instances of OnChainSend: one wallet, one or two payments and a   *)
(* transfer to cold storage.                                               *)
(***************************************************************************)
EXTENDS OnChainSend, TLC

CONSTANTS k1, k2, p1, p2, r1, w1

OneWallet == [p \in Payments |-> w1]
AmountTwo == [p \in Payments |-> 2]
FeeOne == [p \in Payments |-> 1]
BalanceFive == [w \in Wallets |-> 5]
BalanceSix == [w \in Wallets |-> 6]
SlotSymmetry == Permutations(Slots)
==============================================================================
