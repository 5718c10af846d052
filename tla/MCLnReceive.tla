----------------------------- MODULE MCLnReceive -----------------------------
(***************************************************************************)
(* Small instances of LnReceive: handlers, an owner who cancels, and two   *)
(* requests to pay the invoice from inside the bank.                       *)
(***************************************************************************)
EXTENDS LnReceive, TLC

CONSTANTS h1, h2, t1, t2, c1, s1, s2, w1, w2

HandlerSymmetry == Permutations(Handlers)
\* Every request is about the first invoice.
HashOfFirst == [p \in Cancels \cup Senders |-> h1]
\* Both payments from one wallet, or each from its own.
OneWallet == [s \in Senders |-> w1]
TwoWallets == [s \in Senders |-> IF s = s1 THEN w1 ELSE w2]
\* Everywhere but between markAsPaid and the journal that follows it.
BeforeMarkPaid == PCs \ {"record"}
==============================================================================
